----------------------------- MODULE GpioSampler -----------------------------
(***************************************************************************)
(* The GPIO sampler of the diagnostic plugin (mode 10, dev/main.c:         *)
(* gpio_sample_thread).  A thread reads the power state and the port lines *)
(* over and over and writes a line to its log for what has changed since   *)
(* the pass before.  Most passes leave no line and most lines are not      *)
(* synced, so what the log is worth is a matter of reading it back:        *)
(* Replays says when a pass can be reconstructed from it.                  *)
(***************************************************************************)
EXTENDS Integers, Sequences, FiniteSetsExt

CONSTANTS
  PortCount,  \* NOLED_GPIO_SAMPLE_PORT_COUNT
  Levels,     \* what ksceGpioPortRead returns
  Powers,     \* what the three calls for the power state return
  Loops,      \* NOLED_GPIO_SAMPLE_LOOPS
  SyncEvery,  \* the log is synced once in so many passes
  Unknown     \* no level, no power state: 0x7fffffff and -1

Ports == 1..PortCount

ASSUME SamplerAssumption ==
  /\ PortCount \in Nat \ {0}
  /\ Loops \in Nat
  /\ SyncEvery \in Nat \ {0}
  /\ Unknown \notin Levels
  /\ Unknown \notin Powers
  /\ Powers \subseteq [1..3 -> Int]   \* online, charging, percent

VARIABLES
  level,     \* the level of each port's line
  power,     \* the power state
  thread,    \* where the thread is
  running,   \* gpio_sample_running
  pass,      \* loops, and seq
  next,      \* the port that is read next
  now,       \* the power state read in this pass
  last,      \* last_values
  lastPower, \* last_online, last_charging, last_percent
  log,       \* the log's lines
  synced,    \* how many of them are safe
  samples    \* history: what each pass read

worldVars   == <<level, power>>
samplerVars == <<worldVars, thread, running, pass, next, now, last, lastPower, log,
                 synced, samples>>

Line(kind, port, value, p) ==
  [kind |-> kind, seq |-> pass, port |-> port, value |-> value, power |-> p]

Marker(what) == Line(what, 0, 0, Unknown)

Init ==
  /\ level \in [Ports -> Levels]
  /\ power \in Powers
  /\ thread = "absent"
  /\ running = FALSE
  /\ pass = 0
  /\ next = 1
  /\ now = Unknown
  /\ last = [p \in Ports |-> Unknown]
  /\ lastPower = Unknown
  /\ log = << >>
  /\ synced = 0
  /\ samples = << >>

-----------------------------------------------------------------------------
(* start_gpio_sampler: without a thread the flag goes down again.           *)
StartSampler ==
  /\ thread = "absent"
  /\ \/ thread' = "open" /\ running' = TRUE
     \/ thread' = "ended" /\ running' = FALSE
  /\ UNCHANGED <<worldVars, pass, next, now, last, lastPower, log, synced, samples>>

OpenLog ==
  /\ thread = "open"
  /\ thread' = "top"
  /\ log' = <<Marker("start")>>
  /\ synced' = 1
  /\ UNCHANGED <<worldVars, running, pass, next, now, last, lastPower, samples>>

OpenFails ==
  /\ thread = "open"
  /\ thread' = "ended"
  /\ running' = FALSE
  /\ UNCHANGED <<worldVars, pass, next, now, last, lastPower, log, synced, samples>>

(* Mutant of PowerChanged: && for ||.                                       *)
AllOfPowerChanged(p) == lastPower = Unknown \/ \A i \in 1..3 : p[i] # lastPower[i]

PowerChanged(p) == lastPower = Unknown \/ \E i \in 1..3 : p[i] # lastPower[i]

(* The head of the loop, and the power state.                               *)
SamplePower ==
  /\ thread = "top"
  /\ running
  /\ pass < Loops
  /\ thread' = "ports"
  /\ now' = power
  /\ samples' = Append(samples, [power |-> power, level |-> << >>])
  /\ IF PowerChanged(power)
       THEN /\ log' = Append(log, Line("power", 0, 0, power))
            /\ lastPower' = power
       ELSE UNCHANGED <<log, lastPower>>
  /\ UNCHANGED <<worldVars, running, pass, next, last, synced>>

SamplePort ==
  /\ thread = "ports"
  /\ next <= PortCount
  /\ next' = next + 1
  /\ samples' = [samples EXCEPT ![pass + 1].level = Append(@, level[next])]
  /\ IF level[next] # last[next]
       THEN /\ log' = Append(log, Line("gpio", next, level[next], now))
            /\ last' = [last EXCEPT ![next] = level[next]]
       ELSE UNCHANGED <<log, last>>
  /\ UNCHANGED <<worldVars, thread, running, pass, now, lastPower, synced>>

(* Mutant of EndPass: the log is left to the file system.                   *)
EndPassUnsynced ==
  /\ thread = "ports"
  /\ next > PortCount
  /\ thread' = "top"
  /\ next' = 1
  /\ pass' = pass + 1
  /\ UNCHANGED <<worldVars, running, now, last, lastPower, log, synced, samples>>

EndPass ==
  /\ thread = "ports"
  /\ next > PortCount
  /\ thread' = "top"
  /\ next' = 1
  /\ pass' = pass + 1
  /\ synced' = IF pass % SyncEvery = 0 THEN Len(log) ELSE synced
  /\ UNCHANGED <<worldVars, running, now, last, lastPower, log, samples>>

LeaveLoop ==
  /\ thread = "top"
  /\ ~running \/ pass = Loops
  /\ thread' = "close"
  /\ log' = Append(log, Marker("stop"))
  /\ UNCHANGED <<worldVars, running, pass, next, now, last, lastPower, synced, samples>>

CloseLog ==
  /\ thread = "close"
  /\ thread' = "ended"
  /\ running' = FALSE
  /\ synced' = Len(log)
  /\ UNCHANGED <<worldVars, pass, next, now, last, lastPower, log, samples>>

SamplerThread ==
  OpenLog \/ OpenFails \/ SamplePower \/ SamplePort \/ EndPass \/ LeaveLoop \/ CloseLog

-----------------------------------------------------------------------------
(* The lines change whenever they like, ...                                 *)
LineChanges ==
  /\ \E p \in Ports, l \in Levels : level' = [level EXCEPT ![p] = l]
  /\ UNCHANGED <<power, thread, running, pass, next, now, last, lastPower, log, synced,
                 samples>>

PowerChanges ==
  /\ power' \in Powers
  /\ UNCHANGED <<level, thread, running, pass, next, now, last, lastPower, log, synced,
                 samples>>

ModuleStop ==
  /\ thread # "absent"
  /\ running' = FALSE
  /\ UNCHANGED <<worldVars, thread, pass, next, now, last, lastPower, log, synced, samples>>

(* ... and the console goes down: of the lines that are not synced, some    *)
(* first ones are in the file.                                              *)
Freeze ==
  /\ thread \notin {"absent", "frozen"}
  /\ thread' = "frozen"
  /\ running' = FALSE
  /\ \E n \in synced..Len(log) : log' = SubSeq(log, 1, n)
  /\ UNCHANGED <<worldVars, pass, next, now, last, lastPower, synced, samples>>

World == LineChanges \/ PowerChanges \/ ModuleStop \/ Freeze

Next == StartSampler \/ SamplerThread \/ (thread # "frozen" /\ World)

Spec == Init /\ [][Next]_samplerVars

-----------------------------------------------------------------------------
TypeOK ==
  /\ level \in [Ports -> Levels]
  /\ power \in Powers
  /\ thread \in {"absent", "open", "top", "ports", "close", "ended", "frozen"}
  /\ running \in BOOLEAN
  /\ pass \in 0..Loops
  /\ next \in 1..(PortCount + 1)
  /\ now \in Powers \cup {Unknown}
  /\ last \in [Ports -> Levels \cup {Unknown}]
  /\ lastPower \in Powers \cup {Unknown}
  /\ synced \in 0..Len(log)

(* The lines of a kind and port that are from pass s or from before it.     *)
Lines(kind, port, s) ==
  {n \in DOMAIN log : log[n].kind = kind /\ log[n].port = port /\ log[n].seq <= s}

(* The log's last word on the power state of pass s, and on a port's level. *)
ReadPower(s) ==
  LET seen == Lines("power", 0, s)
  IN  IF seen = {} THEN Unknown ELSE log[Max(seen)].power

ReadLevel(port, s) ==
  LET seen == Lines("gpio", port, s)
  IN  IF seen = {} THEN Unknown ELSE log[Max(seen)].value

(* All that pass s has read so far can be read from the log.                *)
Replays(s) ==
  /\ ReadPower(s) = samples[s + 1].power
  /\ \A p \in DOMAIN samples[s + 1].level : ReadLevel(p, s) = samples[s + 1].level[p]

(* The log of changes says what every pass read, the current one included,  *)
(* and a line about a port names the power state its pass read, whatever    *)
(* changes while the pass goes on (the loop of gpio_sample_thread).         *)
LogReplays ==
  thread # "frozen" =>
    /\ \A s \in 0..(Len(samples) - 1) : Replays(s)
    /\ \A n \in DOMAIN log :
         log[n].kind = "gpio" => log[n].power = samples[log[n].seq + 1].power

(* After a freeze the file still tells all passes but the last few, fewer   *)
(* than lie between two syncs; after a regular end it tells all of them,    *)
(* and says so in its last line (loops % 10 in gpio_sample_thread).         *)
FreezeLosesLittle ==
  /\ thread = "frozen" => \A s \in 0..(pass - SyncEvery) : Replays(s)
  /\ thread = "ended" /\ log # << >>
       => synced = Len(log) /\ log[synced].kind = "stop"
=============================================================================
