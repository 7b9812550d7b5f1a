-------------------------- MODULE GpioSamplerProofs --------------------------
(***************************************************************************)
(* The GPIO sampler's log can be read back, for any number of ports,       *)
(* passes and syncs, and whatever the lines and the power state do.        *)
(***************************************************************************)
EXTENDS GpioSampler, TLAPS

-----------------------------------------------------------------------------
(* Logs.                                                                    *)

Texts ==
  [kind : {"start", "stop", "power", "gpio"}, seq : Nat, port : Nat,
   value : Levels \cup {0}, power : Powers \cup {Unknown}]

(* Line n of log l is of this kind and port, and from pass s or before it.  *)
Fits(l, kind, port, s, n) ==
  n \in DOMAIN l /\ l[n].kind = kind /\ l[n].port = port /\ l[n].seq <= s

(* It is the newest such line.                                              *)
Newest(l, kind, port, s, n) ==
  /\ Fits(l, kind, port, s, n)
  /\ \A m \in DOMAIN l : Fits(l, kind, port, s, m) => m <= n

(* The last word of log l up to pass s.                                     *)
PowerSays(l, s, p) == \E n \in DOMAIN l : Newest(l, "power", 0, s, n) /\ l[n].power = p

LevelSays(l, port, s, v) ==
  \E n \in DOMAIN l : Newest(l, "gpio", port, s, n) /\ l[n].value = v

LEMMA LinesHavePasses ==
  ASSUME NEW l \in Seq(Texts)
  PROVE  \A n \in DOMAIN l : l[n] \in Texts /\ l[n].seq \in Nat
<1>1. \A n \in DOMAIN l : l[n] \in Texts
  OBVIOUS
<1>2. \A e \in Texts : e.seq \in Nat
  BY DEF Texts
<1> QED
  BY <1>1, <1>2

LEMMA NewestIsMax ==
  ASSUME log \in Seq(Texts), NEW kind, NEW port, NEW s, NEW n, Newest(log, kind, port, s, n)
  PROVE  Lines(kind, port, s) # {} /\ Max(Lines(kind, port, s)) = n
<1> DEFINE S == Lines(kind, port, s)
<1>1. /\ n \in S
      /\ \A m \in S : n >= m
      /\ S \subseteq Nat
  BY DEF Newest, Fits, Lines
<1> HIDE DEF S
<1>2. \A x \in S : (\A m \in S : x >= m) => x = n
  BY <1>1
<1>3. Max(S) = n
  BY <1>1, <1>2 DEF Max
<1> QED
  BY <1>1, <1>3 DEF S

LEMMA PowerIsRead ==
  ASSUME log \in Seq(Texts), NEW s, NEW p, PowerSays(log, s, p)
  PROVE  ReadPower(s) = p
  BY NewestIsMax DEF PowerSays, ReadPower

LEMMA LevelIsRead ==
  ASSUME log \in Seq(Texts), NEW s, NEW port, NEW v, LevelSays(log, port, s, v)
  PROVE  ReadLevel(port, s) = v
  BY NewestIsMax DEF LevelSays, ReadLevel

LEMMA Appended ==
  ASSUME NEW l \in Seq(Texts), NEW e \in Texts
  PROVE  /\ Append(l, e) \in Seq(Texts)
         /\ Len(l) \in Nat
         /\ DOMAIN l = 1..Len(l)
         /\ DOMAIN Append(l, e) = 1..(Len(l) + 1)
         /\ \A n \in DOMAIN l : n \in DOMAIN Append(l, e) /\ Append(l, e)[n] = l[n]
         /\ Append(l, e)[Len(l) + 1] = e
  OBVIOUS

(* A line of another kind or port or of a later pass changes nothing.       *)
LEMMA StaysNewest ==
  ASSUME NEW l \in Seq(Texts), NEW e \in Texts, NEW kind, NEW port, NEW s,
         ~(e.kind = kind /\ e.port = port /\ e.seq <= s),
         NEW n, Newest(l, kind, port, s, n)
  PROVE  Newest(Append(l, e), kind, port, s, n) /\ Append(l, e)[n] = l[n]
<1> DEFINE k == Append(l, e)
<1>1. /\ Len(l) \in Nat
      /\ DOMAIN l = 1..Len(l)
      /\ DOMAIN k = 1..(Len(l) + 1)
      /\ \A m \in DOMAIN l : k[m] = l[m]
      /\ k[Len(l) + 1] = e
  BY Appended
<1> HIDE DEF k
<1>2. \A m \in DOMAIN k : Fits(k, kind, port, s, m) => m \in DOMAIN l /\ Fits(l, kind, port, s, m)
  BY <1>1 DEF Fits
<1>3. n \in DOMAIN l /\ n \in DOMAIN k /\ k[n] = l[n]
  BY <1>1 DEF Newest, Fits
<1>4. Fits(k, kind, port, s, n)
  BY <1>3 DEF Newest, Fits
<1> QED
  BY <1>2, <1>3, <1>4 DEF Newest, k

LEMMA PowerStays ==
  ASSUME NEW l \in Seq(Texts), NEW e \in Texts, NEW s, NEW p,
         e.kind # "power" \/ ~(e.seq <= s), PowerSays(l, s, p)
  PROVE  PowerSays(Append(l, e), s, p)
<1>1. PICK n \in DOMAIN l : Newest(l, "power", 0, s, n) /\ l[n].power = p
  BY DEF PowerSays
<1>2. n \in DOMAIN Append(l, e)
  BY Appended
<1> QED
  BY <1>1, <1>2, StaysNewest DEF PowerSays

LEMMA LevelStays ==
  ASSUME NEW l \in Seq(Texts), NEW e \in Texts, NEW s, NEW port, NEW v,
         e.kind # "gpio" \/ e.port # port \/ ~(e.seq <= s), LevelSays(l, port, s, v)
  PROVE  LevelSays(Append(l, e), port, s, v)
<1>1. PICK n \in DOMAIN l : Newest(l, "gpio", port, s, n) /\ l[n].value = v
  BY DEF LevelSays
<1>2. n \in DOMAIN Append(l, e)
  BY Appended
<1> QED
  BY <1>1, <1>2, StaysNewest DEF LevelSays

(* The line that is written has the last word.                              *)
LEMMA WrittenIsNewest ==
  ASSUME NEW l \in Seq(Texts), NEW e \in Texts, NEW s, e.seq <= s
  PROVE  Newest(Append(l, e), e.kind, e.port, s, Len(l) + 1)
  BY Appended DEF Newest, Fits

LEMMA PowerIsSaid ==
  ASSUME NEW l \in Seq(Texts), NEW e \in Texts, NEW s, e.seq <= s,
         e.kind = "power", e.port = 0
  PROVE  PowerSays(Append(l, e), s, e.power)
<1>1. Newest(Append(l, e), "power", 0, s, Len(l) + 1)
  BY WrittenIsNewest
<1>2. Len(l) + 1 \in DOMAIN Append(l, e) /\ Append(l, e)[Len(l) + 1] = e
  BY Appended
<1> QED
  BY <1>1, <1>2 DEF PowerSays

LEMMA LevelIsSaid ==
  ASSUME NEW l \in Seq(Texts), NEW e \in Texts, NEW s, e.seq <= s, e.kind = "gpio"
  PROVE  LevelSays(Append(l, e), e.port, s, e.value)
<1>1. Newest(Append(l, e), "gpio", e.port, s, Len(l) + 1)
  BY WrittenIsNewest
<1>2. Len(l) + 1 \in DOMAIN Append(l, e) /\ Append(l, e)[Len(l) + 1] = e
  BY Appended
<1> QED
  BY <1>1, <1>2 DEF LevelSays

(* A pass without lines has the last word of the one before.                *)
LEMMA NextPassToo ==
  ASSUME NEW l \in Seq(Texts), NEW s \in Nat, \A n \in DOMAIN l : l[n].seq <= s
  PROVE  /\ \A p : PowerSays(l, s, p) => PowerSays(l, s + 1, p)
         /\ \A port, v : LevelSays(l, port, s, v) => LevelSays(l, port, s + 1, v)
<1>1. \A n \in DOMAIN l : l[n].seq \in Nat
  BY LinesHavePasses
<1>2. \A kind, port : \A n \in DOMAIN l :
        Fits(l, kind, port, s, n) <=> Fits(l, kind, port, s + 1, n)
  BY <1>1 DEF Fits
<1>3. \A kind, port : \A n \in DOMAIN l :
        Newest(l, kind, port, s, n) => Newest(l, kind, port, s + 1, n)
  BY <1>2 DEF Newest
<1> QED
  BY <1>3 DEF PowerSays, LevelSays

(* What is cut off is too young for a pass to miss it.                      *)
LEMMA CutIsNotMissed ==
  ASSUME NEW l \in Seq(Texts), NEW c \in 0..Len(l), NEW s \in Int,
         \A n \in DOMAIN l : n > c => l[n].seq > s
  PROVE  /\ SubSeq(l, 1, c) \in Seq(Texts)
         /\ \A p : PowerSays(l, s, p) => PowerSays(SubSeq(l, 1, c), s, p)
         /\ \A port, v : LevelSays(l, port, s, v) => LevelSays(SubSeq(l, 1, c), port, s, v)
<1> DEFINE k == SubSeq(l, 1, c)
<1>1. /\ k \in Seq(Texts)
      /\ DOMAIN k = 1..c
      /\ DOMAIN l = 1..Len(l)
      /\ \A n \in 1..c : k[n] = l[n]
  OBVIOUS
<1> HIDE DEF k
<1>2. \A n \in DOMAIN l : l[n].seq \in Nat
  BY LinesHavePasses
<1>3. \A kind, port : \A n \in DOMAIN l :
        Fits(l, kind, port, s, n) <=> Fits(k, kind, port, s, n)
  BY <1>1, <1>2 DEF Fits
<1>4. \A kind, port : \A n \in DOMAIN l :
        Newest(l, kind, port, s, n)
          => n \in DOMAIN k /\ k[n] = l[n] /\ Newest(k, kind, port, s, n)
  <2> SUFFICES ASSUME NEW kind, NEW port, NEW n \in DOMAIN l, Newest(l, kind, port, s, n)
               PROVE  n \in DOMAIN k /\ k[n] = l[n] /\ Newest(k, kind, port, s, n)
    OBVIOUS
  <2>1. Fits(k, kind, port, s, n)
    BY <1>3 DEF Newest
  <2>2. n \in DOMAIN k /\ k[n] = l[n]
    BY <1>1, <2>1 DEF Fits
  <2>3. \A m \in DOMAIN k : m \in DOMAIN l
    BY <1>1
  <2> QED
    BY <1>3, <2>1, <2>2, <2>3 DEF Newest
<1> QED
  BY <1>1, <1>4 DEF PowerSays, LevelSays, k
-----------------------------------------------------------------------------
(* The thread.                                                              *)

ShapeInv ==
  /\ log \in Seq(Texts)
  /\ samples \in Seq([power : Powers, level : Seq(Levels)])
  /\ level \in [Ports -> Levels]
  /\ power \in Powers
  /\ last \in [Ports -> Levels \cup {Unknown}]
  /\ lastPower \in Powers \cup {Unknown}
  /\ pass \in Nat
  /\ next \in 1..(PortCount + 1)
  /\ \A n \in DOMAIN log : log[n].seq <= pass

(* How far the samples have got.                                            *)
PlaceInv ==
  /\ thread \in {"absent", "open"} => pass = 0 /\ log = << >> /\ synced = 0
  /\ thread \notin {"ports", "frozen"} => next = 1 /\ Len(samples) = pass
  /\ thread = "ports" =>
       /\ Len(samples) = pass + 1
       /\ Len(samples[pass + 1].level) = next - 1
       /\ samples[pass + 1].power = now
       /\ now \in Powers

(* What the thread remembers is the log's last word.                        *)
MemoryInv ==
  thread # "frozen" =>
    /\ lastPower # Unknown => PowerSays(log, pass, lastPower)
    /\ \A p \in Ports : last[p] # Unknown => LevelSays(log, p, pass, last[p])

(* Log l tells sample x of pass s.                                          *)
Told(l, s, x) ==
  /\ PowerSays(l, s, x.power)
  /\ \A p \in DOMAIN x.level : LevelSays(l, p, s, x.level[p])

SamplesInv ==
  thread # "frozen" =>
    /\ \A s \in 0..(Len(samples) - 1) : Told(log, s, samples[s + 1])
    /\ \A n \in DOMAIN log :
         log[n].kind = "gpio" =>
           /\ log[n].seq < Len(samples)
           /\ log[n].power = samples[log[n].seq + 1].power

(* The lines that are not synced are younger than the last sync.            *)
SyncInv ==
  /\ synced \in 0..Len(log)
  /\ \E q \in Int :
       /\ q % SyncEvery = 0
       /\ q < pass
       /\ pass <= q + SyncEvery
       /\ \A n \in DOMAIN log : n > synced => log[n].seq > q

EndInv ==
  /\ thread = "close" => log # << >> /\ log[Len(log)].kind = "stop"
  /\ thread = "ended" /\ log # << >> => synced = Len(log) /\ log[Len(log)].kind = "stop"

FrozenInv ==
  thread = "frozen" => \A s \in 0..(pass - SyncEvery) : Told(log, s, samples[s + 1])

SamplerInv ==
  ShapeInv /\ PlaceInv /\ MemoryInv /\ SamplesInv /\ SyncInv /\ EndInv /\ FrozenInv

(* Passes with a sync.                                                      *)
LEMMA NoMultipleBetween ==
  ASSUME NEW m \in Int, -SyncEvery < SyncEvery * m, SyncEvery * m <= 0
  PROVE  m = 0
<1>1. CASE m >= 1
  <2>1. SyncEvery * m >= SyncEvery
    BY <1>1, SamplerAssumption
  <2> QED
    BY <2>1, SamplerAssumption
<1>2. CASE m <= -1
  <2>1. SyncEvery * m <= SyncEvery * (-1)
    BY <1>2, SamplerAssumption
  <2> QED
    BY <2>1, SamplerAssumption
<1> QED
  BY <1>1, <1>2

LEMMA MultiplesOfSync ==
  ASSUME NEW k \in Int
  PROVE  (SyncEvery * k) % SyncEvery = 0
<1> DEFINE a == SyncEvery * k
           j == a \div SyncEvery
           r == a % SyncEvery
<1>1. a \in Int
  BY SamplerAssumption
<1> HIDE DEF a
<1>2. /\ j \in Int
      /\ r \in Int
      /\ 0 <= r
      /\ r < SyncEvery
      /\ a = SyncEvery * j + r
  BY <1>1, SamplerAssumption
<1> HIDE DEF j, r
<1>3. SyncEvery * (j - k) = SyncEvery * j - SyncEvery * k
  BY <1>2, SamplerAssumption
<1>4. SyncEvery * (j - k) = -r
  BY <1>1, <1>2, <1>3, SamplerAssumption DEF a
<1>5. j - k = 0
  <2>1. j - k \in Int
    BY <1>2
  <2> DEFINE m == j - k
  <2>2. m \in Int /\ SyncEvery * m = -r
    BY <2>1, <1>4
  <2> HIDE DEF m
  <2>3. m = 0
    BY <1>2, <2>2, NoMultipleBetween, SamplerAssumption
  <2> QED
    BY <2>3 DEF m
<1>6. SyncEvery * (j - k) = 0
  BY <1>5, SamplerAssumption
<1>7. r = 0
  BY <1>2, <1>4, <1>6
<1> QED
  BY <1>7 DEF r, a

LEMMA NextMultiple ==
  /\ (-SyncEvery) % SyncEvery = 0
  /\ -SyncEvery \in Int
  /\ \A q \in Int : q % SyncEvery = 0 => (q + SyncEvery) % SyncEvery = 0
<1>1. -SyncEvery = SyncEvery * (-1) /\ -SyncEvery \in Int
  BY SamplerAssumption
<1>2. ASSUME NEW q \in Int, q % SyncEvery = 0
      PROVE  (q + SyncEvery) % SyncEvery = 0
  <2> DEFINE k == q \div SyncEvery
  <2>1. k \in Int /\ q = SyncEvery * k
    BY <1>2, SamplerAssumption
  <2> HIDE DEF k
  <2>2. q + SyncEvery = SyncEvery * (k + 1)
    BY <2>1, SamplerAssumption
  <2> QED
    BY <2>1, <2>2, MultiplesOfSync
<1> QED
  BY <1>1, <1>2, MultiplesOfSync

LEMMA InitSampler == Init => SamplerInv
<1> SUFFICES ASSUME Init
             PROVE  SamplerInv
  OBVIOUS
<1> USE SamplerAssumption DEF Init
<1>1. ShapeInv
  BY DEF ShapeInv
<1>2. PlaceInv /\ MemoryInv /\ SamplesInv /\ EndInv /\ FrozenInv
  BY DEF PlaceInv, MemoryInv, SamplesInv, EndInv, FrozenInv
<1>3. SyncInv
  <2>1. (-SyncEvery) % SyncEvery = 0 /\ -SyncEvery \in Int
    BY NextMultiple
  <2> QED
    BY <2>1 DEF SyncInv
<1> QED
  BY <1>1, <1>2, <1>3 DEF SamplerInv

-----------------------------------------------------------------------------
(* Steps that neither sample nor write.                                     *)

Quiet ==
  /\ level' \in [Ports -> Levels]
  /\ power' \in Powers
  /\ thread' = thread \/ (thread \in {"absent", "open"} /\ thread' \in {"open", "ended"})
  /\ UNCHANGED <<pass, next, now, last, lastPower, log, synced, samples>>

LEMMA QuietSteps ==
  ASSUME ShapeInv,
         StartSampler \/ OpenFails \/ LineChanges \/ PowerChanges \/ ModuleStop
           \/ UNCHANGED samplerVars
  PROVE  Quiet
<1>1. UNCHANGED <<pass, next, now, last, lastPower, log, synced, samples>>
  BY DEF StartSampler, OpenFails, LineChanges, PowerChanges, ModuleStop, samplerVars,
         worldVars
<1>2. level' \in [Ports -> Levels]
  <2>1. CASE LineChanges
    BY <2>1 DEF ShapeInv, LineChanges
  <2>2. CASE ~LineChanges
    BY <2>2 DEF ShapeInv, StartSampler, OpenFails, PowerChanges, ModuleStop, samplerVars,
                worldVars
  <2> QED
    BY <2>1, <2>2
<1>4. power' \in Powers
  BY DEF ShapeInv, StartSampler, OpenFails, LineChanges, PowerChanges, ModuleStop,
         samplerVars, worldVars
<1>3. thread' = thread \/ (thread \in {"absent", "open"} /\ thread' \in {"open", "ended"})
  <2>1. CASE StartSampler
    BY <2>1 DEF StartSampler
  <2>3. CASE OpenFails
    BY <2>3 DEF OpenFails
  <2>2. CASE LineChanges
    BY <2>2 DEF LineChanges
  <2>4. CASE PowerChanges
    BY <2>4 DEF PowerChanges
  <2>5. CASE ModuleStop
    BY <2>5 DEF ModuleStop
  <2>6. CASE UNCHANGED samplerVars
    BY <2>6 DEF samplerVars
  <2> QED
    BY <2>1, <2>2, <2>3, <2>4, <2>5, <2>6
<1> QED
  BY <1>1, <1>2, <1>3, <1>4 DEF Quiet

LEMMA QuietKeeps == SamplerInv /\ Quiet => SamplerInv'
<1> SUFFICES ASSUME SamplerInv, Quiet
             PROVE  SamplerInv'
  OBVIOUS
<1> USE DEF SamplerInv, Quiet
<1>1. ShapeInv'
  BY DEF ShapeInv
<1>2. PlaceInv'
  BY DEF PlaceInv
<1>3. MemoryInv' /\ SamplesInv' /\ FrozenInv'
  BY DEF MemoryInv, SamplesInv, FrozenInv
<1>4. SyncInv'
  BY DEF SyncInv
<1>5. EndInv'
  BY DEF EndInv, PlaceInv
<1> QED
  BY <1>1, <1>2, <1>3, <1>4, <1>5

-----------------------------------------------------------------------------
(* Steps that write a line.                                                 *)

(* A new line, about this pass, keeps what the log tells of earlier ones.   *)
LEMMA OldPassesStayTold ==
  ASSUME NEW l \in Seq(Texts), NEW e \in Texts, NEW s \in Int, NEW x,
         Told(l, s, x), e.seq > s
  PROVE  Told(Append(l, e), s, x)
<1>1. ~(e.seq <= s)
  BY DEF Texts
<1> QED
  BY <1>1, PowerStays, LevelStays DEF Told

(* Everything about the lines' shape, for a line of the current pass.       *)
LEMMA WriteKeepsShape ==
  ASSUME ShapeInv, SyncInv, NEW e \in Texts, e.seq = pass,
         log' = Append(log, e),
         UNCHANGED <<pass, synced>>
  PROVE  /\ log' \in Seq(Texts)
         /\ \A n \in DOMAIN log' : log'[n].seq <= pass
         /\ SyncInv'
<1>1. /\ log' \in Seq(Texts)
      /\ Len(log) \in Nat
      /\ DOMAIN log = 1..Len(log)
      /\ DOMAIN log' = 1..(Len(log) + 1)
      /\ \A n \in DOMAIN log : log'[n] = log[n]
      /\ log'[Len(log) + 1] = e
  BY Appended DEF ShapeInv
<1>2. pass \in Nat
  BY DEF ShapeInv
<1>3. \A n \in DOMAIN log' : log'[n].seq <= pass
  BY <1>1, <1>2 DEF ShapeInv
<1>4. PICK q \in Int :
        /\ q % SyncEvery = 0
        /\ q < pass
        /\ pass <= q + SyncEvery
        /\ \A n \in DOMAIN log : n > synced => log[n].seq > q
  BY DEF SyncInv
<1>5. \A n \in DOMAIN log' : n > synced => log'[n].seq > q
  BY <1>1, <1>2, <1>4
<1>6. synced \in 0..Len(log')
  BY <1>1 DEF SyncInv
<1> QED
  BY <1>1, <1>3, <1>4, <1>5, <1>6 DEF SyncInv

LEMMA LeaveLoopKeeps == SamplerInv /\ LeaveLoop => SamplerInv'
<1> SUFFICES ASSUME SamplerInv, LeaveLoop
             PROVE  SamplerInv'
  OBVIOUS
<1> DEFINE e == Marker("stop")
<1>1. /\ thread = "top"
      /\ thread' = "close"
      /\ log' = Append(log, e)
      /\ UNCHANGED <<worldVars, pass, next, now, last, lastPower, synced, samples>>
  BY DEF LeaveLoop
<1>2. e \in Texts /\ e.seq = pass /\ e.kind = "stop"
  BY DEF Marker, Line, Texts, SamplerInv, ShapeInv
<1> HIDE DEF e
<1>3. log \in Seq(Texts)
  BY DEF SamplerInv, ShapeInv
<1>4. /\ log' \in Seq(Texts)
      /\ \A n \in DOMAIN log' : log'[n].seq <= pass
      /\ SyncInv'
  BY <1>1, <1>2, WriteKeepsShape DEF SamplerInv
<1>5. ShapeInv'
  BY <1>1, <1>4 DEF SamplerInv, ShapeInv, worldVars
<1>6. PlaceInv'
  BY <1>1 DEF SamplerInv, PlaceInv
<1>7. MemoryInv'
  BY <1>1, <1>2, <1>3, PowerStays, LevelStays DEF SamplerInv, MemoryInv
<1>8. SamplesInv'
  <2>1. \A s \in 0..(Len(samples) - 1) : Told(log', s, samples[s + 1])
    BY <1>1, <1>2, <1>3, PowerStays, LevelStays DEF SamplerInv, SamplesInv, Told
  <2>2. \A n \in DOMAIN log' :
          log'[n].kind = "gpio" => n \in DOMAIN log /\ log'[n] = log[n]
    BY <1>1, <1>2, <1>3, Appended
  <2> QED
    BY <1>1, <2>1, <2>2 DEF SamplerInv, SamplesInv
<1>9. EndInv' /\ FrozenInv'
  <2>1. Len(log') = Len(log) + 1 /\ log'[Len(log) + 1] = e /\ log' # << >>
    BY <1>1, <1>2, <1>3
  <2> QED
    BY <1>1, <1>2, <2>1 DEF EndInv, FrozenInv
<1> QED
  BY <1>4, <1>5, <1>6, <1>7, <1>8, <1>9 DEF SamplerInv

LEMMA OpenLogKeeps == SamplerInv /\ OpenLog => SamplerInv'
<1> SUFFICES ASSUME SamplerInv, OpenLog
             PROVE  SamplerInv'
  OBVIOUS
<1> DEFINE e == Marker("start")
<1>1. /\ thread = "open"
      /\ thread' = "top"
      /\ log' = <<e>>
      /\ synced' = 1
      /\ UNCHANGED <<worldVars, pass, next, now, last, lastPower, samples>>
  BY DEF OpenLog
<1>2. e \in Texts /\ e.seq = pass /\ e.kind = "start"
  BY DEF Marker, Line, Texts, SamplerInv, ShapeInv
<1> HIDE DEF e
<1>3. /\ pass = 0
      /\ log = << >>
      /\ Len(samples) = 0
      /\ next = 1
  BY <1>1 DEF SamplerInv, PlaceInv
<1>4. log' \in Seq(Texts) /\ DOMAIN log' = {1} /\ log'[1] = e /\ Len(log') = 1
  BY <1>1, <1>2
<1>5. ShapeInv'
  BY <1>1, <1>2, <1>3, <1>4 DEF SamplerInv, ShapeInv, worldVars
<1>6. PlaceInv'
  BY <1>1, <1>3 DEF PlaceInv
<1>7. MemoryInv'
  <2>1. \A s, p : ~PowerSays(log, s, p)
    BY <1>3 DEF PowerSays
  <2>2. \A port, s, v : ~LevelSays(log, port, s, v)
    BY <1>3 DEF LevelSays
  <2>3. lastPower = Unknown /\ \A p \in Ports : last[p] = Unknown
    BY <1>1, <2>1, <2>2 DEF SamplerInv, MemoryInv
  <2> QED
    BY <1>1, <2>3 DEF MemoryInv
<1>8. SamplesInv'
  BY <1>1, <1>2, <1>3, <1>4 DEF SamplesInv
<1>9. SyncInv'
  <2>1. \A n \in DOMAIN log' : ~(n > synced')
    BY <1>1, <1>4
  <2>2. synced' \in 0..Len(log')
    BY <1>1, <1>4
  <2> QED
    BY <1>1, <2>1, <2>2 DEF SamplerInv, SyncInv
<1>10. EndInv' /\ FrozenInv'
  BY <1>1 DEF EndInv, FrozenInv
<1> QED
  BY <1>5, <1>6, <1>7, <1>8, <1>9, <1>10 DEF SamplerInv
-----------------------------------------------------------------------------
(* A pass.                                                                  *)

LEMMA PowerChangeIsSeen ==
  ASSUME NEW p \in Powers, lastPower \in Powers \cup {Unknown}, ~PowerChanged(p)
  PROVE  lastPower # Unknown /\ lastPower = p
<1>1. lastPower # Unknown /\ \A i \in 1..3 : p[i] = lastPower[i]
  BY DEF PowerChanged
<1>2. p \in [1..3 -> Int] /\ lastPower \in [1..3 -> Int]
  BY <1>1, SamplerAssumption
<1> QED
  BY <1>1, <1>2

LEMMA SamplePowerKeeps == SamplerInv /\ SamplePower => SamplerInv'
<1> SUFFICES ASSUME SamplerInv, SamplePower
             PROVE  SamplerInv'
  OBVIOUS
<1> DEFINE e == Line("power", 0, 0, power)
           x == [power |-> power, level |-> << >>]
<1>1. /\ thread = "top"
      /\ thread' = "ports"
      /\ now' = power
      /\ samples' = Append(samples, x)
      /\ UNCHANGED <<worldVars, pass, next, last, synced>>
      /\ \/ log' = Append(log, e) /\ lastPower' = power
         \/ ~PowerChanged(power) /\ UNCHANGED <<log, lastPower>>
  BY DEF SamplePower
<1>2. /\ e \in Texts
      /\ e.seq = pass
      /\ e.kind = "power"
      /\ e.port = 0
      /\ e.power = power
  BY DEF Line, Texts, SamplerInv, ShapeInv
<1>3. /\ log \in Seq(Texts)
      /\ pass \in Nat
      /\ power \in Powers
      /\ Len(samples) = pass
      /\ next = 1
      /\ samples \in Seq([power : Powers, level : Seq(Levels)])
      /\ lastPower \in Powers \cup {Unknown}
  BY <1>1 DEF SamplerInv, ShapeInv, PlaceInv
<1>4. x \in [power : Powers, level : Seq(Levels)] /\ x.power = power /\ x.level = << >>
  BY <1>3
<1> HIDE DEF e, x
<1>5. /\ samples' \in Seq([power : Powers, level : Seq(Levels)])
      /\ Len(samples') = pass + 1
      /\ \A i \in 1..pass : samples'[i] = samples[i]
      /\ samples'[pass + 1] = x
  BY <1>1, <1>3, <1>4
<1>6. lastPower' = power
  BY <1>1, <1>3, PowerChangeIsSeen
<1>7. log' = log \/ log' = Append(log, e)
  BY <1>1
<1>8. /\ log' \in Seq(Texts)
      /\ \A n \in DOMAIN log' : log'[n].seq <= pass
      /\ SyncInv'
  <2>1. CASE log' = log
    BY <1>1, <2>1 DEF SamplerInv, ShapeInv, SyncInv
  <2>2. CASE log' = Append(log, e)
    BY <1>1, <1>2, <2>2, WriteKeepsShape DEF SamplerInv
  <2> QED
    BY <1>7, <2>1, <2>2
<1>9. ShapeInv'
  BY <1>1, <1>3, <1>5, <1>6, <1>8 DEF SamplerInv, ShapeInv, worldVars
<1>10. PlaceInv'
  BY <1>1, <1>3, <1>4, <1>5 DEF PlaceInv
<1>11. PowerSays(log', pass, power)
  <2>1. CASE log' = Append(log, e) /\ lastPower' = power
    <3>1. e.seq <= pass
      BY <1>2, <1>3
    <3>2. PowerSays(Append(log, e), pass, e.power)
      BY <1>2, <1>3, <3>1, PowerIsSaid
    <3> QED
      BY <1>2, <2>1, <3>2
  <2>2. CASE ~PowerChanged(power) /\ UNCHANGED <<log, lastPower>>
    BY <1>1, <1>3, <2>2, PowerChangeIsSeen DEF SamplerInv, MemoryInv
  <2> QED
    BY <1>1, <2>1, <2>2
<1>12. \A p \in Ports : last[p] # Unknown => LevelSays(log', p, pass, last[p])
  BY <1>1, <1>2, <1>3, <1>7, LevelStays DEF SamplerInv, MemoryInv
<1>13. MemoryInv'
  BY <1>1, <1>6, <1>11, <1>12 DEF MemoryInv
<1>14. \A s \in 0..(pass - 1) : Told(log', s, samples'[s + 1])
  <2> SUFFICES ASSUME NEW s \in 0..(pass - 1)
               PROVE  Told(log', s, samples'[s + 1])
    OBVIOUS
  <2>5. s + 1 \in 1..pass
    BY <1>3
  <2>1. samples'[s + 1] = samples[s + 1]
    BY <1>5, <2>5
  <2>2. Told(log, s, samples[s + 1])
    BY <1>1, <1>3 DEF SamplerInv, SamplesInv
  <2>3. e.seq > s /\ s \in Int
    BY <1>2, <1>3
  <2>4. Told(Append(log, e), s, samples[s + 1])
    BY <1>2, <1>3, <2>2, <2>3, OldPassesStayTold
  <2> QED
    BY <1>7, <2>1, <2>2, <2>4
<1>15. Told(log', pass, samples'[pass + 1])
  BY <1>4, <1>5, <1>11 DEF Told
<1>16. \A s \in 0..(Len(samples') - 1) : Told(log', s, samples'[s + 1])
  <2>1. \A s \in 0..(Len(samples') - 1) : s = pass \/ s \in 0..(pass - 1)
    BY <1>3, <1>5
  <2> QED
    BY <1>14, <1>15, <2>1
<1>17. ASSUME NEW n \in DOMAIN log', log'[n].kind = "gpio"
       PROVE  /\ log'[n].seq < Len(samples')
              /\ log'[n].power = samples'[log'[n].seq + 1].power
  <2>1. n \in DOMAIN log /\ log'[n] = log[n]
    BY <1>2, <1>3, <1>7, <1>17, Appended
  <2>2. /\ log[n].seq < pass
        /\ log[n].power = samples[log[n].seq + 1].power
        /\ log[n].seq \in Nat
    BY <1>1, <1>3, <1>17, <2>1, LinesHavePasses DEF SamplerInv, SamplesInv
  <2>3. log[n].seq + 1 \in 1..pass
    BY <1>3, <2>2
  <2> QED
    BY <1>3, <1>5, <2>1, <2>2, <2>3
<1>18. SamplesInv'
  BY <1>16, <1>17 DEF SamplesInv
<1>19. EndInv' /\ FrozenInv'
  BY <1>1 DEF EndInv, FrozenInv
<1> QED
  BY <1>8, <1>9, <1>10, <1>13, <1>18, <1>19 DEF SamplerInv

LEMMA ReadingsGrow ==
  ASSUME NEW x \in [power : Powers, level : Seq(Levels)], NEW v \in Levels
  PROVE  /\ x.level \in Seq(Levels)
         /\ [x EXCEPT !.level = Append(@, v)] \in [power : Powers, level : Seq(Levels)]
         /\ [x EXCEPT !.level = Append(@, v)].power = x.power
         /\ [x EXCEPT !.level = Append(@, v)].level = Append(x.level, v)
<1>1. x.level \in Seq(Levels) /\ x.power \in Powers
  OBVIOUS
<1>2. Append(x.level, v) \in Seq(Levels)
  BY <1>1
<1> DEFINE w == Append(x.level, v)
<1>3. w \in Seq(Levels)
  BY <1>2
<1> HIDE DEF w
<1>4. /\ [x EXCEPT !.level = w] \in [power : Powers, level : Seq(Levels)]
      /\ [x EXCEPT !.level = w].power = x.power
      /\ [x EXCEPT !.level = w].level = w
  BY <1>3
<1> QED
  BY <1>1, <1>4 DEF w

LEMMA SamplePortKeeps == SamplerInv /\ SamplePort => SamplerInv'
<1> SUFFICES ASSUME SamplerInv, SamplePort
             PROVE  SamplerInv'
  OBVIOUS
<1> DEFINE e == Line("gpio", next, level[next], now)
           v == level[next]
           x == samples[pass + 1]
           y == [x EXCEPT !.level = Append(@, v)]
<1>1. /\ thread = "ports"
      /\ next <= PortCount
      /\ next' = next + 1
      /\ samples' = [samples EXCEPT ![pass + 1].level = Append(@, v)]
      /\ UNCHANGED <<worldVars, thread, pass, now, lastPower, synced>>
      /\ \/ log' = Append(log, e) /\ last' = [last EXCEPT ![next] = v]
         \/ v = last[next] /\ UNCHANGED <<log, last>>
  BY DEF SamplePort
<1>2. /\ log \in Seq(Texts)
      /\ pass \in Nat
      /\ next \in Ports
      /\ next \in Nat
      /\ v \in Levels
      /\ now \in Powers
      /\ last \in [Ports -> Levels \cup {Unknown}]
      /\ samples \in Seq([power : Powers, level : Seq(Levels)])
      /\ Len(samples) = pass + 1
      /\ x.power = now
      /\ Len(x.level) = next - 1
  BY <1>1 DEF SamplerInv, ShapeInv, PlaceInv, Ports
<1>3. /\ e \in Texts
      /\ e.seq = pass
      /\ e.kind = "gpio"
      /\ e.port = next
      /\ e.value = v
      /\ e.power = now
  BY <1>2 DEF Line, Texts
<1>4. x \in [power : Powers, level : Seq(Levels)] /\ x.level \in Seq(Levels)
  <2>1. pass + 1 \in 1..Len(samples)
    BY <1>2
  <2> DEFINE R == [power : Powers, level : Seq(Levels)]
  <2>4. samples \in Seq(R)
    BY <1>2
  <2> HIDE DEF R
  <2>5. \A i \in 1..Len(samples) : samples[i] \in R
    BY <2>4
  <2>2. \A i \in 1..Len(samples) : samples[i] \in [power : Powers, level : Seq(Levels)]
    BY <2>5 DEF R
  <2>3. x \in [power : Powers, level : Seq(Levels)]
    BY <2>1, <2>2
  <2> HIDE DEF x
  <2> QED
    BY <2>3
<1> HIDE DEF e, v, x
<1>5. /\ y \in [power : Powers, level : Seq(Levels)]
      /\ y.power = now
      /\ y.level = Append(x.level, v)
  BY <1>2, <1>4, ReadingsGrow
<1>6. /\ samples' \in Seq([power : Powers, level : Seq(Levels)])
      /\ Len(samples') = pass + 1
      /\ \A i \in 1..pass : samples'[i] = samples[i]
      /\ samples'[pass + 1] = y
  <2>1. samples' = [samples EXCEPT ![pass + 1] = y]
    BY <1>1 DEF x
  <2> HIDE DEF y
  <2> QED
    BY <1>2, <1>5, <2>1
<1> HIDE DEF y
<1>8. /\ Len(y.level) = next
      /\ DOMAIN y.level = 1..next
      /\ y.level[next] = v
      /\ \A p \in 1..(next - 1) : p \in DOMAIN x.level /\ y.level[p] = x.level[p]
  BY <1>2, <1>4, <1>5
<1>9. log' = log \/ log' = Append(log, e)
  BY <1>1
<1>10. /\ log' \in Seq(Texts)
       /\ \A n \in DOMAIN log' : log'[n].seq <= pass
       /\ SyncInv'
  <2>1. CASE log' = log
    BY <1>1, <2>1 DEF SamplerInv, ShapeInv, SyncInv
  <2>2. CASE log' = Append(log, e)
    BY <1>1, <1>3, <2>2, WriteKeepsShape DEF SamplerInv
  <2> QED
    BY <1>9, <2>1, <2>2
<1>11. last' \in [Ports -> Levels \cup {Unknown}]
  BY <1>1, <1>2
<1>12. ShapeInv'
  <2>1. next' \in 1..(PortCount + 1)
    <3>1. next \in 1..PortCount /\ PortCount \in Nat
      BY <1>2, SamplerAssumption DEF Ports
    <3>2. next + 1 \in 1..(PortCount + 1)
      BY <3>1
    <3> QED
      BY <1>1, <3>2
  <2> QED
    BY <1>1, <1>2, <1>6, <1>10, <1>11, <2>1 DEF SamplerInv, ShapeInv, worldVars
<1>13. PlaceInv'
  <2>1. next' - 1 = next /\ pass' = pass /\ now' = now /\ thread' = "ports"
    BY <1>1, <1>2
  <2>2. samples'[pass + 1].power = now /\ Len(samples'[pass + 1].level) = next
    BY <1>5, <1>6, <1>8
  <2> QED
    BY <1>2, <1>6, <2>1, <2>2 DEF PlaceInv
<1>14. LevelSays(log', next, pass, v)
  <2>1. CASE log' = Append(log, e)
    <3>1. e.seq <= pass
      BY <1>2, <1>3
    <3>2. LevelSays(Append(log, e), e.port, pass, e.value)
      BY <1>2, <1>3, <3>1, LevelIsSaid
    <3> QED
      BY <1>3, <2>1, <3>2
  <2>2. CASE v = last[next] /\ UNCHANGED <<log, last>>
    <3>1. v # Unknown
      BY <1>2, SamplerAssumption
    <3> QED
      BY <1>1, <1>2, <2>2, <3>1 DEF SamplerInv, MemoryInv
  <2> QED
    BY <1>1, <2>1, <2>2
<1>15. \A p, s, w : p # next /\ LevelSays(log, p, s, w) => LevelSays(log', p, s, w)
  BY <1>2, <1>3, <1>9, LevelStays
<1>16. \A s, p : PowerSays(log, s, p) => PowerSays(log', s, p)
  BY <1>2, <1>3, <1>9, PowerStays
<1>17. MemoryInv'
  <2>1. last'[next] = v
    BY <1>1, <1>2
  <2>2. \A p \in Ports : p # next => last'[p] = last[p]
    BY <1>1, <1>2
  <2>3. \A p \in Ports : last'[p] # Unknown => LevelSays(log', p, pass, last'[p])
    BY <1>1, <1>14, <1>15, <2>1, <2>2 DEF SamplerInv, MemoryInv
  <2> QED
    BY <1>1, <1>16, <2>3 DEF SamplerInv, MemoryInv
<1>18. \A s \in 0..(pass - 1) : Told(log', s, samples'[s + 1])
  <2> SUFFICES ASSUME NEW s \in 0..(pass - 1)
               PROVE  Told(log', s, samples'[s + 1])
    OBVIOUS
  <2>5. s + 1 \in 1..pass
    BY <1>2
  <2>1. samples'[s + 1] = samples[s + 1]
    BY <1>6, <2>5
  <2>2. Told(log, s, samples[s + 1])
    <3>1. s \in 0..(Len(samples) - 1)
      BY <1>2
    <3>2. thread # "frozen"
      BY <1>1
    <3> QED
      BY <3>1, <3>2 DEF SamplerInv, SamplesInv
  <2>3. e.seq > s /\ s \in Int
    BY <1>2, <1>3
  <2>4. Told(Append(log, e), s, samples[s + 1])
    BY <1>2, <1>3, <2>2, <2>3, OldPassesStayTold
  <2> QED
    BY <1>9, <2>1, <2>2, <2>4
<1>19. Told(log', pass, y)
  <2>1. Told(log, pass, x)
    <3>1. pass \in 0..(Len(samples) - 1)
      BY <1>2
    <3>2. thread # "frozen"
      BY <1>1
    <3> QED
      BY <3>1, <3>2 DEF SamplerInv, SamplesInv, x
  <2>2. PowerSays(log', pass, y.power)
    BY <1>2, <1>5, <1>16, <2>1 DEF Told
  <2>3. ASSUME NEW p \in DOMAIN y.level
        PROVE  LevelSays(log', p, pass, y.level[p])
    <3>1. CASE p = next
      BY <1>8, <1>14, <3>1
    <3>2. CASE p # next
      <4>1. p \in 1..(next - 1)
        BY <1>2, <1>8, <3>2
      <4>2. LevelSays(log, p, pass, y.level[p])
        BY <1>8, <2>1, <4>1 DEF Told
      <4> QED
        BY <1>15, <3>2, <4>2
    <3> QED
      BY <3>1, <3>2
  <2> QED
    BY <2>2, <2>3 DEF Told
<1>20. \A s \in 0..(Len(samples') - 1) : Told(log', s, samples'[s + 1])
  <2>1. \A s \in 0..(Len(samples') - 1) : s = pass \/ s \in 0..(pass - 1)
    BY <1>2, <1>6
  <2> QED
    BY <1>6, <1>18, <1>19, <2>1
<1>21. ASSUME NEW n \in DOMAIN log', log'[n].kind = "gpio"
       PROVE  /\ log'[n].seq < Len(samples')
              /\ log'[n].power = samples'[log'[n].seq + 1].power
  <2>1. \A i \in 1..(pass + 1) : samples'[i].power = samples[i].power
    <3>1. \A i \in 1..(pass + 1) : i = pass + 1 \/ i \in 1..pass
      BY <1>2
    <3> QED
      BY <1>2, <1>5, <1>6, <3>1 DEF x
  <2>2. CASE n \in DOMAIN log /\ log'[n] = log[n]
    <3>1. /\ log[n].seq < pass + 1
          /\ log[n].power = samples[log[n].seq + 1].power
          /\ log[n].seq \in Nat
      BY <1>1, <1>2, <1>21, <2>2, LinesHavePasses DEF SamplerInv, SamplesInv
    <3>2. log[n].seq + 1 \in 1..(pass + 1)
      BY <1>2, <3>1
    <3> QED
      BY <1>2, <1>6, <2>1, <2>2, <3>1, <3>2
  <2>3. CASE log'[n] = e
    <3>1. log'[n].seq + 1 = pass + 1 /\ log'[n].seq < Len(samples')
      BY <1>2, <1>3, <1>6, <2>3
    <3>2. samples'[pass + 1].power = now /\ log'[n].power = now
      BY <1>3, <1>5, <1>6, <2>3
    <3> QED
      BY <3>1, <3>2
  <2>4. (n \in DOMAIN log /\ log'[n] = log[n]) \/ log'[n] = e
    <3>1. CASE log' = log
      BY <3>1
    <3>2. CASE log' = Append(log, e)
      BY <1>2, <1>3, <3>2, Appended
    <3> QED
      BY <1>9, <3>1, <3>2
  <2> QED
    BY <2>2, <2>3, <2>4
<1>22. SamplesInv'
  BY <1>20, <1>21 DEF SamplesInv
<1>23. EndInv' /\ FrozenInv'
  BY <1>1 DEF EndInv, FrozenInv
<1> QED
  BY <1>10, <1>12, <1>13, <1>17, <1>22, <1>23 DEF SamplerInv

LEMMA EndPassKeeps == SamplerInv /\ EndPass => SamplerInv'
<1> SUFFICES ASSUME SamplerInv, EndPass
             PROVE  SamplerInv'
  OBVIOUS
<1>1. /\ thread = "ports"
      /\ thread' = "top"
      /\ next' = 1
      /\ pass' = pass + 1
      /\ synced' = IF pass % SyncEvery = 0 THEN Len(log) ELSE synced
      /\ UNCHANGED <<worldVars, now, last, lastPower, log, samples>>
  BY DEF EndPass
<1>2. /\ log \in Seq(Texts)
      /\ pass \in Nat
      /\ Len(samples) = pass + 1
      /\ \A n \in DOMAIN log : log[n].seq <= pass /\ log[n].seq \in Nat
  BY <1>1, LinesHavePasses DEF SamplerInv, ShapeInv, PlaceInv
<1>3. ShapeInv'
  <2>1. \A n \in DOMAIN log' : log'[n].seq <= pass'
    BY <1>1, <1>2
  <2>2. next' \in 1..(PortCount + 1)
    BY <1>1, SamplerAssumption
  <2> QED
    BY <1>1, <1>2, <2>1, <2>2 DEF SamplerInv, ShapeInv, worldVars
<1>4. PlaceInv'
  BY <1>1, <1>2 DEF PlaceInv
<1>5. MemoryInv'
  BY <1>1, <1>2, NextPassToo DEF SamplerInv, MemoryInv
<1>6. SamplesInv'
  BY <1>1 DEF SamplerInv, SamplesInv
<1>7. SyncInv'
  <2>1. Len(log) \in Nat /\ DOMAIN log = 1..Len(log)
    BY <1>2
  <2>2. synced' \in 0..Len(log)
    BY <1>1, <2>1 DEF SamplerInv, SyncInv
  <2>3. CASE pass % SyncEvery = 0
    <3>1. /\ pass \in Int
          /\ pass < pass'
          /\ pass' <= pass + SyncEvery
      BY <1>1, <1>2, SamplerAssumption
    <3>2. \A n \in DOMAIN log : ~(n > synced')
      BY <1>1, <2>1, <2>3
    <3> QED
      BY <1>1, <2>2, <2>3, <3>1, <3>2 DEF SyncInv
  <2>4. CASE pass % SyncEvery # 0
    <3>1. PICK q \in Int :
            /\ q % SyncEvery = 0
            /\ q < pass
            /\ pass <= q + SyncEvery
            /\ \A n \in DOMAIN log : n > synced => log[n].seq > q
      BY DEF SamplerInv, SyncInv
    <3>2. pass # q + SyncEvery
      BY <2>4, <3>1, NextMultiple
    <3>3. q < pass' /\ pass' <= q + SyncEvery
      BY <1>1, <1>2, <3>1, <3>2, SamplerAssumption
    <3>4. synced' = synced
      BY <1>1, <2>4
    <3> QED
      BY <1>1, <2>2, <3>1, <3>3, <3>4 DEF SyncInv
  <2> QED
    BY <2>3, <2>4
<1>8. EndInv' /\ FrozenInv'
  BY <1>1 DEF EndInv, FrozenInv
<1> QED
  BY <1>3, <1>4, <1>5, <1>6, <1>7, <1>8 DEF SamplerInv

LEMMA CloseLogKeeps == SamplerInv /\ CloseLog => SamplerInv'
<1> SUFFICES ASSUME SamplerInv, CloseLog
             PROVE  SamplerInv'
  OBVIOUS
<1>1. /\ thread = "close"
      /\ thread' = "ended"
      /\ synced' = Len(log)
      /\ UNCHANGED <<worldVars, pass, next, now, last, lastPower, log, samples>>
  BY DEF CloseLog
<1>2. Len(log) \in Nat /\ DOMAIN log = 1..Len(log)
  BY DEF SamplerInv, ShapeInv
<1>3. ShapeInv'
  BY <1>1 DEF SamplerInv, ShapeInv, worldVars
<1>4. PlaceInv' /\ MemoryInv' /\ SamplesInv' /\ EndInv' /\ FrozenInv'
  BY <1>1 DEF SamplerInv, PlaceInv, MemoryInv, SamplesInv, EndInv, FrozenInv
<1>5. SyncInv'
  BY <1>1, <1>2 DEF SamplerInv, SyncInv
<1> QED
  BY <1>3, <1>4, <1>5 DEF SamplerInv

-----------------------------------------------------------------------------
(* A freeze cuts the log somewhere behind the last sync.                    *)
LEMMA FreezeKeeps == SamplerInv /\ Freeze => SamplerInv'
<1> SUFFICES ASSUME SamplerInv, Freeze
             PROVE  SamplerInv'
  OBVIOUS
<1>1. /\ thread \notin {"absent", "frozen"}
      /\ thread' = "frozen"
      /\ \E n \in synced..Len(log) : log' = SubSeq(log, 1, n)
      /\ UNCHANGED <<worldVars, pass, next, now, last, lastPower, synced, samples>>
  BY DEF Freeze
<1>2. /\ log \in Seq(Texts)
      /\ Len(log) \in Nat
      /\ synced \in 0..Len(log)
      /\ pass \in Nat
      /\ Len(samples) \in {pass, pass + 1}
      /\ \A n \in DOMAIN log : log[n].seq <= pass /\ log[n].seq \in Nat
  BY <1>1, LinesHavePasses DEF SamplerInv, ShapeInv, PlaceInv, SyncInv
<1>3. PICK c \in 0..Len(log) : c >= synced /\ log' = SubSeq(log, 1, c)
  BY <1>1, <1>2
<1>4. /\ log' \in Seq(Texts)
      /\ Len(log') = c
      /\ DOMAIN log' = 1..c
      /\ DOMAIN log = 1..Len(log)
      /\ \A n \in 1..c : log'[n] = log[n]
  BY <1>2, <1>3
<1>5. ShapeInv'
  <2>1. \A n \in DOMAIN log' : log'[n].seq <= pass
    BY <1>2, <1>4
  <2> QED
    BY <1>1, <1>4, <2>1 DEF SamplerInv, ShapeInv, worldVars
<1>6. PlaceInv' /\ MemoryInv' /\ SamplesInv' /\ EndInv'
  BY <1>1 DEF PlaceInv, MemoryInv, SamplesInv, EndInv
<1>7. PICK q \in Int :
        /\ q % SyncEvery = 0
        /\ q < pass
        /\ pass <= q + SyncEvery
        /\ \A n \in DOMAIN log : n > synced => log[n].seq > q
  BY DEF SamplerInv, SyncInv
<1>8. SyncInv'
  <2>1. \A n \in DOMAIN log' : n > synced => log'[n].seq > q
    BY <1>4, <1>7
  <2>2. synced \in 0..Len(log')
    BY <1>2, <1>3, <1>4
  <2> QED
    BY <1>1, <1>7, <2>1, <2>2 DEF SyncInv
<1>9. ASSUME NEW s \in 0..(pass - SyncEvery)
      PROVE  Told(log', s, samples[s + 1])
  <2>1. s \in Int /\ s <= q /\ s \in 0..(Len(samples) - 1)
    BY <1>2, <1>7, <1>9, SamplerAssumption
  <2>2. Told(log, s, samples[s + 1])
    BY <1>1, <2>1 DEF SamplerInv, SamplesInv
  <2>3. \A n \in DOMAIN log : n > c => log[n].seq > s
    BY <1>2, <1>3, <1>4, <1>7, <2>1
  <2> QED
    BY <1>2, <1>3, <2>1, <2>2, <2>3, CutIsNotMissed DEF Told
<1>10. FrozenInv'
  BY <1>1, <1>9 DEF FrozenInv
<1> QED
  BY <1>5, <1>6, <1>8, <1>10 DEF SamplerInv

LEMMA AlwaysSamplerInv == Spec => []SamplerInv
<1>1. SamplerInv /\ [Next]_samplerVars => SamplerInv'
  <2> SUFFICES ASSUME SamplerInv, [Next]_samplerVars
               PROVE  SamplerInv'
    OBVIOUS
  <2>1. CASE StartSampler \/ OpenFails \/ LineChanges \/ PowerChanges \/ ModuleStop
             \/ UNCHANGED samplerVars
    BY <2>1, QuietSteps, QuietKeeps DEF SamplerInv
  <2>2. CASE OpenLog \/ SamplePower \/ SamplePort \/ EndPass \/ LeaveLoop \/ CloseLog
    BY <2>2, OpenLogKeeps, SamplePowerKeeps, SamplePortKeeps, EndPassKeeps,
       LeaveLoopKeeps, CloseLogKeeps
  <2>3. CASE Freeze
    BY <2>3, FreezeKeeps
  <2> QED
    BY <2>1, <2>2, <2>3 DEF Next, SamplerThread, World
<1> QED
  BY <1>1, InitSampler, PTL DEF Spec

LEMMA ToldIsReplayed ==
  ASSUME log \in Seq(Texts), NEW s, Told(log, s, samples[s + 1])
  PROVE  Replays(s)
  BY PowerIsRead, LevelIsRead DEF Told, Replays

(* Every pass can be read back from the lines about changes alone, and each *)
(* line about a port names the power state of its own pass                  *)
(* (gpio_sample_thread).                                                    *)
THEOREM EveryPassIsReplayed == Spec => []LogReplays
<1>1. SamplerInv => LogReplays
  BY ToldIsReplayed DEF SamplerInv, ShapeInv, SamplesInv, LogReplays
<1> QED
  BY <1>1, AlwaysSamplerInv, PTL

(* However many passes lie between two syncs, and wherever in the unsynced  *)
(* lines a freeze cuts the file: the passes up to the last sync can be read *)
(* back, and a log that ended says so (gpio_sample_thread).                 *)
THEOREM FreezeIsBounded == Spec => []FreezeLosesLittle
<1>1. SamplerInv => FreezeLosesLittle
  BY ToldIsReplayed DEF SamplerInv, ShapeInv, FrozenInv, EndInv, FreezeLosesLittle
<1> QED
  BY <1>1, AlwaysSamplerInv, PTL
=============================================================================
