----------------------------- MODULE SysconHooks -----------------------------
(***************************************************************************)
(* The hooks of the diagnostic plugin on the functions that send packets   *)
(* to syscon (dev/main.c: apply_led_candidate_patch, noled_syscon_cmd_exec *)
(* ...), and the command probe plugin (dev/cmd_probe.c) as a caller.       *)
(*                                                                         *)
(* A hook records the packet, patches it in the caller's own buffer as the *)
(* mode of the moment asks, and goes on with the original function.  The   *)
(* mode is written by the trace thread, which reads the file again in each *)
(* of its passes; hooks go in one by one while others call; the functions  *)
(* of SceSyscon call each other, so one packet may meet several hooks      *)
(* (docs/vita-slim-syscon-callsite-analysis.md 55-69: a packet of SceSyscon *)
(* itself, its checksum in place, seen by the hook on ksceSysconCmdSync);  *)
(* a caller may send its buffer again.  That each of the three functions    *)
(* may call a later one, or transmit, is assumed of SceSyscon.             *)
(***************************************************************************)
EXTENDS SysconPacket, Sequences

CONSTANTS
  Callers,    \* the threads that send packets
  Prober,     \* module_start of the command probe plugin, one of them
  Payloads,   \* what the other drivers put into their buffers
  FileModes,  \* the modes the trace thread finds in the file
  Requests,   \* what the request file of the command probe may hold
  None

Exec    == 1
Async   == 2
Sync    == 3
Adapter == 4   \* ksceSysconCtrlDolceLED
Layers  == {Exec, Async, Sync}

Drivers == Callers \ {Prober}

ASSUME HooksAssumption ==
  /\ Prober \in Callers
  /\ Payloads \subseteq Packets
  /\ FileModes \subseteq 0..15
  /\ None \notin Packets

VARIABLES
  mode,       \* led_candidate_mode
  nextHook,   \* the hook module_start installs next
  tracing,    \* syscon_trace_running
  buffer,     \* each caller's packet
  at,         \* where its call is
  layer,      \* the function of SceSyscon it is in
  summed,     \* SceSyscon has put the checksum in, in this call
  request,    \* what the command probe finds in its file
  execRet,    \* exec_ret, what its call gave back
  probeLine,  \* the line of the command probe in its log, None before that
  adapter,    \* a driver's call for the adapter's LED: what it asks, what is sent
  wanted,     \* history: the packet as the caller filled it
  inForce,    \* history: the modes since then, for a driver
  recorded,   \* history: the first record of this call
  marked,     \* history: its patch markers
  wire        \* history: the packet syscon got, None before that

callVars  == <<buffer, at, layer, summed, wanted, recorded, marked, wire>>
probeVars == <<request, execRet, probeLine>>
hookVars  == <<mode, nextHook, tracing, callVars, inForce, probeVars, adapter>>

(* Mutant of NoResult: exec_ret starts as a success.                        *)
StartsAsSuccess == "ok"

(* What exec_ret is before the call: -3, no result of SceSyscon.            *)
NoResult == "none"

Init ==
  /\ mode \in FileModes
  /\ nextHook = Exec
  /\ tracing = TRUE
  /\ buffer = [c \in Callers |-> None]
  /\ at = [c \in Callers |-> "idle"]
  /\ layer = [c \in Callers |-> Exec]
  /\ summed = [c \in Callers |-> FALSE]
  /\ request = << >>
  /\ execRet = NoResult
  /\ probeLine = None
  /\ adapter = None
  /\ wanted = [c \in Callers |-> None]
  /\ inForce = [c \in Drivers |-> {}]
  /\ recorded = [c \in Callers |-> None]
  /\ marked = [c \in Callers |-> 0]
  /\ wire = [c \in Callers |-> None]

-----------------------------------------------------------------------------
(* module_start installs one hook after the other.  It looks at no result:  *)
(* a hook that failed is a function that a call does not come through.      *)
InstallHook ==
  /\ nextHook <= Adapter
  /\ nextHook' = nextHook + 1
  /\ UNCHANGED <<mode, tracing, callVars, inForce, probeVars, adapter>>

(* The trace is over: module_stop, or the thread has done its passes.  The  *)
(* hooks stay and patch on.                                                 *)
StopTrace ==
  /\ tracing' = FALSE
  /\ UNCHANGED <<mode, nextHook, callVars, inForce, probeVars, adapter>>

(* refresh_led_candidate_config in the trace thread, which may still be in  *)
(* a pass when the trace has been stopped.                                  *)
RefreshMode ==
  /\ mode' \in FileModes
  /\ inForce' = [c \in Drivers |-> inForce[c] \cup {mode'}]
  /\ UNCHANGED <<nextHook, tracing, callVars, probeVars, adapter>>

-----------------------------------------------------------------------------
(* A caller.                                                                *)

(* Packet p goes into the buffer of caller c.                               *)
Fill(c, p) ==
  /\ buffer' = [buffer EXCEPT ![c] = p]
  /\ wanted' = [wanted EXCEPT ![c] = p]

(* It calls function l.                                                     *)
Enter(c, l) ==
  /\ at' = [at EXCEPT ![c] = "entered"]
  /\ layer' = [layer EXCEPT ![c] = l]
  /\ summed' = [summed EXCEPT ![c] = FALSE]
  /\ recorded' = [recorded EXCEPT ![c] = None]
  /\ marked' = [marked EXCEPT ![c] = 0]
  /\ wire' = [wire EXCEPT ![c] = None]

Send(c) ==
  /\ at[c] = "idle"
  /\ \E p \in Payloads, l \in Layers : Fill(c, p) /\ Enter(c, l)
  /\ inForce' = [inForce EXCEPT ![c] = {mode}]
  /\ adapter' = None
  /\ UNCHANGED <<mode, nextHook, tracing, probeVars>>

(* The same buffer once more, as the last call has left it.                 *)
SendAgain(c) ==
  /\ at[c] = "idle"
  /\ buffer[c] # None
  /\ \E l \in Layers : Enter(c, l)
  /\ adapter' = None
  /\ UNCHANGED <<mode, nextHook, tracing, buffer, wanted, inForce, probeVars>>

-----------------------------------------------------------------------------
(* A call on its way through SceSyscon.                                     *)

HasHook(f) == f < nextHook

(* trace_record_packet_call, for commands other than the two that poll.     *)
Record(c) ==
  /\ at[c] = "entered"
  /\ HasHook(layer[c])
  /\ at' = [at EXCEPT ![c] = "recorded"]
  /\ recorded' = [recorded EXCEPT ![c] = IF tracing /\ @ = None THEN buffer[c] ELSE @]
  /\ UNCHANGED <<mode, nextHook, tracing, buffer, layer, summed, wanted, marked, wire,
                 inForce, probeVars, adapter>>

(* apply_led_candidate_patch, which reads the mode once; the marker needs   *)
(* the trace.  It is never negative: the hooks always go on to SceSyscon.   *)
ApplyPatch(c) ==
  /\ at[c] = "recorded"
  /\ at' = [at EXCEPT ![c] = "inside"]
  /\ buffer' = [buffer EXCEPT ![c] = Patch(@, mode)]
  /\ marked' = [marked EXCEPT ![c] = IF tracing /\ Patches(buffer[c], mode) THEN @ + 1 ELSE @]
  /\ UNCHANGED <<mode, nextHook, tracing, layer, summed, wanted, recorded, wire, inForce,
                 probeVars, adapter>>

NoHook(c) ==
  /\ at[c] = "entered"
  /\ ~HasHook(layer[c])
  /\ at' = [at EXCEPT ![c] = "inside"]
  /\ UNCHANGED <<mode, nextHook, tracing, buffer, layer, summed, wanted, recorded, marked,
                 wire, inForce, probeVars, adapter>>

(* SceSyscon computes the checksum of the packet, once, ...                 *)
PutChecksum(c) ==
  /\ at[c] = "inside"
  /\ ~summed[c]
  /\ summed' = [summed EXCEPT ![c] = TRUE]
  /\ buffer' = [buffer EXCEPT ![c] = Completed(@)]
  /\ UNCHANGED <<mode, nextHook, tracing, at, layer, wanted, recorded, marked, wire, inForce,
                 probeVars, adapter>>

(* ... calls a function further down, or not, ...                           *)
CallFurther(c) ==
  /\ at[c] = "inside"
  /\ \E l \in Layers : l > layer[c] /\ layer' = [layer EXCEPT ![c] = l]
  /\ at' = [at EXCEPT ![c] = "entered"]
  /\ UNCHANGED <<mode, nextHook, tracing, buffer, summed, wanted, recorded, marked, wire,
                 inForce, probeVars, adapter>>

(* The call gives ret back to its caller.  The drivers do as they like with *)
(* it: they may send the buffer again.                                      *)
Return(c, ret) ==
  /\ at' = [at EXCEPT ![c] = IF c = Prober THEN "log" ELSE "idle"]
  /\ layer' = [layer EXCEPT ![c] = Exec]
  /\ summed' = [summed EXCEPT ![c] = FALSE]
  /\ execRet' = IF c = Prober THEN ret ELSE execRet

(* ... and transmits the packet.  Syscon may refuse it, or not answer.      *)
Transmit(c) ==
  /\ at[c] = "inside"
  /\ summed[c]
  /\ wire' = [wire EXCEPT ![c] = buffer[c]]
  /\ \E ret \in {"ok", "error"} : Return(c, ret)
  /\ UNCHANGED <<mode, nextHook, tracing, buffer, wanted, recorded, marked, inForce,
                 request, probeLine, adapter>>

(* Any of its functions may give up before that.                            *)
GiveUp(c) ==
  /\ at[c] = "inside"
  /\ Return(c, "error")
  /\ UNCHANGED <<mode, nextHook, tracing, buffer, wanted, recorded, marked, wire, inForce,
                 request, probeLine, adapter>>

-----------------------------------------------------------------------------
(* The command probe plugin.                                                *)

(* read_probe_id: two bytes, the second of them 0.                          *)
RequestOk(r) == Len(r) = 2 /\ r[2] = 0 /\ r[1] \in ProbeIds

ProbeStart(r) ==
  /\ at[Prober] = "idle"
  /\ request' = r
  /\ RequestOk(r)
  /\ Fill(Prober, ProbePacket(r[1]))
  /\ Enter(Prober, Exec)
  /\ UNCHANGED <<mode, nextHook, tracing, inForce, execRet, probeLine, adapter>>

ProbeNoRequest(r) ==
  /\ at[Prober] = "idle"
  /\ request' = r
  /\ ~RequestOk(r)
  /\ at' = [at EXCEPT ![Prober] = "log"]
  /\ UNCHANGED <<mode, nextHook, tracing, buffer, layer, summed, wanted, recorded, marked, wire,
                 inForce, execRet, probeLine, adapter>>

(* What the log says: the entry of the table, with read_ret and exec_ret.   *)
Line ==
  [named |-> IF RequestOk(request) THEN ProbePacket(request[1]) ELSE None,
   read  |-> RequestOk(request),
   exec  |-> execRet]

(* log_probe_result, after the command: the log may fail to open.           *)
LogProbe ==
  /\ at[Prober] = "log"
  /\ at' = [at EXCEPT ![Prober] = "done"]
  /\ probeLine' \in {probeLine, Line}
  /\ UNCHANGED <<mode, nextHook, tracing, buffer, layer, summed, wanted, recorded, marked,
                 wire, inForce, request, execRet, adapter>>

-----------------------------------------------------------------------------
(* The LED of the AC adapter: noled_syscon_ctrl_dolce_led.                  *)
CtrlDolceLed(c, enable) ==
  /\ at[c] = "idle"
  /\ adapter' = [asked |-> enable,
                 sent  |-> IF HasHook(Adapter) THEN DolceEffective(enable, mode)
                                               ELSE enable]
  /\ UNCHANGED <<mode, nextHook, tracing, callVars, inForce, probeVars>>

Call(c) ==
  \/ Record(c)
  \/ ApplyPatch(c)
  \/ NoHook(c)
  \/ PutChecksum(c)
  \/ CallFurther(c)
  \/ Transmit(c)
  \/ GiveUp(c)

CommandProbe ==
  \/ \E r \in Requests : ProbeStart(r) \/ ProbeNoRequest(r)
  \/ LogProbe

Next ==
  \/ InstallHook
  \/ StopTrace
  \/ RefreshMode
  \/ CommandProbe
  \/ \E c \in Callers : Call(c)
  \/ \E c \in Drivers : Send(c) \/ SendAgain(c)
  \/ \E c \in Drivers, enable \in 0..2 : CtrlDolceLed(c, enable)

Spec == Init /\ [][Next]_hookVars

-----------------------------------------------------------------------------
TypeOK ==
  /\ mode \in FileModes
  /\ nextHook \in Exec..(Adapter + 1)
  /\ tracing \in BOOLEAN
  /\ buffer \in [Callers -> Packets \cup {None}]
  /\ at \in [Callers -> {"idle", "entered", "recorded", "inside", "log", "done"}]
  /\ layer \in [Callers -> Layers]
  /\ summed \in [Callers -> BOOLEAN]
  /\ execRet \in {NoResult, "ok", "error"}
  /\ probeLine \in {None} \cup [named : Packets \cup {None}, read : BOOLEAN,
                               exec : {NoResult, "ok", "error"}]
  /\ wanted \in [Callers -> Packets \cup {None}]
  /\ inForce \in [Drivers -> SUBSET FileModes]
  /\ recorded \in [Callers -> Packets \cup {None}]
  /\ marked \in [Callers -> Nat]
  /\ wire \in [Callers -> Packets \cup {None}]

(* A packet that is patched after SceSyscon has put its checksum in goes    *)
(* out with a checksum that is right all the same, and so does each packet  *)
(* of the command probe (noled_led_candidate_0387_checksum).  The patch     *)
(* takes nine bytes of data for granted: for longer ones nothing is said.   *)
WireWellFormed ==
  \A c \in Callers :
    wire[c] # None /\ (wire[c].cmd = Touchpanel => wire[c].len = TouchpanelLen)
      => Complete(wire[c])

(* However often a packet is sent, whichever hooks it meets and whatever    *)
(* becomes of the mode meanwhile: what syscon gets is what the caller       *)
(* filled in, or what a single mode that was in force since then makes of   *)
(* it.  Patches never add up, and none outlives the buffer                  *)
(* (noled_led_candidate_patch_packet, apply_led_candidate_patch).           *)
PatchesExplained ==
  \A c \in Drivers :
    wire[c] # None /\ (wanted[c].cmd = Touchpanel => wanted[c].len = TouchpanelLen)
      => \E m \in inForce[c] \cup {0} : wire[c] = Completed(Patch(wanted[c], m))

(* What two packets have in common up to the checksum.                      *)
SamePayload(p, q) ==
  /\ p.cmd = q.cmd
  /\ p.len = q.len
  /\ \A i \in Places : i < p.len - 1 => p.data[i] = q.data[i]

(* The trace, while it runs, tells what went over the wire: what the first  *)
(* hook recorded is what syscon got, unless there is a patch marker, and    *)
(* then there is one only, however many hooks the packet met while the mode *)
(* changed (trace_record_packet_call, apply_led_candidate_patch).           *)
TraceTellsTheWire ==
  \A c \in Callers :
    tracing /\ wire[c] # None /\ recorded[c] # None
      => marked[c] = IF SamePayload(recorded[c], wire[c]) THEN 0 ELSE 1

(* The line of the command probe tells what became of its request, whatever *)
(* hooks and modes the packet went through: with a success of SceSyscon the *)
(* packet it names is what syscon got, to the last byte; without a result   *)
(* nothing went out; and in no case anything else (module_start and         *)
(* log_probe_result of dev/cmd_probe.c, apply_led_candidate_patch).         *)
ProbeLineTellsTheWire ==
  probeLine # None =>
    /\ probeLine.exec = "ok" => wire[Prober] # None
    /\ probeLine.exec = NoResult => wire[Prober] = None
    /\ wire[Prober] # None => wire[Prober] = probeLine.named
=============================================================================
