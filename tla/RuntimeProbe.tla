---------------------------- MODULE RuntimeProbe ----------------------------
(***************************************************************************)
(* The runtime probe of the diagnostic build: the loader application       *)
(* (dev/loader/main.c) writes one request per button press to a file, the  *)
(* probe thread of the resident plugin (dev/main.c, dev/runtime_probe.h)   *)
(* polls the file, executes what is new and writes a response file.  The   *)
(* two share nothing but the files.  The loader can be closed and launched *)
(* again while the plugin stays, the hardware can freeze on a command, and *)
(* the console can be rebooted at any time; the files survive all of it.   *)
(*                                                                         *)
(* Every press has an identity, which the code does not have: the code     *)
(* tells requests apart by their sequence number alone.                    *)
(***************************************************************************)
EXTENDS ProbeRequest

CONSTANTS
  Listed,       \* the loader's candidates: Candidates, or those of another version
  MaxPresses,   \* bound: presses that send a command
  MaxLaunches,  \* bound: launches of the loader
  MaxBoots      \* bound: reboots

Presses == 1..MaxPresses

ASSUME ProbeAssumption ==
  /\ Listed \in Seq(Requests) \ {<< >>}
  /\ MaxPresses \in Nat
  /\ MaxLaunches \in Nat
  /\ MaxBoots \in Nat

VARIABLES
  request,    \* the request file
  response,   \* the response file
  tried,      \* the last "try" line that is safe in probe.log
  loader,     \* where the loader is
  active,     \* it offers the probe: probe_load_attempted
  index,      \* probe_ui.index
  sentSeq,    \* probe_ui.sent_seq
  sending,    \* the command being sent
  shown,      \* the response on its screen
  kernel,     \* where the probe thread is
  running,    \* runtime_probe_running
  lastSeq,    \* last_seq
  taken,      \* the request it works on, Nothing between two of them
  log,        \* it could open probe.log
  presses,    \* history: presses sent
  handled,    \* history: presses executed or rejected
  executions, \* history: how often each press was executed
  started,    \* history: presses sent before the probe thread was started
  adopted,    \* history: the press found in the file when the thread started
  unread,     \* history: the file could not be read when it was adopted
  relaunched, \* history: the loader was launched with the plugin resident
  launches, boots

loaderVars  == <<loader, active, index, sentSeq, sending, shown>>
kernelVars  == <<kernel, running, lastSeq, taken, log>>
fileVars    == <<request, response, tried>>
historyVars == <<presses, handled, executions, started, adopted, unread,
                 relaunched, launches, boots>>
probeVars   == <<fileVars, loaderVars, kernelVars, historyVars>>

(* No request or response: there is no such file, or it is truncated and a  *)
(* reader gets fewer bytes than it needs.                                   *)
Nothing == [seq |-> 0, press |-> 0]

Looping == {"poll", "log", "execute", "executing", "truncate", "respond", "delay"}

Init ==
  /\ request = Nothing
  /\ response = Nothing
  /\ tried = 0
  /\ loader = "off"
  /\ active = FALSE
  /\ index = 0
  /\ sentSeq = 0
  /\ sending = Nothing
  /\ shown = Nothing
  /\ kernel = "absent"
  /\ running = FALSE
  /\ lastSeq = 0
  /\ taken = Nothing
  /\ log = FALSE
  /\ presses = << >>
  /\ handled = {}
  /\ executions = [p \in Presses |-> 0]
  /\ started = 0
  /\ adopted = 0
  /\ unread = FALSE
  /\ relaunched = FALSE
  /\ launches = 0
  /\ boots = 0

-----------------------------------------------------------------------------
(* The loader.  sceIoRemove, a truncating open and a write are steps of     *)
(* their own: the probe thread may read the file between any two of them.   *)

On == kernel # "frozen"
Resident == kernel # "absent"

(* Mutant of Launch: an old response is left in place. *)
LaunchKeepsResponse ==
  /\ On /\ loader = "off" /\ launches < MaxLaunches
  /\ launches' = launches + 1
  /\ relaunched' = (relaunched \/ Resident)
  /\ request' = Nothing
  /\ loader' = "menu"
  /\ UNCHANGED <<response, tried, active, index, sentSeq, sending, shown, kernelVars,
                 presses, handled, executions, started, adopted, unread, boots>>

(* main, as far as probe_delete_stale_files has removed the request. *)
Launch ==
  /\ On /\ loader = "off" /\ launches < MaxLaunches
  /\ launches' = launches + 1
  /\ relaunched' = (relaunched \/ Resident)
  /\ request' = Nothing
  /\ loader' = "clean"
  /\ UNCHANGED <<response, tried, active, index, sentSeq, sending, shown, kernelVars,
                 presses, handled, executions, started, adopted, unread, boots>>

RemoveResponse ==
  /\ On /\ loader = "clean"
  /\ response' = Nothing
  /\ loader' = "menu"
  /\ UNCHANGED <<request, tried, active, index, sentSeq, sending, shown, kernelVars,
                 historyVars>>

(* The probe thread is created: start_runtime_probe. *)
StartProbe ==
  /\ kernel = "absent"
  /\ kernel' = "wait"
  /\ running' = TRUE
  /\ started' = Len(presses)
  /\ UNCHANGED <<lastSeq, taken, log>>

(* The first Cross loads the plugin, or fails to: because it is resident    *)
(* already, say.  The probe is offered either way.                          *)
PressLoad ==
  /\ On /\ loader = "menu" /\ ~active
  /\ active' = TRUE
  /\ StartProbe \/ UNCHANGED <<kernelVars, started>>
  /\ UNCHANGED <<fileVars, loader, index, sentSeq, sending, shown, presses, handled,
                 executions, adopted, unread, relaunched, launches, boots>>

(* Right and Left. *)
ChooseCandidate ==
  /\ On /\ loader = "menu" /\ active
  /\ index' \in {NextCandidate(index, Len(Listed)), PrevCandidate(index, Len(Listed))}
  /\ UNCHANGED <<fileVars, loader, active, sentSeq, sending, shown, kernelVars,
                 historyVars>>

(* probe_send_candidate: the request file is truncated, ... *)
BeginSend ==
  /\ On /\ loader = "menu" /\ active
  /\ Len(presses) < MaxPresses
  /\ presses' = Append(presses, Listed[index + 1])
  /\ sending' = [seq |-> sentSeq + 1, press |-> Len(presses) + 1]
  /\ request' = Nothing
  /\ loader' = "send"
  /\ UNCHANGED <<response, tried, active, index, sentSeq, shown, kernelVars, handled,
                 executions, started, adopted, unread, relaunched, launches,
                 boots>>

(* ... and written, ... *)
FinishSend ==
  /\ On /\ loader = "send"
  /\ request' = sending
  /\ sentSeq' = sending.seq
  /\ loader' = "menu"
  /\ UNCHANGED <<response, tried, active, index, sending, shown, kernelVars, historyVars>>

(* ... or not: the sequence number is used again by the next press. *)
SendFails ==
  /\ On /\ loader = "send"
  /\ loader' = "menu"
  /\ UNCHANGED <<fileVars, active, index, sentSeq, sending, shown, kernelVars, historyVars>>

(* probe_poll_response *)
PollResponse ==
  /\ On /\ loader = "menu" /\ active
  /\ response # Nothing
  /\ shown' = response
  /\ UNCHANGED <<fileVars, loader, active, index, sentSeq, sending, kernelVars, historyVars>>

LoaderGone ==
  /\ loader' = "off"
  /\ active' = FALSE
  /\ index' = 0
  /\ sentSeq' = 0
  /\ sending' = Nothing
  /\ shown' = Nothing

(* Start, or the application is closed wherever it is. *)
Close ==
  /\ On /\ loader # "off"
  /\ LoaderGone
  /\ UNCHANGED <<fileVars, kernelVars, historyVars>>

Loader ==
  \/ Launch \/ RemoveResponse \/ PressLoad \/ ChooseCandidate
  \/ BeginSend \/ FinishSend \/ SendFails \/ PollResponse \/ Close

-----------------------------------------------------------------------------
(* The probe thread. *)

OpenLog ==
  /\ kernel = "wait"
  /\ log' \in BOOLEAN
  /\ kernel' = "adopt"
  /\ UNCHANGED <<fileVars, loaderVars, running, lastSeq, taken, historyVars>>

(* Mutant of Adopt: the request found at the start is not adopted. *)
AdoptNothing ==
  /\ kernel = "adopt"
  /\ kernel' = "poll"
  /\ UNCHANGED <<fileVars, loaderVars, running, lastSeq, taken, log, historyVars>>

(* A request that is there already counts as seen, if it can be read. *)
Adopt ==
  /\ kernel = "adopt"
  /\ kernel' = "poll"
  /\ adopted' = request.press
  /\ \/ lastSeq' = request.seq /\ UNCHANGED unread
     \/ request # Nothing /\ unread' = TRUE /\ UNCHANGED lastSeq
  /\ UNCHANGED <<fileVars, loaderVars, running, taken, log, presses, handled,
                 executions, started, relaunched, launches, boots>>

IsNew == request.seq # lastSeq

(* Mutant of TakeRequest: last_seq is not updated. *)
TakeForgetsSeq ==
  /\ kernel = "poll" /\ running
  /\ request # Nothing /\ IsNew
  /\ taken' = request
  /\ IF RequestValid(presses[request.press])
       THEN kernel' = "log" /\ UNCHANGED handled
       ELSE kernel' = "truncate" /\ handled' = handled \cup {request.press}
  /\ UNCHANGED <<fileVars, loaderVars, running, lastSeq, log, presses,
                 executions, started, adopted, unread, relaunched, launches,
                 boots>>

(* A new request is taken, to be executed or rejected. *)
TakeRequest ==
  /\ kernel = "poll" /\ running
  /\ request # Nothing /\ IsNew
  /\ lastSeq' = request.seq
  /\ taken' = request
  /\ IF RequestValid(presses[request.press])
       THEN kernel' = "log" /\ UNCHANGED handled
       ELSE kernel' = "truncate" /\ handled' = handled \cup {request.press}
  /\ UNCHANGED <<fileVars, loaderVars, running, log, presses, executions,
                 started, adopted, unread, relaunched, launches, boots>>

(* Mutant of PollInVain: what is in the file counts as seen. *)
PollMarksSeen ==
  /\ kernel = "poll" /\ running
  /\ lastSeq' = request.seq
  /\ kernel' = "delay"
  /\ UNCHANGED <<fileVars, loaderVars, running, taken, log, historyVars>>

(* There is none, or the file cannot be read this time. *)
PollInVain ==
  /\ kernel = "poll" /\ running
  /\ kernel' = "delay"
  /\ UNCHANGED <<fileVars, loaderVars, running, lastSeq, taken, log, historyVars>>

(* Mutant of LogTry: the line is not synced. *)
LogTryUnsynced ==
  /\ kernel = "log"
  /\ kernel' = "execute"
  /\ UNCHANGED <<fileVars, loaderVars, running, lastSeq, taken, log, historyVars>>

(* runtime_probe_log_request *)
LogTry ==
  /\ kernel = "log"
  /\ tried' = IF log THEN taken.press ELSE tried
  /\ kernel' = "execute"
  /\ UNCHANGED <<request, response, loaderVars, running, lastSeq, taken, log,
                 historyVars>>

(* runtime_probe_execute *)
Execute ==
  /\ kernel = "execute"
  /\ executions' = [executions EXCEPT ![taken.press] = @ + 1]
  /\ handled' = handled \cup {taken.press}
  /\ kernel' = "executing"
  /\ UNCHANGED <<fileVars, loaderVars, running, lastSeq, taken, log, presses,
                 started, adopted, unread, relaunched, launches, boots>>

Executed ==
  /\ kernel = "executing"
  /\ kernel' = "truncate"
  /\ UNCHANGED <<fileVars, loaderVars, running, lastSeq, taken, log, historyVars>>

(* runtime_probe_write_response: the file is truncated, or cannot be opened, *)
TruncateResponse ==
  /\ kernel = "truncate"
  /\ \/ response' = Nothing /\ kernel' = "respond"
     \/ kernel' = "delay" /\ UNCHANGED response
  /\ UNCHANGED <<request, tried, loaderVars, running, lastSeq, taken, log,
                 historyVars>>

(* ... and the response is written, or lost: nobody looks at the result. *)
WriteResponse ==
  /\ kernel = "respond"
  /\ response' \in {taken, Nothing}
  /\ kernel' = "delay"
  /\ UNCHANGED <<request, tried, loaderVars, running, lastSeq, taken, log,
                 historyVars>>

(* Any pass may be the last one of the loop's count. *)
EndDelay ==
  /\ kernel = "delay"
  /\ running' \in {running, FALSE}
  /\ taken' = Nothing
  /\ kernel' = "poll"
  /\ UNCHANGED <<fileVars, loaderVars, lastSeq, log, historyVars>>

LeaveLoop ==
  /\ kernel = "poll" /\ ~running
  /\ kernel' = "exited"
  /\ UNCHANGED <<fileVars, loaderVars, running, lastSeq, taken, log, historyVars>>

ProbeThread ==
  \/ OpenLog \/ Adopt \/ TakeRequest \/ PollInVain \/ LogTry \/ Execute
  \/ Executed \/ TruncateResponse \/ WriteResponse \/ EndDelay \/ LeaveLoop

-----------------------------------------------------------------------------
(* The console. *)

(* The plugin is loaded at boot and finds a configuration for the probe. *)
LoadAtBoot ==
  /\ On /\ loader = "off"
  /\ StartProbe
  /\ UNCHANGED <<fileVars, loaderVars, presses, handled, executions, adopted,
                 unread, relaunched, launches, boots>>

(* module_stop *)
ModuleStop ==
  /\ On /\ Resident
  /\ running' = FALSE
  /\ UNCHANGED <<fileVars, loaderVars, kernel, lastSeq, taken, log, historyVars>>

(* The command that is executed freezes the hardware. *)
Freeze ==
  /\ kernel = "executing"
  /\ kernel' = "frozen"
  /\ UNCHANGED <<fileVars, loaderVars, running, lastSeq, taken, log, historyVars>>

Reboot ==
  /\ boots < MaxBoots
  /\ boots' = boots + 1
  /\ LoaderGone
  /\ kernel' = "absent"
  /\ running' = FALSE
  /\ lastSeq' = 0
  /\ taken' = Nothing
  /\ log' = FALSE
  /\ relaunched' = FALSE
  /\ UNCHANGED <<fileVars, presses, handled, executions, started, adopted,
                 unread, launches>>

Console == LoadAtBoot \/ ModuleStop \/ Freeze \/ Reboot

Next == Loader \/ ProbeThread \/ Console

Spec == Init /\ [][Next]_probeVars

(* The probe thread goes on, and a file that is there can be read some time. *)
FairSpec ==
  /\ Spec
  /\ WF_probeVars(ProbeThread)
  /\ SF_probeVars(TakeRequest)

-----------------------------------------------------------------------------
(* One press, one command: whatever is closed, launched again, frozen or    *)
(* rebooted, no press is executed twice, unless the request file could not  *)
(* be read when the thread started (dev/runtime_probe.h 10-13,              *)
(* dev/main.c 1334-1344).                                                   *)
AtMostOnce ==
  ~unread => \A p \in Presses : executions[p] <= 1

(* An old file never fires a command: what is executed was pressed after    *)
(* the thread was started, with the same exception (dev/main.c 1334-1338).  *)
StaleNeverFires ==
  [][\A p \in Presses :
       executions'[p] > executions[p] => p > started \/ unread]_probeVars

(* A freeze leaves evidence of the command that caused it: the last line    *)
(* that is safe in probe.log names it (dev/main.c 1270-1271, 1346-1347).    *)
FreezeLeavesEvidence ==
  kernel = "frozen" /\ log => tried = taken.press

(* Nothing that froze the hardware or broke touch before is ever executed   *)
(* (dev/runtime_probe.h 31-35, 113-151).                                    *)
WhitelistHolds ==
  \A p \in Presses : executions[p] > 0 => ~Banned(presses[p])

(* The response the loader shows without its note "waiting for new seq" is  *)
(* the answer to the last press, unless the plugin was resident before this *)
(* loader (dev/loader/main.c 298-310, 344-364).                             *)
ShownIsOurs ==
  loader = "menu" /\ ~relaunched /\ sending.seq = sentSeq
    /\ shown # Nothing /\ shown.seq = sentSeq
      => shown.press = sending.press

(* Press p is in the file since the thread is in its loop. *)
Offered(p) ==
  request.press = p /\ p > started /\ p # adopted /\ kernel \in Looping /\ running

(* A press is answered by silence only if it is overtaken, the thread ends, *)
(* or the hardware does, as long as its number is not the one the thread    *)
(* saw last (dev/main.c 1340-1345).                                         *)
NewPressIsHandled ==
  \A p \in Presses :
    Offered(p) /\ request.seq # lastSeq ~> p \in handled \/ ~Offered(p)

(* What the loader's screen says after a failed load: sends still work.     *)
(* Refuted: a loader launched again starts over at 1, which may be what the *)
(* thread saw last; that press is never handled.                            *)
SendsStillWork ==
  \A p \in Presses : Offered(p) ~> p \in handled \/ ~Offered(p)
=============================================================================
