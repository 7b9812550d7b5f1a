------------------------- MODULE RuntimeProbeProofs -------------------------
(***************************************************************************)
(* Proofs about RuntimeProbe: one press is one command, an old file never  *)
(* fires one, nothing banned is executed, a freeze leaves evidence, and    *)
(* what the loader shows is the answer to its own press.  They hold for    *)
(* any list of candidates and any number of presses, launches and boots.   *)
(***************************************************************************)
EXTENDS RuntimeProbe, TLAPS

Entries == [seq : Nat, press : Nat]

(* A file, or what was read from one, after n presses: nothing, or one of   *)
(* them.                                                                    *)
Entry(e, n) ==
  /\ e \in Entries
  /\ e = Nothing \/ (e.seq > 0 /\ e.press \in 1..n)

KernelPlaces ==
  Looping \cup {"absent", "wait", "adopt", "exited", "frozen"}

PressesOK ==
  /\ presses \in Seq(Requests)
  /\ Len(presses) \in 0..MaxPresses
  /\ started \in 0..Len(presses)

FilesOK ==
  /\ Entry(request, Len(presses))
  /\ Entry(response, Len(presses))

LoaderOK ==
  /\ index \in 0..(Len(Listed) - 1)
  /\ sentSeq \in Nat
  /\ Entry(sending, Len(presses))
  /\ Entry(shown, Len(presses))

KernelOK ==
  /\ kernel \in KernelPlaces
  /\ lastSeq \in Nat
  /\ Entry(taken, Len(presses))
  /\ kernel \in {"log", "execute", "executing", "frozen"} => taken # Nothing

HistoryOK == executions \in [Presses -> Nat]

TypeOK == PressesOK /\ FilesOK /\ LoaderOK /\ KernelOK /\ HistoryOK

-----------------------------------------------------------------------------
(* The whitelist lets nothing banned through (dev/runtime_probe.h 113-151). *)
LEMMA ValidIsNotBanned ==
  ASSUME NEW r, RequestValid(r)
  PROVE  ~Banned(r)
BY DEF RequestValid, Banned, KnownDevice, UsesTimes, Ping, CtrlLed, DolceLed,
  ChargeLedCtrl, PowerLedFlag, LedSetMode, RawSysconCmd, LedBlinkType2, PwmBlink,
  Device40, DolceOffCmd

(* Right and Left stay in the list (dev/loader/main.c 377-386). *)
LEMMA NeighbourInRange ==
  ASSUME NEW count \in Nat \ {0}, NEW i \in 0..(count - 1)
  PROVE  /\ NextCandidate(i, count) \in 0..(count - 1)
         /\ PrevCandidate(i, count) \in 0..(count - 1)
BY DEF NextCandidate, PrevCandidate

(* A new press is the last one, and those before it stay what they were. *)
LEMMA PressesGrow ==
  ASSUME NEW s \in Seq(Requests), NEW r \in Requests
  PROVE  /\ Append(s, r) \in Seq(Requests)
         /\ Len(Append(s, r)) = Len(s) + 1
         /\ \A i \in 1..Len(s) : Append(s, r)[i] = s[i]
OBVIOUS

LEMMA NothingIsEntry ==
  /\ Nothing.seq = 0
  /\ Nothing.press = 0
  /\ \A n \in Nat : Entry(Nothing, n)
BY DEF Nothing, Entry, Entries

(* What was an entry stays one when a press is added. *)
LEMMA EntryStays ==
  ASSUME NEW n \in Nat, NEW e, Entry(e, n)
  PROVE  Entry(e, n + 1)
BY DEF Entry

(* The thread writes nothing that is the loader's, ... *)
LEMMA ThreadAside ==
  ProbeThread => UNCHANGED <<loaderVars, request, presses, started, relaunched>>
BY DEF ProbeThread, OpenLog, Adopt, TakeRequest, PollInVain, LogTry, Execute, Executed,
  TruncateResponse, WriteResponse, EndDelay, LeaveLoop, fileVars, loaderVars,
  historyVars

(* ... nor the loader what is the thread's: it can only start it.           *)
LEMMA LoaderAside ==
  Loader =>
    /\ UNCHANGED <<tried, executions, unread>>
    /\ ~PressLoad => UNCHANGED <<kernelVars, started>>
    /\ PressLoad => UNCHANGED <<fileVars, loader, index, sentSeq, sending, shown,
                                presses, relaunched>>
BY DEF Loader, Launch, RemoveResponse, PressLoad, ChooseCandidate, BeginSend,
  FinishSend, SendFails, PollResponse, Close, fileVars, loaderVars, kernelVars,
  historyVars

LEMMA InitTyped == Init => TypeOK
<1> SUFFICES ASSUME Init PROVE TypeOK
  OBVIOUS
<1>1. PressesOK
  BY ProbeAssumption DEF ProbeAssumption, Init, PressesOK
<1>2. Len(Listed) \in Nat \ {0}
  BY ProbeAssumption DEF ProbeAssumption
<1>3. FilesOK /\ LoaderOK
  BY <1>1, <1>2, NothingIsEntry DEF Init, PressesOK, FilesOK, LoaderOK
<1>4. KernelOK /\ HistoryOK
  BY <1>1, NothingIsEntry DEF Init, PressesOK, KernelOK, HistoryOK, KernelPlaces
<1> QED
  BY <1>1, <1>3, <1>4 DEF TypeOK

-----------------------------------------------------------------------------
(* A press is made by BeginSend alone. *)
LEMMA PressesStep ==
  ASSUME TypeOK, [Next]_probeVars
  PROVE  /\ PressesOK'
         /\ \A p \in 1..Len(presses) : presses'[p] = presses[p]
         /\ BeginSend => Len(presses') = Len(presses) + 1
         /\ ~BeginSend => presses' = presses
<1> USE DEF TypeOK, PressesOK, fileVars, loaderVars, kernelVars, historyVars
<1>1. CASE BeginSend
  <2>1. Listed[index + 1] \in Requests
    BY ProbeAssumption DEF ProbeAssumption, LoaderOK
  <2>2. /\ presses' \in Seq(Requests)
        /\ Len(presses') = Len(presses) + 1
        /\ \A p \in 1..Len(presses) : presses'[p] = presses[p]
    BY <1>1, <2>1, PressesGrow DEF BeginSend
  <2> QED
    BY <1>1, <2>2, ProbeAssumption DEF BeginSend, ProbeAssumption
<1>2. CASE ~BeginSend
  <2>1. presses' = presses
    BY <1>2 DEF Next, Loader, ProbeThread, Console, Launch, RemoveResponse, PressLoad,
      ChooseCandidate, FinishSend, SendFails, PollResponse, Close, OpenLog, Adopt,
      TakeRequest, PollInVain, LogTry, Execute, Executed, TruncateResponse,
      WriteResponse, EndDelay, LeaveLoop, LoadAtBoot, ModuleStop, Freeze, Reboot,
      probeVars
  <2>2. started' = started \/ started' = Len(presses)
    BY <1>2, LoaderAside, ThreadAside DEF Next, Console, PressLoad, LoadAtBoot,
      StartProbe, ModuleStop, Freeze, Reboot, probeVars
  <2> QED
    BY <1>2, <2>1, <2>2
<1> QED
  BY <1>1, <1>2

(* How many presses there are after a step. *)
LEMMA PressCount ==
  ASSUME TypeOK, [Next]_probeVars
  PROVE  \A e : Entry(e, Len(presses)) => Entry(e, Len(presses'))
BY PressesStep, EntryStays DEF TypeOK, PressesOK

LEMMA StepTyped == TypeOK /\ [Next]_probeVars => TypeOK'
<1> SUFFICES ASSUME TypeOK, [Next]_probeVars PROVE TypeOK'
  OBVIOUS
<1>1. PressesOK'
  BY PressesStep
<1> DEFINE Good(e) == Entry(e, Len(presses'))
<1>2. Good(Nothing) /\ \A e : Entry(e, Len(presses)) => Good(e)
  BY <1>1, PressCount, NothingIsEntry DEF PressesOK
<1>3. /\ Good(request) /\ Good(response) /\ Good(sending) /\ Good(shown)
      /\ Good(taken)
  BY <1>2 DEF TypeOK, FilesOK, LoaderOK, KernelOK
<1> HIDE DEF Good
<1>4. FilesOK'
  <2>1. Good(request') /\ Good(response')
    BY <1>2, <1>3 DEF Next, Loader, ProbeThread, Console, Launch, RemoveResponse,
      PressLoad, ChooseCandidate, BeginSend, FinishSend, SendFails, PollResponse, Close,
      OpenLog, Adopt, TakeRequest, PollInVain, LogTry, Execute, Executed,
      TruncateResponse, WriteResponse, EndDelay, LeaveLoop, LoadAtBoot, ModuleStop,
      Freeze, Reboot, probeVars, fileVars
  <2> QED
    BY <2>1 DEF Good, FilesOK
<1>5. LoaderOK'
  <2>1. index' \in 0..(Len(Listed) - 1)
    <3>1. Len(Listed) \in Nat \ {0}
      BY ProbeAssumption DEF ProbeAssumption
    <3>2. index \in 0..(Len(Listed) - 1)
      BY DEF TypeOK, LoaderOK
    <3>3. CASE ChooseCandidate
      BY <3>1, <3>2, <3>3, NeighbourInRange DEF ChooseCandidate
    <3>4. CASE Loader /\ ~ChooseCandidate
      BY <3>1, <3>2, <3>4 DEF Loader, Launch, RemoveResponse, PressLoad, BeginSend,
        FinishSend, SendFails, PollResponse, Close, LoaderGone, loaderVars
    <3>5. CASE ProbeThread \/ Console \/ UNCHANGED probeVars
      BY <3>1, <3>2, <3>5, ThreadAside DEF Console, LoadAtBoot, ModuleStop, Freeze,
        Reboot, LoaderGone, probeVars, loaderVars
    <3> QED
      BY <3>3, <3>4, <3>5 DEF Next
  <2>2. Good(sending') /\ Good(shown') /\ sentSeq' \in Nat
    <3>1. CASE BeginSend
      <4>1. Len(presses') = Len(presses) + 1
        BY <3>1, PressesStep
      <4>2. Good(sending')
        BY <3>1, <4>1 DEF BeginSend, Good, Entry, Entries, TypeOK, PressesOK, LoaderOK
      <4> QED
        BY <1>3, <3>1, <4>2 DEF BeginSend, TypeOK, LoaderOK
    <3>2. CASE FinishSend
      BY <1>3, <3>2 DEF FinishSend, TypeOK, LoaderOK, Entry, Entries
    <3>3. CASE Loader /\ ~BeginSend /\ ~FinishSend
      BY <1>2, <1>3, <3>3 DEF Loader, Launch, RemoveResponse, PressLoad,
        ChooseCandidate, SendFails, PollResponse, Close, LoaderGone, TypeOK, LoaderOK
    <3>4. CASE ProbeThread \/ Console \/ UNCHANGED probeVars
      BY <1>2, <1>3, <3>4, ThreadAside DEF Console, LoadAtBoot, ModuleStop, Freeze,
        Reboot, LoaderGone, probeVars, loaderVars, TypeOK, LoaderOK
    <3> QED
      BY <3>1, <3>2, <3>3, <3>4 DEF Next
  <2> QED
    BY <2>1, <2>2 DEF Good, LoaderOK
<1>6. KernelOK'
  <2>1. request.seq \in Nat
    BY DEF TypeOK, FilesOK, Entry, Entries
  <2> USE DEF kernelVars, historyVars, KernelPlaces, Looping
  <2>2. CASE Launch \/ RemoveResponse \/ PressLoad \/ ChooseCandidate \/ BeginSend
             \/ FinishSend \/ SendFails \/ PollResponse \/ Close
    BY <1>3, <2>2 DEF Good, Launch, RemoveResponse, PressLoad, StartProbe,
      ChooseCandidate, BeginSend, FinishSend, SendFails, PollResponse, Close, TypeOK,
      KernelOK
  <2>3. CASE OpenLog \/ Adopt \/ TakeRequest \/ PollInVain \/ LogTry
    BY <1>3, <2>1, <2>3 DEF Good, OpenLog, Adopt, TakeRequest, PollInVain, LogTry,
      TypeOK, KernelOK
  <2>4. CASE Execute \/ Executed \/ TruncateResponse \/ WriteResponse \/ EndDelay
             \/ LeaveLoop
    BY <1>2, <1>3, <2>4 DEF Good, Execute, Executed, TruncateResponse, WriteResponse,
      EndDelay, LeaveLoop, TypeOK, KernelOK
  <2>5. CASE Console \/ UNCHANGED probeVars
    BY <1>2, <1>3, <2>5 DEF Good, Console, LoadAtBoot, StartProbe, ModuleStop, Freeze,
      Reboot, probeVars, TypeOK, KernelOK
  <2> QED
    BY <2>2, <2>3, <2>4, <2>5 DEF Next, Loader, ProbeThread
<1>7. HistoryOK'
  <2> USE DEF historyVars, HistoryOK
  <2>1. CASE Execute
    <3>1. taken.press \in Presses
      <4>1. taken.press \in 1..Len(presses)
        BY <2>1 DEF Execute, TypeOK, KernelOK, Entry
      <4> QED
        BY <4>1, ProbeAssumption DEF ProbeAssumption, TypeOK, PressesOK, Presses
    <3> QED
      BY <2>1, <3>1 DEF Execute, TypeOK
  <2>2. CASE ~Execute
    BY <2>2 DEF Next, Loader, ProbeThread, Console, Launch, RemoveResponse, PressLoad,
      ChooseCandidate, BeginSend, FinishSend, SendFails, PollResponse, Close, OpenLog,
      Adopt, TakeRequest, PollInVain, LogTry, Executed, TruncateResponse,
      WriteResponse, EndDelay, LeaveLoop, LoadAtBoot, ModuleStop, Freeze, Reboot,
      probeVars, TypeOK
  <2> QED
    BY <2>1, <2>2
<1> QED
  BY <1>1, <1>4, <1>5, <1>6, <1>7 DEF TypeOK

(* Every variable has its type whatever the two programs do with the two    *)
(* files, and what is in a file, in hand or on the screen names a press     *)
(* that was made (runtime_probe_thread, probe_send_candidate).              *)
THEOREM ProbeTyped == Spec => []TypeOK
BY InitTyped, StepTyped, PTL DEF Spec

-----------------------------------------------------------------------------
(* What the thread works on is a press that passed the whitelist, and so is *)
(* everything it executed.                                                  *)
WhitelistInv ==
  /\ kernel \in {"log", "execute"} => RequestValid(presses[taken.press])
  /\ \A p \in Presses : executions[p] > 0 =>
       p <= Len(presses) /\ RequestValid(presses[p])

(* Nothing banned is ever executed, whatever list the loader offers         *)
(* (noled_runtime_probe_request_valid, runtime_probe_thread).               *)
THEOREM WhitelistIsFinal == Spec => []WhitelistHolds
<1>1. Init => WhitelistInv
  BY DEF Init, WhitelistInv
<1>2. TypeOK /\ WhitelistInv /\ [Next]_probeVars => WhitelistInv'
  <2> SUFFICES ASSUME TypeOK, WhitelistInv, [Next]_probeVars PROVE WhitelistInv'
    OBVIOUS
  <2>1. /\ Len(presses) \in Nat /\ Len(presses') \in Nat
        /\ Len(presses) <= Len(presses')
        /\ \A p \in 1..Len(presses) : presses'[p] = presses[p]
    BY PressesStep DEF TypeOK, PressesOK
  <2>2. kernel \in {"log", "execute"} => taken.press \in 1..Len(presses)
    BY DEF TypeOK, KernelOK, Entry
  <2>3. (kernel \in {"log", "execute"} => RequestValid(presses[taken.press]))'
    <3>1. CASE TakeRequest
      BY <3>1 DEF TakeRequest
    <3>2. CASE ~TakeRequest /\ ProbeThread
      BY <3>2, ThreadAside DEF ProbeThread, OpenLog, Adopt, PollInVain, LogTry,
        Execute, Executed, TruncateResponse, WriteResponse, EndDelay, LeaveLoop,
        WhitelistInv
    <3>3. CASE Loader
      BY <2>1, <2>2, <3>3, LoaderAside DEF PressLoad, StartProbe, kernelVars,
        WhitelistInv
    <3>4. CASE Console \/ UNCHANGED probeVars
      BY <2>1, <2>2, <3>4 DEF Console, LoadAtBoot, StartProbe, ModuleStop, Freeze,
        Reboot, probeVars, kernelVars, historyVars, WhitelistInv
    <3> QED
      BY <3>1, <3>2, <3>3, <3>4 DEF Next
  <2>4. ASSUME NEW p \in Presses, executions'[p] > 0
        PROVE  p <= Len(presses') /\ RequestValid(presses'[p])
    <3>0. p \in Nat /\ p > 0
      BY DEF Presses
    <3>1. CASE Execute
      BY <2>1, <2>2, <2>4, <3>0, <3>1 DEF Execute, WhitelistInv, TypeOK, HistoryOK
    <3>2. CASE ~Execute
      <4>1. executions' = executions
        BY <3>2, LoaderAside DEF Next, ProbeThread, OpenLog, Adopt, TakeRequest,
          PollInVain, LogTry, Executed, TruncateResponse, WriteResponse, EndDelay,
          LeaveLoop, Console, LoadAtBoot, ModuleStop, Freeze, Reboot, probeVars,
          historyVars
      <4> QED
        BY <2>1, <2>4, <3>0, <4>1 DEF WhitelistInv
    <3> QED
      BY <3>1, <3>2
  <2> QED
    BY <2>3, <2>4 DEF WhitelistInv
<1>3. WhitelistInv => WhitelistHolds
  BY ValidIsNotBanned DEF WhitelistInv, WhitelistHolds
<1> QED
  BY <1>1, <1>2, <1>3, ProbeTyped, PTL DEF Spec

-----------------------------------------------------------------------------
(* The line with the command is safe before the command is sent.            *)
EvidenceInv ==
  kernel \in {"execute", "executing", "frozen"} /\ log => tried = taken.press

(* A freeze leaves the name of the command that caused it in probe.log, as  *)
(* the line is synced before the command is sent (runtime_probe_thread).    *)
THEOREM FreezeIsExplained == Spec => []FreezeLeavesEvidence
<1>1. Init => EvidenceInv
  BY DEF Init, EvidenceInv
<1>2. EvidenceInv /\ [Next]_probeVars => EvidenceInv'
  <2> SUFFICES ASSUME EvidenceInv, [Next]_probeVars PROVE EvidenceInv'
    OBVIOUS
  <2> USE DEF EvidenceInv
  <2>1. CASE Loader
    BY <2>1, LoaderAside DEF PressLoad, StartProbe, kernelVars
  <2>2. CASE ProbeThread
    BY <2>2 DEF ProbeThread, OpenLog, Adopt, TakeRequest, PollInVain, LogTry, Execute,
      Executed, TruncateResponse, WriteResponse, EndDelay, LeaveLoop, fileVars
  <2>3. CASE Console \/ UNCHANGED probeVars
    BY <2>3 DEF Console, LoadAtBoot, StartProbe, ModuleStop, Freeze, Reboot, probeVars,
      fileVars, kernelVars
  <2> QED
    BY <2>1, <2>2, <2>3 DEF Next
<1>3. EvidenceInv => FreezeLeavesEvidence
  BY DEF EvidenceInv, FreezeLeavesEvidence
<1> QED
  BY <1>1, <1>2, <1>3, PTL DEF Spec

-----------------------------------------------------------------------------
(* While the loader writes its file the press is the newest one: nobody has *)
(* seen it, and the thread was not started after it was made.               *)
SendingInv ==
  loader = "send" =>
    /\ request = Nothing
    /\ sending # Nothing
    /\ sending.press = Len(presses)
    /\ sending.seq = sentSeq + 1
    /\ taken.press # Len(presses)
    /\ started < Len(presses)
    /\ executions[Len(presses)] = 0

(* No press to come was executed. *)
FutureInv == \A p \in Presses : p > Len(presses) => executions[p] = 0

(* A request that has not the number seen last was made after the thread    *)
(* was started, was never executed and is not the one being executed.       *)
NewIsFresh ==
  kernel \in Looping /\ request # Nothing /\ IsNew =>
    /\ request.press > started
    /\ executions[request.press] = 0
    /\ request.press # taken.press

(* So is the one the thread is about to execute. *)
TakenIsFresh ==
  kernel \in {"log", "execute"} =>
    taken.press > started /\ executions[taken.press] = 0

OnceInv ==
  /\ FutureInv
  /\ SendingInv
  /\ ~unread => NewIsFresh /\ TakenIsFresh /\ AtMostOnce

(* Only Execute executes, and only what was taken. *)
LEMMA ExecutionsStep ==
  ASSUME TypeOK, [Next]_probeVars
  PROVE  /\ ~Execute => executions' = executions
         /\ Execute => /\ taken.press \in Presses
                       /\ executions'[taken.press] = executions[taken.press] + 1
                       /\ \A p \in Presses : p # taken.press =>
                            executions'[p] = executions[p]
<1>1. CASE Execute
  <2>1. taken.press \in 1..Len(presses)
    BY <1>1 DEF Execute, TypeOK, KernelOK, Entry
  <2>2. taken.press \in Presses
    BY <2>1, ProbeAssumption DEF ProbeAssumption, TypeOK, PressesOK, Presses
  <2> QED
    BY <1>1, <2>2 DEF Execute, TypeOK, HistoryOK
<1>2. CASE ~Execute
  BY <1>2, LoaderAside DEF Next, ProbeThread, OpenLog, Adopt, TakeRequest, PollInVain,
    LogTry, Executed, TruncateResponse, WriteResponse, EndDelay, LeaveLoop, Console,
    LoadAtBoot, ModuleStop, Freeze, Reboot, probeVars, historyVars
<1> QED
  BY <1>1, <1>2

LEMMA OnceStep == TypeOK /\ OnceInv /\ [Next]_probeVars => OnceInv'
<1> SUFFICES ASSUME TypeOK, OnceInv, [Next]_probeVars PROVE OnceInv'
  OBVIOUS
<1>1. /\ Len(presses) \in Nat
      /\ started \in 0..Len(presses)
      /\ 1..Len(presses) \subseteq Presses
      /\ executions \in [Presses -> Nat]
      /\ taken.press \in 0..Len(presses)
      /\ request.press \in 0..Len(presses)
      /\ kernel \in {"log", "execute"} => taken.press \in 1..Len(presses)
  BY ProbeAssumption, NothingIsEntry DEF ProbeAssumption, TypeOK, PressesOK, FilesOK,
    KernelOK, HistoryOK, Entry, Presses
<1>2. FutureInv'
  <2>1. Len(presses') \in Nat /\ Len(presses) <= Len(presses')
    BY <1>1, PressesStep
  <2>2. ASSUME NEW p \in Presses, p > Len(presses') PROVE executions'[p] = 0
    <3>1. p > Len(presses) /\ executions[p] = 0
      BY <1>1, <2>1, <2>2 DEF OnceInv, FutureInv, Presses
    <3>2. Execute => p # taken.press
      BY <1>1, <3>1 DEF Presses
    <3> QED
      BY <3>1, <3>2, ExecutionsStep
  <2> QED
    BY <2>2 DEF FutureInv
<1>3. SendingInv'
  <2> USE DEF OnceInv, SendingInv
  <2>1. CASE BeginSend
    <3>1. Len(presses') \in Presses /\ Len(presses') = Len(presses) + 1
      BY <2>1, PressesStep, ProbeAssumption DEF ProbeAssumption, PressesOK, Presses
    <3>2. /\ request' = Nothing
          /\ sending' = [seq |-> sentSeq + 1, press |-> Len(presses) + 1]
          /\ sentSeq' = sentSeq /\ taken' = taken /\ started' = started
          /\ executions' = executions
      BY <2>1 DEF BeginSend, kernelVars
    <3>3. sending' # Nothing
      BY <1>1, <3>2 DEF Nothing
    <3>4. executions[Len(presses')] = 0
      BY <1>1, <3>1 DEF FutureInv
    <3> QED
      BY <1>1, <3>1, <3>2, <3>3, <3>4
  <2>2. CASE Loader /\ ~BeginSend
    BY <2>2, LoaderAside, PressesStep DEF Loader, Launch, RemoveResponse, PressLoad,
      ChooseCandidate, FinishSend, SendFails, PollResponse, Close, LoaderGone,
      kernelVars
  <2>3. CASE ProbeThread
    <3>1. loader = "send" => (taken' = taken \/ taken' = Nothing)
      BY <2>3 DEF ProbeThread, OpenLog, Adopt, TakeRequest, PollInVain, LogTry,
        Execute, Executed, TruncateResponse, WriteResponse, EndDelay, LeaveLoop
    <3>2. loader = "send" => Len(presses) \in Presses /\ Len(presses) # 0
      BY <1>1
    <3>3. loader = "send" => executions'[Len(presses)] = executions[Len(presses)]
      BY <3>2, ExecutionsStep
    <3> QED
      BY <1>1, <2>3, <3>1, <3>2, <3>3, ThreadAside, NothingIsEntry DEF loaderVars
  <2>4. CASE Console \/ UNCHANGED probeVars
    BY <2>4 DEF Console, LoadAtBoot, ModuleStop, Freeze, Reboot, LoaderGone, probeVars,
      fileVars, loaderVars, kernelVars, historyVars
  <2> QED
    BY <2>1, <2>2, <2>3, <2>4 DEF Next
<1>4. ~unread' => ~unread
  BY LoaderAside DEF Next, ProbeThread, OpenLog, Adopt, TakeRequest, PollInVain, LogTry,
    Execute, Executed, TruncateResponse, WriteResponse, EndDelay, LeaveLoop, Console,
    LoadAtBoot, ModuleStop, Freeze, Reboot, probeVars, historyVars
<1>5. ASSUME ~unread' PROVE NewIsFresh'
  <2>1. NewIsFresh
    BY <1>4, <1>5 DEF OnceInv
  <2>2. request # Nothing => request.press \in Presses /\ request.press # 0
    BY <1>1 DEF TypeOK, FilesOK, Entry
  <2> USE DEF NewIsFresh, IsNew
  <2>3. CASE FinishSend
    BY <1>1, <2>1, <2>3, LoaderAside DEF Loader, FinishSend, PressLoad, OnceInv,
      SendingInv, kernelVars
  <2>4. CASE PressLoad
    BY <2>1, <2>4, LoaderAside DEF Loader, PressLoad, StartProbe, Looping, fileVars,
      kernelVars
  <2>5. CASE Loader /\ ~FinishSend /\ ~PressLoad
    <3>1. request' \in {request, Nothing}
      BY <2>5 DEF Loader, Launch, RemoveResponse, ChooseCandidate, BeginSend, SendFails,
        PollResponse, Close, fileVars
    <3> QED
      BY <2>1, <2>5, <3>1, LoaderAside DEF kernelVars
  <2>6. CASE Execute
    BY <2>1, <2>2, <2>6, ExecutionsStep DEF Execute, Looping, fileVars, historyVars
  <2>7. CASE ProbeThread /\ ~Execute
    <3>1. executions' = executions /\ request' = request /\ started' = started
      BY <2>7, ExecutionsStep, ThreadAside
    <3>2. CASE OpenLog \/ Adopt \/ TakeRequest \/ LeaveLoop
      BY <1>5, <3>1, <3>2 DEF OpenLog, Adopt, TakeRequest, LeaveLoop, Looping
    <3>3. CASE EndDelay
      <4>1. taken'.press = 0
        BY <3>3, NothingIsEntry DEF EndDelay
      <4> QED
        BY <2>1, <2>2, <3>1, <3>3, <4>1 DEF EndDelay, Looping
    <3>4. CASE PollInVain \/ LogTry \/ Executed \/ TruncateResponse \/ WriteResponse
      BY <2>1, <3>1, <3>4 DEF PollInVain, LogTry, Executed, TruncateResponse,
        WriteResponse, Looping
    <3> QED
      BY <2>7, <3>2, <3>3, <3>4 DEF ProbeThread
  <2>8. CASE Console \/ UNCHANGED probeVars
    BY <2>1, <2>8 DEF Console, LoadAtBoot, StartProbe, ModuleStop, Freeze, Reboot,
      Looping, probeVars, fileVars, kernelVars, historyVars
  <2> QED
    BY <2>3, <2>4, <2>5, <2>6, <2>7, <2>8 DEF Next
<1>6. ASSUME ~unread' PROVE AtMostOnce'
  <2>1. TakenIsFresh /\ AtMostOnce
    BY <1>4, <1>6 DEF OnceInv
  <2>2. CASE Execute
    BY <1>1, <1>4, <1>6, <2>1, <2>2, ExecutionsStep DEF Execute, TakenIsFresh,
      AtMostOnce
  <2>3. CASE ~Execute
    BY <1>4, <1>6, <2>1, <2>3, ExecutionsStep DEF AtMostOnce
  <2> QED
    BY <2>2, <2>3
<1>7. ASSUME ~unread' PROVE TakenIsFresh'
  <2>1. NewIsFresh /\ TakenIsFresh
    BY <1>4, <1>7 DEF OnceInv
  <2> USE DEF TakenIsFresh
  <2>3. CASE Loader
    BY <2>1, <2>3, LoaderAside DEF PressLoad, StartProbe, kernelVars
  <2>4. CASE Execute
    BY <2>4 DEF Execute
  <2>5. CASE ProbeThread /\ ~Execute
    <3>1. executions' = executions /\ started' = started
      BY <2>5, ExecutionsStep, ThreadAside
    <3> QED
      BY <2>1, <2>5, <3>1 DEF ProbeThread, OpenLog, Adopt, TakeRequest, PollInVain,
        LogTry, Executed, TruncateResponse, WriteResponse, EndDelay, LeaveLoop,
        NewIsFresh, Looping
  <2>6. CASE Console \/ UNCHANGED probeVars
    BY <2>1, <2>6 DEF Console, LoadAtBoot, StartProbe, ModuleStop, Freeze, Reboot,
      probeVars, kernelVars, historyVars
  <2> QED
    BY <2>3, <2>4, <2>5, <2>6 DEF Next
<1> QED
  BY <1>2, <1>3, <1>5, <1>6, <1>7 DEF OnceInv

LEMMA OnceInvariant == Spec => []OnceInv
<1>1. Init => OnceInv
  BY DEF Init, OnceInv, FutureInv, SendingInv, NewIsFresh, TakenIsFresh, AtMostOnce,
    Looping
<1> QED
  BY <1>1, OnceStep, ProbeTyped, PTL DEF Spec

(* However the loader is closed and launched again, and wherever the        *)
(* console is rebooted, no press is executed twice, unless the thread could *)
(* not read the file it found at its start (runtime_probe_thread and its    *)
(* last_seq).                                                               *)
THEOREM OnePressOneCommand == Spec => []AtMostOnce
<1>1. OnceInv => AtMostOnce
  BY DEF OnceInv, AtMostOnce
<1> QED
  BY <1>1, OnceInvariant, PTL

(* What is executed was pressed after the thread was started, with the same *)
(* exception: a request file from before is adopted, not executed           *)
(* (runtime_probe_thread).                                                  *)
THEOREM OldFilesAreInert == Spec => StaleNeverFires
<1> DEFINE Fires(p) == executions'[p] > executions[p]
<1>1. TypeOK /\ OnceInv /\ [Next]_probeVars
        => [\A p \in Presses : Fires(p) => p > started \/ unread]_probeVars
  <2> SUFFICES ASSUME TypeOK, OnceInv, [Next]_probeVars,
                      NEW p \in Presses, Fires(p), ~unread
               PROVE  p > started
    OBVIOUS
  <2>1. executions[p] \in Nat
    BY DEF TypeOK, HistoryOK
  <2>2. Execute /\ p = taken.press
    BY <2>1, ExecutionsStep
  <2> QED
    BY <2>2 DEF Execute, OnceInv, TakenIsFresh
<1> QED
  BY <1>1, ProbeTyped, OnceInvariant, PTL DEF Spec, StaleNeverFires

-----------------------------------------------------------------------------
(* An entry of this launch's: sent under a number up to the last one used,  *)
(* sent, and under that one only as the press cur, if cur was sent.         *)
Own(e, sent, cur) ==
  e = Nothing \/ (e.seq <= sent /\ (e.seq = sent /\ cur.seq = sent => e.press = cur.press))

AllOwn ==
  /\ Own(request, sentSeq, sending)
  /\ Own(response, sentSeq, sending)
  /\ Own(taken, sentSeq, sending)
  /\ Own(shown, sentSeq, sending)

(* A loader starts with nothing of its own; unless the plugin is resident   *)
(* already it finds nothing of another one either.                          *)
OwnInv ==
  /\ kernel = "absent" => taken = Nothing
  /\ loader \in {"off", "clean"} => sending = Nothing /\ shown = Nothing
  /\ loader = "clean" => request = Nothing
  /\ ~relaunched =>
       /\ loader = "clean" => kernel = "absent"
       /\ loader \in {"menu", "send"} => AllOwn

LEMMA OwnStep ==
  TypeOK /\ SendingInv /\ OwnInv /\ [Next]_probeVars => OwnInv'
<1> SUFFICES ASSUME TypeOK, SendingInv, OwnInv, [Next]_probeVars PROVE OwnInv'
  OBVIOUS
<1>1. /\ sentSeq \in Nat
      /\ request.seq \in Nat /\ response.seq \in Nat /\ taken.seq \in Nat
      /\ shown.seq \in Nat
  BY DEF TypeOK, FilesOK, LoaderOK, KernelOK, Entry, Entries
<1> USE DEF OwnInv, AllOwn, loaderVars, kernelVars, fileVars, historyVars
<1>2. CASE Launch \/ RemoveResponse \/ Close
  BY <1>2 DEF Launch, RemoveResponse, Close, LoaderGone, Resident, Own
<1>3. CASE PressLoad \/ ChooseCandidate \/ SendFails \/ PollResponse
  BY <1>3 DEF PressLoad, StartProbe, ChooseCandidate, SendFails, PollResponse
<1>4. CASE BeginSend
  BY <1>1, <1>4 DEF BeginSend, Own
<1>5. CASE FinishSend
  BY <1>1, <1>5 DEF FinishSend, SendingInv, Own
<1>6. CASE ProbeThread
  <2>1. /\ taken' \in {taken, request, Nothing}
        /\ response' \in {response, taken, Nothing}
        /\ kernel # "absent" /\ kernel' # "absent"
    BY <1>6 DEF ProbeThread, OpenLog, Adopt, TakeRequest, PollInVain, LogTry, Execute,
      Executed, TruncateResponse, WriteResponse, EndDelay, LeaveLoop
  <2>2. \A sent, cur : Own(Nothing, sent, cur)
    BY DEF Own
  <2> QED
    BY <1>6, <2>1, <2>2, ThreadAside
<1>7. CASE Console \/ UNCHANGED probeVars
  BY <1>7 DEF Console, LoadAtBoot, StartProbe, ModuleStop, Freeze, Reboot, LoaderGone,
    probeVars
<1> QED
  BY <1>2, <1>3, <1>4, <1>5, <1>6, <1>7 DEF Next, Loader

(* What the loader shows as the answer to its last press is that answer, if *)
(* the plugin was not resident before this loader: the number alone tells   *)
(* the answer from an older one (probe_poll_response,                       *)
(* probe_delete_stale_files).                                               *)
THEOREM AnswerIsToLastPress == Spec => []ShownIsOurs
<1>1. Init => OwnInv
  BY DEF Init, OwnInv
<1>2. OnceInv => SendingInv
  BY DEF OnceInv
<1>3. OwnInv => ShownIsOurs
  BY DEF OwnInv, AllOwn, Own, ShownIsOurs
<1> QED
  BY <1>1, <1>2, <1>3, OwnStep, ProbeTyped, OnceInvariant, PTL DEF Spec
=============================================================================
