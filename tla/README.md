# noLED in TLA+

noLED is a kernel plugin for the PS Vita that turns the status LEDs off. The
repository holds the released plugin (`src/main.c`, some 190 lines), and, under
`src/dev`, the diagnostic plugin and the loader application that were used to
find out how the LED works. This directory models both, model-checks them with
TLC and proves every safety property that the runs check, for all values of the
constants, with TLAPS.

Line numbers below are those of `src/`. `PROJECT.json` maps each definition to
the lines it stands for, and lists the runs, mutants, hazards, findings and
theorems.

## The system

### Components

| component | code | state | operations | who it meets |
|---|---|---|---|---|
| power LED policy | `main.c` 46-143, `power_led.h` | `running`, `resumed`; the thread's `applied_state`, `loops_since_apply`, `stable_charging`, `last_sample` | the passes of the policy thread, the system event handler, off and release commands | charger, suspend and resume, syscon's single pattern slot |
| GPIO guard | `main.c` 36-44, 152-159, `led_policy.h` | the hook, the LED lines | clear two lines, hook `ksceGpioPortSet` | every caller of `ksceGpioPortSet` |
| start and stop | `main.c` 145-193 | `running` | `module_start`, `module_stop` | both of the above |
| syscon trace | `dev/main.c` 472-829, 1610-1709 | ring of events, `next_seq`, `read_seq`, `running` | record (from hooks on any thread), flush (trace thread), start, stop | syscon callers, the log file |
| runtime probe | `dev/main.c` 1120-1396, `runtime_probe.h` | `last_seq`, `running`, the request and response files | poll, validate, log, execute, respond | the loader, through two files |
| probe screen | `dev/loader/main.c` 262-380, 652-801, `probe_candidates.h` | selected candidate, `sent_seq`, shown response | launch, load, choose, send, poll, close | the probe thread |
| modes and services | `dev/main.c` 1453-1760, 1948-2139, `syscon_experiment_policy.h`, `led_candidate_patch.h` 9-89 | mode, `config_loaded`, `config_checks`, which services run | `module_start` with its early returns, boot thread, late look at the file, `module_stop` | the mode file, the loader, reboots |
| sessions | `dev/loader/main.c` 230-260, 443-491, 610-801 | selected mode, module id, the mode file | choose, commit, load, exit | the plugin, through the mode file |
| packet patches | `dev/main.c` 1761-1796, 1869-1926, 2026-2079, `led_candidate_patch.h`, `dolce_led_policy.h`, `power_led_patch.h` | none but the mode and the hooks | record, patch, pass on, one hook each on three functions of SceSyscon and on the adapter's LED | every driver that sends a packet; the trace thread, which changes the mode |
| command probe plugin | `dev/cmd_probe.c`, `cmd_probe.h` | none | read a request, send one packet of a table, log | the hooks of the diagnostic plugin, if both are loaded |
| GPIO sampler | `dev/main.c` 963-1107 | last values, pass, `running` | sample, log what changed, sync, end | GPIO lines, the power state, a log file |
| GPIO block and trace, module map, trace summary, screens | `dev/` | small or none | blocking and logging, drawing | files |

`PROJECT.json` has the full list with what is not modelled and why.

### Interactions and what is hard

* **Shared flags without locks.** `running` and `resumed` are `volatile int`s
  written by `module_start`, `module_stop` and the event handler and read by
  the policy thread between any two of its statements. The handler may raise
  `resumed` while the thread sits in the delay after which it lowers it.
* **Believed against real state.** The policy thread remembers what it applied.
  Syscon keeps one pattern slot, the OS restores the stock LED behind the
  thread's back on resume, and a command may fail with nobody looking.
* **Hook installation.** A call to `ksceGpioPortSet` may have been dispatched
  before the hook and finish after it.
* **A ring without a lock.** Hooks on any thread and the trace thread itself
  write events; the trace thread reads them while they are overwritten.
* **Two programs and two files.** Loader and plugin exchange requests and
  responses through files that are truncated and then written, that survive
  restarts of either side, and whose only identity is a sequence number the
  loader starts again at 1. The command in between may freeze the console.
* **Packets patched in place.** A hook patches the buffer of its caller. The
  same packet may come through several hooks, as the functions of SceSyscon
  call each other, before or after its checksum was computed, and the caller
  may send its buffer again; meanwhile the trace thread changes the mode.
* **A log of changes.** The GPIO sampler writes a line only for what changed
  and syncs now and then: one line lost or wrong spoils all that follow.
* **A mode file that outlives everything.** It decides what the next boot
  starts; it is written in two steps, writes fail unnoticed, and ux0 may be
  mounted after the plugin has looked.

### What makes each part correct

* policy: boards without the indicator are never touched; the thread's belief
  is true whenever nothing is pending; every resume is handled; the LED is
  right soon after a change and always again after a heartbeat; a charger that
  flaps does not move it; `module_stop` ends the thread.
* guard: once hooked, a dark LED stays dark up to calls already under way, and
  nothing else is blocked.
* start: the thread never leaves by itself, and a start that gets no thread
  leaves nothing behind.
* trace: nothing missed silently, no line from two records, a lost line means
  an overflow, without one the log is complete and whole, nothing forgotten at
  the stop.
* probe: one press at most one command, old files never fire, only whitelisted
  commands run, a freeze leaves evidence, the answer on the screen is the
  answer to the press.
* patches: what goes over the wire has its checksum and is explained by one
  mode, whatever the path; the trace tells of each patch.
* command probe: the line in its log tells what became of the request, whatever
  failed.
* sampler: every pass can be read back from the log, after a freeze all but
  the last few.
* modes: each mode gets the services the documentation gives it and no other,
  also when a read of the file fails in between, a clean exit boots the production mode, the policy is not given up by
  mistake, a late file is honoured.

## The modules

```
PowerLed        slot, patterns, model gate             (operators)
  LedPolicy     policy thread, handler, OS, clock      abstract specification
    LedHistory  + history variables and the timed properties
    LedFlaps    + history of the charger and the property of the debounce
GpioGuard       clears, hook, callers
Noled           module_start/stop over INSTANCEs of LedPolicy and GpioGuard;
                refines LedPolicy
TraceRing       recorders, trace thread, ring, log
ProbeRequest    requests, whitelist, candidates        (operators)
  RuntimeProbe  loader and probe thread, files, console
DevPlugin       mode file, loader sessions, module_start, policy's life
SysconPacket    packets, forms, patches, checksums     (operators)
  SysconHooks   callers, hooks, mode, command probe, wire
GpioSampler     lines, sampler thread, its log
*Proofs         theorems; MC*: constants for TLC
```

`LedProofs` is about `LedPolicy`, `LedHistory` and `LedFlaps`, `SysconProofs`
about `SysconPacket` and `SysconHooks`; every other `XProofs` is about `X`.

### PowerLed, LedPolicy, LedHistory, LedFlaps

`PowerLed` has the patterns of `power_led.h`, the slot as the set of parked
patterns, and what the owner sees (`Led`). The behaviour of syscon is external
and follows `power_led.h` 21-33: a claim replaces what is in the slot; the
all-off pattern for device 1 makes the LED dark; any other content leaves it to
syscon's own policy (orange while charging, otherwise stock).

`LedPolicy` has one action per stretch of `power_led_policy_thread` between two
places where another thread can matter: `WaitInitialized` (97-102, with the
model gate), `RegisterHandler`, `FirstSample`, `Sample` or `LeaveLoop` (111-119),
`CheckResumed` (121-124), `ForgetResume` (125-126), `CommandOk`, `CommandFails`
or `KeepPattern` (129-136), `EndDelay` (138-139). `ResumeEvent` is the handler.
`Start` and `Stop` are `module_start` and `module_stop` as the policy sees them.
The environment is external: `Charger`, `Suspend`, `Wake`, `RestoreStock`. The
registration of the handler works; one that fails (104, not looked at) would
leave resumes to the heartbeat.

Time is explicit. `ksceKernelDelayThread` sets a timer which `Tick` counts
down; a runnable thread runs before the clock advances, so a pass is taken to
be short against one tick. In standby the clock stands still, as threads do.
The delays, the heartbeat and the length of the OS's resume path are constants;
the values of `main.c` 18-20 are 500 ms, 500 ms and 20 loops.

`LedHistory` adds variables that only watch (`quiet`, `fault`, `rewoken`), so
that properties can say "within so many ticks of the last disturbance" and
"unless a resume was swallowed". `LedFlaps` watches the charger instead:
`steady` is the charge state that has held for two passes of the loop, but for
flaps shorter than `Delay` and at least a pass apart; a start, a suspend or a
wake forgets it. So `BriefFlapsIgnored` says nothing of the first pass, which
acts on a single sample taken before the loop (108-109). `MCPowerLed` watches
with both histories at once.

### GpioGuard, Noled

`GpioGuard` takes `module_start` 152-159 as four steps and has callers that
enter `ksceGpioPortSet`, are dispatched to the hook or to the original, and
raise the line. `HookRefused` is the unchecked error of line 154.

`Noled` composes: `GpioSteps`, then `RaiseFlag`, `CreateThread`, `StartThread`
or `NoThread`, `ModuleStop`, next to the steps of both components. The flag is
raised before a thread exists to read it, so the refinement mapping reads it as
`running /\ pc # "absent"`.

### TraceRing

One record is a record of `number` (the sequence number taken) in a ring slot
with three fields that matter: `seq`, and a first and last stretch of payload
(`head`, `tail`) that name the record they came from; a line is mixed when they
differ. `Record(c)` goes through `TakeNumber`, `OpenSlot` (`seq = 0`),
`FillHead`, `FillTail`, `SealSlot`, `Publish` (`next_seq = seq + 1`) without a
lock, and the reader through `NothingToRead`, `SlotNotReady`, `EventFound`,
`WriteEvent`, `WriteLost`, `Reload` (the second and third read of
`event->seq`, 818-820). Stores of the payload before `event->seq = 0` becomes
visible are not reordered by the model: the ring's fields are not volatile, so
the compiler may drop that store, and the model allows it (`OpenDropped`, for
`trace_record_marker_value` and its siblings; it is recorded as "dropped").

The ring has no answer to some races, and the model marks each in `spoilt`:
two recorders at once ("overlap"), a recorder in the reader's slot ("inHand"),
the rewriting, without the store that hides it, of a number still to be read
("dropped"), a slot in work when the last flush reaches it ("cut").
`NothingMissed`, `LinesIntact` and `CompleteAtStop` are stated for runs without them;
`LostMeansOverflow` holds with them. `NoOverrunNoLoss` says where they come from.
It marks one thing more, a number taken whose slot holds one that is still to
be read ("overrun"); on a run with neither overlap nor overrun, no recorder is
ever in the reader's slot, nothing is lost, mixed or missed. What the reader
makes of a slot that changes in its hand, the reread of `event->seq` at 820
included, is in the model and no property is about it: the code has no answer
to it, and no text says what it owes.

The three reads of `event->seq` at 817-819 are two steps, `WriteLost` has the
first two. In one pass the trace thread makes at most one record where the code
may make two (a change of the mode and one of the power state). A write to the
log never fails; the code looks at no result of one.

### ProbeRequest, RuntimeProbe

The files hold a sequence number and which press they came from; `Nothing`
stands for an absent, unreadable or torn file, which the readers treat alike.
`BeginSend` truncates and `FinishSend` or `SendFails` ends a send, `sent_seq`
advancing only in the first (333-341). The thread adopts the sequence number it
finds (1334-1338), then polls, logs the try and syncs it, executes, responds. A
poll may fail for reasons of its own (`PollInVain`). `Freeze` may follow any
execution; only `Reboot` follows a freeze. Of a freeze it is assumed that
it takes unsynced lines of `probe.log` and leaves the request and response files
as they were written, which nobody syncs. `Executed` is the return of
`runtime_probe_execute`; the "done" line that follows the response
(`dev/main.c` 1290-1310) decides nothing and is left out.

`ProbeRequest` also has the loader's list (`Candidates`, `probe_candidates.h`
28-61) and the wrap of Left and Right, `ChooseCandidate` in `RuntimeProbe`. The
list is a constant (`Listed`): the plugin stays resident while loaders come and
go, so it cannot count on the list it was built with; of the list is assumed
only that it has an entry and that entries have the fields of the request
(`Requests`). The run uses one of the real candidates and one request of the form that froze the hardware.

### DevPlugin

All of `module_start` (1972-2123) with its early returns, as the steps
`ReadConfig`, one of the dispatches, `StartTrace`, `RereadConfig`, one look at
the mode for each kind of hooks (`ChooseCommands`, `ChooseDolce`, `ChooseGpio`,
2020-2022), `InstallHooks`. Threads the kernel refuses are a choice. `Refresh` is
`refresh_led_candidate_config` with what the read has `Seen`: the file, or
nothing, as any open or read may fail on a mounted ux0 too (1721-1732) and then
makes the mode 0 (1749). The trace thread calls it on each pass, so the mode of a
running plugin changes under it, between any two of these steps; `missed`
records that a read failed before `module_start` was over. In `services` a hook
counts as started when it was asked for, as nobody looks whether it went in.

The policy thread of the diagnostic plugin keeps its life and its look at the
file (1479-1529), and its last command, the release, may fail (`Release`); which
command is due otherwise is `LedPolicy`'s subject and left open here
(`ApplyOrHold`). The loader chooses a mode, commits it (truncate, then write, either of which may fail
unnoticed), copies and loads the plugin, or leaves with Start. `WriteByHand`
is a user at a file manager, `Reboot` keeps the file and nothing else.
`committed` says whether the write of the mode on the screen worked, which the
loader itself does not look at.

Taken as given: files are written by hand only while the loader is closed and
`module_start` is not under way.

### SysconPacket, SysconHooks

`SysconPacket` has a packet as command, length and bytes from 0 on, as in the
code; the checksum SceSyscon computes (external, `docs/pch2000-power-led-research.md`
74-77); the two forms of command 0x387, what the modes make of them and the
checksum the plugin computes (`led_candidate_patch.h`); the same for 0x89A,
whose patch no program calls; the decision on the adapter's LED; the table of
the command probe.

In `SysconHooks` a caller fills its buffer and calls one of the three functions
(`Send`, or `SendAgain` with the buffer as it was left). Each function that has
its hook runs `Record` and `ApplyPatch`, which reads the mode once; each
function may put the checksum in, call one further down, or transmit. That is
the nesting of `docs/vita-slim-syscon-callsite-analysis.md` 55-69, where a
packet of SceSyscon itself comes to the hook on `ksceSysconCmdSync`; that each of
the three may call a later one and that each may be the one that transmits is an
assumption about SceSyscon, not read off its code. A call may also give up unsent
(`GiveUp`), and syscon may refuse what was transmitted, so an error tells
the caller nothing of the wire. Hooks go in one by one (`InstallHook`); the trace thread changes the mode at any time
(`RefreshMode`); the trace ends while the hooks stay (`StopTrace`). The ring
between a record and its line is `TraceRing`; here a record is what was
recorded. The command probe is one of the callers, with its request file, its
packet, the result of its call (`execRet`, -3 before it) and the line that names
both; it runs beside the drivers' traffic from beginning to end.
`apply_led_candidate_patch` is never negative, so the `return 0` of the hooks
behind it (`dev/main.c` 1890-1892) never happens and is not an action.

`adapter` and `CtrlDolceLed` follow the hook on the LED of the AC adapter; what
it sends is a function of the mode and the argument, and no property is about it.

`wanted`, `inForce`, `recorded`, `marked` and `wire` only watch.

Taken as given: a caller has one call under way at a time, and nobody else
writes its buffer; a read command and a send command (`ksceSysconReadCommand`,
`ksceSysconSendCommand`) only get recorded, so their hooks are left out.

### GpioSampler

`SamplePower` and `SamplePort` are the two halves of the loop (1033-1071): the
lines and the power state change between any two of them, a pass is not a
snapshot. The three calls for the power state (1034-1036) are one read of three
numbers, any of which makes a change. The log
is a sequence of lines of which `synced` are safe; `Freeze` keeps those and
some of the next. `samples` remembers what each pass read. A write to the log never
fails: a value remembered without its line (992, 1050, 1069) does not occur.

### Mutants

Next to several definitions stands one marked `Mutant`: the same definition
with a plausible mistake. They are not part of any specification; with one put
in the place of the definition, TLC must find the property named in
`PROJECT.json` violated. Each property of each passing run has one.

## The runs

| run | asks | bounds |
|---|---|---|
| `PowerLed` | gate, belief, timing, debounce and liveness of the policy | Delay 2, Settle 2, Heartbeat 4, Restore 1; a board with the indicator and two without, one of them with high bits that the gate masks off |
| `GpioGuard` | what the guard promises | 2 callers, both LEDs, a line with the same bus and one with the same port |
| `Noled` | the composition and the refinement | Delay 1, Settle 1, Heartbeat 2, Restore 0, 2 boards, 1 caller, 3 lines |
| `TraceRing` | the ring, with and without overruns | 2 hooks and the thread, 2 slots, 4 records, 2 passes; the hooks are symmetric |
| `RuntimeProbe` | the protocol over two files | 2 presses, 2 launches, 1 reboot; a list of two candidates, one allowed and one not |
| `DevPlugin` | modes, sessions and boots | all modes of the loader, modes 0, 4, 8 by hand, 2 looks at the file; any read and any release may fail |
| `SysconHooks` | what reaches syscon, and what the logs say of it | a driver and the command probe, side by side; both forms of 0x387 and a longer packet; modes 1, 4; a good request and a short one |
| `GpioSampler` | what the log can be trusted for | 3 passes, a sync every 2, 2 ports, 2 levels, 3 power states |
| `LedEveryWake`, `LedStandby`, `ProbeRelaunch`, `ModeLeaks` | one statement of the documentation each, refuted | as the run above of the same module |

Why the bounds are enough. In `PowerLed` the order of the two delays and the
restore, two samples within a delay, and a heartbeat reached through several
loops are all there; the proofs cover every other value, in the timed
properties too. In `TraceRing` four records go round two slots twice, so a reader can be
overtaken and overtaken again, and `Passes` = 2 gives a pass, a last pass and
the final flush. Two presses and two launches are what it takes for a sequence
number to be used again; a second boot adds nothing, as only files survive.
In `RuntimeProbe` one banned request shows that it is refused; where the banned
ranges begin and end rests on `WhitelistIsFinal`, whose requests are all of them. In `SysconHooks` a driver meets the others only through
the mode, so one is enough. Mode 1 patches one form of packet and lets the other
pass, mode 4 patches both, and a hook that is not in yet lets both pass, as mode
0 would. A packet of ten bytes needs `Room` = 10. In `GpioSampler` three passes
with a sync every 2 have a pass that is safe and one that is not, before and
after a sync. `Tries` = 2 has a first, a last and no look at the file left; the
code has 120 of them, at 500 ms. `CHECK_DEADLOCK` is off where the system may
stop: `TraceRing` (thread ended, records used up), `GpioSampler` (frozen),
`RuntimeProbe` (frozen with no boots left), `DevPlugin` for uniformity, where in
fact `Reboot` is always possible.

### Fairness

* `LedPolicy`, `Noled`: weak fairness of the policy thread (the kernel runs a
  ready thread), of the clock, of the resume path once begun; strong fairness
  of `CommandOk`, that is, a command may fail any number of times but not for
  ever. `LedSettles` needs the last. Nothing is assumed of charger and owner.
* `GpioGuard`: a caller's thread goes on.
* `RuntimeProbe`: weak fairness of the probe thread; strong fairness of
  `TakeRequest`, as a file that is there is read in the end although single
  reads may fail.
* `DevPlugin`: weak fairness of the policy thread. Nobody has to press a
  button, mount ux0 or reboot.
* `TraceRing`, `SysconHooks` and `GpioSampler` have safety properties only and
  no fairness.

### Where the code and its texts differ

1. `LedEveryWake`. A second resume announced during the 500 ms settle delay of
   the first is forgotten when the flag is lowered (`main.c` 125); the LED
   stays stock until the heartbeat, up to 10 s. `README.md` 14 says about 2 s
   after every wake.
2. `LedStandby`. A charger attached in standby does not show, as the off
   pattern is parked and no thread runs. `README.md` 13 says it shows.
3. `ProbeRelaunch`. The loader counts from 1 again, the resident plugin keeps
   the number it saw last (`dev/loader/main.c` 633, `dev/main.c` 1343): the
   first press after a relaunch can be ignored. The loader's own text (514-515)
   and `dev/README.md` 54-55 say sends still work.
4. `ModeLeaks`. Only Start writes the production mode back
   (`dev/loader/main.c` 664, 757), so any other end of a session leaves the
   mode for the next boot; the comment at 637-639 speaks of modes browsed and
   not started, `docs/current-next-steps.md` 38-40 and `dev/README.md` 66 of
   every mode.

Noticed while reading, not stated as properties:

* The GPIO lines are cleared before the hook goes in and the result of the hook
  is not looked at (`main.c` 152-159): in `GpioGuard` a call between the two
  lights its LED, and nothing clears it again. `docs/current-next-steps.md`
  35-37 says it cannot be lit again; `DarkStaysDark` says what does hold.
* Modes 1 to 4 and 11 change packets of command 0x387
  (`led_candidate_patch.h` 151-193). `runtime_probe.h` 29-31 and
  `dev/README.md` 65 say that this plugin must never do so; no mode the loader
  offers does, a file written by hand can ask for it.
* `docs/vita-slim-power-led-handoff.md` 272-276 calls mode 11 header-only; the
  packet hooks and the one on the adapter's LED act on it.
* A packet of 0x387 with more than nine bytes passes the length test, and byte
  8, data there, is overwritten with a checksum (`led_candidate_patch.h` 97,
  135). The traces in `docs/` show none.
* A late file that asks for mode 0 makes the policy release the LED and leave
  its loop, and the result of the release is not looked at (`dev/main.c`
  1490-1491): when it fails the LED stays dark, although the comment at
  1483-1485 speaks of handing it back. `DevPlugin` has that step.
* `main.c` 188 says the policy thread is not torn down; line 191 ends it.
* `docs/current-next-steps.md` 44-45 speaks of 120 s of looks at the file; 120
  looks at 500 ms are 60 s.
* After a failed load in another mode, choosing mode 13 or 15 puts the loader
  on the probe screen, without a plugin and with no key that loads one
  (`probe_load_attempted`, `dev/loader/main.c` 275, 659, 673).
* A `module_stop` before the boot thread has passed
  `ksceSysconWaitInitialized` is overwritten by `running = 1`
  (`dev/main.c` 1555).

## The proofs

Each safety property of each passing run, invariant or action property, is a
theorem about the specification, and so is the refinement.

| theorem | says | by |
|---|---|---|
| `LedProofs` | | |
| `TypeCorrect` | types of `LedPolicy` | induction on `TypeOK` |
| `HeartbeatCounterBounded` | `loops <= Heartbeat` | `LoopsInv`: strictly below the bound wherever `EndDelay` will count |
| `GateReadsRevision`, `OldBoardsStayUntouched` | the gate sees the revision byte alone; below 0x40 nothing is ever sent | `GateInv`: on such a board the thread never gets past the gate, no handler is registered and no resume is heard |
| `BeliefIsSound` | applied state and slot agree | `BeliefInv` |
| `SettleDelayCoversRestore` | the settle delay outlasts the resume path | `SettleInv`: what is left of the path is less than what is left of the delay |
| `AnswerIsPrompt` | `AnsweredPromptly` | `TimingInv` and `BeliefIsSound` |
| `HeartbeatPutsItRight` | `HeartbeatHeals` | `TimingInv` and `HeartbeatInv` |
| `FlapsStayUnseen` | `BriefFlapsIgnored` | `FollowInv`: how long ago the last sample saw the charger; `SteadyInv`: `stable` is the steady state |
| `GpioGuardProofs` | | |
| `GuardTypeCorrect`, `StragglersRunOut`, `GuardedLineStaysDark` | no new stragglers; a settled LED stays dark for good | type correctness; `SettledStable`: hooked, dark and free of stragglers is closed under steps |
| `NoledProofs` | | |
| `PluginImplementsPolicy` | `Noled!Spec => LedPolicy!Spec` under the mapping | `StartInv`: the thread exists only after the last step of `module_start` |
| `ThreadKeepsRunning` | the policy thread leaves only when told | `ExitInv`: while the thread exists and nobody stopped it the flag is up |
| `FailedStartIsClean` | `FailedStartLeavesNothing` | `FailedStartInv`: without a thread there is no handler and an empty slot, and the flag is up only inside `module_start` |
| `SysconProofs` | | |
| `PatchedIsComplete`, `PowerLedPatchIsComplete`, `ProbePacketsAreComplete` | patched packets and those of the table have the checksum of SceSyscon | arithmetic modulo 256 on any content of the bytes |
| `PatchIsFinal` | patches never add up | neither result has a form that is patched |
| `WireIsWellFormed` | every packet on the wire has its checksum | `ChecksumInv`: once it is in, patching keeps it right |
| `WireIsExplained` | what syscon gets is what one mode in force makes of the packet | `ExplainedInv`: the buffer is like such a packet up to the checksum, at every point of every call |
| `TraceIsTrue` | `TraceTellsTheWire` | `TraceInv`: at every point of a traced call the record, its markers and the buffer fit (`Traced`) |
| `ProbeLineIsTrue` | `ProbeLineTellsTheWire` | `ProbeInv`: the probe's packet passes every hook unchanged (`ProbePacketsStay`), and its result is a success only once it went out |
| `TraceRingProofs` | | |
| `TraceTyped` | types of `TraceRing` | induction on `RingInv` |
| `LostIsOverflow` | `LostMeansOverflow`, with any overlap of recorders | `RingInv`: a number in a slot was taken and belongs there |
| `RoomIsEnough` | `NoOverrunNoLoss` | `KeepsUpInv`: no number taken is a whole ring ahead of one still to be read, so no slot is shared |
| `PassedIsTold`, `LinesAreIntact`, `LogIsComplete` | `NothingMissed`, `LinesIntact`, `CompleteAtStop` | `OrderInv`, `SlotInv`, `HandInv`, `StopInv` on undisturbed runs |
| `RuntimeProbeProofs` | | |
| `ProbeTyped` | types; entries name presses that were made | induction on `TypeOK` |
| `WhitelistIsFinal`, `FreezeIsExplained` | `WhitelistHolds`, `FreezeLeavesEvidence` | `WhitelistInv`: what is taken is valid; `EvidenceInv`: the line is safe from before the command on |
| `OnePressOneCommand`, `OldFilesAreInert` | `AtMostOnce`, `StaleNeverFires` | `OnceInv`: a request with a new number was never executed and is not the one in hand |
| `AnswerIsToLastPress` | `ShownIsOurs` | `OwnInv`: without a resident plugin, equal numbers are equal presses in all four places |
| `DevPluginProofs` | | |
| `ModeDecidesServices` | `EachModeGetsItsServices`, with reads that fail | `StartInv`: what has been read and started at each point of `module_start` |
| `CleanExitIsFinal` | `CleanExitBootsProduction` | `ExitInv`: the file of an exit is not written again before the boot has started the plugin |
| `PolicyIsNotLost`, `OldBoardsAreLeftAlone`, `ScreenTellsTheTruth` | `PolicyNotLost`, `OldBoardsKeepStock`, `ScreenShowsRunningMode` | `PolicyInv`, `BoardInv`, `ScreenInv` |
| `GpioSamplerProofs` | | |
| `EveryPassIsReplayed` | `LogReplays` | `MemoryInv`: what the thread remembers is the log's last word; `SamplesInv` |
| `FreezeIsBounded` | `FreezeLosesLittle` | `SyncInv`: lines that are not synced are younger than the last multiple of `SyncEvery`; `FrozenInv` |

They hold for all values of the constants that satisfy the assumptions:
`HardwareInfos` are naturals, delays and heartbeat are positive, `Restore` is a
natural; for the settle delay alone `Restore < Settle`, which is what the
comment at `main.c` 122-123 relies on, and for the heartbeat
`2 * Delay + Settle <= Heartbeat * Delay` (1.5 s against 10 s in `main.c`);
`Lines` contains the two LEDs; payloads are packets and file modes are 0 to 15;
the ring has at least one slot; the loader's list has an entry; a power state is
three integers, and the sampler's unknown value is no level and no power state.

### The invariants

`BeliefSound` is not inductive. A command is due when belief and sample differ,
so one must know that `resumed` is up all through the OS's restoring, or that
the loss is recorded in `fault`; and that there is no belief before there is a
handler. These are the other conjuncts of `BeliefInv`.

The timed properties rest on the fact that time passes only while the thread is
in one of its two delays, so that `quiet` and `timer` move against each other
(`TickCounts`) and each deadline is a bound on `quiet + timer`. `DelayInv` has
the lengths of the delays; `WakeInv` says until when a resume path can raise the
flag, and hence when a settle delay that it causes is over; `SampledInv` when
the first and the second sample after a change have been taken; `SentInv` when
what they show has been sent. After `PromptBound` all of it has happened
(`SettledWithinBound`), and belief is the truth by `BeliefIsSound` unless
something was lost. For what was lost `HeartbeatInv` has the number of passes to
the next heartbeat, times their length (`Beats`), as one more deadline. The case
that sets `PromptBound` is a wake early in a settle delay whose flag is raised
again after that delay: two delays, a second settle delay, and the resume path.

`BriefFlapsIgnored` is about two samples in a row that fall into one flap. `AtMost`
and `AtLeast` say how far the next sample can be; `FollowInv` bounds the age of a
charge state that `last` or `stable` have not caught up with, and `SteadyInv` says
that the sample after one that shows a flap comes when the flap has lasted a loop
delay, so it is over or no longer brief.

`PatchesExplained` needs more than itself, too: between the patch and the wire
the checksum is stale or not yet there, so the buffer is compared up to its
checksum (`Alike`), and `ChecksumInv` supplies the rest when the packet is
transmitted. The heart of the step is `PatchIsExplained`: a packet that one
mode has patched has no form another mode would patch, and one that no mode has
touched is as the caller filled it, so at any time one mode explains it.

In `TraceRing` nothing about the content of the log is inductive by itself. On
an undisturbed run the recorders work one after the other, so the numbers taken
are 1, 2, 3 ... (`OrderInv`); a slot whose number is not yet read holds one
record as a whole, and a recorder that is at work is at work in a slot whose
number has been read (`SlotInv`, which is what "no recorder in the reader's
slot" comes to); then what the reader has in hand is whole and what it has left
behind is in the log or reported (`HandInv`). `SharedSlot`, two numbers with
one slot are a whole ring apart, is where the size of the ring enters. On runs
with neither overlap nor overrun no race needs to be excluded: `KeepsUpInv` says
that no number is a whole ring ahead of the reader, and `BehindInv` that the slot
in the reader's hand has a number below the one a recorder takes next.

`AtMostOnce` compares numbers that the loader uses again and again. `OnceInv`
ties them to presses: whatever request could be taken next has not been
executed and is not the one in hand, nor is one that is being written.

`LogReplays` speaks of the largest line number with a property. The proofs use
`Newest` and `Told`, which say it without a maximum, and show that a line that
is appended disturbs neither unless it is about the same thing
(`StaysNewest`), and that a cut behind the last sync takes away only lines that
are too young to matter (`CutIsNotMissed`).

Each of these invariants was checked by TLC on the small instances as well as
proved.

### Only model-checked

Everything temporal under fairness, which is out of the prover's reach:
`ResumeIsHandled`, `LedSettles`, `StopEndsThread`, `OthersGoThrough`,
`NewPressIsHandled`, `LateConfigHonoured`, `StoppedPolicyEnds`.

## Not modelled

Drawing, logging and its formats; the contents of trace events and the filter
on polling commands (0x104 and 0x301 leave no record); the copy of the plugin
file as a loop (it works or it fails); the one-shot module map dump; the line
counting of `trace_summary.h`, which only feeds the screen; the host tests and
build files. The GPIO hook of the diagnostic plugin is the one of `GpioGuard`
with port 3 added in mode 9, and its trace hooks on clear, reset and port mode
pass every call through and record it; neither adds state of its own.
`syscon_led_policy.h` is included by a host test only. Memory reordering
between cores is not modelled beyond `OpenDropped`.

## Plan

Done: the order of the list of modules above, from the released plugin
outwards; every component that keeps state is modelled, and every safety
property is proved.

Next: `TraceLog`, an abstract log that `TraceRing` implements on undisturbed
runs, and an abstract probe (a press is executed, rejected or dropped, once)
that `RuntimeProbe` implements, both with the invariants above.
