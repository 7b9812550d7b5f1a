----------------------------- MODULE TraceRing ------------------------------
(***************************************************************************)
(* The syscon trace of the diagnostic plugin (dev/main.c): hooks and debug *)
(* handlers on any OS thread record into a ring without a lock, and the    *)
(* trace thread writes the ring to a log file.  The trace thread is also a *)
(* recorder: it records the power state.                                   *)
(*                                                                         *)
(* A recorder takes syscon_trace_next_seq, rewrites the slot of that       *)
(* number and publishes the number after it; each of these stores is a     *)
(* step.  The payload of an event is the record's identity, stored in two  *)
(* halves, so that a line put together from two records shows.             *)
(***************************************************************************)
EXTENDS Integers, Sequences, FiniteSets

CONSTANTS
  Hooks,       \* threads that run a hook or a debug handler
  Size,        \* NOLED_SYSCON_TRACE_RING_SIZE
  Passes,      \* NOLED_SYSCON_TRACE_FLUSH_LOOPS
  MaxRecords   \* bound: how many records are begun

ASSUME RingAssumption ==
  /\ Size \in Nat \ {0}
  /\ Passes \in Nat \ {0}
  /\ MaxRecords \in Nat
  /\ "thread" \notin Hooks

Recorders == Hooks \cup {"thread"}
Slots     == 0..(Size - 1)

VARIABLES
  running,   \* syscon_trace_running
  next,      \* syscon_trace_next_seq
  read,      \* syscon_trace_read_seq
  ring,      \* syscon_trace_ring
  at,        \* where each recorder is
  mine,      \* the record it is writing
  pc,        \* where the trace thread is
  log,       \* the log file could be opened
  closing,   \* the thread has left its loop
  loops,     \* its loop counter
  head,      \* the first half of the event it formats
  number,    \* history: the number each record took
  published, \* history: records published before the thread left its loop
  printed,   \* history: records written to the log, complete
  mixed,     \* history: a line with halves of two records was written
  reported,  \* history: numbers reported as lost
  spoilt     \* history: which mishaps there were, see the end of the module

ringVars    == <<running, next, ring>>
writerVars  == <<at, mine, number, published>>
readerVars  == <<read, pc, log, closing, loops, head>>
logVars     == <<printed, mixed, reported>>
traceVars   == <<ringVars, writerVars, readerVars, logVars, spoilt>>

(* Mutant of Slot: one slot of the ring is never used. *)
SlotOfSmallerRing(n) == (n - 1) % (Size - 1)

Slot(n) == (n - 1) % Size

Nobody == 0
EmptyEvent == [seq |-> 0, head |-> Nobody, tail |-> Nobody]

TypeOK ==
  /\ running \in BOOLEAN
  /\ next \in Nat
  /\ read \in Nat
  /\ ring \in [Slots -> [seq : Nat, head : Nat, tail : Nat]]
  /\ at \in [Recorders -> {"idle", "open", "fill", "rest", "seal", "publish"}]
  /\ mine \in [Recorders -> Nat]
  /\ pc \in {"create", "absent", "open", "top", "record", "flush", "format",
             "reload", "delay", "exited"}
  /\ log \in BOOLEAN
  /\ closing \in BOOLEAN
  /\ loops \in Nat
  /\ head \in Nat
  /\ number \in Seq(Nat)

(* start_syscon_trace has reset the sequence numbers. *)
Init ==
  /\ running = TRUE
  /\ next = 1
  /\ read = 1
  /\ ring = [i \in Slots |-> EmptyEvent]
  /\ at = [c \in Recorders |-> "idle"]
  /\ mine = [c \in Recorders |-> Nobody]
  /\ pc = "create"
  /\ log = FALSE
  /\ closing = FALSE
  /\ loops = 0
  /\ head = Nobody
  /\ number = << >>
  /\ published = {}
  /\ printed = {}
  /\ mixed = FALSE
  /\ reported = {}
  /\ spoilt = {}

-----------------------------------------------------------------------------
(* A recorder. *)

Num(c) == number[mine[c]]

Overlap(c) == \E d \in Recorders \ {c} : at[d] # "idle"

(* The reader holds the slot: it has compared its number and not moved on. *)
InHand(i) == pc \in {"format", "reload"} /\ Slot(read) = i

Races(c) == IF InHand(Slot(Num(c))) THEN {"inHand"} ELSE {}

MayRecord(c) ==
  /\ running
  /\ IF c = "thread" THEN pc = "record" ELSE pc \notin {"create", "absent"}

(* seq = syscon_trace_next_seq, after the checks of the recording function. *)
TakeNumber(c) ==
  /\ at[c] = "idle"
  /\ MayRecord(c)
  /\ Len(number) < MaxRecords
  /\ number' = Append(number, next)
  /\ mine' = [mine EXCEPT ![c] = Len(number) + 1]
  /\ at' = [at EXCEPT ![c] = "open"]
  /\ spoilt' = spoilt \cup (IF Overlap(c) THEN {"overlap"} ELSE {})
                      \cup (IF next >= read + Size THEN {"overrun"} ELSE {})
  /\ UNCHANGED <<ringVars, readerVars, logVars, published>>

Store(c, field, value) == ring' = [ring EXCEPT ![Slot(Num(c))][field] = value]

Goto(c, place) == at' = [at EXCEPT ![c] = place]

(* Mutant of OpenSlot: the old number stays while the slot is rewritten. *)
OpenKeepsNumber(c) ==
  /\ at[c] = "open"
  /\ Goto(c, "fill")
  /\ spoilt' = spoilt \cup Races(c)
  /\ UNCHANGED <<ringVars, mine, number, published, readerVars, logVars>>

(* event->seq = 0 *)
OpenSlot(c) ==
  /\ at[c] = "open"
  /\ Store(c, "seq", 0)
  /\ Goto(c, "fill")
  /\ spoilt' = spoilt \cup Races(c)
  /\ UNCHANGED <<running, next, mine, number, published, readerVars, logVars>>

(* The compiler may drop that store: seq is assigned again below and, when a *)
(* marker is recorded, nothing reads it in between.                         *)
OpenDropped(c) ==
  /\ at[c] = "open"
  /\ Goto(c, "fill")
  /\ spoilt' = spoilt \cup Races(c)
       \cup (IF ring[Slot(Num(c))].seq >= read THEN {"dropped"} ELSE {})
  /\ UNCHANGED <<ringVars, mine, number, published, readerVars, logVars>>

FillHead(c) ==
  /\ at[c] = "fill"
  /\ Store(c, "head", mine[c])
  /\ Goto(c, "rest")
  /\ spoilt' = spoilt \cup Races(c)
  /\ UNCHANGED <<running, next, mine, number, published, readerVars, logVars>>

FillTail(c) ==
  /\ at[c] = "rest"
  /\ Store(c, "tail", mine[c])
  /\ Goto(c, "seal")
  /\ spoilt' = spoilt \cup Races(c)
  /\ UNCHANGED <<running, next, mine, number, published, readerVars, logVars>>

(* Mutant of SealSlot: the number is incremented too early. *)
SealsNextNumber(c) ==
  /\ at[c] = "seal"
  /\ Store(c, "seq", Num(c) + 1)
  /\ Goto(c, "publish")
  /\ spoilt' = spoilt \cup Races(c)
  /\ UNCHANGED <<running, next, mine, number, published, readerVars, logVars>>

(* event->seq = seq *)
SealSlot(c) ==
  /\ at[c] = "seal"
  /\ Store(c, "seq", Num(c))
  /\ Goto(c, "publish")
  /\ spoilt' = spoilt \cup Races(c)
  /\ UNCHANGED <<running, next, mine, number, published, readerVars, logVars>>

(* Once its record is out the trace thread goes on to the log, if it is open. *)
AfterRecord(c) ==
  IF c # "thread" THEN UNCHANGED pc
  ELSE pc' = IF log THEN "flush" ELSE "delay"

(* syscon_trace_next_seq = seq + 1 *)
Publish(c) ==
  /\ at[c] = "publish"
  /\ next' = Num(c) + 1
  /\ Goto(c, "idle")
  /\ mine' = [mine EXCEPT ![c] = Nobody]
  /\ published' = IF closing THEN published ELSE published \cup {mine[c]}
  /\ AfterRecord(c)
  /\ UNCHANGED <<running, ring, number, read, log, closing, loops, head,
                 logVars, spoilt>>

Record(c) ==
  \/ TakeNumber(c) \/ OpenSlot(c) \/ OpenDropped(c) \/ FillHead(c)
  \/ FillTail(c) \/ SealSlot(c) \/ Publish(c)

-----------------------------------------------------------------------------
(* The trace thread. *)

ThreadCreated ==
  /\ pc = "create"
  /\ pc' = "open"
  /\ UNCHANGED <<ringVars, writerVars, read, log, closing, loops, head,
                 logVars, spoilt>>

(* It is not created, or not started and deleted again. *)
NoThread ==
  /\ pc = "create"
  /\ running' = FALSE
  /\ pc' = "absent"
  /\ UNCHANGED <<next, ring, writerVars, read, log, closing, loops, head,
                 logVars, spoilt>>

OpenLog ==
  /\ pc = "open"
  /\ log' \in BOOLEAN
  /\ pc' = "top"
  /\ UNCHANGED <<ringVars, writerVars, read, closing, loops, head,
                 logVars, spoilt>>

(* A pass of the loop: the power state is recorded when it has changed, in  *)
(* the first pass always.                                                   *)
BeginPass ==
  /\ pc = "top"
  /\ running
  /\ \/ pc' = "record"
     \/ loops > 0 /\ pc' = IF log THEN "flush" ELSE "delay"
  /\ UNCHANGED <<ringVars, writerVars, read, log, closing, loops, head,
                 logVars, spoilt>>

(* Nothing is recorded once the flag is down. *)
SkipRecord ==
  /\ pc = "record"
  /\ at["thread"] = "idle"
  /\ ~running
  /\ pc' = IF log THEN "flush" ELSE "delay"
  /\ UNCHANGED <<ringVars, writerVars, read, log, closing, loops, head,
                 logVars, spoilt>>

(* Mutant of LeaveLoop: no last flush. *)
LeaveUnflushed ==
  /\ pc = "top"
  /\ ~running
  /\ closing' = TRUE
  /\ pc' = "exited"
  /\ UNCHANGED <<ringVars, writerVars, read, log, loops, head, logVars, spoilt>>

(* Out of the loop, the ring is flushed once more. *)
LeaveLoop ==
  /\ pc = "top"
  /\ ~running
  /\ closing' = TRUE
  /\ pc' = IF log THEN "flush" ELSE "exited"
  /\ UNCHANGED <<ringVars, writerVars, read, log, loops, head, logVars, spoilt>>

FlushEnds == pc' = IF closing THEN "exited" ELSE "delay"

Event == ring[Slot(read)]

(* trace_flush: no number is up, ... *)
NothingToRead ==
  /\ pc = "flush"
  /\ read >= next
  /\ FlushEnds
  /\ UNCHANGED <<ringVars, writerVars, read, log, closing, loops, head,
                 logVars, spoilt>>

(* ... or its slot is still being written: the flush ends here, to be taken *)
(* up by the next pass, if there is one.                                    *)
SlotNotReady ==
  /\ pc = "flush"
  /\ read < next
  /\ Event.seq < read
  /\ FlushEnds
  /\ spoilt' = spoilt \cup (IF closing THEN {"cut"} ELSE {})
  /\ UNCHANGED <<ringVars, writerVars, read, log, closing, loops, head, logVars>>

EventFound ==
  /\ pc = "flush"
  /\ read < next
  /\ Event.seq = read
  /\ head' = Event.head
  /\ pc' = "format"
  /\ UNCHANGED <<ringVars, writerVars, read, log, closing, loops, logVars, spoilt>>

(* trace_write_event *)
WriteEvent ==
  /\ pc = "format"
  /\ IF head = Event.tail
       THEN printed' = printed \cup {head} /\ UNCHANGED mixed
       ELSE mixed' = TRUE /\ UNCHANGED printed
  /\ read' = read + 1
  /\ head' = Nobody
  /\ pc' = "flush"
  /\ UNCHANGED <<ringVars, writerVars, log, closing, loops, reported, spoilt>>

(* trace_write_lost *)
WriteLost ==
  /\ pc = "flush"
  /\ read < next
  /\ Event.seq > read
  /\ reported' = reported \cup read..(Event.seq - 1)
  /\ pc' = "reload"
  /\ UNCHANGED <<ringVars, writerVars, read, log, closing, loops, head,
                 printed, mixed, spoilt>>

(* Mutant of Reload: the event that was found is skipped. *)
ReloadSkipsEvent ==
  /\ pc = "reload"
  /\ read' = Event.seq + 1
  /\ pc' = "flush"
  /\ UNCHANGED <<ringVars, writerVars, log, closing, loops, head, logVars, spoilt>>

(* syscon_trace_read_seq = event->seq, read again after the file was written. *)
Reload ==
  /\ pc = "reload"
  /\ read' = Event.seq
  /\ pc' = "flush"
  /\ UNCHANGED <<ringVars, writerVars, log, closing, loops, head, logVars, spoilt>>

EndDelay ==
  /\ pc = "delay"
  /\ loops' = loops + 1
  /\ running' = (running /\ loops + 1 < Passes)
  /\ pc' = "top"
  /\ UNCHANGED <<next, ring, writerVars, read, log, closing, head, logVars, spoilt>>

(* module_stop: the plugin and its hooks stay. *)
ModuleStop ==
  /\ pc # "create"
  /\ running' = FALSE
  /\ UNCHANGED <<next, ring, writerVars, readerVars, logVars, spoilt>>

TraceThread ==
  \/ ThreadCreated \/ NoThread \/ OpenLog \/ BeginPass \/ SkipRecord \/ LeaveLoop
  \/ NothingToRead \/ SlotNotReady \/ EventFound \/ WriteEvent \/ WriteLost
  \/ Reload \/ EndDelay

Next == TraceThread \/ ModuleStop \/ \E c \in Recorders : Record(c)

Spec == Init /\ [][Next]_traceVars

-----------------------------------------------------------------------------
(* The races the ring has no answer to: two recorders at work at once       *)
(* ("overlap"), a recorder in the slot the reader is working on ("inHand"), *)
(* the rewriting of a number that was still to be read, without the store   *)
(* that hides it ("dropped"), and a slot being rewritten when the last      *)
(* flush gets to it ("cut").  And what it does have an answer to: a number  *)
(* is taken whose slot holds one that is still to be read ("overrun").      *)
Undisturbed == spoilt \subseteq {"overrun"}

Told(r) == r \in printed \/ number[r] \in reported

(* Nothing is passed over in silence: a published record whose number the   *)
(* reader has passed is in the log, complete, or reported as lost           *)
(* (dev/main.c 494-507, 810-829).                                           *)
NothingMissed ==
  Undisturbed => \A r \in published : number[r] < read => Told(r)

(* A line of the log comes from one record: seq = 0 hides a slot that is    *)
(* being rewritten (dev/main.c 495, 506).                                   *)
LinesIntact == Undisturbed => ~mixed

(* A lost line means that the ring overflowed, as the reports about real    *)
(* logs take it, even when recorders overlap: that many numbers were taken  *)
(* (dev/main.c 817-820, docs/current-next-steps.md 850).                    *)
LostMeansOverflow ==
  [][reported' # reported => \E r \in DOMAIN number : number[r] >= read + Size]_traceVars

(* Without an overrun the reader is never in a recorder's way: as long as   *)
(* recorders take turns and the thread keeps up with them, no slot in its   *)
(* hand is rewritten, no line is mixed or reports a loss, and every record  *)
(* it has passed is in the log.  Nothing in the code keeps reader and       *)
(* recorders apart but the size of the ring (dev/main.c 494-507, 810-829).  *)
NoOverrunNoLoss ==
  spoilt \cap {"overlap", "overrun"} = {} =>
    /\ spoilt \subseteq {"cut"}
    /\ ~mixed
    /\ reported = {}
    /\ \A r \in published : number[r] < read => r \in printed

(* When the thread ends, every record published before it left its loop has *)
(* been told (dev/main.c 1658-1659).                                        *)
CompleteAtStop ==
  pc = "exited" /\ log /\ Undisturbed => \A r \in published : Told(r)
=============================================================================
