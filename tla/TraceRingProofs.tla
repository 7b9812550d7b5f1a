--------------------------- MODULE TraceRingProofs ---------------------------
(***************************************************************************)
(* What the log of the syscon trace can be trusted for, for any number of  *)
(* hooks, any size of the ring and any number of passes and records.       *)
(***************************************************************************)
EXTENDS TraceRing, SequenceTheorems, TLAPS

-----------------------------------------------------------------------------
(* Slots.                                                                   *)

LEMMA SlotRange ==
  ASSUME NEW n \in Nat
  PROVE  Slot(n) \in Slots
  BY RingAssumption DEF Slot, Slots

(* Two numbers that share a slot are a whole ring apart.                    *)
LEMMA SharedSlot ==
  ASSUME NEW a \in Nat, NEW b \in Nat, a > b, Slot(a) = Slot(b)
  PROVE  a >= b + Size
<1>1. a - 1 = Size * ((a - 1) \div Size) + Slot(a)
  BY RingAssumption DEF Slot
<1>2. b - 1 = Size * ((b - 1) \div Size) + Slot(b)
  BY RingAssumption DEF Slot
<1>3. PICK p \in Int, q \in Int :
        a - 1 = Size * p + Slot(a) /\ b - 1 = Size * q + Slot(a)
  <2>1. (a - 1) \div Size \in Int /\ (b - 1) \div Size \in Int
    BY RingAssumption
  <2> QED
    BY <1>1, <1>2, <2>1
<1>4. a - b = Size * (p - q)
  BY <1>3, SlotRange, RingAssumption DEF Slots
<1>5. p - q >= 1
  BY <1>4, RingAssumption
<1> QED
  BY <1>4, <1>5, RingAssumption

-----------------------------------------------------------------------------
(* What holds however the recorders overlap.                                *)

Busy(c) == at[c] # "idle"

(* A slot that has a number has one that was taken, and for this slot.      *)
NumbersInv ==
  \A i \in Slots :
    ring[i].seq # 0 =>
      /\ Slot(ring[i].seq) = i
      /\ \E r \in DOMAIN number : number[r] = ring[i].seq

RingInv ==
  /\ TypeOK
  /\ next # 0
  /\ \A r \in DOMAIN number : number[r] # 0
  /\ \A c \in Recorders : Busy(c) => mine[c] \in DOMAIN number
  /\ NumbersInv

(* The reader jumps ahead only, unless a recorder was in its slot.          *)
ReloadInv ==
  pc = "reload" => ring[Slot(read)].seq > read \/ "inHand" \in spoilt

-----------------------------------------------------------------------------
(* What holds as long as no race has touched the slots: a flush that is cut *)
(* short leaves them alone.                                                 *)

Untouched == spoilt \subseteq {"cut", "overrun"}

(* Records are numbered one after the other, by one recorder at a time.     *)
OrderInv ==
  Untouched =>
    /\ \A r \in DOMAIN number : number[r] = r
    /\ \A c \in Recorders : Busy(c) => mine[c] = Len(number) /\ next = Len(number)
    /\ \A c, d \in Recorders : Busy(c) /\ Busy(d) => c = d
    /\ next = Len(number) + 1 \/ \E c \in Recorders : Busy(c)

(* What is in a slot that is still to be read is one record.                *)
SlotInv ==
  Untouched =>
    /\ read # 0
    /\ \A i \in Slots :
         ring[i].seq >= read => ring[i].head = ring[i].seq /\ ring[i].tail = ring[i].seq
    /\ \A c \in Recorders :
         /\ at[c] \in {"fill", "rest", "seal"} => ring[Slot(Num(c))].seq < read
         /\ at[c] \in {"rest", "seal"} => ring[Slot(Num(c))].head = mine[c]
         /\ at[c] = "seal" => ring[Slot(Num(c))].tail = mine[c]

(* What the reader has in hand, and what it has left behind.                *)
HandInv ==
  Untouched =>
    /\ pc = "format" => ring[Slot(read)].seq = read /\ head = read
    /\ pc = "reload" => read..(ring[Slot(read)].seq - 1) \subseteq reported
    /\ ~mixed
    /\ \A n \in 1..(read - 1) : n \in printed \cup reported

(* What was published is up to be read, and is read in the end.             *)
StopInv ==
  Undisturbed =>
    /\ published \subseteq 1..(next - 1)
    /\ pc = "exited" => closing
    /\ pc = "exited" /\ log => published \subseteq 1..(read - 1)

(* The reader stays behind the recorders, and a slot has the number that is *)
(* up only when its recorder is about to publish it.                        *)
BehindInv ==
  Untouched =>
    /\ read <= next
    /\ pc = "format" => read < next
    /\ \A i \in Slots : ring[i].seq <= next
    /\ \A c \in Recorders : at[c] = "open" => \A i \in Slots : ring[i].seq < next
    /\ (\A c \in Recorders : ~Busy(c)) => \A i \in Slots : ring[i].seq < next

(* Recorders take turns and the reader keeps up.                            *)
Calm == spoilt \cap {"overlap", "overrun"} = {}

KeepsUpInv ==
  Calm =>
    /\ spoilt \subseteq {"cut"}
    /\ \A r \in DOMAIN number : number[r] < read + Size
    /\ pc # "reload"
    /\ reported = {}
    /\ published \subseteq DOMAIN number
-----------------------------------------------------------------------------
(* Who changes what.                                                        *)

Stores(c) == OpenSlot(c) \/ OpenDropped(c) \/ FillHead(c) \/ FillTail(c) \/ SealSlot(c)

Reader == TraceThread \/ ModuleStop

LEMMA StepKinds ==
  ASSUME [Next]_traceVars
  PROVE  \/ Reader
         \/ \E c \in Recorders : TakeNumber(c) \/ Stores(c) \/ Publish(c)
         \/ UNCHANGED traceVars
  BY DEF Next, Record, Stores, Reader

(* The trace thread, as the reader, writes neither the ring nor the number  *)
(* that is up.                                                              *)
LEMMA ReaderOnlyReads == Reader => UNCHANGED <<next, ring, writerVars>>
  BY DEF Reader, TraceThread, ModuleStop, ThreadCreated, NoThread, OpenLog, BeginPass,
         SkipRecord, LeaveLoop, NothingToRead, SlotNotReady, EventFound, WriteEvent,
         WriteLost, Reload, EndDelay, ringVars, writerVars

(* A recorder stores into the slot of its number, and it is on record when  *)
(* the reader has that slot in hand.                                        *)
LEMMA RecorderStores ==
  ASSUME RingInv, NEW c \in Recorders, Stores(c)
  PROVE  /\ UNCHANGED <<running, next, mine, number, published, readerVars, logVars>>
         /\ Busy(c)
         /\ Slot(Num(c)) \in Slots
         /\ \A i \in Slots : i # Slot(Num(c)) => ring'[i] = ring[i]
         /\ \A d \in Recorders : d # c => at'[d] = at[d]
         /\ InHand(Slot(Num(c))) => "inHand" \in spoilt'
<1> DEFINE i == Slot(Num(c))
<1>1. UNCHANGED <<running, next, mine, number, published, readerVars, logVars>>
  BY DEF Stores, OpenSlot, OpenDropped, FillHead, FillTail, SealSlot, ringVars
<1>2. Busy(c)
  BY DEF Busy, Stores, OpenSlot, OpenDropped, FillHead, FillTail, SealSlot
<1>3. i \in Slots
  <2>1. Num(c) \in Nat
    BY <1>2 DEF RingInv, TypeOK, Num
  <2> QED
    BY <2>1, SlotRange
<1> HIDE DEF i
<1>4. \A d \in Recorders : d # c => at'[d] = at[d]
  BY DEF Stores, OpenSlot, OpenDropped, FillHead, FillTail, SealSlot, Goto, RingInv, TypeOK
<1>5. \A j \in Slots : j # i => ring'[j] = ring[j]
  BY <1>3 DEF i, Stores, OpenSlot, OpenDropped, FillHead, FillTail, SealSlot, Store,
              ringVars, RingInv, TypeOK
<1>6. Races(c) \subseteq spoilt'
  BY DEF Stores, OpenSlot, OpenDropped, FillHead, FillTail, SealSlot
<1>7. InHand(i) => "inHand" \in spoilt'
  BY <1>6 DEF Races, i
<1> QED
  BY <1>1, <1>2, <1>3, <1>4, <1>5, <1>7 DEF i

LEMMA SpoiltForGood == [Next]_traceVars => spoilt \subseteq spoilt'
<1>1. Reader => spoilt \subseteq spoilt'
  BY DEF Reader, TraceThread, ModuleStop, ThreadCreated, NoThread, OpenLog, BeginPass,
         SkipRecord, LeaveLoop, NothingToRead, SlotNotReady, EventFound, WriteEvent,
         WriteLost, Reload, EndDelay
<1>2. \A c \in Recorders : TakeNumber(c) \/ Stores(c) \/ Publish(c) => spoilt \subseteq spoilt'
  BY DEF TakeNumber, Stores, OpenSlot, OpenDropped, FillHead, FillTail, SealSlot, Publish
<1>3. UNCHANGED traceVars => spoilt \subseteq spoilt'
  BY DEF traceVars
<1> QED
  BY <1>1, <1>2, <1>3, StepKinds

-----------------------------------------------------------------------------
LEMMA InitRing == Init => RingInv
<1> SUFFICES ASSUME Init
             PROVE  RingInv
  OBVIOUS
<1>1. TypeOK
  <2>1. running \in BOOLEAN /\ log \in BOOLEAN /\ closing \in BOOLEAN
    BY DEF Init
  <2>2. ring \in [Slots -> [seq : Nat, head : Nat, tail : Nat]]
    BY DEF Init, EmptyEvent, Nobody
  <2>3. number \in Seq(Nat)
    BY DEF Init
  <2> QED
    BY <2>1, <2>2, <2>3 DEF Init, TypeOK, Nobody
<1>2. DOMAIN number = {} /\ \A i \in Slots : ring[i].seq = 0
  BY DEF Init, EmptyEvent
<1>3. next # 0 /\ \A c \in Recorders : ~Busy(c)
  BY DEF Init, Busy
<1> QED
  BY <1>1, <1>2, <1>3 DEF RingInv, NumbersInv

LEMMA EndDelayFlag ==
  ASSUME running' = (running /\ loops + 1 < Passes)
  PROVE  running' \in BOOLEAN
  BY Zenon

LEMMA ReaderTypes ==
  ASSUME RingInv, Reader
  PROVE  TypeOK'
<1>1. UNCHANGED <<next, ring, at, mine, number>>
  BY ReaderOnlyReads DEF writerVars
<1>2. Event.seq \in Nat /\ Event.head \in Nat
  BY SlotRange DEF RingInv, TypeOK, Event
<1>3. running' \in BOOLEAN
  <2>1. EndDelay => running' \in BOOLEAN
    BY EndDelayFlag DEF EndDelay
  <2>2. running \in BOOLEAN
    BY DEF RingInv, TypeOK
  <2> QED
    BY <2>1, <2>2 DEF Reader, TraceThread, ModuleStop, ThreadCreated, NoThread, OpenLog,
         BeginPass, SkipRecord, LeaveLoop, NothingToRead, SlotNotReady, EventFound,
         WriteEvent, WriteLost, Reload, ringVars
<1>4. /\ pc' \in {"create", "absent", "open", "top", "record", "flush", "format",
                  "reload", "delay", "exited"}
      /\ loops' \in Nat
  BY DEF Reader, TraceThread, ModuleStop, ThreadCreated, NoThread, OpenLog,
         BeginPass, SkipRecord, LeaveLoop, NothingToRead, SlotNotReady, EventFound,
         WriteEvent, WriteLost, Reload, EndDelay, FlushEnds, readerVars, RingInv, TypeOK
<1>6. log' \in BOOLEAN /\ closing' \in BOOLEAN
  <2>1. log \in BOOLEAN /\ closing \in BOOLEAN
    BY DEF RingInv, TypeOK
  <2> QED
    BY <2>1 DEF Reader, TraceThread, ModuleStop, ThreadCreated, NoThread, OpenLog,
         BeginPass, SkipRecord, LeaveLoop, NothingToRead, SlotNotReady, EventFound,
         WriteEvent, WriteLost, Reload, EndDelay, readerVars
<1>5. read' \in Nat /\ head' \in Nat
  BY <1>2 DEF Reader, TraceThread, ModuleStop, ThreadCreated, NoThread, OpenLog,
         BeginPass, SkipRecord, LeaveLoop, NothingToRead, SlotNotReady, EventFound,
         WriteEvent, WriteLost, Reload, EndDelay, readerVars, RingInv, TypeOK, Nobody
<1> QED
  BY <1>1, <1>3, <1>4, <1>5, <1>6 DEF RingInv, TypeOK

(* A store keeps the ring's type, and puts in a number of this slot or 0.   *)
LEMMA StoredNumbers ==
  ASSUME RingInv, NEW c \in Recorders, Stores(c)
  PROVE  /\ ring' \in [Slots -> [seq : Nat, head : Nat, tail : Nat]]
         /\ at' \in [Recorders -> {"idle", "open", "fill", "rest", "seal", "publish"}]
         /\ ring'[Slot(Num(c))].seq \in {ring[Slot(Num(c))].seq, 0, Num(c)}
<1> DEFINE i == Slot(Num(c))
<1>1. i \in Slots /\ Busy(c)
  BY RecorderStores
<1>2. mine[c] \in Nat /\ Num(c) \in Nat
  BY <1>1 DEF RingInv, TypeOK, Num
<1>3. at' \in [Recorders -> {"idle", "open", "fill", "rest", "seal", "publish"}]
  BY DEF Stores, OpenSlot, OpenDropped, FillHead, FillTail, SealSlot, Goto, RingInv, TypeOK
<1> DEFINE n == Num(c)
<1> HIDE DEF i, n
<1>4. \/ ring' = ring
      \/ ring' = [ring EXCEPT ![i]["seq"] = 0]
      \/ ring' = [ring EXCEPT ![i]["seq"] = n]
      \/ ring' = [ring EXCEPT ![i]["head"] = mine[c]]
      \/ ring' = [ring EXCEPT ![i]["tail"] = mine[c]]
  BY DEF Stores, OpenSlot, OpenDropped, FillHead, FillTail, SealSlot, Store, ringVars, i, n
<1>5. ring \in [Slots -> [seq : Nat, head : Nat, tail : Nat]]
  BY DEF RingInv, TypeOK
<1>6. n \in Nat
  BY <1>2 DEF n
<1>7. ring' \in [Slots -> [seq : Nat, head : Nat, tail : Nat]]
  BY <1>1, <1>2, <1>4, <1>5, <1>6
<1>8. ring'[i].seq \in {ring[i].seq, 0, n}
  BY <1>1, <1>4, <1>5
<1> QED
  BY <1>3, <1>7, <1>8 DEF i, n

LEMMA StepRing == RingInv /\ [Next]_traceVars => RingInv'
<1> SUFFICES ASSUME RingInv, [Next]_traceVars
             PROVE  RingInv'
  OBVIOUS
<1>1. CASE Reader
  <2>1. UNCHANGED <<next, ring, at, mine, number>>
    BY <1>1, ReaderOnlyReads DEF writerVars
  <2> QED
    BY <1>1, <2>1, ReaderTypes DEF RingInv, NumbersInv, Busy
<1>2. ASSUME NEW c \in Recorders, TakeNumber(c)
      PROVE  RingInv'
  <2>1. /\ number' = Append(number, next)
        /\ mine' = [mine EXCEPT ![c] = Len(number) + 1]
        /\ at' = [at EXCEPT ![c] = "open"]
        /\ UNCHANGED <<ringVars, readerVars>>
    BY <1>2 DEF TakeNumber
  <2>2. number \in Seq(Nat) /\ next \in Nat /\ next # 0
    BY DEF RingInv, TypeOK
  <2>3. /\ number' \in Seq(Nat)
        /\ DOMAIN number' = 1..(Len(number) + 1)
        /\ DOMAIN number = 1..Len(number)
        /\ Len(number) \in Nat
        /\ \A r \in DOMAIN number : r \in DOMAIN number' /\ number'[r] = number[r]
        /\ number'[Len(number) + 1] = next
    BY <2>1, <2>2
  <2>4. TypeOK'
    BY <2>1, <2>3 DEF RingInv, TypeOK, ringVars, readerVars
  <2>5. \A r \in DOMAIN number' : number'[r] # 0
    BY <2>2, <2>3 DEF RingInv
  <2>6. \A d \in Recorders : Busy(d)' => mine'[d] \in DOMAIN number'
    BY <2>1, <2>3 DEF RingInv, TypeOK, Busy
  <2>7. NumbersInv'
    BY <2>1, <2>3 DEF RingInv, NumbersInv, ringVars
  <2> QED
    BY <2>1, <2>2, <2>4, <2>5, <2>6, <2>7 DEF RingInv, ringVars
<1>3. ASSUME NEW c \in Recorders, Stores(c)
      PROVE  RingInv'
  <2> DEFINE i == Slot(Num(c))
  <2>1. /\ UNCHANGED <<running, next, mine, number, published, readerVars, logVars>>
        /\ Busy(c)
        /\ i \in Slots
        /\ \A j \in Slots : j # i => ring'[j] = ring[j]
        /\ \A d \in Recorders : d # c => at'[d] = at[d]
    BY <1>3, RecorderStores
  <2>2. /\ ring' \in [Slots -> [seq : Nat, head : Nat, tail : Nat]]
        /\ at' \in [Recorders -> {"idle", "open", "fill", "rest", "seal", "publish"}]
        /\ ring'[i].seq \in {ring[i].seq, 0, Num(c)}
    BY <1>3, StoredNumbers
  <2>3. Num(c) = number[mine[c]] /\ mine[c] \in DOMAIN number
    BY <2>1 DEF RingInv, Num
  <2>4. ring'[i].seq # 0 => /\ Slot(ring'[i].seq) = i
                            /\ \E r \in DOMAIN number : number[r] = ring'[i].seq
    BY <2>1, <2>2, <2>3 DEF RingInv, NumbersInv
  <2> HIDE DEF i
  <2>5. NumbersInv'
    BY <2>1, <2>4 DEF RingInv, NumbersInv
  <2>6. TypeOK'
    BY <2>1, <2>2 DEF RingInv, TypeOK, readerVars
  <2>7. \A d \in Recorders : Busy(d)' => mine'[d] \in DOMAIN number'
    BY <2>1 DEF RingInv, Busy
  <2> QED
    BY <2>1, <2>5, <2>6, <2>7 DEF RingInv
<1>4. ASSUME NEW c \in Recorders, Publish(c)
      PROVE  RingInv'
  <2>1. /\ next' = Num(c) + 1
        /\ at' = [at EXCEPT ![c] = "idle"]
        /\ mine' = [mine EXCEPT ![c] = Nobody]
        /\ pc' \in {pc, "flush", "delay"}
        /\ UNCHANGED <<running, ring, number, read, log, closing, loops, head>>
    BY <1>4 DEF Publish, Goto, AfterRecord
  <2>2. Num(c) \in Nat
    BY <1>4 DEF Publish, RingInv, TypeOK, Busy, Num
  <2>3. TypeOK'
    BY <2>1, <2>2 DEF RingInv, TypeOK, Nobody
  <2>4. \A d \in Recorders : Busy(d)' => mine'[d] \in DOMAIN number'
    BY <2>1 DEF RingInv, TypeOK, Busy
  <2> QED
    BY <2>1, <2>2, <2>3, <2>4 DEF RingInv, NumbersInv
<1>5. CASE UNCHANGED traceVars
  BY <1>5 DEF traceVars, ringVars, writerVars, readerVars, RingInv, TypeOK, NumbersInv, Busy
<1> QED
  BY <1>1, <1>2, <1>3, <1>4, <1>5, StepKinds

(* The types of the trace's variables, whoever records when (dev/main.c     *)
(* 488-530, 800-835).                                                       *)
THEOREM TraceTyped == Spec => []TypeOK
<1>1. RingInv => TypeOK
  BY DEF RingInv
<1> QED
  BY <1>1, InitRing, StepRing, PTL DEF Spec
-----------------------------------------------------------------------------
(* Overlapping recorders included.                                          *)

LEMMA LostIsAhead ==
  ASSUME RingInv, [Next]_traceVars, reported' # reported
  PROVE  \E r \in DOMAIN number : number[r] >= read + Size
<1>1. WriteLost
  BY DEF Next, TraceThread, ModuleStop, ThreadCreated, NoThread, OpenLog,
         BeginPass, SkipRecord, LeaveLoop, NothingToRead, SlotNotReady, EventFound,
         WriteEvent, Reload, EndDelay, Record, TakeNumber, OpenSlot, OpenDropped,
         FillHead, FillTail, SealSlot, Publish, logVars, traceVars
<1>2. Event.seq > read
  BY <1>1 DEF WriteLost
<1>3. read \in Nat /\ Slot(read) \in Slots /\ Event.seq \in Nat
  BY SlotRange DEF RingInv, TypeOK, Event
<1>4. /\ Slot(Event.seq) = Slot(read)
      /\ \E r \in DOMAIN number : number[r] = Event.seq
  BY <1>2, <1>3 DEF RingInv, NumbersInv, Event
<1>5. Event.seq >= read + Size
  BY <1>2, <1>3, <1>4, SharedSlot
<1> QED
  BY <1>4, <1>5

(* When numbers are reported as lost, the recorders have taken a number     *)
(* that is a whole ring ahead of the reader, overlapping or not             *)
(* (trace_flush, trace_write_lost).                                         *)
THEOREM LostIsOverflow == Spec => LostMeansOverflow
<1>1. RingInv /\ [Next]_traceVars
        => [reported' # reported => \E r \in DOMAIN number : number[r] >= read + Size]_traceVars
  BY LostIsAhead
<1> QED
  BY <1>1, InitRing, StepRing, PTL DEF Spec, LostMeansOverflow

LEMMA StepReload == RingInv /\ ReloadInv /\ [Next]_traceVars => ReloadInv'
<1> SUFFICES ASSUME RingInv, ReloadInv, [Next]_traceVars, pc' = "reload"
             PROVE  ring'[Slot(read')].seq > read' \/ "inHand" \in spoilt'
  BY DEF ReloadInv
<1>0. spoilt \subseteq spoilt'
  BY SpoiltForGood
<1>1. CASE Reader
  <2>1. ring' = ring
    BY <1>1, ReaderOnlyReads
  <2>2. CASE WriteLost
    BY <2>1, <2>2 DEF WriteLost, Event
  <2>3. CASE ModuleStop
    BY <1>0, <2>1, <2>3 DEF ModuleStop, ReloadInv, readerVars
  <2> QED
    BY <1>1, <2>2, <2>3 DEF Reader, TraceThread, ThreadCreated, NoThread, OpenLog,
       BeginPass, SkipRecord, LeaveLoop, NothingToRead, SlotNotReady, EventFound,
       WriteEvent, Reload, EndDelay, FlushEnds
<1>2. ASSUME NEW c \in Recorders, TakeNumber(c)
      PROVE  ring'[Slot(read')].seq > read' \/ "inHand" \in spoilt'
  BY <1>0, <1>2 DEF TakeNumber, ringVars, readerVars, ReloadInv
<1>3. ASSUME NEW c \in Recorders, Stores(c)
      PROVE  ring'[Slot(read')].seq > read' \/ "inHand" \in spoilt'
  <2>1. /\ UNCHANGED <<read, pc>>
        /\ \A i \in Slots : i # Slot(Num(c)) => ring'[i] = ring[i]
        /\ InHand(Slot(Num(c))) => "inHand" \in spoilt'
    BY <1>3, RecorderStores DEF readerVars
  <2>2. Slot(read) \in Slots
    BY SlotRange DEF RingInv, TypeOK
  <2> QED
    BY <1>0, <2>1, <2>2 DEF ReloadInv, InHand
<1>4. ASSUME NEW c \in Recorders, Publish(c)
      PROVE  ring'[Slot(read')].seq > read' \/ "inHand" \in spoilt'
  <2>1. pc' = pc /\ UNCHANGED <<ring, read, spoilt>>
    BY <1>4 DEF Publish, AfterRecord
  <2> QED
    BY <2>1 DEF ReloadInv
<1>5. CASE UNCHANGED traceVars
  BY <1>5 DEF traceVars, ringVars, readerVars, ReloadInv
<1> QED
  BY <1>1, <1>2, <1>3, <1>4, <1>5, StepKinds

-----------------------------------------------------------------------------
(* As long as no race has touched the slots.                                *)

LEMMA UntouchedBefore ==
  ASSUME [Next]_traceVars, Untouched'
  PROVE  Untouched /\ spoilt' \subseteq {"cut", "overrun"}
  BY SpoiltForGood DEF Untouched

LEMMA UndisturbedBefore ==
  ASSUME [Next]_traceVars, Undisturbed'
  PROVE  Undisturbed /\ Untouched /\ spoilt' \subseteq {"overrun"}
  BY SpoiltForGood DEF Undisturbed, Untouched

LEMMA StepOrder == RingInv /\ OrderInv /\ [Next]_traceVars => OrderInv'
<1> SUFFICES ASSUME RingInv, OrderInv, [Next]_traceVars, Untouched'
             PROVE  OrderInv'
  BY DEF OrderInv
<1>0. Untouched /\ spoilt' \subseteq {"cut", "overrun"}
  BY UntouchedBefore
<1>1. CASE UNCHANGED <<next, number, at, mine>>
  BY <1>0, <1>1 DEF OrderInv, Busy
<1>2. CASE Reader
  BY <1>1, <1>2, ReaderOnlyReads DEF writerVars
<1>3. ASSUME NEW c \in Recorders, TakeNumber(c)
      PROVE  OrderInv'
  <2>1. /\ number' = Append(number, next)
        /\ mine' = [mine EXCEPT ![c] = Len(number) + 1]
        /\ at' = [at EXCEPT ![c] = "open"]
        /\ next' = next
        /\ ~Busy(c)
        /\ ~Overlap(c)
    BY <1>0, <1>3 DEF TakeNumber, ringVars, Busy
  <2>2. \A d \in Recorders : ~Busy(d)
    BY <2>1 DEF Overlap, Busy
  <2>3. number \in Seq(Nat) /\ next = Len(number) + 1
    BY <1>0, <2>2 DEF OrderInv, RingInv, TypeOK
  <2>4. /\ Len(number') = Len(number) + 1
        /\ \A r \in DOMAIN number' : number'[r] = r
    BY <1>0, <2>1, <2>3 DEF OrderInv
  <2>5. \A d \in Recorders : Busy(d)' <=> d = c
    BY <2>1, <2>2 DEF Busy, RingInv, TypeOK
  <2>6. mine'[c] = Len(number')
    BY <2>1, <2>4 DEF RingInv, TypeOK
  <2> QED
    BY <2>1, <2>3, <2>4, <2>5, <2>6 DEF OrderInv
<1>4. ASSUME NEW c \in Recorders, Stores(c)
      PROVE  OrderInv'
  <2>1. /\ UNCHANGED <<next, mine, number>>
        /\ Busy(c)
        /\ \A d \in Recorders : d # c => at'[d] = at[d]
    BY <1>4, RecorderStores
  <2>2. \A d \in Recorders : Busy(d)' => Busy(d)
    BY <2>1 DEF Busy
  <2>3. Busy(c)'
    BY <1>4 DEF Stores, OpenSlot, OpenDropped, FillHead, FillTail, SealSlot, Goto, Busy,
                RingInv, TypeOK
  <2> QED
    BY <1>0, <2>1, <2>2, <2>3 DEF OrderInv
<1>5. ASSUME NEW c \in Recorders, Publish(c)
      PROVE  OrderInv'
  <2>1. /\ Busy(c)
        /\ next' = Num(c) + 1
        /\ at' = [at EXCEPT ![c] = "idle"]
        /\ number' = number
    BY <1>5 DEF Publish, Goto, Busy
  <2>2. \A d \in Recorders : ~Busy(d)'
    BY <1>0, <2>1 DEF OrderInv, Busy, RingInv, TypeOK
  <2>3. Num(c) = Len(number)
    BY <1>0, <2>1 DEF OrderInv, RingInv, Num
  <2> QED
    BY <1>0, <2>1, <2>2, <2>3 DEF OrderInv
<1>6. CASE UNCHANGED traceVars
  BY <1>1, <1>6 DEF traceVars, ringVars, writerVars
<1> QED
  BY <1>2, <1>3, <1>4, <1>5, <1>6, StepKinds

(* The record a recorder writes has its own number.                         *)
LEMMA OwnNumber ==
  ASSUME RingInv, OrderInv, Untouched, NEW c \in Recorders, Busy(c)
  PROVE  /\ Num(c) = mine[c]
         /\ mine[c] = next
         /\ mine[c] \in Nat \ {0}
         /\ Slot(Num(c)) \in Slots
         /\ \A d \in Recorders : Busy(d) => d = c
<1>1. /\ number \in Seq(Nat)
      /\ mine[c] \in DOMAIN number
  BY DEF RingInv, TypeOK
<1>2. Num(c) = mine[c] /\ mine[c] = next
  BY <1>1 DEF OrderInv, Num
<1>3. mine[c] \in Nat \ {0}
  BY <1>1, <1>2 DEF RingInv, TypeOK
<1> QED
  BY <1>2, <1>3, SlotRange DEF OrderInv

(* Forward goes the reader, too.                                            *)
LEMMA ReaderForward ==
  ASSUME RingInv, SlotInv, ReloadInv, Untouched, Reader
  PROVE  read' \in Nat /\ read' >= read
<1>1. read \in Nat /\ Event.seq \in Nat
  BY SlotRange DEF RingInv, TypeOK, Event
<1>2. Reload => read' = Event.seq /\ Event.seq > read
  BY DEF Reload, ReloadInv, Untouched, Event
<1>3. Reload \/ read' = read \/ read' = read + 1
  BY DEF Reader, TraceThread, ModuleStop, ThreadCreated, NoThread, OpenLog,
     BeginPass, SkipRecord, LeaveLoop, NothingToRead, SlotNotReady, EventFound,
     WriteEvent, WriteLost, Reload, EndDelay, readerVars
<1> QED
  BY <1>1, <1>2, <1>3

LEMMA StepSlot ==
  RingInv /\ OrderInv /\ ReloadInv /\ SlotInv /\ [Next]_traceVars => SlotInv'
<1> SUFFICES ASSUME RingInv, OrderInv, ReloadInv, SlotInv, [Next]_traceVars, Untouched'
             PROVE  SlotInv'
  BY DEF SlotInv
<1>0. Untouched /\ spoilt' \subseteq {"cut", "overrun"}
  BY UntouchedBefore
<1>1. CASE Reader
  <2>1. UNCHANGED <<ring, at, mine, number>>
    BY <1>1, ReaderOnlyReads DEF writerVars
  <2>2. read' \in Nat /\ read' >= read /\ read \in Nat
    BY <1>0, <1>1, ReaderForward DEF RingInv, TypeOK
  <2>3. \A i \in Slots : ring[i].seq \in Nat
    BY DEF RingInv, TypeOK
  <2>4. \A c \in Recorders : Num(c)' = Num(c)
    BY <2>1 DEF Num
  <2>5. \A c \in Recorders : at[c] \in {"fill", "rest", "seal"} => Slot(Num(c)) \in Slots
    BY <1>0, OwnNumber DEF Busy
  <2> QED
    BY <1>0, <2>1, <2>2, <2>3, <2>4, <2>5 DEF SlotInv
<1>2. ASSUME NEW c \in Recorders, TakeNumber(c)
      PROVE  SlotInv'
  <2>1. /\ number' = Append(number, next)
        /\ mine' = [mine EXCEPT ![c] = Len(number) + 1]
        /\ at' = [at EXCEPT ![c] = "open"]
        /\ UNCHANGED <<ring, read>>
        /\ ~Overlap(c)
    BY <1>0, <1>2 DEF TakeNumber, ringVars, readerVars
  <2>2. \A d \in Recorders : at'[d] \in {"idle", "open"}
    BY <2>1 DEF Overlap, RingInv, TypeOK
  <2> QED
    BY <1>0, <2>1, <2>2 DEF SlotInv
<1>3. ASSUME NEW c \in Recorders, Stores(c)
      PROVE  SlotInv'
  <2> DEFINE i == Slot(Num(c))
  <2>1. /\ UNCHANGED <<mine, number, read>>
        /\ Busy(c)
        /\ \A j \in Slots : j # i => ring'[j] = ring[j]
        /\ \A d \in Recorders : d # c => at'[d] = at[d]
    BY <1>3, RecorderStores DEF readerVars
  <2>2. /\ Num(c) = mine[c]
        /\ mine[c] \in Nat \ {0}
        /\ i \in Slots
        /\ \A d \in Recorders : d # c => ~Busy(d)
    BY <1>0, <2>1, OwnNumber
  <2>3. \A d \in Recorders : d # c => at'[d] = "idle"
    BY <2>1, <2>2 DEF Busy
  <2>4. i' = i /\ Num(c)' = Num(c)
    BY <2>1 DEF Num
  <2> DEFINE e == ring[i]
             f == ring'[i]
  <2>5. /\ e \in [seq : Nat, head : Nat, tail : Nat]
        /\ e.seq >= read => e.head = e.seq /\ e.tail = e.seq
        /\ at[c] \in {"fill", "rest", "seal"} => e.seq < read
        /\ at[c] \in {"rest", "seal"} => e.head = mine[c]
        /\ at[c] = "seal" => e.tail = mine[c]
        /\ read # 0 /\ read \in Nat
    BY <1>0, <2>2 DEF SlotInv, RingInv, TypeOK
  <2> HIDE DEF i
  <2>6. /\ f.seq >= read => f.head = f.seq /\ f.tail = f.seq
        /\ at'[c] \in {"fill", "rest", "seal"} => f.seq < read
        /\ at'[c] \in {"rest", "seal"} => f.head = mine[c]
        /\ at'[c] = "seal" => f.tail = mine[c]
    <3>1. /\ ring \in [Slots -> [seq : Nat, head : Nat, tail : Nat]]
          /\ at \in [Recorders -> {"idle", "open", "fill", "rest", "seal", "publish"}]
      BY DEF RingInv, TypeOK
    <3>2. CASE OpenSlot(c)
      <4>1. at'[c] = "fill" /\ f.seq = 0
        BY <2>2, <3>1, <3>2 DEF OpenSlot, Store, Goto, i
      <4> QED
        BY <2>5, <4>1
    <3>3. CASE OpenDropped(c)
      <4>1. at'[c] = "fill" /\ f = e /\ ~(e.seq >= read)
        BY <1>0, <3>1, <3>3 DEF OpenDropped, Goto, ringVars, i
      <4> QED
        BY <2>5, <4>1
    <3>4. CASE FillHead(c)
      <4>1. /\ at[c] = "fill"
            /\ at'[c] = "rest"
            /\ f.seq = e.seq
            /\ f.head = mine[c]
        BY <2>2, <3>1, <3>4 DEF FillHead, Store, Goto, i
      <4> QED
        BY <2>5, <4>1
    <3>5. CASE FillTail(c)
      <4>1. /\ at[c] = "rest"
            /\ at'[c] = "seal"
            /\ f.seq = e.seq
            /\ f.head = e.head
            /\ f.tail = mine[c]
        BY <2>2, <3>1, <3>5 DEF FillTail, Store, Goto, i
      <4> QED
        BY <2>5, <4>1
    <3>6. CASE SealSlot(c)
      <4>1. /\ at[c] = "seal"
            /\ at'[c] = "publish"
            /\ f.seq = mine[c]
            /\ f.head = e.head
            /\ f.tail = e.tail
        BY <2>2, <3>1, <3>6 DEF SealSlot, Store, Goto, i
      <4> QED
        BY <2>5, <4>1
    <3> QED
      BY <1>3, <3>2, <3>3, <3>4, <3>5, <3>6 DEF Stores
  <2>7. \A j \in Slots : ring'[j].seq >= read
          => ring'[j].head = ring'[j].seq /\ ring'[j].tail = ring'[j].seq
    BY <1>0, <2>1, <2>6 DEF SlotInv
  <2>8. \A d \in Recorders :
          /\ at'[d] \in {"fill", "rest", "seal"} => ring'[Slot(Num(d)')].seq < read
          /\ at'[d] \in {"rest", "seal"} => ring'[Slot(Num(d)')].head = mine[d]
          /\ at'[d] = "seal" => ring'[Slot(Num(d)')].tail = mine[d]
    BY <2>3, <2>4, <2>6 DEF i
  <2> QED
    BY <2>1, <2>5, <2>7, <2>8 DEF SlotInv
<1>4. ASSUME NEW c \in Recorders, Publish(c)
      PROVE  SlotInv'
  <2>1. /\ Busy(c)
        /\ at' = [at EXCEPT ![c] = "idle"]
        /\ UNCHANGED <<ring, read>>
    BY <1>4 DEF Publish, Goto, Busy
  <2>2. \A d \in Recorders : at'[d] = "idle"
    BY <1>0, <2>1, OwnNumber DEF Busy, RingInv, TypeOK
  <2> QED
    BY <1>0, <2>1, <2>2 DEF SlotInv
<1>5. CASE UNCHANGED traceVars
  <2>1. UNCHANGED <<ring, at, mine, number, read>>
    BY <1>5 DEF traceVars, ringVars, writerVars, readerVars
  <2> QED
    BY <1>0, <2>1 DEF SlotInv, Num
<1> QED
  BY <1>1, <1>2, <1>3, <1>4, <1>5, StepKinds

-----------------------------------------------------------------------------
(* The reader.                                                              *)

LEMMA StepHand ==
  RingInv /\ ReloadInv /\ SlotInv /\ HandInv /\ [Next]_traceVars => HandInv'
<1> SUFFICES ASSUME RingInv, ReloadInv, SlotInv, HandInv, [Next]_traceVars, Untouched'
             PROVE  HandInv'
  BY DEF HandInv
<1>0. Untouched /\ spoilt' \subseteq {"cut", "overrun"}
  BY UntouchedBefore
<1> DEFINE i == Slot(read)
<1>1. read \in Nat /\ read # 0 /\ i \in Slots /\ ring[i].seq \in Nat
  BY <1>0, SlotRange DEF SlotInv, RingInv, TypeOK
<1>2. CASE Reader
  <2>1. ring' = ring
    BY <1>2, ReaderOnlyReads
  <2>2. CASE EventFound
    <3>1. /\ ring[i].seq = read
          /\ head' = ring[i].head
          /\ pc' = "format"
          /\ UNCHANGED <<read, printed, reported, mixed>>
      BY <2>2 DEF EventFound, Event, logVars
    <3>2. ring[i].head = read
      BY <1>0, <1>1, <3>1 DEF SlotInv
    <3> QED
      BY <1>0, <2>1, <3>1, <3>2 DEF HandInv
  <2>3. CASE WriteEvent
    <3>1. ring[i].seq = read /\ head = read
      BY <1>0, <2>3 DEF WriteEvent, HandInv
    <3>2. ring[i].tail = read
      BY <1>0, <1>1, <3>1 DEF SlotInv
    <3>3. /\ printed' = printed \cup {read}
          /\ mixed' = mixed
          /\ read' = read + 1
          /\ pc' = "flush"
          /\ reported' = reported
      BY <2>3, <3>1, <3>2 DEF WriteEvent, Event
    <3> QED
      BY <1>0, <1>1, <3>3 DEF HandInv
  <2>4. CASE WriteLost
    <3>1. /\ reported' = reported \cup read..(ring[i].seq - 1)
          /\ pc' = "reload"
          /\ UNCHANGED <<read, printed, mixed>>
      BY <2>4 DEF WriteLost, Event
    <3> QED
      BY <1>0, <2>1, <3>1 DEF HandInv
  <2>5. CASE Reload
    <3>1. /\ read' = ring[i].seq
          /\ pc' = "flush"
          /\ UNCHANGED <<printed, reported, mixed>>
          /\ read..(ring[i].seq - 1) \subseteq reported
      BY <1>0, <2>5 DEF Reload, Event, HandInv, logVars
    <3>2. \A n \in 1..(read' - 1) : n \in 1..(read - 1) \/ n \in read..(ring[i].seq - 1)
      BY <1>1, <3>1
    <3> QED
      BY <1>0, <3>1, <3>2 DEF HandInv
  <2>6. CASE ModuleStop
    BY <1>0, <2>1, <2>6 DEF ModuleStop, HandInv, readerVars, logVars
  <2>7. CASE ThreadCreated \/ NoThread \/ OpenLog \/ BeginPass \/ SkipRecord \/ LeaveLoop
             \/ NothingToRead \/ SlotNotReady \/ EndDelay
    <3>1. pc' \notin {"format", "reload"} /\ UNCHANGED <<read, printed, reported, mixed>>
      BY <2>7 DEF ThreadCreated, NoThread, OpenLog, BeginPass, SkipRecord, LeaveLoop,
         NothingToRead, SlotNotReady, EndDelay, FlushEnds, logVars
    <3> QED
      BY <1>0, <3>1 DEF HandInv
  <2> QED
    BY <1>2, <2>2, <2>3, <2>4, <2>5, <2>6, <2>7 DEF Reader, TraceThread
<1>3. ASSUME NEW c \in Recorders, TakeNumber(c)
      PROVE  HandInv'
  BY <1>0, <1>3 DEF TakeNumber, ringVars, readerVars, logVars, HandInv
<1>4. ASSUME NEW c \in Recorders, Stores(c)
      PROVE  HandInv'
  <2>1. /\ UNCHANGED <<readerVars, logVars>>
        /\ \A j \in Slots : j # Slot(Num(c)) => ring'[j] = ring[j]
        /\ ~InHand(Slot(Num(c)))
    BY <1>0, <1>4, RecorderStores
  <2>2. pc \in {"format", "reload"} => ring'[i] = ring[i]
    BY <1>1, <2>1 DEF InHand
  <2> HIDE DEF i
  <2>3. i' = i
    BY <2>1 DEF i, readerVars
  <2> QED
    BY <1>0, <2>1, <2>2, <2>3 DEF HandInv, readerVars, logVars, i
<1>5. ASSUME NEW c \in Recorders, Publish(c)
      PROVE  HandInv'
  <2>1. pc' \in {pc, "flush", "delay"} /\ UNCHANGED <<ring, read, head, logVars>>
    BY <1>5 DEF Publish, AfterRecord
  <2> QED
    BY <1>0, <2>1 DEF HandInv, logVars
<1>6. CASE UNCHANGED traceVars
  BY <1>0, <1>6 DEF traceVars, ringVars, readerVars, logVars, HandInv
<1> QED
  BY <1>2, <1>3, <1>4, <1>5, <1>6, StepKinds

LEMMA StepStop ==
  RingInv /\ OrderInv /\ SlotInv /\ StopInv /\ [Next]_traceVars => StopInv'
<1> SUFFICES ASSUME RingInv, OrderInv, SlotInv, StopInv, [Next]_traceVars, Undisturbed'
             PROVE  StopInv'
  BY DEF StopInv
<1>0. Undisturbed /\ Untouched /\ spoilt' \subseteq {"overrun"}
  BY UndisturbedBefore
<1>1. read \in Nat /\ next \in Nat
  BY DEF RingInv, TypeOK
<1>2. CASE Reader
  <2>1. UNCHANGED <<next, published>>
    BY <1>2, ReaderOnlyReads DEF writerVars
  <2>2. CASE LeaveLoop
    BY <1>0, <2>1, <2>2 DEF LeaveLoop, StopInv
  <2>3. CASE NothingToRead
    <3>1. read >= next /\ FlushEnds /\ UNCHANGED <<read, log, closing>>
      BY <2>3 DEF NothingToRead
    <3>2. 1..(next - 1) \subseteq 1..(read - 1)
      BY <1>1, <3>1
    <3> QED
      BY <1>0, <2>1, <3>1, <3>2 DEF FlushEnds, StopInv
  <2>4. CASE SlotNotReady
    <3>1. ~closing
      BY <1>0, <2>4 DEF SlotNotReady
    <3> QED
      BY <1>0, <2>1, <2>4, <3>1 DEF SlotNotReady, FlushEnds, StopInv
  <2>5. CASE ModuleStop
    BY <1>0, <2>1, <2>5 DEF ModuleStop, StopInv, readerVars
  <2>6. CASE ThreadCreated \/ NoThread \/ OpenLog \/ BeginPass \/ SkipRecord
             \/ EventFound \/ WriteEvent \/ WriteLost \/ Reload \/ EndDelay
    <3>1. pc' # "exited"
      BY <2>6 DEF ThreadCreated, NoThread, OpenLog, BeginPass, SkipRecord, EventFound,
         WriteEvent, WriteLost, Reload, EndDelay
    <3> QED
      BY <1>0, <2>1, <3>1 DEF StopInv
  <2> QED
    BY <1>2, <2>2, <2>3, <2>4, <2>5, <2>6 DEF Reader, TraceThread
<1>3. ASSUME NEW c \in Recorders, TakeNumber(c) \/ Stores(c)
      PROVE  StopInv'
  <2>1. UNCHANGED <<next, published, pc, closing, log, read>>
    BY <1>3, RecorderStores DEF TakeNumber, ringVars, readerVars
  <2> QED
    BY <1>0, <2>1 DEF StopInv
<1>4. ASSUME NEW c \in Recorders, Publish(c)
      PROVE  StopInv'
  <2>1. /\ Busy(c)
        /\ next' = Num(c) + 1
        /\ published' = IF closing THEN published ELSE published \cup {mine[c]}
        /\ pc' \in {pc, "flush", "delay"}
        /\ UNCHANGED <<read, log, closing>>
    BY <1>4 DEF Publish, AfterRecord, Busy
  <2>2. Num(c) = mine[c] /\ mine[c] = next /\ mine[c] \in Nat \ {0}
    BY <1>0, <2>1, OwnNumber
  <2>3. published \subseteq 1..(next' - 1) /\ mine[c] \in 1..(next' - 1)
    BY <1>0, <1>1, <2>1, <2>2 DEF StopInv
  <2> QED
    BY <1>0, <2>1, <2>3 DEF StopInv
<1>5. CASE UNCHANGED traceVars
  BY <1>0, <1>5 DEF traceVars, ringVars, writerVars, readerVars, StopInv
<1> QED
  BY <1>2, <1>3, <1>4, <1>5, StepKinds

-----------------------------------------------------------------------------
UndisturbedInv == RingInv /\ ReloadInv /\ OrderInv /\ SlotInv /\ HandInv /\ StopInv

LEMMA InitUndisturbed == Init => UndisturbedInv
<1> SUFFICES ASSUME Init
             PROVE  UndisturbedInv
  OBVIOUS
<1>1. RingInv
  BY InitRing
<1>2. /\ number = << >> /\ next = 1 /\ read = 1 /\ pc = "create"
      /\ published = {} /\ ~mixed
      /\ \A c \in Recorders : at[c] = "idle"
      /\ \A i \in Slots : ring[i].seq = 0
  BY DEF Init, EmptyEvent
<1>3. ReloadInv
  BY <1>2 DEF ReloadInv
<1>4. OrderInv
  BY <1>2 DEF OrderInv, Busy
<1>5. SlotInv
  BY <1>2 DEF SlotInv
<1>6. HandInv
  BY <1>2 DEF HandInv
<1>7. StopInv
  BY <1>2 DEF StopInv
<1> QED
  BY <1>1, <1>3, <1>4, <1>5, <1>6, <1>7 DEF UndisturbedInv

LEMMA AlwaysUndisturbedInv == Spec => []UndisturbedInv
<1>1. UndisturbedInv /\ [Next]_traceVars => UndisturbedInv'
  BY StepRing, StepReload, StepOrder, StepSlot, StepHand, StepStop DEF UndisturbedInv
<1> QED
  BY <1>1, InitUndisturbed, PTL DEF Spec

(* A published record has its own number, which has been taken.             *)
LEMMA PublishedNumber ==
  ASSUME UndisturbedInv, Undisturbed, NEW r \in published
  PROVE  number[r] = r /\ r \in Nat \ {0}
<1>1. /\ r \in 1..(next - 1)
      /\ next \in Nat
      /\ number \in Seq(Nat)
      /\ next <= Len(number) + 1
  BY DEF UndisturbedInv, StopInv, RingInv, TypeOK, OrderInv, Undisturbed, Untouched
<1> QED
  BY <1>1 DEF UndisturbedInv, OrderInv, Undisturbed, Untouched

(* Undisturbed, what the reader has passed is in the log or reported as     *)
(* lost: any size of the ring, any number of hooks and records              *)
(* (trace_flush, trace_write_lost).                                         *)
THEOREM PassedIsTold == Spec => []NothingMissed
<1>1. UndisturbedInv => NothingMissed
  <2> SUFFICES ASSUME UndisturbedInv, Undisturbed, NEW r \in published, number[r] < read
               PROVE  Told(r)
    BY DEF NothingMissed
  <2>1. number[r] = r /\ r \in Nat \ {0} /\ read \in Nat
    BY PublishedNumber DEF UndisturbedInv, RingInv, TypeOK
  <2>2. r \in 1..(read - 1)
    BY <2>1
  <2> QED
    BY <2>1, <2>2 DEF UndisturbedInv, HandInv, Told, Undisturbed, Untouched
<1> QED
  BY <1>1, AlwaysUndisturbedInv, PTL

(* Undisturbed, a line of the log is never put together from two records,   *)
(* even where the compiler has dropped the store that hides the slot        *)
(* (trace_record_packet_call, trace_flush).                                 *)
THEOREM LinesAreIntact == Spec => []LinesIntact
<1>1. UndisturbedInv => LinesIntact
  BY DEF UndisturbedInv, HandInv, LinesIntact, Undisturbed, Untouched
<1> QED
  BY <1>1, AlwaysUndisturbedInv, PTL

(* Undisturbed, the last flush leaves nothing behind (syscon_trace_thread). *)
THEOREM LogIsComplete == Spec => []CompleteAtStop
<1>1. UndisturbedInv => CompleteAtStop
  <2> SUFFICES ASSUME UndisturbedInv, pc = "exited", log, Undisturbed, NEW r \in published
               PROVE  Told(r)
    BY DEF CompleteAtStop
  <2>1. number[r] = r /\ r \in 1..(read - 1)
    BY PublishedNumber DEF UndisturbedInv, StopInv
  <2> QED
    BY <2>1 DEF UndisturbedInv, HandInv, Told, Undisturbed, Untouched
<1> QED
  BY <1>1, AlwaysUndisturbedInv, PTL
-----------------------------------------------------------------------------
(* Without an overrun.                                                      *)

CalmInv == RingInv /\ ReloadInv /\ OrderInv /\ SlotInv /\ HandInv /\ BehindInv /\ KeepsUpInv

LEMMA StepBehind ==
  RingInv /\ ReloadInv /\ OrderInv /\ SlotInv /\ BehindInv /\ [Next]_traceVars => BehindInv'
<1> SUFFICES ASSUME RingInv, ReloadInv, OrderInv, SlotInv, BehindInv, [Next]_traceVars,
                    Untouched'
             PROVE  BehindInv'
  BY DEF BehindInv
<1>0. Untouched /\ spoilt' \subseteq {"cut", "overrun"}
  BY UntouchedBefore
<1>1. /\ read \in Nat
      /\ next \in Nat
      /\ Slot(read) \in Slots
      /\ \A i \in Slots : ring[i].seq \in Nat
  BY SlotRange DEF RingInv, TypeOK
<1>2. CASE Reader
  <2>1. UNCHANGED <<next, ring, at>>
    BY <1>2, ReaderOnlyReads DEF writerVars
  <2>2. read' <= next /\ (pc' = "format" => read' < next)
    <3>1. CASE EventFound
      BY <1>0, <3>1 DEF EventFound, BehindInv
    <3>2. CASE WriteEvent
      BY <1>0, <1>1, <3>2 DEF WriteEvent, BehindInv
    <3>3. CASE Reload
      BY <1>0, <1>1, <3>3 DEF Reload, Event, BehindInv
    <3>4. CASE ModuleStop
      BY <1>0, <3>4 DEF ModuleStop, readerVars, BehindInv
    <3>5. CASE ThreadCreated \/ NoThread \/ OpenLog \/ BeginPass \/ SkipRecord \/ LeaveLoop
               \/ NothingToRead \/ SlotNotReady \/ WriteLost \/ EndDelay
      <4>1. read' = read /\ pc' # "format"
        BY <3>5 DEF ThreadCreated, NoThread, OpenLog, BeginPass, SkipRecord, LeaveLoop,
           NothingToRead, SlotNotReady, WriteLost, EndDelay, FlushEnds
      <4> QED
        BY <1>0, <4>1 DEF BehindInv
    <3> QED
      BY <1>2, <3>1, <3>2, <3>3, <3>4, <3>5 DEF Reader, TraceThread
  <2> QED
    BY <1>0, <2>1, <2>2 DEF BehindInv, Busy
<1>3. ASSUME NEW c \in Recorders, TakeNumber(c)
      PROVE  BehindInv'
  <2>1. /\ at' = [at EXCEPT ![c] = "open"]
        /\ UNCHANGED <<next, ring, read, pc>>
        /\ ~Busy(c)
        /\ ~Overlap(c)
    BY <1>0, <1>3 DEF TakeNumber, ringVars, readerVars, Busy
  <2>2. \A d \in Recorders : ~Busy(d)
    BY <2>1 DEF Overlap, Busy
  <2>3. \A i \in Slots : ring[i].seq < next
    BY <1>0, <2>2 DEF BehindInv
  <2> QED
    BY <1>0, <2>1, <2>3 DEF BehindInv
<1>4. ASSUME NEW c \in Recorders, Stores(c)
      PROVE  BehindInv'
  <2> DEFINE i == Slot(Num(c))
  <2>1. /\ UNCHANGED <<next, read, pc>>
        /\ Busy(c)
        /\ i \in Slots
        /\ \A j \in Slots : j # i => ring'[j] = ring[j]
        /\ \A d \in Recorders : d # c => at'[d] = at[d]
    BY <1>4, RecorderStores DEF readerVars
  <2>2. ring'[i].seq \in {ring[i].seq, 0, Num(c)} /\ Num(c) = next
    BY <1>0, <1>4, <2>1, StoredNumbers, OwnNumber
  <2> HIDE DEF i
  <2>3. \A j \in Slots : ring'[j].seq <= next
    BY <1>0, <1>1, <2>1, <2>2 DEF BehindInv
  <2>4. at'[c] \in {"fill", "rest", "seal", "publish"}
    BY <1>4 DEF Stores, OpenSlot, OpenDropped, FillHead, FillTail, SealSlot, Goto,
                RingInv, TypeOK
  <2>5. \A d \in Recorders : at'[d] # "open"
    BY <1>0, <2>1, <2>4, OwnNumber DEF Busy
  <2> QED
    BY <1>0, <2>1, <2>3, <2>4, <2>5 DEF BehindInv, Busy
<1>5. ASSUME NEW c \in Recorders, Publish(c)
      PROVE  BehindInv'
  <2>1. /\ next' = Num(c) + 1
        /\ pc' \in {pc, "flush", "delay"}
        /\ at' = [at EXCEPT ![c] = "idle"]
        /\ UNCHANGED <<ring, read>>
        /\ Busy(c)
    BY <1>5 DEF Publish, Goto, AfterRecord, Busy
  <2>2. Num(c) = next
    BY <1>0, <2>1, OwnNumber
  <2>3. \A d \in Recorders : at'[d] # "open"
    BY <1>0, <2>1, OwnNumber DEF Busy, RingInv, TypeOK
  <2>4. read <= next /\ \A j \in Slots : ring[j].seq <= next
    BY <1>0 DEF BehindInv
  <2>5. next' \in Nat /\ read < next' /\ \A j \in Slots : ring[j].seq < next'
    BY <1>1, <2>1, <2>2, <2>4
  <2>6. read' <= next' /\ read' < next' /\ \A j \in Slots : ring'[j].seq <= next'
    BY <1>1, <2>1, <2>5
  <2>7. \A j \in Slots : ring'[j].seq < next'
    BY <2>1, <2>5
  <2> QED
    BY <2>3, <2>6, <2>7 DEF BehindInv
<1>6. CASE UNCHANGED traceVars
  BY <1>0, <1>6 DEF traceVars, ringVars, writerVars, readerVars, BehindInv, Busy
<1> QED
  BY <1>2, <1>3, <1>4, <1>5, <1>6, StepKinds

(* A number in its slot that the reader has not passed is the recorder's    *)
(* own: the slot holds none that is still to be read.                       *)
LEMMA OwnSlotIsFree ==
  ASSUME CalmInv, Calm, NEW c \in Recorders, Busy(c), NEW n \in Nat,
         Slot(n) = Slot(Num(c)), n >= read, n <= next
  PROVE  n = Num(c)
<1>1. Num(c) = next /\ next \in Nat /\ read \in Nat
  BY OwnNumber DEF CalmInv, KeepsUpInv, Untouched, RingInv, TypeOK
<1>2. mine[c] \in DOMAIN number /\ Num(c) < read + Size
  BY DEF CalmInv, KeepsUpInv, RingInv, Num
<1>3. CASE next > n
  <2>1. next >= n + Size
    BY <1>1, <1>3, SharedSlot
  <2> QED
    BY <1>1, <1>2, <2>1, RingAssumption
<1> QED
  BY <1>1, <1>3

LEMMA StepKeepsUp == CalmInv /\ [Next]_traceVars => KeepsUpInv'
<1> SUFFICES ASSUME CalmInv, [Next]_traceVars, Calm'
             PROVE  /\ spoilt' \subseteq {"cut"}
                    /\ \A r \in DOMAIN number' : number'[r] < read' + Size
                    /\ pc' # "reload"
                    /\ reported' = {}
                    /\ published' \subseteq DOMAIN number'
  BY DEF KeepsUpInv
<1>0. Calm
  BY SpoiltForGood DEF Calm
<1>1. /\ spoilt \subseteq {"cut"}
      /\ Untouched
      /\ \A r \in DOMAIN number : number[r] < read + Size
      /\ pc # "reload"
      /\ reported = {}
      /\ published \subseteq DOMAIN number
  BY <1>0 DEF CalmInv, KeepsUpInv, Untouched
<1>2. /\ RingInv
      /\ read \in Nat
      /\ next \in Nat
      /\ Slot(read) \in Slots
      /\ Event.seq \in Nat
      /\ Size \in Nat \ {0}
      /\ number \in Seq(Nat)
  BY SlotRange, RingAssumption DEF CalmInv, RingInv, TypeOK, Event
<1>3. CASE Reader
  <2>1. number' = number /\ published' = published
    BY <1>3, ReaderOnlyReads DEF writerVars
  <2>2. read' \in Nat /\ read' >= read
    BY <1>1, <1>3, ReaderForward DEF CalmInv
  <2>3. \A r \in DOMAIN number : number[r] \in Nat /\ number[r] < read' + Size
    BY <1>1, <1>2, <2>2
  <2>4. ~WriteLost
    <3> SUFFICES ASSUME WriteLost
                 PROVE  FALSE
      OBVIOUS
    <3>1. Event.seq > read
      BY DEF WriteLost
    <3>2. /\ Slot(Event.seq) = Slot(read)
          /\ \E r \in DOMAIN number : number[r] = Event.seq
      BY <1>2, <3>1 DEF RingInv, NumbersInv, Event
    <3>3. Event.seq >= read + Size
      BY <1>2, <3>1, <3>2, SharedSlot
    <3>4. Event.seq < read + Size
      BY <1>1, <3>2
    <3> QED
      BY <1>2, <3>3, <3>4
  <2>5. spoilt' \subseteq spoilt \cup {"cut"} /\ pc' # "reload" /\ reported' = reported
    BY <1>1, <1>3, <2>4 DEF Reader, TraceThread, ModuleStop, ThreadCreated, NoThread, OpenLog,
       BeginPass, SkipRecord, LeaveLoop, NothingToRead, SlotNotReady, EventFound,
       WriteEvent, Reload, EndDelay, FlushEnds, readerVars, logVars
  <2> QED
    BY <1>1, <2>1, <2>3, <2>5
<1>4. ASSUME NEW c \in Recorders, TakeNumber(c)
      PROVE  /\ spoilt' \subseteq {"cut"}
             /\ \A r \in DOMAIN number' : number'[r] < read' + Size
             /\ pc' # "reload"
             /\ reported' = {}
             /\ published' \subseteq DOMAIN number'
  <2>1. /\ number' = Append(number, next)
        /\ spoilt' = spoilt \cup (IF Overlap(c) THEN {"overlap"} ELSE {})
                            \cup (IF next >= read + Size THEN {"overrun"} ELSE {})
        /\ UNCHANGED <<read, pc, reported, published>>
    BY <1>4 DEF TakeNumber, readerVars, logVars
  <2>2. ~Overlap(c) /\ ~(next >= read + Size)
    BY <2>1 DEF Calm
  <2>3. spoilt' = spoilt /\ next < read + Size
    BY <1>2, <2>1, <2>2
  <2>4. \A r \in DOMAIN number' : number'[r] < read + Size
    BY <1>1, <1>2, <2>1, <2>3
  <2>5. published' \subseteq DOMAIN number'
    BY <1>1, <1>2, <2>1
  <2> QED
    BY <1>1, <2>1, <2>3, <2>4, <2>5
<1>5. ASSUME NEW c \in Recorders, Stores(c)
      PROVE  /\ spoilt' \subseteq {"cut"}
             /\ \A r \in DOMAIN number' : number'[r] < read' + Size
             /\ pc' # "reload"
             /\ reported' = {}
             /\ published' \subseteq DOMAIN number'
  <2>1. /\ UNCHANGED <<number, read, pc, reported, published>>
        /\ Busy(c)
        /\ Slot(Num(c)) \in Slots
    BY <1>2, <1>5, RecorderStores DEF readerVars, logVars
  <2>2. Races(c) = {}
    <3> SUFFICES ASSUME InHand(Slot(Num(c)))
                 PROVE  FALSE
      BY DEF Races
    <3>1. pc = "format" /\ Slot(read) = Slot(Num(c))
      BY <1>1 DEF InHand
    <3>2. read < next
      BY <1>1, <3>1 DEF CalmInv, BehindInv
    <3>3. read = Num(c) /\ Num(c) = next
      BY <1>0, <1>1, <1>2, <2>1, <3>1, <3>2, OwnSlotIsFree, OwnNumber DEF CalmInv
    <3> QED
      BY <1>2, <3>2, <3>3
  <2>3. OpenDropped(c) => ring[Slot(Num(c))].seq < read
    <3> SUFFICES ASSUME OpenDropped(c), ring[Slot(Num(c))].seq >= read
                 PROVE  FALSE
      BY <1>2, <2>1 DEF RingInv, TypeOK
    <3> DEFINE n == ring[Slot(Num(c))].seq
    <3>1. n \in Nat /\ n < next
      BY <1>1, <2>1 DEF OpenDropped, CalmInv, BehindInv, RingInv, TypeOK
    <3>2. read # 0
      BY <1>1 DEF CalmInv, SlotInv
    <3>3. n >= read
      OBVIOUS
    <3>4. Slot(n) = Slot(Num(c))
      BY <1>2, <2>1, <3>1, <3>2, <3>3 DEF RingInv, NumbersInv
    <3> HIDE DEF n
    <3>5. n = Num(c) /\ Num(c) = next
      BY <1>0, <1>1, <1>2, <2>1, <3>1, <3>3, <3>4, OwnSlotIsFree, OwnNumber DEF CalmInv
    <3> QED
      BY <1>2, <3>1, <3>5
  <2>4. spoilt' = spoilt
    <3>1. CASE OpenDropped(c)
      <4>1. ~(ring[Slot(Num(c))].seq >= read)
        BY <1>2, <2>1, <2>3, <3>1 DEF RingInv, TypeOK
      <4> QED
        BY <2>2, <3>1, <4>1 DEF OpenDropped
    <3> QED
      BY <1>5, <2>2, <3>1 DEF Stores, OpenSlot, FillHead, FillTail, SealSlot
  <2> QED
    BY <1>1, <2>1, <2>4
<1>6. ASSUME NEW c \in Recorders, Publish(c)
      PROVE  /\ spoilt' \subseteq {"cut"}
             /\ \A r \in DOMAIN number' : number'[r] < read' + Size
             /\ pc' # "reload"
             /\ reported' = {}
             /\ published' \subseteq DOMAIN number'
  <2>1. pc' \in {pc, "flush", "delay"} /\ UNCHANGED <<number, read, spoilt, reported>>
    BY <1>6 DEF Publish, AfterRecord, logVars
  <2>2. published' \subseteq published \cup {mine[c]} /\ mine[c] \in DOMAIN number
    BY <1>2, <1>6 DEF Publish, RingInv, Busy
  <2> QED
    BY <1>1, <2>1, <2>2
<1>7. CASE UNCHANGED traceVars
  BY <1>1, <1>7 DEF traceVars, writerVars, readerVars, logVars
<1> QED
  BY <1>3, <1>4, <1>5, <1>6, <1>7, StepKinds

(* As long as recorders take turns and none is a whole ring ahead of the    *)
(* reader, no race is possible and the log is verbatim, for any size of the *)
(* ring and any number of hooks and records (trace_record_packet_call,      *)
(* trace_flush).                                                            *)
THEOREM RoomIsEnough == Spec => []NoOverrunNoLoss
<1>1. Init => UndisturbedInv /\ CalmInv
  <2> SUFFICES ASSUME Init
               PROVE  UndisturbedInv /\ CalmInv
    OBVIOUS
  <2>1. UndisturbedInv
    BY InitUndisturbed
  <2>2. /\ number = << >> /\ next = 1 /\ read = 1 /\ pc = "create"
        /\ spoilt = {} /\ reported = {} /\ published = {}
        /\ \A i \in Slots : ring[i].seq = 0
    BY DEF Init, EmptyEvent
  <2>3. BehindInv
    BY <2>2 DEF BehindInv
  <2>4. KeepsUpInv
    BY <2>2 DEF KeepsUpInv
  <2> QED
    BY <2>1, <2>3, <2>4 DEF UndisturbedInv, CalmInv
<1>2. UndisturbedInv /\ CalmInv /\ [Next]_traceVars => (UndisturbedInv /\ CalmInv)'
  BY StepRing, StepReload, StepOrder, StepSlot, StepHand, StepStop, StepBehind, StepKeepsUp
     DEF UndisturbedInv, CalmInv
<1>3. UndisturbedInv /\ CalmInv => NoOverrunNoLoss
  <2> SUFFICES ASSUME UndisturbedInv, CalmInv, Calm
               PROVE  /\ spoilt \subseteq {"cut"}
                      /\ ~mixed
                      /\ reported = {}
                      /\ \A r \in published : number[r] < read => r \in printed
    BY DEF NoOverrunNoLoss, Calm
  <2>1. spoilt \subseteq {"cut"} /\ Untouched /\ reported = {}
    BY DEF CalmInv, KeepsUpInv, Untouched
  <2>2. ~mixed /\ \A n \in 1..(read - 1) : n \in printed
    BY <2>1 DEF CalmInv, HandInv
  <2>3. ASSUME NEW r \in published, number[r] < read
        PROVE  r \in printed
    <3>1. r \in DOMAIN number
      BY DEF CalmInv, KeepsUpInv
    <3>2. number[r] = r /\ r \in Nat \ {0} /\ read \in Nat
      BY <2>1, <3>1 DEF CalmInv, OrderInv, RingInv, TypeOK
    <3> QED
      BY <2>2, <2>3, <3>2
  <2> QED
    BY <2>1, <2>2, <2>3
<1> QED
  BY <1>1, <1>2, <1>3, PTL DEF Spec
=============================================================================
