-------------------------- MODULE SPSCQueue_proofs --------------------------
(***************************************************************************)
(* SPSCQueue for every capacity and every set of items: IInv is inductive, *)
(* no two threads access one slot, and the ring implements BoundedFIFO.    *)
(* The refinement rests on how each step changes Contents: only the two    *)
(* stores of the cursors do, one appends and one takes the head.           *)
(***************************************************************************)
EXTENDS SPSCQueue, SequenceTheorems, TLAPS

(* The mask is the step to the next slot, and from the last one to slot 0. *)
LEMMA SuccOf ==
  ASSUME NEW i \in Slots
  PROVE  /\ Succ(i) = IF i + 1 = Cap THEN 0 ELSE i + 1
         /\ Succ(i) \in Slots
BY CapAssumption DEF Succ, Slots

(* No step of either thread takes a variable out of its range. *)
LEMMA TypeStep == TypeOK /\ [Next]_ringvars => TypeOK'
<1> SUFFICES ASSUME TypeOK, [Next]_ringvars PROVE TypeOK'
  OBVIOUS
<1> USE DEF TypeOK, RingTypeOK, Goto, PushPCs, PopPCs, Items, Threads
<1>1. ASSUME NEW v \in Values, PushBegin(Producer, v) PROVE TypeOK'
  BY <1>1 DEF PushBegin
<1>2. CASE PushStep(Producer)
  <2>1. CASE PushFull(Producer) BY <2>1 DEF PushFull
  <2>2. CASE PushRoom(Producer) BY <2>2 DEF PushRoom
  <2>3. CASE PushWrite(Producer) BY <2>3 DEF PushWrite
  <2>4. CASE PushStore(Producer) BY <2>4, SuccOf DEF PushStore
  <2> QED BY <1>2, <2>1, <2>2, <2>3, <2>4 DEF PushStep
<1>3. CASE PopStep(Consumer)
  <2>1. CASE PopBegin(Consumer) BY <2>1 DEF PopBegin
  <2>2. CASE PopEmpty(Consumer) BY <2>2 DEF PopEmpty
  <2>3. CASE PopSome(Consumer) BY <2>3 DEF PopSome
  <2>4. CASE PopRead(Consumer) BY <2>4 DEF PopRead
  <2>5. CASE PopClear(Consumer) BY <2>5 DEF PopClear
  <2>6. CASE PopStore(Consumer) BY <2>6, SuccOf DEF PopStore
  <2> QED BY <1>3, <2>1, <2>2, <2>3, <2>4, <2>5, <2>6 DEF PopStep
<1>4. CASE UNCHANGED ringvars
  BY <1>4 DEF ringvars
<1> QED BY <1>1, <1>2, <1>3, <1>4 DEF Next, Produce, Consume

-----------------------------------------------------------------------------
(* Ring arithmetic: how the slots between tail and head move. *)

(* Between 0 and Cap - 1 slots are in use: 0 exactly when the cursors meet,
   Cap - 1 exactly when a push is refused. *)
LEMMA CountRange ==
  ASSUME RingTypeOK
  PROVE  /\ Count \in 0..(Cap - 1)
         /\ Count = 0 <=> head = tail
         /\ Count = Cap - 1 <=> Succ(head) = tail
BY CapAssumption, SuccOf DEF RingTypeOK, Count, Slots

(* A slot in use is never the one the producer writes; the first is tail. *)
LEMMA AtFacts ==
  ASSUME RingTypeOK, NEW i \in 0..(Count - 1)
  PROVE  /\ At(i) \in Slots
         /\ At(i) # head
         /\ At(i) = tail <=> i = 0
BY CapAssumption DEF RingTypeOK, At, Count, Slots

(* The slot after those in use is the one at head. *)
LEMMA AtCount ==
  ASSUME RingTypeOK
  PROVE  At(Count) = head
BY CapAssumption DEF RingTypeOK, At, Count, Slots

(* A step of head adds a slot at the end of those in use. *)
LEMMA HeadMoves ==
  ASSUME RingTypeOK, Succ(head) # tail, head' = Succ(head), tail' = tail
  PROVE  /\ Count' = Count + 1
         /\ \A i \in 0..Count : At(i)' = At(i)
<1>1. /\ head \in 0..(Cap - 1)
      /\ tail \in 0..(Cap - 1)
      /\ head' = IF head + 1 = Cap THEN 0 ELSE head + 1
      /\ head' # tail
  BY SuccOf DEF RingTypeOK, Slots
<1>2. Count' = Count + 1
  BY <1>1, CapAssumption DEF Count
<1> QED
  BY <1>1, <1>2, CapAssumption DEF Count, At

(* A step of tail takes away the first slot of those in use. *)
LEMMA TailMoves ==
  ASSUME RingTypeOK, head # tail, head' = head, tail' = Succ(tail)
  PROVE  /\ Count' = Count - 1
         /\ \A i \in 0..(Count - 2) : At(i)' = At(i + 1)
<1>1. /\ head \in 0..(Cap - 1)
      /\ tail \in 0..(Cap - 1)
      /\ tail' = IF tail + 1 = Cap THEN 0 ELSE tail + 1
  BY SuccOf DEF RingTypeOK, Slots
<1>2. Count' = Count - 1
  BY <1>1, CapAssumption DEF Count
<1>3. ASSUME NEW i \in 0..(Count - 2)
      PROVE  At(i)' = At(i + 1)
  BY <1>1, <1>3, CapAssumption DEF Count, At
<1> QED
  BY <1>2, <1>3

(* The slots in use depend on the cursors alone. *)
LEMMA CursorsStay ==
  ASSUME head' = head, tail' = tail
  PROVE  /\ Count' = Count
         /\ \A i : At(i)' = At(i)
BY DEF Count, At

-----------------------------------------------------------------------------
(* Append and Tail, position by position. *)

(* What Append returns, position by position. *)
LEMMA AppendAsFunction ==
  ASSUME NEW S, NEW s \in Seq(S), NEW e \in S
  PROVE  Append(s, e) = [i \in 1..(Len(s) + 1) |->
                           IF i = Len(s) + 1 THEN e ELSE s[i]]
<1> DEFINE a == Append(s, e)
<1>1. a \in Seq(S) /\ Len(a) = Len(s) + 1
  BY AppendProperties
<1>2. \A i \in 1..Len(s) : a[i] = s[i]
  BY AppendProperties
<1>3. a[Len(s) + 1] = e
  BY AppendProperties
<1> HIDE DEF a
<1>4. Len(s) \in Nat /\ a \in [1..(Len(s) + 1) -> S]
  BY <1>1, LenProperties
<1>5. a = [i \in 1..(Len(s) + 1) |-> IF i = Len(s) + 1 THEN e ELSE s[i]]
  BY <1>2, <1>3, <1>4
<1> QED
  BY <1>5, Zenon DEF a

(* What Tail and Head return, position by position. *)
LEMMA TailAsFunction ==
  ASSUME NEW S, NEW s \in Seq(S), s # << >>
  PROVE  /\ Tail(s) = [i \in 1..(Len(s) - 1) |-> s[i + 1]]
         /\ Head(s) = s[1]
<1>1. /\ Tail(s) \in [1..(Len(s) - 1) -> S]
      /\ \A i \in 1..(Len(s) - 1) : Tail(s)[i] = s[i + 1]
  BY HeadTailProperties, LenProperties
<1>2. Tail(s) = [i \in 1..(Len(s) - 1) |-> s[i + 1]]
  BY <1>1
<1>3. Head(s) = s[1]
  OBVIOUS
<1> QED
  BY <1>2, <1>3

-----------------------------------------------------------------------------
(* What each kind of step does to the queue's contents. *)

(* The consumer holds the item of the slot at tail. *)
Moving == pc[Consumer] \in {"pop_clear", "pop_store"}

(* A step that moves no cursor, slot or item leaves the contents alone. *)
LEMMA ContentsStay ==
  ASSUME UNCHANGED <<head, tail, buf>>, Moving' = Moving,
         item'[Consumer] = item[Consumer]
  PROVE  Contents' = Contents
BY CursorsStay DEF Contents, Moving

(* The write goes to the slot at head, which is not part of the contents. *)
LEMMA WriteKeepsContents ==
  ASSUME IInv, PushWrite(Producer)
  PROVE  Contents' = Contents
<1>1. /\ RingTypeOK
      /\ idx[Producer] = head
      /\ UNCHANGED <<head, tail>>
      /\ buf' = [buf EXCEPT ![head] = item[Producer]]
      /\ pc'[Consumer] = pc[Consumer]
      /\ item'[Consumer] = item[Consumer]
  BY ThreadsAssumption
     DEF IInv, TypeOK, RingTypeOK, ProducerInv, PushWrite, Goto, Threads
<1>2. ASSUME NEW i \in 1..Count
      PROVE  buf'[At(i - 1)] = buf[At(i - 1)]
  <2>1. i - 1 \in 0..(Count - 1)
    BY <1>1, <1>2, CountRange
  <2> QED
    BY <1>1, <2>1, AtFacts DEF RingTypeOK
<1>3. Count' = Count /\ \A i : At(i)' = At(i)
  BY <1>1, CursorsStay
<1> QED
  BY <1>1, <1>2, <1>3 DEF Contents

(* What the consumer has read stands for the slot it read. *)
LEMMA ReadKeepsContents ==
  ASSUME IInv, PopRead(Consumer)
  PROVE  Contents' = Contents
<1>1. /\ RingTypeOK
      /\ UNCHANGED <<head, tail, buf>>
      /\ ~Moving
      /\ Moving'
      /\ item'[Consumer] = buf[tail]
  BY DEF IInv, TypeOK, RingTypeOK, ConsumerInv, PopRead, Goto, Threads, Moving,
         PopPCs
<1>2. At(0) = tail
  BY <1>1, CapAssumption DEF RingTypeOK, At, Slots
<1>3. Count' = Count /\ \A i : At(i)' = At(i)
  BY <1>1, CursorsStay
<1> QED
  BY <1>1, <1>2, <1>3 DEF Contents, Moving

(* The slot that is cleared was read before. *)
LEMMA ClearKeepsContents ==
  ASSUME IInv, PopClear(Consumer)
  PROVE  Contents' = Contents
<1>1. /\ RingTypeOK
      /\ UNCHANGED <<head, tail, item>>
      /\ buf' = [buf EXCEPT ![tail] = Null]
      /\ Moving
      /\ Moving'
  BY DEF IInv, TypeOK, RingTypeOK, ConsumerInv, PopClear, Goto, Threads, Moving,
         PopPCs
<1>2. ASSUME NEW i \in 1..Count, i # 1
      PROVE  buf'[At(i - 1)] = buf[At(i - 1)]
  <2>1. i - 1 \in 0..(Count - 1) /\ i - 1 # 0
    BY <1>1, <1>2, CountRange
  <2> QED
    BY <1>1, <2>1, AtFacts DEF RingTypeOK
<1>3. Count' = Count /\ \A i : At(i)' = At(i)
  BY <1>1, CursorsStay
<1> QED
  BY <1>1, <1>2, <1>3 DEF Contents, Moving

(* The store of head puts the written item at the end of the contents. *)
LEMMA StoreHeadAppends ==
  ASSUME IInv, PushStore(Producer)
  PROVE  /\ Contents' = Append(Contents, buf[head])
         /\ Len(Contents) < Cap - 1
         /\ Contents \in Seq(Items)
<1>1. /\ RingTypeOK
      /\ Succ(head) # tail
      /\ head' = Succ(head)
      /\ UNCHANGED <<tail, buf, item>>
      /\ pc'[Consumer] = pc[Consumer]
      /\ Moving => head # tail
  BY ThreadsAssumption
     DEF IInv, TypeOK, RingTypeOK, ProducerInv, ConsumerInv, PushStore, Goto,
         Threads, Moving, PopPCs
<1>2. /\ Count' = Count + 1
      /\ \A i \in 0..Count : At(i)' = At(i)
      /\ Count \in 0..(Cap - 2)
      /\ At(Count) = head
      /\ Moving => Count # 0
  BY <1>1, HeadMoves, CountRange, AtCount, CapAssumption
<1>3. /\ Contents \in Seq(Items)
      /\ Len(Contents) = Count
  <2>1. \A i \in 1..Count : Contents[i] \in Values
    BY DEF IInv, ContentsInv
  <2> QED
    BY <1>2, <2>1 DEF Contents, Items
<1>4. Contents' = [i \in 1..(Count + 1) |-> IF i = Count + 1 THEN buf[head]
                                           ELSE Contents[i]]
  <2>1. ASSUME NEW i \in 1..(Count + 1)
        PROVE  (IF i = 1 /\ Moving' THEN item'[Consumer]
                ELSE buf'[At(i - 1)']) =
               IF i = Count + 1 THEN buf[head] ELSE Contents[i]
    BY <1>1, <1>2, <2>1, CapAssumption DEF Contents, Moving
  <2> QED
    BY <1>1, <1>2, <2>1 DEF Contents, Moving
<1>5. buf[head] \in Items
  BY <1>1 DEF RingTypeOK
<1> QED
  BY <1>2, <1>3, <1>4, <1>5, AppendAsFunction, CapAssumption

(* The store of tail takes the item that was read off the contents. *)
LEMMA StoreTailPops ==
  ASSUME IInv, PopStore(Consumer)
  PROVE  /\ Contents # << >>
         /\ Head(Contents) = item[Consumer]
         /\ Contents' = Tail(Contents)
         /\ Contents \in Seq(Items)
<1>1. /\ RingTypeOK
      /\ head # tail
      /\ tail' = Succ(tail)
      /\ UNCHANGED <<head, buf, item>>
      /\ Moving
      /\ ~Moving'
  BY DEF IInv, TypeOK, RingTypeOK, ConsumerInv, PopStore, Goto, Threads, Moving,
         PopPCs
<1>2. /\ Count' = Count - 1
      /\ \A i \in 0..(Count - 2) : At(i)' = At(i + 1)
      /\ Count \in 1..(Cap - 1)
  BY <1>1, TailMoves, CountRange
<1>3. /\ Contents \in Seq(Items)
      /\ Len(Contents) = Count
      /\ Contents[1] = item[Consumer]
  <2>1. \A i \in 1..Count : Contents[i] \in Values
    BY DEF IInv, ContentsInv
  <2> QED
    BY <1>1, <1>2, <2>1 DEF Contents, Items, Moving
<1>4. Contents' = [i \in 1..(Count - 1) |-> Contents[i + 1]]
  <2>1. ASSUME NEW i \in 1..(Count - 1)
        PROVE  buf'[At(i - 1)'] = Contents[i + 1]
    BY <1>1, <1>2, <2>1 DEF Contents, Moving
  <2> QED
    BY <1>1, <1>2, <2>1 DEF Contents, Moving
<1>5. Contents # << >>
  BY <1>2, <1>3
<1> QED
  BY <1>2, <1>3, <1>4, <1>5, TailAsFunction

(* A refused pop found the contents empty. *)
LEMMA EmptyContents ==
  ASSUME RingTypeOK, head = tail
  PROVE  Contents = << >>
<1>1. Count = 0
  BY CountRange
<1> QED
  BY <1>1 DEF Contents

(* A refused push found Cap - 1 items. *)
LEMMA FullContents ==
  ASSUME IInv, Succ(head) = tail
  PROVE  Len(Contents) = Cap - 1
<1>1. Count = Cap - 1 /\ Count \in Nat
  BY CountRange, CapAssumption DEF IInv, TypeOK
<1>2. Contents \in Seq(Values)
  BY <1>1 DEF IInv, ContentsInv, Contents
<1> QED
  BY <1>1, <1>2 DEF Contents

-----------------------------------------------------------------------------
(* IInv is inductive. *)

(* The invariant holds when the queue is made. *)
LEMMA InitIInv == Init => IInv
<1> SUFFICES ASSUME Init PROVE IInv
  OBVIOUS
<1>1. 0 \in Slots
  BY CapAssumption DEF Slots
<1>2. TypeOK
  BY <1>1 DEF Init, RingInit, TypeOK, RingTypeOK, Items, PushPCs, PopPCs
<1>3. ProducerInv /\ ConsumerInv
  BY DEF Init, RingInit, ProducerInv, ConsumerInv, Threads, PushPCs, PopPCs
<1>4. Count = 0
  BY DEF Init, RingInit, Count
<1> QED
  BY <1>2, <1>3, <1>4 DEF IInv, ContentsInv

(* The producer keeps the invariant: it moves head only past a slot it wrote. *)
LEMMA PushKeepsIInv ==
  ASSUME IInv, TypeOK', Produce
  PROVE  IInv'
<1> USE ThreadsAssumption DEF PushPCs, PopPCs
<1>1. /\ TypeOK /\ ProducerInv /\ ConsumerInv /\ ContentsInv
      /\ UNCHANGED tail
      /\ pc'[Consumer] = pc[Consumer]
      /\ idx'[Consumer] = idx[Consumer]
      /\ item'[Consumer] = item[Consumer]
  BY DEF IInv, TypeOK, RingTypeOK, Threads, Produce, PushStep, PushBegin,
         PushFull, PushRoom, PushWrite, PushStore, Goto
<1> SUFFICES ProducerInv' /\ ConsumerInv' /\ ContentsInv'
  BY DEF IInv
<1> USE <1>1 DEF TypeOK, RingTypeOK, Threads, Goto, ProducerInv
<1>2. ASSUME NEW v \in Values, PushBegin(Producer, v)
      PROVE  ProducerInv' /\ ConsumerInv' /\ ContentsInv'
  <2>1. Contents' = Contents /\ Count' = Count
    BY <1>2, ContentsStay, CursorsStay DEF PushBegin, Moving
  <2> QED
    BY <1>2, <2>1 DEF PushBegin, ConsumerInv, ContentsInv
<1>3. CASE PushFull(Producer) \/ PushRoom(Producer)
  <2>1. Contents' = Contents /\ Count' = Count
    BY <1>3, ContentsStay, CursorsStay DEF PushFull, PushRoom, Moving
  <2> QED
    BY <1>3, <2>1 DEF PushFull, PushRoom, ConsumerInv, ContentsInv
<1>4. CASE PushWrite(Producer)
  <2>1. Contents' = Contents /\ Count' = Count
    BY <1>4, WriteKeepsContents, CursorsStay DEF PushWrite
  <2> QED
    BY <1>4, <2>1 DEF PushWrite, ConsumerInv, ContentsInv
<1>5. CASE PushStore(Producer)
  <2>1. /\ Contents' = Append(Contents, buf[head])
        /\ Contents \in Seq(Items)
        /\ buf[head] \in Values
        /\ head' = Succ(head)
        /\ Succ(head) # tail
    BY <1>5, StoreHeadAppends DEF PushStore
  <2>2. /\ Count' = Count + 1
        /\ Count \in Nat
    BY <2>1, HeadMoves, CountRange DEF Slots
  <2>3. DOMAIN Contents = 1..Count
    BY DEF Contents
  <2>4. Len(Contents) = Count
    BY <2>1, <2>2, <2>3
  <2>5. ContentsInv'
    <3>1. buf[head] \in Items
      BY <2>1 DEF Items
    <3>2. Contents' = [i \in 1..(Count + 1) |->
                         IF i = Count + 1 THEN buf[head] ELSE Contents[i]]
      BY <2>1, <2>4, <3>1, AppendAsFunction
    <3> QED
      BY <2>1, <2>2, <3>2 DEF ContentsInv
  <2>6. ConsumerInv'
    BY <1>5, <2>1 DEF PushStore, ConsumerInv
  <2> QED
    BY <1>5, <2>5, <2>6 DEF PushStore
<1> QED
  BY <1>2, <1>3, <1>4, <1>5 DEF Produce, PushStep

(* The consumer keeps the invariant: it moves tail only past a slot it read. *)
LEMMA PopKeepsIInv ==
  ASSUME IInv, TypeOK', Consume
  PROVE  IInv'
<1> USE ThreadsAssumption DEF PushPCs, PopPCs
<1>1. /\ TypeOK /\ ProducerInv /\ ConsumerInv /\ ContentsInv
      /\ UNCHANGED head
      /\ pc'[Producer] = pc[Producer]
      /\ idx'[Producer] = idx[Producer]
      /\ item'[Producer] = item[Producer]
  BY DEF IInv, TypeOK, RingTypeOK, Threads, Consume, PopStep, PopBegin,
         PopEmpty, PopSome, PopRead, PopClear, PopStore, Goto
<1> SUFFICES ProducerInv' /\ ConsumerInv' /\ ContentsInv'
  BY DEF IInv
<1> USE <1>1 DEF TypeOK, RingTypeOK, Threads, Goto, ConsumerInv
<1>2. CASE PopBegin(Consumer) \/ PopEmpty(Consumer) \/ PopSome(Consumer)
  <2>1. Contents' = Contents /\ Count' = Count
    BY <1>2, ContentsStay, CursorsStay DEF PopBegin, PopEmpty, PopSome, Moving
  <2> QED
    BY <1>2, <2>1
       DEF PopBegin, PopEmpty, PopSome, ProducerInv, ContentsInv
<1>3. CASE PopRead(Consumer)
  <2>1. Contents' = Contents /\ Count' = Count
    BY <1>3, ReadKeepsContents, CursorsStay DEF PopRead
  <2>2. item'[Consumer] \in Values
    <3>1. 1 \in 1..Count /\ At(0) = tail
      BY <1>3, CountRange, CapAssumption DEF PopRead, At, Slots
    <3>2. Contents[1] = buf[tail]
      BY <1>3, <3>1 DEF Contents, PopRead
    <3> QED
      BY <1>3, <3>1, <3>2 DEF PopRead, ContentsInv
  <2> QED
    BY <1>3, <2>1, <2>2 DEF PopRead, ProducerInv, ContentsInv
<1>4. CASE PopClear(Consumer)
  <2>1. Contents' = Contents /\ Count' = Count
    BY <1>4, ClearKeepsContents, CursorsStay DEF PopClear
  <2>2. ContentsInv'
    BY <2>1 DEF ContentsInv
  <2>3. ProducerInv'
    BY <1>4 DEF PopClear, ProducerInv
  <2> QED
    BY <1>4, <2>2, <2>3 DEF PopClear
<1>5. CASE PopStore(Consumer)
  <2>1. /\ Contents # << >>
        /\ Contents' = Tail(Contents)
        /\ Contents \in Seq(Items)
        /\ head # tail
        /\ tail' = Succ(tail)
    BY <1>5, StoreTailPops DEF PopStore
  <2>2. /\ Count' = Count - 1
        /\ Count \in Nat
    BY <2>1, TailMoves, CountRange
  <2>3. DOMAIN Contents = 1..Count
    BY DEF Contents
  <2>4. Len(Contents) = Count
    BY <2>1, <2>2, <2>3
  <2>5. ContentsInv'
    <3>1. Contents' = [i \in 1..(Count - 1) |-> Contents[i + 1]]
      BY <2>1, <2>4, TailAsFunction
    <3> QED
      BY <2>2, <3>1 DEF ContentsInv
  <2>6. ProducerInv'
    BY <1>5, <2>1, SuccOf DEF PopStore, ProducerInv, Slots
  <2> QED
    BY <1>5, <2>5, <2>6 DEF PopStore
<1> QED
  BY <1>2, <1>3, <1>4, <1>5 DEF Consume, PopStep

-----------------------------------------------------------------------------
(* In every reachable state each variable is in its range, each thread's
   local agrees with the cursor it owns, and every slot between tail and head
   holds an item (SPSCQueue.hpp:31-66). *)
THEOREM Invariance == Spec => []IInv
<1>1. IInv /\ [Next]_ringvars => IInv'
  <2> SUFFICES ASSUME IInv, [Next]_ringvars PROVE IInv'
    OBVIOUS
  <2>1. TypeOK'
    BY TypeStep DEF IInv
  <2>2. CASE Produce
    BY <2>1, <2>2, PushKeepsIInv
  <2>3. CASE Consume
    BY <2>1, <2>3, PopKeepsIInv
  <2>4. CASE UNCHANGED ringvars
    <3>1. Count' = Count /\ Contents' = Contents
      BY <2>4, ContentsStay, CursorsStay DEF ringvars, Moving
    <3>2. ProducerInv' /\ ConsumerInv'
      BY <2>4 DEF ringvars, IInv, ProducerInv, ConsumerInv
    <3> QED
      BY <2>1, <3>1, <3>2 DEF IInv, ContentsInv
  <2> QED
    BY <2>2, <2>3, <2>4 DEF Next
<1> QED
  BY InitIInv, <1>1, PTL DEF Spec

(* The two threads never access one slot at the same time: the producer
   writes only the free slot at head and the consumer reads and clears only
   the slot at tail, while head # tail (SPSCQueue.hpp:35-40 and 59-64). *)
THEOREM DataRaceFreedom == Spec => []NoDataRace
<1>1. IInv => NoDataRace
  BY DEF IInv, ProducerInv, ConsumerInv, NoDataRace, PushPCs, PopPCs
<1> QED
  BY <1>1, Invariance, PTL

(* A pop that returns true never hands out a slot that holds no item
   (SPSCQueue.hpp:57-66). *)
THEOREM PopsGiveItems == Spec => []NeverPopsNothing
<1>1. IInv => NeverPopsNothing
  BY DEF IInv, ConsumerInv, NeverPopsNothing
<1> QED
  BY <1>1, Invariance, PTL

-----------------------------------------------------------------------------
(* The ring refines the abstract queue: each completed call is the abstract
   call and every other step leaves the contents alone
   (SPSCQueue.hpp:31-80). *)
LEMMA StepRefines ==
  ASSUME IInv, [Next]_ringvars
  PROVE  [FIFO!Next]_(FIFO!vars)
<1> USE ThreadsAssumption DEF IInv, TypeOK
<1> USE DEF FIFO!vars, Moving
<1>1. CASE Produce
  <2>1. pc'[Consumer] = pc[Consumer] /\ item'[Consumer] = item[Consumer]
    BY <1>1 DEF RingTypeOK, Threads, Produce, PushStep, PushBegin, PushFull,
                PushRoom, PushWrite, PushStore, Goto
  <2>2. CASE \E v \in Values : PushBegin(Producer, v)
    BY <2>1, <2>2, ContentsStay DEF PushBegin
  <2>3. CASE PushFull(Producer)
    <3>1. Succ(head) = tail
      BY <2>3 DEF PushFull, ProducerInv
    <3>2. Len(Contents) = Cap - 1
      BY <3>1, FullContents
    <3>3. FIFO!PushFull
      BY <2>1, <2>3, <3>2, ContentsStay DEF PushFull, FIFO!PushFull
    <3> QED
      BY <3>3 DEF FIFO!Next
  <2>4. CASE PushRoom(Producer)
    BY <2>1, <2>4, ContentsStay DEF PushRoom
  <2>5. CASE PushWrite(Producer)
    BY <2>5, WriteKeepsContents DEF PushWrite
  <2>6. CASE PushStore(Producer)
    <3>1. buf[head] \in Values
      BY <2>6 DEF PushStore, ProducerInv
    <3>2. FIFO!Push(buf[head])
      BY <2>6, StoreHeadAppends DEF PushStore, FIFO!Push
    <3> QED
      BY <3>1, <3>2 DEF FIFO!Next
  <2> QED
    BY <1>1, <2>2, <2>3, <2>4, <2>5, <2>6 DEF Produce, PushStep
<1>2. CASE Consume
  <2>1. CASE PopBegin(Consumer) \/ PopSome(Consumer)
    BY <2>1, ContentsStay
       DEF PopBegin, PopSome, Goto, RingTypeOK, Threads, PopPCs, PushPCs
  <2>2. CASE PopEmpty(Consumer)
    <3>1. head = tail
      BY <2>2 DEF PopEmpty, ConsumerInv
    <3>2. Contents' = Contents
      BY <2>2, ContentsStay DEF PopEmpty, Goto, RingTypeOK, Threads
    <3>3. FIFO!PopEmpty
      BY <2>2, <3>1, <3>2, EmptyContents DEF PopEmpty, FIFO!PopEmpty
    <3> QED
      BY <3>3 DEF FIFO!Next
  <2>3. CASE PopRead(Consumer)
    BY <2>3, ReadKeepsContents DEF PopRead
  <2>4. CASE PopClear(Consumer)
    BY <2>4, ClearKeepsContents DEF PopClear
  <2>5. CASE PopStore(Consumer)
    <3>1. FIFO!Pop
      BY <2>5, StoreTailPops DEF PopStore, FIFO!Pop
    <3> QED
      BY <3>1 DEF FIFO!Next
  <2> QED
    BY <1>2, <2>1, <2>2, <2>3, <2>4, <2>5 DEF Consume, PopStep
<1>3. CASE UNCHANGED ringvars
  BY <1>3, ContentsStay DEF ringvars
<1> QED
  BY <1>1, <1>2, <1>3 DEF Next

(* Items come out of the ring in the order they went in, none lost and none
   twice; a push is refused only at Cap - 1 items, a pop only at none. *)
THEOREM Refinement == Spec => ImplementsFIFO
<1>1. Init => FIFO!Init
  <2> SUFFICES ASSUME Init PROVE FIFO!Init
    OBVIOUS
  <2>1. Contents = << >>
    BY InitIInv, EmptyContents DEF IInv, TypeOK, Init, RingInit
  <2> QED
    BY <2>1 DEF Init, RingInit, FIFO!Init
<1>2. IInv /\ [Next]_ringvars => [FIFO!Next]_(FIFO!vars)
  BY StepRefines
<1> QED
  BY <1>1, <1>2, Invariance, PTL DEF Spec, ImplementsFIFO, FIFO!Spec
=============================================================================
