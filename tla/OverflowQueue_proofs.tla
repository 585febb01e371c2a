------------------------ MODULE OverflowQueue_proofs ------------------------
(***************************************************************************)
(* The overflow queue for every capacity and any number of items.  Two     *)
(* arguments that do not need each other: as long as no two pops overlap,  *)
(* the slots in use hold the last numbers offered, one after the other;    *)
(* and whatever overlaps, a number is never in two places from which it    *)
(* could be delivered.                                                     *)
(***************************************************************************)
EXTENDS OverflowQueue, SequenceLemmas, FiniteSetTheorems

(* The last number that was accepted, as long as the pops did not overlap. *)
Last == IF call = "idle" THEN offered ELSE offered - 1

(* Where enqueue stands, and what its try_push or try_pop does meanwhile. *)
CallInv ==
  /\ pc[Consumer] \notin PushPCs
  /\ pc[Producer] \in PushPCs => call \in {"first", "second", "spin"}
  /\ pc[Producer] \in PopPCs => call = "drop"
  /\ call # "idle" => offered \in 1..MaxItems
  /\ pc[Producer] \in {"push_check", "push_write"} => item[Producer] = offered
  /\ policy = "Block" => call \in {"idle", "first", "spin"} /\ ~overlap
  /\ policy = "DropOldest" => call # "spin"
  /\ delivered \in Seq(Items)

(* The consumer has read a slot that it has not given back yet. *)
Moving == pc[Consumer] \in {"pop_clear", "pop_store"}

(* No number is in two slots, or in a slot and delivered, or taken by the
   consumer and still anywhere else but in the slot it is about to clear; the
   one that is offered is nowhere until it is written. *)
UniqueInv ==
  /\ \A s \in Slots : buf[s] # Null => buf[s] <= offered /\ buf[s] \notin Range(delivered)
  /\ \A s, u \in Slots : buf[s] = buf[u] /\ buf[s] # Null => s = u
  /\ \A d \in Range(delivered) : d # Null => d <= offered
  /\ Moving /\ item[Consumer] # Null =>
       /\ item[Consumer] <= offered /\ item[Consumer] \notin Range(delivered)
       /\ \A s \in Slots :
            buf[s] = item[Consumer] => s = idx[Consumer] /\ pc[Consumer] = "pop_clear"
  /\ call # "idle" /\ pc[Producer] # "push_store" =>
       /\ offered \notin Range(delivered)
       /\ \A s \in Slots : buf[s] # offered
       /\ Moving => item[Consumer] # offered

(* As long as no two pops overlapped: each thread's local is the cursor it
   works on, and the room or the item it found stays there. *)
CursorInv ==
  /\ ~(pc[Producer] \in PopPCs /\ pc[Consumer] \in PopPCs)
  /\ pc[Producer] \in PushPCs => idx[Producer] = head
  /\ pc[Producer] \in {"push_write", "push_store"} \/ call = "second" => Succ(head) # tail
  /\ \A t \in Threads : /\ pc[t] \in PopPCs => idx[t] = tail
                        /\ pc[t] \in PopPCs \ {"pop_check"} => head # tail

(* The slots in use hold the last numbers, each one more than the one before. *)
NumberInv ==
  /\ accepted = 1..Last
  /\ Count <= Last
  /\ pc[Producer] = "push_store" => buf[head] = offered
  /\ \A i \in 0..(Count - 1) :
       i # 0 \/ (pc[Producer] # "pop_store" /\ pc[Consumer] # "pop_store")
         => buf[At(i)] = Last - Count + i + 1
  /\ Moving => item[Consumer] = Last - Count + 1

(* What was delivered is older, and under Block nothing is missing. *)
DeliveredInv ==
  /\ \A i \in DOMAIN delivered : delivered[i] \in 1..(Last - Count)
  /\ Increasing(delivered)
  /\ policy = "Block" =>
       Len(delivered) = Last - Count /\ \A i \in DOMAIN delivered : delivered[i] = i

IInv ==
  /\ TypeOK
  /\ CallInv
  /\ UniqueInv
  /\ NoDoubleDelivery
  /\ ~overlap => CursorInv /\ NumberInv /\ DeliveredInv

-----------------------------------------------------------------------------
(* The mask is the step to the next slot, and from the last one to slot 0. *)
LEMMA SuccOf ==
  ASSUME NEW i \in Slots
  PROVE  /\ Succ(i) = IF i + 1 = Cap THEN 0 ELSE i + 1
         /\ Succ(i) \in Slots
BY CapAssumption DEF Succ, Slots

(* Ring arithmetic: how the slots between tail and head move. *)

(* Between 0 and Cap - 1 slots are in use: 0 exactly when the cursors meet,
   Cap - 1 exactly when a push is refused. *)
LEMMA CountRange ==
  ASSUME RingTypeOK
  PROVE  /\ Count \in 0..(Cap - 1)
         /\ Count = 0 <=> head = tail
         /\ Count = Cap - 1 <=> Succ(head) = tail
BY CapAssumption, SuccOf DEF RingTypeOK, Count, Slots

(* A slot in use is never the one the producer writes; the first is tail. *)
LEMMA AtFacts ==
  ASSUME RingTypeOK, NEW i \in 0..(Count - 1)
  PROVE  /\ At(i) \in Slots
         /\ At(i) # head
         /\ At(i) = tail <=> i = 0
BY CapAssumption DEF RingTypeOK, At, Count, Slots

(* The slot after those in use is the one at head. *)
LEMMA AtCount ==
  ASSUME RingTypeOK
  PROVE  At(Count) = head
BY CapAssumption DEF RingTypeOK, At, Count, Slots

(* A step of head adds a slot at the end of those in use. *)
LEMMA HeadMoves ==
  ASSUME RingTypeOK, Succ(head) # tail, head' = Succ(head), tail' = tail
  PROVE  /\ Count' = Count + 1
         /\ \A i \in 0..Count : At(i)' = At(i)
<1>1. /\ head \in 0..(Cap - 1)
      /\ tail \in 0..(Cap - 1)
      /\ head' = IF head + 1 = Cap THEN 0 ELSE head + 1
      /\ head' # tail
  BY SuccOf DEF RingTypeOK, Slots
<1>2. Count' = Count + 1
  BY <1>1, CapAssumption DEF Count
<1> QED
  BY <1>1, <1>2, CapAssumption DEF Count, At

(* A step of tail takes away the first slot of those in use. *)
LEMMA TailMoves ==
  ASSUME RingTypeOK, head # tail, head' = head, tail' = Succ(tail)
  PROVE  /\ Count' = Count - 1
         /\ \A i \in 0..(Count - 2) : At(i)' = At(i + 1)
<1>1. /\ head \in 0..(Cap - 1)
      /\ tail \in 0..(Cap - 1)
      /\ tail' = IF tail + 1 = Cap THEN 0 ELSE tail + 1
  BY SuccOf DEF RingTypeOK, Slots
<1>2. Count' = Count - 1
  BY <1>1, CapAssumption DEF Count
<1>3. ASSUME NEW i \in 0..(Count - 2)
      PROVE  At(i)' = At(i + 1)
  BY <1>1, <1>3, CapAssumption DEF Count, At
<1> QED
  BY <1>2, <1>3

(* The slots in use depend on the cursors alone. *)
LEMMA CursorsStay ==
  ASSUME head' = head, tail' = tail
  PROVE  /\ Count' = Count
         /\ \A i : At(i)' = At(i)
BY DEF Count, At

-----------------------------------------------------------------------------
(* What the two threads never change of each other. *)
Enqueue == Offer \/ FinishEnqueue

LEMMA NextCases ==
  ASSUME [Next]_vars
  PROVE  Enqueue \/ Poll \/ UNCHANGED vars
BY DEF Next, Enqueue

(* The steps of the ring keep its types. *)
LEMMA RingKinds ==
  ASSUME RingTypeOK, NEW t \in Threads,
         (\E v \in Values : PushBegin(t, v)) \/ PushStep(t) \/ PopStep(t)
  PROVE  RingTypeOK'
<1> USE DEF RingTypeOK, Goto, PushPCs, PopPCs, Items
<1>1. ASSUME NEW v \in Values, PushBegin(t, v) PROVE RingTypeOK'
  BY <1>1 DEF PushBegin
<1>2. CASE PushFull(t) \/ PushRoom(t)
  BY <1>2 DEF PushFull, PushRoom
<1>3. CASE PushWrite(t)
  BY <1>3 DEF PushWrite
<1>4. CASE PushStore(t)
  BY <1>4, SuccOf DEF PushStore
<1>5. CASE PopBegin(t) \/ PopEmpty(t) \/ PopSome(t)
  BY <1>5 DEF PopBegin, PopEmpty, PopSome
<1>6. CASE PopRead(t) \/ PopClear(t)
  BY <1>6 DEF PopRead, PopClear
<1>7. CASE PopStore(t)
  BY <1>7, SuccOf DEF PopStore
<1> QED
  BY <1>1, <1>2, <1>3, <1>4, <1>5, <1>6, <1>7 DEF PushStep, PopStep

(* A number that may be offered is an item, and none is Null. *)
LEMMA Numbers ==
  /\ MaxItems \in Nat /\ Values = 1..MaxItems /\ Null \notin Values
  /\ Producer \in Threads /\ Consumer \in Threads /\ Producer # Consumer
BY ItemsAreNumbered, ValuesAssumption, ThreadsAssumption DEF Threads

(* A producer's step leaves the consumer where it is. *)
LEMMA EnqueueKeeps ==
  ASSUME RingTypeOK, Enqueue
  PROVE  /\ pc'[Consumer] = pc[Consumer] /\ idx'[Consumer] = idx[Consumer]
         /\ item'[Consumer] = item[Consumer]
         /\ UNCHANGED <<policy, delivered>> /\ (overlap => overlap')
<1> USE Numbers DEF Goto, RingTypeOK
<1>1. CASE Offer
  BY <1>1 DEF Offer, PushBegin
<1>2. CASE Accepted \/ FirstRefused \/ SecondRefused \/ SpinRefused
  BY <1>2 DEF Accepted, FirstRefused, SecondRefused, SpinRefused, PushStore, PushFull
<1>3. CASE PushAgain \/ PushInside
  BY <1>3 DEF PushAgain, PushInside, PushBegin, PushRoom, PushWrite
<1>4. CASE DropBegin
  <2>1. overlap => overlap'
    BY <1>4 DEF DropBegin
  <2> QED
    BY <1>4, <2>1 DEF DropBegin, PopBegin
<1>5. CASE DropInside \/ DropEnd
  BY <1>5 DEF DropInside, DropEnd, PopSome, PopRead, PopClear, PopEmpty, PopStore
<1> QED
  BY <1>1, <1>2, <1>3, <1>4, <1>5 DEF Enqueue, FinishEnqueue

(* A consumer's step leaves the producer where it is. *)
LEMMA PollKeeps ==
  ASSUME RingTypeOK, Poll
  PROVE  /\ pc'[Producer] = pc[Producer] /\ idx'[Producer] = idx[Producer]
         /\ item'[Producer] = item[Producer]
         /\ UNCHANGED <<head, policy, call, offered, accepted>> /\ (overlap => overlap')
<1>1. overlap => overlap'
  BY DEF Poll, PollBegin, PollInside, Deliver
<1>2. /\ PopStep(Consumer) /\ UNCHANGED <<policy, call, offered, accepted>>
  BY DEF Poll, PollBegin, PollInside, Deliver, PopStep
<1>3. /\ pc'[Producer] = pc[Producer] /\ idx'[Producer] = idx[Producer]
      /\ item'[Producer] = item[Producer] /\ UNCHANGED head
  BY <1>2, Numbers DEF Goto, RingTypeOK, PopStep, PopBegin, PopEmpty, PopSome, PopRead, PopClear,
     PopStore
<1> QED
  BY <1>1, <1>2, <1>3

-----------------------------------------------------------------------------
(* Types, and where enqueue stands *)
LEMMA EnqueueType ==
  ASSUME TypeOK, CallInv, Enqueue
  PROVE  TypeOK' /\ CallInv'
<1>1. /\ RingTypeOK /\ policy \in {"Block", "DropOldest"} /\ offered \in 0..MaxItems
      /\ accepted \subseteq 1..offered /\ Range(delivered) \subseteq Items /\ overlap \in BOOLEAN
      /\ call \in {"idle", "first", "drop", "second", "spin"}
  BY DEF TypeOK
<1>2. /\ pc'[Consumer] \notin PushPCs /\ policy' = policy /\ delivered' = delivered
      /\ delivered \in Seq(Items)
  BY <1>1, EnqueueKeeps DEF CallInv
<1>3. pc \in [Threads -> {"idle"} \union PushPCs \union PopPCs] /\ item \in [Threads -> Items]
  BY <1>1 DEF RingTypeOK
<1> USE Numbers DEF Goto
<1>4. CASE Offer
  <2>1. /\ PushBegin(Producer, offered + 1) /\ offered' = offered + 1 /\ call' = "first"
        /\ UNCHANGED <<accepted, overlap>> /\ offered' \in 1..MaxItems /\ offered' \in Values
    BY <1>1, <1>4 DEF Offer
  <2>2. RingTypeOK'
    BY <1>1, <2>1, RingKinds
  <2>3. pc'[Producer] = "push_check" /\ item'[Producer] = offered'
    BY <1>3, <2>1 DEF PushBegin
  <2>4. TypeOK'
    BY <1>1, <1>2, <2>1, <2>2 DEF TypeOK
  <2>5. ~overlap \/ policy # "Block"
    BY DEF CallInv
  <2> QED
    BY <1>1, <1>2, <2>1, <2>3, <2>4, <2>5 DEF CallInv, PushPCs, PopPCs
<1>5. CASE Accepted
  <2>1. /\ PushStore(Producer) /\ accepted' = accepted \union {offered} /\ call' = "idle"
        /\ UNCHANGED <<offered, overlap>> /\ pc[Producer] = "push_store"
    BY <1>5 DEF Accepted, PushStore
  <2>2. offered \in 1..MaxItems
    BY <2>1 DEF CallInv, PushPCs
  <2>3. RingTypeOK' /\ pc'[Producer] = "idle"
    BY <1>1, <1>3, <2>1, RingKinds DEF PushStep, PushStore
  <2>4. accepted' \subseteq 1..offered
    BY <1>1, <2>1, <2>2
  <2>5. TypeOK'
    BY <1>1, <1>2, <2>1, <2>3, <2>4 DEF TypeOK
  <2>6. ~overlap \/ policy # "Block"
    BY DEF CallInv
  <2> QED
    BY <1>1, <1>2, <2>1, <2>3, <2>5, <2>6 DEF CallInv, PushPCs, PopPCs
<1>6. CASE FirstRefused \/ SecondRefused \/ SpinRefused
  <2>1. /\ PushFull(Producer) /\ UNCHANGED <<offered, accepted, overlap>>
             /\ pc[Producer] = "push_check"
        /\ \/ call' = IF policy = "DropOldest" THEN "drop" ELSE "spin"
           \/ call' = "idle"
           \/ UNCHANGED call /\ call = "spin"
    BY <1>6 DEF FirstRefused, SecondRefused, SpinRefused, PushFull
  <2>2. offered \in 1..MaxItems
    BY <2>1 DEF CallInv, PushPCs
  <2>3. RingTypeOK' /\ pc'[Producer] = "idle"
    BY <1>1, <1>3, <2>1, RingKinds DEF PushStep, PushFull
  <2>4. TypeOK'
    BY <1>1, <1>2, <2>1, <2>3 DEF TypeOK
  <2>5. (~overlap \/ policy # "Block") /\ (policy = "DropOldest" => call # "spin")
    BY DEF CallInv
  <2> QED
    BY <1>1, <1>2, <2>1, <2>2, <2>3, <2>4, <2>5 DEF CallInv, PushPCs, PopPCs
<1>7. CASE PushAgain
  <2>1. /\ PushBegin(Producer, offered) /\ UNCHANGED <<call, offered, accepted, overlap>>
        /\ call \in {"second", "spin"}
    BY <1>7 DEF PushAgain
  <2>2. offered \in 1..MaxItems
    BY <2>1 DEF CallInv
  <2>3. RingTypeOK'
    BY <1>1, <2>1, <2>2, RingKinds
  <2>4. pc'[Producer] = "push_check" /\ item'[Producer] = offered
    BY <1>3, <2>1 DEF PushBegin
  <2>5. TypeOK'
    BY <1>1, <1>2, <2>1, <2>3 DEF TypeOK
  <2> QED
    BY <1>1, <1>2, <2>1, <2>4, <2>5 DEF CallInv, PushPCs, PopPCs
<1>8. CASE PushInside
  <2>1. /\ PushRoom(Producer) \/ PushWrite(Producer)
        /\ pc[Producer] \in PushPCs
    BY <1>8 DEF PushInside, PushRoom, PushWrite, PushPCs
  <2>2. UNCHANGED <<call, offered, accepted, overlap>>
    BY <1>8 DEF PushInside
  <2>3. RingTypeOK'
    BY <1>1, <2>1, RingKinds DEF PushStep
  <2>4. \/ pc'[Producer] = "push_write" /\ pc[Producer] = "push_check"
             /\ item'[Producer] = item[Producer]
        \/ pc'[Producer] = "push_store"
    BY <1>3, <2>1 DEF PushRoom, PushWrite
  <2>5. TypeOK'
    BY <1>1, <1>2, <2>2, <2>3 DEF TypeOK
  <2> QED
    BY <1>1, <1>2, <2>1, <2>2, <2>4, <2>5 DEF CallInv, PushPCs, PopPCs
<1>9. CASE DropBegin \/ DropInside \/ DropEnd
  <2>1. /\ UNCHANGED <<offered, accepted>> /\ call = "drop"
        /\ PopStep(Producer) /\ overlap' \in BOOLEAN
        /\ \/ call' = "drop" /\ pc'[Producer] \in PopPCs
           \/ call' = "second" /\ pc'[Producer] = "idle"
    <3>1. CASE DropBegin
      <4>1. overlap' \in BOOLEAN
        BY <1>1, <3>1 DEF DropBegin
      <4> QED
        BY <1>3, <3>1, <4>1 DEF DropBegin, PopBegin, PopStep, PopPCs
    <3>2. CASE DropInside
      <4>1. /\ UNCHANGED <<call, offered, accepted, overlap>> /\ PopStep(Producer)
            /\ pc[Producer] \in PopPCs /\ pc'[Producer] \in PopPCs
        BY <1>3, <3>2 DEF DropInside, PopSome, PopRead, PopClear, PopStep, PopPCs
      <4> QED
        BY <1>1, <4>1 DEF CallInv
    <3>3. CASE DropEnd
      <4>1. /\ UNCHANGED <<offered, accepted, overlap>> /\ PopStep(Producer) /\ call' = "second"
            /\ pc[Producer] \in PopPCs /\ pc'[Producer] = "idle"
        BY <1>3, <3>3 DEF DropEnd, PopEmpty, PopStore, PopStep, PopPCs
      <4> QED
        BY <1>1, <4>1 DEF CallInv
    <3> QED
      BY <1>9, <3>1, <3>2, <3>3
  <2>2. policy = "DropOldest" /\ offered \in 1..MaxItems
    BY <1>1, <2>1 DEF CallInv
  <2>3. RingTypeOK'
    BY <1>1, <2>1, RingKinds
  <2>4. TypeOK'
    BY <1>1, <1>2, <2>1, <2>3 DEF TypeOK
  <2> QED
    BY <1>1, <1>2, <2>1, <2>2, <2>4 DEF CallInv, PushPCs, PopPCs
<1> QED
  BY <1>4, <1>5, <1>6, <1>7, <1>8, <1>9 DEF Enqueue, FinishEnqueue

LEMMA PollType ==
  ASSUME TypeOK, CallInv, Poll
  PROVE  TypeOK' /\ CallInv'
<1>1. /\ RingTypeOK /\ offered \in 0..MaxItems /\ overlap \in BOOLEAN
      /\ Range(delivered) \subseteq Items /\ delivered \in Seq(Items)
      /\ policy \in {"Block", "DropOldest"}
  BY DEF TypeOK, CallInv
<1>2. /\ pc'[Producer] = pc[Producer] /\ item'[Producer] = item[Producer]
      /\ UNCHANGED <<policy, call, offered, accepted>>
  BY <1>1, PollKeeps
<1>3. PopStep(Consumer)
  BY DEF Poll, PollBegin, PollInside, Deliver, PopStep
<1>4. RingTypeOK'
  BY <1>1, <1>3, Numbers, RingKinds
<1>5. pc'[Consumer] \notin PushPCs
  BY <1>1, <1>3, Numbers DEF PopStep, PopBegin, PopEmpty, PopSome, PopRead, PopClear, PopStore,
     Goto,
                             RingTypeOK, PushPCs
<1>6. delivered' \in Seq(Items) /\ Range(delivered') \subseteq Items
  <2>1. CASE UNCHANGED delivered
    BY <1>1, <2>1
  <2>2. CASE Deliver
    <3>1. PICK d \in Items : d = item[Consumer]
      BY <1>1, Numbers DEF RingTypeOK
    <3>2. delivered' = Append(delivered, d)
      BY <2>2, <3>1 DEF Deliver
    <3> QED
      BY <1>1, <3>2, RangeOfAppend
  <2> QED
    BY <2>1, <2>2 DEF Poll, PollBegin, PollInside
<1>7. overlap' \in BOOLEAN /\ (policy = "Block" => ~overlap')
  <2>1. policy = "Block" => ~overlap /\ pc[Producer] \notin PopPCs
    BY DEF CallInv
  <2>2. CASE PollBegin
    BY <1>1, <2>1, <2>2 DEF PollBegin
  <2>3. CASE UNCHANGED overlap
    BY <1>1, <2>1, <2>3
  <2> QED
    BY <2>2, <2>3 DEF Poll, PollInside, Deliver
<1>8. TypeOK'
  BY <1>2, <1>4, <1>6, <1>7 DEF TypeOK
<1> QED
  BY <1>2, <1>5, <1>6, <1>7, <1>8 DEF CallInv

LEMMA TypeStep ==
  ASSUME TypeOK, CallInv, [Next]_vars
  PROVE  TypeOK' /\ CallInv'
<1>1. CASE UNCHANGED vars
  BY <1>1 DEF vars, ringvars, TypeOK, RingTypeOK, CallInv
<1> QED
  BY <1>1, EnqueueType, PollType, NextCases

-----------------------------------------------------------------------------
(* No number is anywhere twice. *)

(* The parts of UniqueInv that a step of the producer can disturb. *)
LEMMA UniqueEnqueue ==
  ASSUME TypeOK, CallInv, UniqueInv, Enqueue
  PROVE  UniqueInv'
<1>1. /\ RingTypeOK /\ offered \in 0..MaxItems /\ Range(delivered) \subseteq Items
  BY DEF TypeOK
<1>2. /\ pc'[Consumer] = pc[Consumer] /\ idx'[Consumer] = idx[Consumer]
      /\ item'[Consumer] = item[Consumer] /\ UNCHANGED delivered
      /\ Moving' = Moving
  BY <1>1, EnqueueKeeps DEF Moving
<1>3. /\ buf \in [Slots -> Items] /\ item[Consumer] \in Items /\ idx \in [Threads -> Slots]
      /\ pc \in [Threads -> {"idle"} \union PushPCs \union PopPCs]
  BY <1>1, Numbers DEF RingTypeOK
<1> USE Numbers
<1>4. CASE Offer
  <2>1. /\ UNCHANGED buf /\ offered' = offered + 1
    BY <1>4 DEF Offer, PushBegin
  <2>2. ASSUME NEW d \in Items, d # Null, d <= offered
        PROVE  d <= offered' /\ d # offered'
    BY <1>1, <2>1, <2>2 DEF Items
  <2>3. offered' # Null
    BY <1>1, <1>4, <2>1 DEF Offer
  <2>4. offered' \notin Range(delivered)
    BY <1>1, <2>2, <2>3 DEF UniqueInv
  <2>5. \A s \in Slots : buf[s] # offered'
    BY <1>3, <2>2, <2>3 DEF UniqueInv
  <2>6. Moving => item[Consumer] # offered'
    BY <1>3, <2>2, <2>3 DEF UniqueInv
  <2>7. \A s \in Slots : buf[s] # Null => buf[s] <= offered' /\ buf[s] \notin Range(delivered)
    BY <1>3, <2>2 DEF UniqueInv
  <2>8. \A d \in Range(delivered) : d # Null => d <= offered'
    BY <1>1, <2>2 DEF UniqueInv
  <2>9. Moving /\ item[Consumer] # Null => item[Consumer] <= offered'
    BY <1>3, <2>2 DEF UniqueInv
  <2> QED
    BY <1>2, <2>1, <2>4, <2>5, <2>6, <2>7, <2>8, <2>9 DEF UniqueInv
<1>5. ASSUME UNCHANGED <<buf, offered>>,
             call' # "idle" /\ pc'[Producer] # "push_store"
                => call # "idle" /\ pc[Producer] # "push_store"
      PROVE  UniqueInv'
  BY <1>2, <1>5 DEF UniqueInv
<1>6. CASE Accepted
  BY <1>5, <1>6 DEF Accepted, PushStore
<1>7. CASE FirstRefused \/ SecondRefused \/ SpinRefused
  BY <1>5, <1>7 DEF FirstRefused, SecondRefused, SpinRefused, PushFull
<1>8. CASE PushAgain
  BY <1>5, <1>8 DEF PushAgain, PushBegin
<1>9. CASE PushInside
  <2>1. CASE PushRoom(Producer)
    BY <1>5, <1>9, <2>1 DEF PushInside, PushRoom
  <2>2. CASE PushWrite(Producer)
    <3>1. PICK k \in Slots : k = idx[Producer]
      BY <1>3
    <3>2. /\ buf' = [buf EXCEPT ![k] = offered] /\ UNCHANGED offered /\ pc'[Producer] = "push_store"
          /\ call # "idle" /\ pc[Producer] = "push_write"
      BY <1>3, <1>9, <2>2, <3>1 DEF PushInside, PushWrite, Goto, CallInv, PushPCs
    <3>3. buf'[k] = offered /\ \A s \in Slots \ {k} : buf'[s] = buf[s]
      BY <1>3, <3>2
    <3>4. /\ offered \notin Range(delivered) /\ (\A s \in Slots : buf[s] # offered)
          /\ (Moving => item[Consumer] # offered)
      BY <3>2 DEF UniqueInv
    <3>5. offered <= offered
      BY <1>1
    <3> QED
      BY <1>2, <3>2, <3>3, <3>4, <3>5 DEF UniqueInv
  <2> QED
    BY <1>9, <2>1, <2>2 DEF PushInside
<1>10. CASE DropBegin
  BY <1>5, <1>10 DEF DropBegin, PopBegin
<1>11. CASE DropInside
  <2>1. CASE PopSome(Producer) \/ PopRead(Producer)
    BY <1>5, <1>11, <2>1 DEF DropInside, PopSome, PopRead
  <2>2. CASE PopClear(Producer)
    <3>1. PICK k \in Slots : k = idx[Producer]
      BY <1>3
    <3>2. /\ buf' = [buf EXCEPT ![k] = Null] /\ UNCHANGED <<call, offered>>
          /\ pc[Producer] = "pop_clear" /\ pc'[Producer] = "pop_store"
      BY <1>3, <1>11, <2>2, <3>1 DEF DropInside, PopClear, Goto
    <3>3. buf'[k] = Null /\ \A s \in Slots \ {k} : buf'[s] = buf[s]
      BY <1>3, <3>2
    <3>4. call # "idle" => offered # Null
      BY DEF CallInv
    <3> QED
      BY <1>2, <3>2, <3>3, <3>4 DEF UniqueInv
  <2> QED
    BY <1>11, <2>1, <2>2 DEF DropInside
<1>12. CASE DropEnd
  <2>1. pc[Producer] \in PopPCs /\ UNCHANGED <<buf, offered>>
    BY <1>12 DEF DropEnd, PopEmpty, PopStore, PopPCs
  <2>2. call = "drop" /\ pc[Producer] # "push_store"
    BY <2>1 DEF CallInv, PopPCs
  <2> QED
    BY <1>5, <2>1, <2>2
<1> QED
  BY <1>4, <1>6, <1>7, <1>8, <1>9, <1>10, <1>11, <1>12 DEF Enqueue, FinishEnqueue

LEMMA UniquePoll ==
  ASSUME TypeOK, CallInv, UniqueInv, NoDoubleDelivery, Poll
  PROVE  UniqueInv' /\ NoDoubleDelivery'
<1>1. RingTypeOK /\ offered \in 0..MaxItems /\ delivered \in Seq(Items)
  BY DEF TypeOK, CallInv
<1>2. pc'[Producer] = pc[Producer] /\ UNCHANGED <<call, offered>>
  BY <1>1, PollKeeps
<1>3. /\ buf \in [Slots -> Items] /\ item \in [Threads -> Items] /\ idx \in [Threads -> Slots]
      /\ pc \in [Threads -> {"idle"} \union PushPCs \union PopPCs]
  BY <1>1 DEF RingTypeOK
<1> USE Numbers
<1>4. CASE \/ PollBegin
           \/ (PopEmpty(Consumer) \/ PopSome(Consumer)) /\ UNCHANGED delivered
  <2>1. UNCHANGED <<buf, delivered>> /\ ~Moving'
    BY <1>3, <1>4 DEF PollBegin, PopBegin, PopEmpty, PopSome, Goto, Moving
  <2> QED
    BY <1>2, <2>1 DEF UniqueInv, NoDoubleDelivery
<1>5. CASE PopRead(Consumer) /\ UNCHANGED delivered
  <2>1. PICK k \in Slots : k = idx[Consumer]
    BY <1>3
  <2>2. /\ UNCHANGED <<buf, idx, delivered>> /\ item'[Consumer] = buf[k]
             /\ pc'[Consumer] = "pop_clear"
    BY <1>3, <1>5, <2>1 DEF PopRead, Goto
  <2> QED
    BY <1>2, <2>1, <2>2 DEF UniqueInv, NoDoubleDelivery
<1>6. CASE PopClear(Consumer) /\ UNCHANGED delivered
  <2>1. PICK k \in Slots : k = idx[Consumer]
    BY <1>3
  <2>2. /\ UNCHANGED <<item, idx, delivered>> /\ buf' = [buf EXCEPT ![k] = Null]
        /\ pc[Consumer] = "pop_clear" /\ pc'[Consumer] = "pop_store" /\ Moving /\ Moving'
    BY <1>3, <1>6, <2>1 DEF PopClear, Goto, Moving
  <2>3. buf'[k] = Null /\ \A s \in Slots \ {k} : buf'[s] = buf[s]
    BY <1>3, <2>2
  <2>4. call # "idle" => offered # Null
    BY DEF CallInv
  <2> QED
    BY <1>2, <2>1, <2>2, <2>3, <2>4 DEF UniqueInv, NoDoubleDelivery
<1>7. CASE Deliver
  <2>1. PICK d \in Items : d = item[Consumer]
    BY <1>3
  <2>2. /\ UNCHANGED buf /\ delivered' = Append(delivered, d) /\ pc[Consumer] = "pop_store"
        /\ Moving /\ ~Moving'
    BY <1>3, <1>7, <2>1 DEF Deliver, PopStore, Goto, Moving
  <2>3. Range(delivered') = Range(delivered) \union {d}
    BY <1>1, <2>2, RangeOfAppend
  <2>4. d # Null => /\ d <= offered /\ d \notin Range(delivered)
                    /\ \A s \in Slots : buf[s] # d
    BY <2>1, <2>2 DEF UniqueInv
  <2>5. call # "idle" /\ pc[Producer] # "push_store" => d # offered
    BY <2>1, <2>2 DEF UniqueInv
  <2>6. UniqueInv'
    BY <1>2, <2>2, <2>3, <2>4, <2>5 DEF UniqueInv
  <2>7. NoDoubleDelivery'
    <3>1. PICK n \in Nat : n = Len(delivered)
      BY <1>1
    <3>2. /\ DOMAIN delivered = 1..n /\ DOMAIN delivered' = 1..(n + 1) /\ delivered'[n + 1] = d
          /\ \A i \in 1..n : delivered'[i] = delivered[i]
      BY <1>1, <2>2, <3>1, AppendProperties, LenProperties
    <3>3. \A i \in 1..n : d # Null => delivered[i] # d
      BY <2>4, <3>2 DEF Range
    <3>4. \A i \in 1..(n + 1) : i \in 1..n \/ i = n + 1
      OBVIOUS
    <3> QED
      BY <3>2, <3>3, <3>4 DEF NoDoubleDelivery
  <2> QED
    BY <2>6, <2>7
<1> QED
  BY <1>4, <1>5, <1>6, <1>7 DEF Poll, PollInside

LEMMA UniqueStep ==
  ASSUME TypeOK, CallInv, UniqueInv, NoDoubleDelivery, [Next]_vars
  PROVE  UniqueInv' /\ NoDoubleDelivery'
<1>1. CASE Enqueue
  <2>1. UNCHANGED delivered
    BY <1>1, EnqueueKeeps DEF TypeOK
  <2> QED
    BY <1>1, <2>1, UniqueEnqueue DEF NoDoubleDelivery
<1>2. CASE UNCHANGED vars
  BY <1>2 DEF vars, ringvars, UniqueInv, NoDoubleDelivery, Moving
<1> QED
  BY <1>1, <1>2, UniquePoll, NextCases

-----------------------------------------------------------------------------
(* As long as no two pops overlap *)

LEMMA SuccDiffers ==
  \A i, j \in Slots : /\ i # j => Succ(i) # Succ(j)
                      /\ Succ(i) # i
                      /\ Succ(i) \in Slots
<1>1. Cap \in Nat /\ Cap >= 2
  BY CapAssumption
<1> QED
  BY <1>1, SuccOf DEF Slots

LEMMA CursorEnqueue ==
  ASSUME TypeOK, CallInv, CursorInv, Enqueue, ~overlap'
  PROVE  CursorInv'
<1>1. RingTypeOK
  BY DEF TypeOK
<1>2. /\ pc'[Consumer] = pc[Consumer] /\ idx'[Consumer] = idx[Consumer]
  BY <1>1, EnqueueKeeps
<1>3. /\ pc \in [Threads -> {"idle"} \union PushPCs \union PopPCs] /\ idx \in [Threads -> Slots]
      /\ head \in Slots /\ tail \in Slots /\ Threads = {Producer, Consumer}
  BY <1>1 DEF RingTypeOK, Threads
<1> USE Numbers DEF Goto
<1>4. CASE Offer \/ PushAgain
  <2>1. /\ UNCHANGED <<head, tail>> /\ pc'[Producer] = "push_check" /\ idx'[Producer] = head
        /\ call' = "second" => call = "second"
    BY <1>3, <1>4 DEF Offer, PushAgain, PushBegin
  <2> QED
    BY <1>2, <1>3, <2>1 DEF CursorInv, PushPCs, PopPCs
<1>5. CASE Accepted
  <2>1. /\ head' = Succ(head) /\ UNCHANGED tail /\ pc'[Producer] = "idle" /\ call' = "idle"
        /\ Succ(head) # tail
    BY <1>3, <1>5 DEF Accepted, PushStore, CursorInv, PushPCs
  <2>2. ASSUME pc[Consumer] \in PopPCs
        PROVE  idx'[Consumer] = tail'
    BY <1>2, <1>3, <2>1, <2>2 DEF CursorInv
  <2> QED
    BY <1>2, <1>3, <2>1, <2>2 DEF CursorInv, PushPCs, PopPCs
<1>6. CASE FirstRefused \/ SecondRefused \/ SpinRefused
  <2>1. /\ UNCHANGED <<head, tail>> /\ pc'[Producer] = "idle" /\ call' # "second"
    BY <1>3, <1>6 DEF FirstRefused, SecondRefused, SpinRefused, PushFull
  <2> QED
    BY <1>2, <1>3, <2>1 DEF CursorInv, PushPCs, PopPCs
<1>7. CASE PushInside
  <2>1. /\ UNCHANGED <<head, tail, call, idx>> /\ idx[Producer] = head /\ Succ(head) # tail
        /\ pc'[Producer] \in PushPCs
    BY <1>3, <1>7 DEF PushInside, PushRoom, PushWrite, CursorInv, PushPCs
  <2>2. pc'[Producer] \notin PopPCs
    BY <2>1 DEF PushPCs, PopPCs
  <2> QED
    BY <1>2, <1>3, <2>1, <2>2 DEF CursorInv
<1>8. CASE DropBegin
  <2>1. /\ UNCHANGED <<head, tail, call>> /\ pc'[Producer] = "pop_check" /\ idx'[Producer] = tail
        /\ call = "drop"
    BY <1>3, <1>8 DEF DropBegin, PopBegin
  <2>2. pc[Consumer] \notin PopPCs
    BY <1>8 DEF DropBegin
  <2> QED
    BY <1>2, <1>3, <2>1, <2>2 DEF CursorInv, PushPCs, PopPCs
<1>9. CASE DropInside
  <2>1. /\ UNCHANGED <<head, tail, call, idx>> /\ idx[Producer] = tail /\ head # tail
        /\ pc[Producer] \in PopPCs /\ pc'[Producer] \in PopPCs
    BY <1>3, <1>9 DEF DropInside, PopSome, PopRead, PopClear, CursorInv, PopPCs
  <2>2. call = "drop" /\ pc[Consumer] \notin PopPCs /\ pc'[Producer] \notin PushPCs
    BY <2>1 DEF CallInv, CursorInv, PushPCs, PopPCs
  <2>3. pc'[Producer] \notin {"push_write", "push_store"}
    BY <2>2 DEF PushPCs
  <2> QED
    BY <1>2, <1>3, <2>1, <2>2, <2>3 DEF CursorInv
<1>10. CASE DropEnd
  <2>1. pc[Producer] \in PopPCs /\ pc'[Producer] = "idle" /\ UNCHANGED head
    BY <1>3, <1>10 DEF DropEnd, PopEmpty, PopStore, PopPCs
  <2>2. pc[Consumer] \notin PopPCs
    BY <2>1 DEF CursorInv
  <2>3. Succ(head') # tail'
    <3>1. CASE PopEmpty(Producer)
      <4>1. head = tail /\ UNCHANGED tail
        BY <3>1 DEF PopEmpty, CursorInv, PopPCs
      <4> QED
        BY <1>3, <2>1, <4>1, SuccDiffers
    <3>2. CASE PopStore(Producer)
      <4>1. head # tail /\ tail' = Succ(tail)
        BY <3>2 DEF PopStore, CursorInv, PopPCs
      <4> QED
        BY <1>3, <2>1, <4>1, SuccDiffers
    <3> QED
      BY <1>10, <3>1, <3>2 DEF DropEnd
  <2> QED
    BY <1>2, <1>3, <2>1, <2>2, <2>3 DEF CursorInv, PushPCs, PopPCs
<1> QED
  BY <1>4, <1>5, <1>6, <1>7, <1>8, <1>9, <1>10 DEF Enqueue, FinishEnqueue

LEMMA CursorPoll ==
  ASSUME TypeOK, CallInv, CursorInv, Poll, ~overlap'
  PROVE  CursorInv'
<1>1. RingTypeOK
  BY DEF TypeOK
<1>2. /\ pc'[Producer] = pc[Producer] /\ idx'[Producer] = idx[Producer] /\ UNCHANGED <<head, call>>
  BY <1>1, PollKeeps
<1>3. /\ pc \in [Threads -> {"idle"} \union PushPCs \union PopPCs] /\ idx \in [Threads -> Slots]
      /\ head \in Slots /\ tail \in Slots /\ Threads = {Producer, Consumer}
  BY <1>1 DEF RingTypeOK, Threads
<1> USE Numbers DEF Goto
<1>4. CASE PollBegin
  <2>1. /\ UNCHANGED tail /\ pc'[Consumer] = "pop_check" /\ idx'[Consumer] = tail
    BY <1>3, <1>4 DEF PollBegin, PopBegin
  <2>2. pc[Producer] \notin PopPCs
    BY <1>4 DEF PollBegin
  <2> QED
    BY <1>2, <1>3, <2>1, <2>2 DEF CursorInv
<1>5. CASE PopEmpty(Consumer)
  <2>1. UNCHANGED tail /\ pc'[Consumer] = "idle"
    BY <1>3, <1>5 DEF PopEmpty
  <2>2. pc'[Consumer] \notin PopPCs
    BY <2>1 DEF PopPCs
  <2> QED
    BY <1>2, <1>3, <2>1, <2>2 DEF CursorInv
<1>6. CASE PopSome(Consumer) \/ PopRead(Consumer) \/ PopClear(Consumer)
  <2>1. /\ UNCHANGED <<tail, idx>> /\ idx[Consumer] = tail /\ head # tail /\ pc[Consumer] \in PopPCs
    BY <1>3, <1>6 DEF PopSome, PopRead, PopClear, CursorInv, PopPCs
  <2>2. pc[Producer] \notin PopPCs
    BY <2>1 DEF CursorInv
  <2> QED
    BY <1>2, <1>3, <2>1, <2>2 DEF CursorInv
<1>7. CASE Deliver
  <2>1. /\ tail' = Succ(tail) /\ head # tail /\ pc[Consumer] \in PopPCs /\ pc'[Consumer] = "idle"
    BY <1>3, <1>7 DEF Deliver, PopStore, CursorInv, PopPCs
  <2>2. pc[Producer] \notin PopPCs /\ pc'[Consumer] \notin PopPCs
    BY <2>1 DEF CursorInv, PopPCs
  <2>3. Succ(head') # tail'
    BY <1>2, <1>3, <2>1, SuccDiffers
  <2> QED
    BY <1>2, <1>3, <2>1, <2>2, <2>3 DEF CursorInv
<1> QED
  BY <1>4, <1>5, <1>6, <1>7 DEF Poll, PollInside

(* Steps that move nothing keep the numbers. *)
LEMMA NumberQuiet ==
  ASSUME NumberInv, UNCHANGED <<buf, head, tail, accepted>>, Last' = Last,
         pc'[Producer] = "push_store" => pc[Producer] = "push_store" /\ offered' = offered,
         pc[Producer] = "pop_store" => pc'[Producer] = "pop_store",
         pc[Consumer] = "pop_store" => pc'[Consumer] = "pop_store",
         Moving' => Moving /\ item'[Consumer] = item[Consumer]
  PROVE  NumberInv'
<1>1. Count' = Count /\ \A i : At(i)' = At(i)
  BY CursorsStay
<1>2. /\ accepted' = 1..Last' /\ Count' <= Last'
      /\ pc'[Producer] = "push_store" => buf'[head'] = offered'
      /\ Moving' => item'[Consumer] = Last' - Count' + 1
  BY <1>1 DEF NumberInv
<1>3. ASSUME NEW i \in 0..(Count - 1),
             i # 0 \/ (pc'[Producer] # "pop_store" /\ pc'[Consumer] # "pop_store")
      PROVE  buf'[At(i)'] = Last' - Count' + i + 1
  <2>1. buf[At(i)] = Last - Count + i + 1
    BY <1>3 DEF NumberInv
  <2> QED
    BY <1>1, <2>1
<1> QED
  BY <1>1, <1>2, <1>3 DEF NumberInv

(* The slot that is written is none of those in use. *)
LEMMA NumberPushWrite ==
  ASSUME TypeOK, CallInv, CursorInv, NumberInv, PushWrite(Producer),
         UNCHANGED <<call, offered, accepted>>
  PROVE  NumberInv'
<1>1. RingTypeOK
  BY Numbers DEF TypeOK
<1>2. /\ UNCHANGED <<head, tail>> /\ pc[Producer] = "push_write"
      /\ idx[Producer] = head /\ item[Producer] = offered
  BY DEF PushWrite, CallInv, CursorInv, PushPCs
<1>3. /\ buf' = [buf EXCEPT ![head] = offered]
      /\ pc'[Producer] = "push_store" /\ pc'[Consumer] = pc[Consumer]
      /\ item'[Consumer] = item[Consumer]
  BY <1>1, <1>2, Numbers DEF PushWrite, Goto, RingTypeOK
<1>4. Count' = Count /\ (\A i : At(i)' = At(i)) /\ Last' = Last /\ Moving' = Moving
  BY <1>2, <1>3, CursorsStay DEF Last, Moving
<1>5. buf'[head] = offered /\ \A s \in Slots : s # head => buf'[s] = buf[s]
  BY <1>1, <1>3 DEF RingTypeOK
<1>6. ASSUME NEW i \in 0..(Count - 1),
             i # 0 \/ (pc'[Producer] # "pop_store" /\ pc'[Consumer] # "pop_store")
      PROVE  buf'[At(i)'] = Last' - Count' + i + 1
  <2>1. buf[At(i)] = Last - Count + i + 1
    BY <1>2, <1>3, <1>6 DEF NumberInv
  <2>2. At(i) \in Slots /\ At(i) # head
    BY <1>1, AtFacts
  <2> QED
    BY <1>4, <1>5, <2>1, <2>2
<1>7. /\ accepted' = 1..Last' /\ Count' <= Last'
      /\ pc'[Producer] = "push_store" => buf'[head'] = offered'
      /\ Moving' => item'[Consumer] = Last' - Count' + 1
  BY <1>2, <1>3, <1>4, <1>5 DEF NumberInv
<1> QED
  BY <1>4, <1>6, <1>7 DEF NumberInv

(* The number that was written joins those in use. *)
LEMMA NumberAccepted ==
  ASSUME TypeOK, CallInv, CursorInv, NumberInv, Accepted
  PROVE  NumberInv' /\ Last' = Last + 1 /\ Count' = Count + 1
<1>1. RingTypeOK /\ offered \in 0..MaxItems /\ MaxItems \in Nat
  BY Numbers DEF TypeOK
<1>2. /\ PushStore(Producer) /\ accepted' = accepted \union {offered} /\ call' = "idle"
      /\ UNCHANGED <<offered, buf, tail, item>> /\ pc[Producer] = "push_store"
  BY DEF Accepted, PushStore
<1>3. /\ head' = Succ(head) /\ Succ(head) # tail /\ offered \in 1..MaxItems
      /\ call # "idle"
  BY <1>2 DEF PushStore, CursorInv, CallInv, PushPCs
<1>4. pc'[Producer] = "idle" /\ pc'[Consumer] = pc[Consumer]
  BY <1>1, <1>2, Numbers DEF PushStore, Goto, RingTypeOK
<1>5. Last = offered - 1 /\ Last' = offered
  BY <1>2, <1>3 DEF Last
<1>6. Count' = Count + 1 /\ \A i \in 0..Count : At(i)' = At(i)
  BY <1>1, <1>2, <1>3, HeadMoves
<1>7. Count \in Nat /\ At(Count) = head
  BY <1>1, CountRange, AtCount, CapAssumption
<1>8. ASSUME NEW i \in 0..Count,
             i # 0 \/ (pc'[Producer] # "pop_store" /\ pc'[Consumer] # "pop_store")
      PROVE  buf'[At(i)'] = Last' - Count' + i + 1
  <2>1. CASE i = Count
    <3>1. buf'[At(i)'] = offered
      BY <1>2, <1>6, <1>7, <2>1 DEF NumberInv
    <3>2. Last' - Count' + i + 1 = offered
      BY <1>1, <1>5, <1>6, <1>7, <2>1
    <3> QED
      BY <3>1, <3>2
  <2>2. CASE i # Count
    <3>1. i \in 0..(Count - 1)
      BY <1>7, <2>2
    <3>2. buf[At(i)] = Last - Count + i + 1
      BY <1>2, <1>4, <1>8, <3>1 DEF NumberInv
    <3>3. Last' - Count' + i + 1 = Last - Count + i + 1
      BY <1>1, <1>5, <1>6, <1>7
    <3> QED
      BY <1>2, <1>6, <3>2, <3>3
  <2> QED
    BY <2>1, <2>2
<1>9. accepted' = 1..Last'
  BY <1>1, <1>2, <1>3, <1>5 DEF NumberInv
<1>10. Count' <= Last' /\ Last' - Count' = Last - Count
  BY <1>1, <1>5, <1>6, <1>7 DEF NumberInv
<1>11. Moving' => item'[Consumer] = Last' - Count' + 1
  BY <1>2, <1>4, <1>10 DEF NumberInv, Moving
<1>12. Count' - 1 = Count /\ Last' = Last + 1
  BY <1>1, <1>5, <1>6, <1>7
<1>13. NumberInv'
  <2>1. pc'[Producer] # "push_store"
    BY <1>4
  <2> QED
    BY <1>8, <1>9, <1>10, <1>11, <1>12, <2>1 DEF NumberInv
<1> QED
  BY <1>6, <1>12, <1>13

(* The consumer reads the first of the numbers in use. *)
LEMMA NumberPopRead ==
  ASSUME TypeOK, CallInv, CursorInv, NumberInv, PopRead(Consumer),
         UNCHANGED <<call, offered, accepted>>
  PROVE  NumberInv'
<1>1. RingTypeOK
  BY DEF TypeOK
<1>2. /\ UNCHANGED <<buf, head, tail>> /\ idx[Consumer] = tail /\ head # tail
      /\ pc[Consumer] = "pop_read" /\ pc[Producer] \notin PopPCs
  BY Numbers DEF PopRead, CursorInv, PopPCs
<1>3. /\ pc'[Consumer] = "pop_clear" /\ pc'[Producer] = pc[Producer]
      /\ item'[Consumer] = buf[tail]
  BY <1>1, <1>2, Numbers DEF PopRead, Goto, RingTypeOK
<1>4. Count' = Count /\ (\A i : At(i)' = At(i)) /\ Last' = Last
  BY <1>2, CursorsStay DEF Last
<1>5. 0 \in 0..(Count - 1)
  BY <1>1, <1>2, CountRange, CapAssumption
<1>6. At(0) = tail
  BY <1>1, <1>5, AtFacts
<1>7. pc[Producer] # "pop_store" /\ pc[Consumer] # "pop_store"
  BY <1>2 DEF PopPCs
<1>8. buf[tail] = Last - Count + 0 + 1
  BY <1>5, <1>6, <1>7 DEF NumberInv
<1>9. Last \in Int /\ Count \in Int
  BY <1>1, CountRange, CapAssumption DEF Last, TypeOK
<1>10. item'[Consumer] = Last' - Count' + 1
  BY <1>3, <1>4, <1>8, <1>9
<1>11. \A i \in 0..(Count - 1) : buf[At(i)] = Last - Count + i + 1
  BY <1>7 DEF NumberInv
<1>12. /\ accepted' = 1..Last' /\ Count' <= Last'
       /\ pc'[Producer] = "push_store" => buf'[head'] = offered'
  BY <1>2, <1>3, <1>4 DEF NumberInv
<1> QED
  BY <1>2, <1>4, <1>10, <1>11, <1>12 DEF NumberInv

(* The slot that is cleared is the first of those in use. *)
LEMMA NumberPopClear ==
  ASSUME TypeOK, CallInv, CursorInv, NumberInv, NEW t \in Threads, PopClear(t),
         UNCHANGED <<call, offered, accepted>>
  PROVE  NumberInv'
<1>1. RingTypeOK
  BY DEF TypeOK
<1>2. /\ UNCHANGED <<head, tail, item>> /\ idx[t] = tail /\ head # tail /\ pc[t] = "pop_clear"
  BY DEF PopClear, CursorInv, PopPCs
<1>3. /\ buf' = [buf EXCEPT ![tail] = Null] /\ pc'[t] = "pop_store"
      /\ \A u \in Threads : u # t => pc'[u] = pc[u]
  BY <1>1, <1>2 DEF PopClear, Goto, RingTypeOK
<1>4. Count' = Count /\ (\A i : At(i)' = At(i)) /\ Last' = Last
  BY <1>2, CursorsStay DEF Last
<1>5. \A s \in Slots : s # tail => buf'[s] = buf[s]
  BY <1>1, <1>3 DEF RingTypeOK
<1>6. t \in {Producer, Consumer}
  BY DEF Threads
<1>7. ASSUME NEW i \in 0..(Count - 1),
             i # 0 \/ (pc'[Producer] # "pop_store" /\ pc'[Consumer] # "pop_store")
      PROVE  buf'[At(i)'] = Last' - Count' + i + 1
  <2>1. i # 0
    BY <1>3, <1>6, <1>7
  <2>2. At(i) \in Slots /\ At(i) # tail
    BY <1>1, <2>1, AtFacts
  <2>3. buf[At(i)] = Last - Count + i + 1
    BY <2>1 DEF NumberInv
  <2> QED
    BY <1>4, <1>5, <2>2, <2>3
<1>8. Moving' => Moving
  BY <1>2, <1>3, <1>6, Numbers DEF Moving
<1>9. pc'[Producer] = "push_store" => pc[Producer] = "push_store" /\ buf'[head] = buf[head]
  BY <1>1, <1>2, <1>3, <1>5, <1>6, Numbers DEF RingTypeOK
<1>10. /\ accepted' = 1..Last' /\ Count' <= Last'
       /\ pc'[Producer] = "push_store" => buf'[head'] = offered'
       /\ Moving' => item'[Consumer] = Last' - Count' + 1
  BY <1>2, <1>4, <1>8, <1>9 DEF NumberInv
<1> QED
  BY <1>4, <1>7, <1>10 DEF NumberInv

(* The first of the numbers in use leaves them. *)
LEMMA NumberPopStore ==
  ASSUME TypeOK, CallInv, CursorInv, NumberInv, NEW t \in Threads, PopStore(t),
         UNCHANGED <<offered, accepted>>, Last' = Last
  PROVE  NumberInv' /\ Count' = Count - 1 /\ Count \in Nat
<1>1. RingTypeOK
  BY DEF TypeOK
<1>2. /\ UNCHANGED <<buf, head, item>> /\ tail' = Succ(tail) /\ head # tail /\ pc[t] = "pop_store"
  BY DEF PopStore, CursorInv, PopPCs
<1>3. pc'[t] = "idle" /\ \A u \in Threads : u # t => pc'[u] = pc[u]
  BY <1>1 DEF PopStore, Goto, RingTypeOK
<1>4. t \in {Producer, Consumer}
  BY DEF Threads
<1>5. \A u \in Threads : u # t => pc[u] \notin PopPCs
  BY <1>2, <1>4, Numbers DEF CursorInv, PopPCs, Threads
<1>6. Count' = Count - 1 /\ \A i \in 0..(Count - 2) : At(i)' = At(i + 1)
  BY <1>1, <1>2, TailMoves
<1>7. Count \in Nat /\ Last \in Int
  BY <1>1, CountRange, CapAssumption DEF Last, TypeOK
<1>8. ASSUME NEW i \in 0..(Count - 2)
      PROVE  buf'[At(i)'] = Last' - Count' + i + 1
  <2>1. i + 1 \in 0..(Count - 1) /\ i + 1 # 0
    BY <1>7
  <2>2. buf[At(i + 1)] = Last - Count + (i + 1) + 1
    BY <2>1 DEF NumberInv
  <2>3. Last' - Count' + i + 1 = Last - Count + (i + 1) + 1
    BY <1>6, <1>7
  <2> QED
    BY <1>2, <1>6, <2>2, <2>3
<1>9. ~Moving'
  BY <1>3, <1>4, <1>5, Numbers DEF Moving, PopPCs, Threads
<1>10. Count' <= Last' /\ Count' - 1 = Count - 2
  BY <1>6, <1>7 DEF NumberInv
<1>11. /\ accepted' = 1..Last'
       /\ pc'[Producer] = "push_store" => buf'[head'] = offered'
  BY <1>2, <1>3, <1>4, Numbers DEF NumberInv, Threads
<1> QED
  BY <1>6, <1>7, <1>8, <1>9, <1>10, <1>11 DEF NumberInv

(* What has left the queue only grows, and under Block only by delivery. *)
LEMMA NumberEnqueue ==
  ASSUME TypeOK, CallInv, CursorInv, NumberInv, Enqueue
  PROVE  /\ NumberInv'
         /\ \/ Last' - Count' = Last - Count
            \/ policy = "DropOldest" /\ Last' - Count' = Last - Count + 1
<1>1. RingTypeOK /\ offered \in 0..MaxItems /\ MaxItems \in Nat
  BY Numbers DEF TypeOK
<1>2. /\ pc'[Consumer] = pc[Consumer] /\ item'[Consumer] = item[Consumer] /\ Moving' = Moving
  BY <1>1, EnqueueKeeps DEF Moving
<1>3. pc \in [Threads -> {"idle"} \union PushPCs \union PopPCs] /\ Threads = {Producer, Consumer}
  BY <1>1 DEF RingTypeOK, Threads
<1>4. Last \in Int /\ Count \in Int
  BY <1>1, CountRange, CapAssumption DEF Last
<1>5. ASSUME UNCHANGED <<buf, head, tail, accepted>>, Last' = Last,
             pc'[Producer] = "push_store" => pc[Producer] = "push_store" /\ offered' = offered,
             pc[Producer] = "pop_store" => pc'[Producer] = "pop_store"
      PROVE  NumberInv' /\ Last' - Count' = Last - Count
  BY <1>2, <1>5, NumberQuiet, CursorsStay
<1> USE Numbers DEF Goto
<1>6. CASE Offer
  <2>1. /\ UNCHANGED <<buf, head, tail, accepted>> /\ pc'[Producer] = "push_check"
        /\ call = "idle" /\ call' = "first" /\ offered' = offered + 1 /\ pc[Producer] = "idle"
    BY <1>3, <1>6 DEF Offer, PushBegin
  <2>2. Last' = Last
    BY <1>1, <2>1 DEF Last
  <2> QED
    BY <1>5, <2>1, <2>2
<1>7. CASE Accepted
  <2>1. NumberInv' /\ Last' = Last + 1 /\ Count' = Count + 1
    BY <1>7, NumberAccepted
  <2> QED
    BY <1>4, <2>1
<1>8. CASE FirstRefused \/ SpinRefused
  <2>1. /\ UNCHANGED <<buf, head, tail, accepted, offered>> /\ pc'[Producer] = "idle"
        /\ call # "idle" /\ call' # "idle" /\ pc[Producer] = "push_check"
    BY <1>3, <1>8 DEF FirstRefused, SpinRefused, PushFull
  <2>2. Last' = Last
    BY <2>1 DEF Last
  <2> QED
    BY <1>5, <2>1, <2>2
<1>9. ~SecondRefused
  BY DEF SecondRefused, PushFull, CursorInv, PushPCs
<1>10. CASE PushAgain
  <2>1. /\ UNCHANGED <<buf, head, tail, accepted, call, offered>> /\ pc'[Producer] = "push_check"
        /\ pc[Producer] = "idle"
    BY <1>3, <1>10 DEF PushAgain, PushBegin
  <2>2. Last' = Last
    BY <2>1 DEF Last
  <2> QED
    BY <1>5, <2>1, <2>2
<1>11. CASE PushInside
  <2>1. UNCHANGED <<call, offered, accepted>>
    BY <1>11 DEF PushInside
  <2>2. CASE PushRoom(Producer)
    <3>1. /\ UNCHANGED <<buf, head, tail>> /\ pc'[Producer] = "push_write"
               /\ pc[Producer] = "push_check"
      BY <1>3, <2>2 DEF PushRoom
    <3>2. Last' = Last
      BY <2>1 DEF Last
    <3> QED
      BY <1>5, <2>1, <3>1, <3>2
  <2>3. CASE PushWrite(Producer)
    <3>1. UNCHANGED <<head, tail>>
      BY <2>3 DEF PushWrite
    <3>2. Last' - Count' = Last - Count
      BY <2>1, <3>1, CursorsStay DEF Last
    <3> QED
      BY <2>1, <2>3, <3>2, NumberPushWrite
  <2> QED
    BY <1>11, <2>2, <2>3 DEF PushInside
<1>12. CASE DropBegin \/ (DropInside /\ ~PopClear(Producer)) \/ (DropEnd /\ PopEmpty(Producer))
  <2>1. /\ UNCHANGED <<buf, head, tail, accepted, offered>> /\ pc'[Producer] # "push_store"
        /\ pc[Producer] # "pop_store"
    BY <1>3, <1>12 DEF DropBegin, DropInside, DropEnd, PopBegin, PopSome, PopRead, PopClear,
       PopEmpty, PopStore
  <2>2. call # "idle" /\ call' # "idle"
    BY <1>12 DEF DropBegin, DropInside, DropEnd, PopSome, PopRead, PopEmpty, PopStore, CallInv,
       PopPCs
  <2>3. Last' = Last
    BY <2>1, <2>2 DEF Last
  <2> QED
    BY <1>5, <2>1, <2>3
<1>13. CASE DropInside /\ PopClear(Producer)
  <2>1. UNCHANGED <<call, offered, accepted, head, tail>>
    BY <1>13 DEF DropInside, PopClear
  <2>2. Last' - Count' = Last - Count
    BY <2>1, CursorsStay DEF Last
  <2> QED
    BY <1>3, <1>13, <2>1, <2>2, NumberPopClear
<1>14. CASE DropEnd /\ PopStore(Producer)
  <2>1. /\ UNCHANGED <<offered, accepted>> /\ call' = "second" /\ pc[Producer] \in PopPCs
    BY <1>14 DEF DropEnd, PopStore, PopPCs
  <2>2. call = "drop" /\ policy = "DropOldest"
    BY <2>1 DEF CallInv, TypeOK
  <2>3. Last' = Last
    BY <2>1, <2>2 DEF Last
  <2>4. NumberInv' /\ Count' = Count - 1
    BY <1>3, <1>14, <2>1, <2>3, NumberPopStore
  <2> QED
    BY <1>4, <2>2, <2>3, <2>4
<1> QED
  BY <1>6, <1>7, <1>8, <1>9, <1>10, <1>11, <1>12, <1>13, <1>14 DEF Enqueue, FinishEnqueue, DropEnd

LEMMA NumberPoll ==
  ASSUME TypeOK, CallInv, CursorInv, NumberInv, Poll
  PROVE  /\ NumberInv'
         /\ \/ UNCHANGED delivered /\ Last' - Count' = Last - Count
            \/ Deliver /\ item[Consumer] = Last - Count + 1 /\ Last' - Count' = Last - Count + 1
<1>1. RingTypeOK /\ offered \in 0..MaxItems
  BY DEF TypeOK
<1>2. /\ pc'[Producer] = pc[Producer] /\ UNCHANGED <<head, policy, call, offered, accepted>>
  BY <1>1, PollKeeps
<1>3. pc \in [Threads -> {"idle"} \union PushPCs \union PopPCs] /\ Threads = {Producer, Consumer}
  BY <1>1 DEF RingTypeOK, Threads
<1>4. Last' = Last /\ Last \in Int /\ Count \in Int
  BY <1>1, <1>2, CountRange, CapAssumption DEF Last
<1> USE Numbers DEF Goto
<1>5. CASE PollBegin \/ (PollInside /\ (PopEmpty(Consumer) \/ PopSome(Consumer)))
  <2>1. /\ UNCHANGED <<buf, tail, delivered>> /\ pc[Consumer] # "pop_store" /\ ~Moving'
    BY <1>3, <1>5 DEF PollBegin, PollInside, PopBegin, PopEmpty, PopSome, Moving
  <2>2. NumberInv'
    BY <1>2, <1>4, <2>1, NumberQuiet
  <2>3. Count' = Count
    BY <1>2, <2>1, CursorsStay
  <2> QED
    BY <1>4, <2>1, <2>2, <2>3
<1>6. CASE PollInside /\ (PopRead(Consumer) \/ PopClear(Consumer))
  <2>1. NumberInv'
    BY <1>2, <1>3, <1>6, NumberPopRead, NumberPopClear
  <2>2. UNCHANGED <<delivered, tail>>
    BY <1>6 DEF PollInside, PopRead, PopClear
  <2>3. Count' = Count
    BY <1>2, <2>2, CursorsStay
  <2> QED
    BY <1>4, <2>1, <2>2, <2>3
<1>7. CASE Deliver
  <2>1. PopStore(Consumer) /\ Moving
    BY <1>7 DEF Deliver, PopStore, Moving
  <2>2. NumberInv' /\ Count' = Count - 1
    BY <1>2, <1>3, <1>4, <2>1, NumberPopStore
  <2>3. item[Consumer] = Last - Count + 1
    BY <2>1 DEF NumberInv
  <2> QED
    BY <1>4, <1>7, <2>2, <2>3
<1> QED
  BY <1>5, <1>6, <1>7 DEF Poll, PollInside

-----------------------------------------------------------------------------
(* What was delivered stays behind what is queued. *)
LEMMA DeliveredStep ==
  ASSUME TypeOK, CallInv, CursorInv, NumberInv, DeliveredInv, Enqueue \/ Poll
  PROVE  DeliveredInv'
<1>1. RingTypeOK /\ delivered \in Seq(Items) /\ offered \in Nat
  BY Numbers DEF TypeOK, CallInv
<1>2. Last \in Int /\ Count \in Int
  BY <1>1, CountRange, CapAssumption DEF Last
<1>3. PICK g \in Int : g = Last - Count
  BY <1>2
<1>4. policy' = policy
  BY <1>1, EnqueueKeeps, PollKeeps
<1>5. CASE UNCHANGED delivered /\ Last' - Count' = Last - Count
  BY <1>4, <1>5 DEF DeliveredInv, Increasing
<1>6. CASE UNCHANGED delivered /\ policy = "DropOldest" /\ Last' - Count' = Last - Count + 1
  <2>1. \A i \in DOMAIN delivered : delivered[i] \in 1..(g + 1)
    <3>1. \A i \in DOMAIN delivered : delivered[i] \in 1..g
      BY <1>3 DEF DeliveredInv
    <3>2. \A x \in 1..g : x \in 1..(g + 1)
      BY <1>3
    <3> QED
      BY <3>1, <3>2
  <2> QED
    BY <1>3, <1>4, <1>6, <2>1 DEF DeliveredInv, Increasing
<1>7. CASE Deliver /\ item[Consumer] = Last - Count + 1 /\ Last' - Count' = Last - Count + 1
  <2>1. Count <= Last /\ g \in Nat
    BY <1>2, <1>3 DEF NumberInv
  <2>2. delivered' = Append(delivered, g + 1) /\ Last' - Count' = g + 1 /\ g + 1 \in Items
    BY <1>1, <1>3, <1>7, Numbers DEF Deliver, RingTypeOK, Threads
  <2>3. PICK n \in Nat : n = Len(delivered)
    BY <1>1
  <2>4. /\ DOMAIN delivered = 1..n /\ DOMAIN delivered' = 1..(n + 1) /\ Len(delivered') = n + 1
        /\ delivered'[n + 1] = g + 1
        /\ \A i \in 1..n : delivered'[i] = delivered[i]
    BY <1>1, <2>2, <2>3, AppendProperties, LenProperties
  <2>5. \A i \in 1..n : delivered[i] \in 1..g
    BY <1>3, <2>4 DEF DeliveredInv
  <2>6. \A i \in 1..(n + 1) : delivered'[i] \in 1..(g + 1)
    BY <2>1, <2>4, <2>5
  <2>7. \A i, j \in 1..n : i < j => delivered[i] < delivered[j]
    BY <2>4 DEF DeliveredInv, Increasing
  <2>8. \A i, j \in 1..(n + 1) : i < j => delivered'[i] < delivered'[j]
    <3> SUFFICES ASSUME NEW i \in 1..(n + 1), NEW j \in 1..(n + 1), i < j
                 PROVE  delivered'[i] < delivered'[j]
      OBVIOUS
    <3>1. i \in 1..n /\ i \in Int /\ (j \in 1..n \/ j = n + 1)
      OBVIOUS
    <3>2. delivered'[i] = delivered[i] /\ delivered[i] \in 1..g
      BY <3>1, <2>4, <2>5
    <3>3. CASE j \in 1..n
      <4>1. delivered'[j] = delivered[j] /\ delivered[i] < delivered[j]
        BY <3>1, <3>3, <2>4, <2>7
      <4> QED
        BY <3>2, <4>1
    <3>4. CASE j = n + 1
      <4>1. delivered'[j] = g + 1 /\ delivered'[i] \in 1..g
        BY <3>2, <3>4, <2>4
      <4> QED
        BY <2>1, <4>1
    <3> QED
      BY <3>1, <3>3, <3>4
  <2>9. ASSUME policy = "Block"
        PROVE  n + 1 = g + 1 /\ \A i \in 1..(n + 1) : delivered'[i] = i
    <3>1. n = g /\ \A i \in 1..n : delivered[i] = i
      BY <1>3, <2>3, <2>4, <2>9 DEF DeliveredInv
    <3> QED
      BY <2>4, <3>1
  <2> QED
    BY <1>4, <2>2, <2>4, <2>6, <2>8, <2>9 DEF DeliveredInv, Increasing
<1>8. CASE Enqueue
  BY <1>1, <1>5, <1>6, <1>8, EnqueueKeeps, NumberEnqueue
<1>9. CASE Poll
  BY <1>5, <1>7, <1>9, NumberPoll
<1> QED
  BY <1>8, <1>9

-----------------------------------------------------------------------------
LEMMA InitInv == Init => IInv
<1> SUFFICES ASSUME Init PROVE IInv
  OBVIOUS
<1>1. RingTypeOK
  <2>1. 0 \in Slots /\ Null \in Items
    BY CapAssumption DEF Slots, Items
  <2>2. FALSE \in BOOLEAN
    OBVIOUS
  <2> QED
    BY <2>1, <2>2 DEF Init, RingInit, RingTypeOK
<1>2. /\ offered = 0 /\ accepted = {} /\ delivered = << >> /\ overlap = FALSE /\ call = "idle"
      /\ policy \in {"Block", "DropOldest"} /\ 0 \in 0..MaxItems
  BY Numbers DEF Init
<1>3. Range(delivered) = {} /\ DOMAIN delivered = {} /\ delivered \in Seq(Items)
        /\ Len(delivered) = 0
  BY <1>2 DEF Range
<1>4. TypeOK
  BY <1>1, <1>2, <1>3 DEF TypeOK
<1>5. \A t \in Threads : pc[t] = "idle"
  BY DEF Init, RingInit
<1>6. pc[Producer] = "idle" /\ pc[Consumer] = "idle" /\ head = 0 /\ tail = 0
  BY <1>5, Numbers DEF Init, RingInit
<1>7. CallInv
  BY <1>2, <1>3, <1>6 DEF CallInv, PushPCs, PopPCs
<1>8. \A s \in Slots : buf[s] = Null
  BY DEF Init, RingInit
<1>9. UniqueInv /\ NoDoubleDelivery
  BY <1>2, <1>3, <1>6, <1>8 DEF UniqueInv, NoDoubleDelivery, Moving
<1>10. CursorInv
  BY <1>2, <1>5, <1>6 DEF CursorInv, PushPCs, PopPCs
<1>11. Count = 0 /\ Last = 0
  BY <1>2, <1>6 DEF Count, Last
<1>12. NumberInv
  BY <1>2, <1>6, <1>11 DEF NumberInv, Moving
<1>13. DeliveredInv
  BY <1>3, <1>11 DEF DeliveredInv, Increasing
<1> QED
  BY <1>4, <1>7, <1>9, <1>10, <1>12, <1>13 DEF IInv

LEMMA InvStep == IInv /\ [Next]_vars => IInv'
<1> SUFFICES ASSUME IInv, [Next]_vars PROVE IInv'
  OBVIOUS
<1>1. TypeOK /\ CallInv /\ UniqueInv /\ NoDoubleDelivery
  BY DEF IInv
<1>2. TypeOK' /\ CallInv' /\ UniqueInv' /\ NoDoubleDelivery'
  BY <1>1, TypeStep, UniqueStep
<1>3. CASE UNCHANGED vars
  <2>1. UNCHANGED <<buf, head, tail, pc, idx, item, policy, call, offered, accepted, delivered,
                    overlap>>
    BY <1>3 DEF vars, ringvars
  <2>2. Count' = Count /\ (\A i : At(i)' = At(i)) /\ Last' = Last /\ Moving' = Moving
    BY <2>1, CursorsStay DEF Last, Moving
  <2>3. CursorInv => CursorInv'
    BY <2>1 DEF CursorInv
  <2>4. NumberInv => NumberInv'
    BY <2>1, <2>2 DEF NumberInv
  <2>5. DeliveredInv => DeliveredInv'
    BY <2>1, <2>2 DEF DeliveredInv, Increasing
  <2> QED
    BY <1>2, <2>1, <2>3, <2>4, <2>5 DEF IInv
<1>4. CASE Enqueue \/ Poll
  <2>1. ASSUME ~overlap'
        PROVE  CursorInv' /\ NumberInv' /\ DeliveredInv'
    <3>1. overlap => overlap'
      BY <1>1, <1>4, EnqueueKeeps, PollKeeps DEF TypeOK
    <3>2. CursorInv /\ NumberInv /\ DeliveredInv
      BY <2>1, <3>1 DEF IInv
    <3>3. CursorInv'
      BY <1>1, <1>4, <2>1, <3>2, CursorEnqueue, CursorPoll
    <3>4. NumberInv'
      BY <1>1, <1>4, <3>2, NumberEnqueue, NumberPoll
    <3>5. DeliveredInv'
      BY <1>1, <1>4, <3>2, DeliveredStep
    <3> QED
      BY <3>3, <3>4, <3>5
  <2> QED
    BY <1>2, <2>1 DEF IInv
<1> QED
  BY <1>3, <1>4, NextCases

(* The inductive invariant. *)
THEOREM Invariance == Spec => []IInv
BY InitInv, InvStep, PTL DEF Spec

(* Every variable stays within its range, whatever the interleaving of the two
   pops. *)
THEOREM Typing == Spec => []TypeOK
<1>1. IInv => TypeOK
  BY DEF IInv
<1> QED
  BY <1>1, Invariance, PTL

(* No item reaches the consumer twice, not even when the producer's try_pop
   and the consumer's run at one time (SubscriptionManager.cpp:445-449). *)
THEOREM DeliveredOnce == Spec => []NoDoubleDelivery
<1>1. IInv => NoDoubleDelivery
  BY DEF IInv
<1> QED
  BY <1>1, Invariance, PTL

(* What the consumer finds in the queue: the last numbers offered, but for a
   slot that the producer has emptied and not given back yet. *)
LEMMA ContentsAre ==
  ASSUME TypeOK, CallInv, CursorInv, NumberInv
  PROVE  /\ Contents \in Seq(Items) /\ Len(Contents) = Count
         /\ Last \in Nat /\ Count \in Nat /\ Count <= Last
         /\ \A i \in 1..Count :
              i # 1 \/ pc[Producer] # "pop_store" => Contents[i] = Last - Count + i
<1>1. RingTypeOK /\ offered \in Nat
  BY Numbers DEF TypeOK
<1>2. Last \in Int /\ Count \in Nat /\ Count <= Last
  BY <1>1, CountRange, CapAssumption DEF Last, NumberInv
<1>3. Last \in Nat
  BY <1>2
<1>4. \A i \in 1..Count : i - 1 \in 0..(Count - 1) /\ (i # 1 <=> i - 1 # 0)
  BY <1>2
<1>5. ASSUME NEW i \in 1..Count
      PROVE  Contents[i] \in Items
  <2>1. At(i - 1) \in Slots
    BY <1>1, <1>4, AtFacts
  <2>2. item[Consumer] \in Items /\ buf[At(i - 1)] \in Items
    BY <1>1, <2>1, Numbers DEF RingTypeOK
  <2> QED
    BY <2>2 DEF Contents
<1>6. ASSUME NEW i \in 1..Count, i # 1 \/ pc[Producer] # "pop_store"
      PROVE  Contents[i] = Last - Count + i
  <2>1. CASE i = 1 /\ Moving
    <3>1. Contents[i] = item[Consumer]
      BY <2>1 DEF Contents, Moving
    <3>2. item[Consumer] = Last - Count + 1
      BY <2>1 DEF NumberInv
    <3> QED
      BY <2>1, <3>1, <3>2
  <2>2. CASE ~(i = 1 /\ Moving)
    <3>1. Contents[i] = buf[At(i - 1)]
      BY <2>2 DEF Contents, Moving
    <3>2. PICK k \in 0..(Count - 1) : k = i - 1 /\ (i # 1 <=> k # 0)
      BY <1>4
    <3>3. k # 0 \/ (pc[Producer] # "pop_store" /\ pc[Consumer] # "pop_store")
      BY <1>6, <2>2, <3>2 DEF Moving
    <3>4. buf[At(k)] = Last - Count + k + 1
      BY <3>3 DEF NumberInv
    <3> QED
      BY <1>2, <3>1, <3>2, <3>4
  <2> QED
    BY <2>1, <2>2
<1>7. Contents \in [1..Count -> Items]
  BY <1>5 DEF Contents
<1>8. Contents \in Seq(Items) /\ Len(Contents) = Count
  BY <1>2, <1>7
<1> QED
  BY <1>2, <1>3, <1>6, <1>8

(* Under Block nothing is lost: what was delivered and what is queued are all
   the items enqueue accepted, in order (SubscriptionManager.cpp:450-453). *)
THEOREM BlockKeepsAll == Spec => []BlockLosesNothing
<1>1. ASSUME IInv PROVE BlockLosesNothing
  <2>1. SUFFICES ASSUME policy = "Block"
                 PROVE  delivered \o Contents = [i \in 1..Cardinality(accepted) |-> i]
    BY DEF BlockLosesNothing
  <2>2. /\ TypeOK /\ CallInv /\ CursorInv /\ NumberInv /\ DeliveredInv
        /\ pc[Producer] # "pop_store"
    BY <1>1, <2>1 DEF IInv, CallInv, PopPCs
  <2>3. PICK n \in Nat, c \in Nat :
          /\ n = Last /\ c = Count /\ c <= n /\ Contents \in Seq(Items) /\ Len(Contents) = c
          /\ \A i \in 1..c : Contents[i] = n - c + i
    BY <2>2, ContentsAre
  <2>4. /\ delivered \in Seq(Items) /\ Len(delivered) = n - c
        /\ \A i \in 1..(n - c) : delivered[i] = i
    BY <2>1, <2>2, <2>3, LenProperties DEF DeliveredInv, CallInv
  <2>5. Cardinality(accepted) = n
    <3>1. accepted = 1..n
      BY <2>2, <2>3 DEF NumberInv
    <3>2. Cardinality(1..n) = IF 1 > n THEN 0 ELSE n - 1 + 1
      BY FS_Interval
    <3> QED
      BY <3>1, <3>2
  <2>6. PICK s : s = delivered \o Contents
    OBVIOUS
  <2>7. PICK d \in Nat : d = n - c
    BY <2>3
  <2>8. /\ s \in Seq(Items) /\ Len(s) = d + c
        /\ \A i \in 1..(d + c) : s[i] = IF i <= d THEN delivered[i] ELSE Contents[i - d]
    <3>1. /\ delivered \o Contents \in Seq(Items)
          /\ Len(delivered \o Contents) = Len(delivered) + Len(Contents)
          /\ \A i \in 1..(Len(delivered) + Len(Contents)) :
               (delivered \o Contents)[i] =
                 IF i <= Len(delivered) THEN delivered[i] ELSE Contents[i - Len(delivered)]
      BY <2>3, <2>4, ConcatProperties
    <3>2. Len(delivered) = d /\ Len(Contents) = c
      BY <2>3, <2>4, <2>7
    <3> QED
      BY <2>6, <3>1, <3>2, Zenon
  <2>9. ASSUME NEW i \in 1..(d + c)
        PROVE  s[i] = i
    <3>1. CASE i <= d
      BY <2>4, <2>7, <2>8, <3>1
    <3>2. CASE ~(i <= d)
      <4>1. i - d \in 1..c
        BY <3>2
      <4>2. Contents[i - d] = d + (i - d)
        BY <2>3, <2>7, <4>1
      <4> QED
        BY <2>8, <3>2, <4>2
    <3> QED
      BY <3>1, <3>2
  <2>10. s = [i \in 1..n |-> i]
    <3>1. d + c = n /\ DOMAIN s = 1..n /\ s \in [1..n -> Items]
      BY <2>3, <2>7, <2>8, LenProperties
    <3> QED
      BY <2>9, <3>1
  <2> QED
    BY <2>5, <2>6, <2>10
<1> QED
  BY <1>1, Invariance, PTL

(* The items the producer has not thrown away: the last numbers accepted. *)
LEMMA KeptAre ==
  ASSUME TypeOK, CallInv, CursorInv, NumberInv
  PROVE  \E k \in Nat : /\ Kept \in Seq(Nat) /\ Len(Kept) = k /\ k <= Count
                        /\ \A i \in 1..k : Kept[i] = Last - k + i
<1>1. PICK n \in Nat, c \in Nat :
        /\ n = Last /\ c = Count /\ c <= n /\ Contents \in Seq(Items) /\ Len(Contents) = c
        /\ \A i \in 1..c : i # 1 \/ pc[Producer] # "pop_store" => Contents[i] = n - c + i
  BY ContentsAre
<1>2. ASSUME NEW k \in Nat, k <= c, Kept \in Seq(Items), Len(Kept) = k,
             \A i \in 1..k : Kept[i] = n - k + i
      PROVE  Kept \in Seq(Nat)
  <2>1. \A i \in 1..k : Kept[i] \in Nat
    BY <1>1, <1>2
  <2> QED
    BY <1>2, <2>1
<1>3. CASE pc[Producer] \in {"pop_clear", "pop_store"}
  <2>1. head # tail /\ RingTypeOK
    BY <1>3, Numbers DEF CursorInv, PopPCs, TypeOK
  <2>2. c # 0 /\ Contents # << >>
    BY <1>1, <2>1, CountRange
  <2>3. Kept = Tail(Contents)
    BY <1>3 DEF Kept
  <2>4. /\ Kept \in Seq(Items) /\ Len(Kept) = c - 1
        /\ \A i \in 1..(c - 1) : Kept[i] = Contents[i + 1]
    BY <1>1, <2>2, <2>3, HeadTailProperties
  <2>5. PICK k \in Nat : k = c - 1
    BY <2>2
  <2>6. ASSUME NEW i \in 1..k
        PROVE  Kept[i] = n - k + i
    <3>1. i + 1 \in 1..c /\ i + 1 # 1
      BY <2>5
    <3>2. Contents[i + 1] = n - c + (i + 1)
      BY <1>1, <3>1
    <3> QED
      BY <2>4, <2>5, <3>2
  <2>7. k <= c /\ Len(Kept) = k
    BY <2>4, <2>5
  <2> QED
    BY <1>1, <1>2, <2>4, <2>6, <2>7
<1>4. CASE ~(pc[Producer] \in {"pop_clear", "pop_store"})
  <2>1. Kept = Contents /\ pc[Producer] # "pop_store"
    BY <1>4 DEF Kept
  <2>2. /\ Kept \in Seq(Items) /\ Len(Kept) = c /\ c <= c
        /\ \A i \in 1..c : Kept[i] = n - c + i
    BY <1>1, <2>1
  <2> QED
    BY <1>1, <1>2, <2>2
<1> QED
  BY <1>3, <1>4

(* As long as the producer's pop and the consumer's never overlapped,
   DropOldest takes every item offered, keeps the order, and what is missing is
   older than everything queued (SubscriptionManager.cpp:445-449,
   Dispatcher.cpp:19-25). *)
THEOREM DropsAreOldest == Spec => []DropsOnlyOldest
<1>1. ASSUME IInv PROVE DropsOnlyOldest
  <2>1. SUFFICES ASSUME ~overlap
                 PROVE  LET alive == delivered \o Kept IN
                        /\ accepted = 1..(IF call = "idle" THEN offered ELSE offered - 1)
                        /\ Increasing(alive)
                        /\ \A lost \in accepted \ Range(alive) :
                             \A i \in DOMAIN Kept : lost < Kept[i]
    BY DEF DropsOnlyOldest
  <2>2. TypeOK /\ CallInv /\ CursorInv /\ NumberInv /\ DeliveredInv
    BY <1>1, <2>1 DEF IInv
  <2>3. PICK n \in Nat : n = Last /\ Count <= n /\ Count \in Nat
    BY <2>2, ContentsAre
  <2>4. PICK k \in Nat : /\ Kept \in Seq(Nat) /\ Len(Kept) = k /\ k <= Count
                         /\ \A i \in 1..k : Kept[i] = n - k + i
    BY <2>2, <2>3, KeptAre
  <2>5. accepted = 1..n
    BY <2>2, <2>3 DEF NumberInv
  <2>6. DOMAIN Kept = 1..k
    BY <2>4, LenProperties
  <2>7. \A i \in DOMAIN delivered : delivered[i] \in 1..(n - Count)
    BY <2>2, <2>3 DEF DeliveredInv
  <2>8. delivered \in Seq(Nat)
    <3>1. delivered \in Seq(Items) /\ \A i \in DOMAIN delivered : delivered[i] \in Nat
      BY <2>2, <2>7 DEF CallInv
    <3> QED
      BY <3>1, LenProperties
  <2>9. Ascending(delivered)
    BY <2>2 DEF DeliveredInv, Increasing, Ascending
  <2>10. Ascending(Kept)
    BY <2>3, <2>4, <2>6 DEF Ascending
  <2>11. \A x \in Range(delivered), y \in Range(Kept) : x < y
    <3>1. \A x \in Range(delivered) : x \in 1..(n - Count)
      BY <2>7 DEF Range
    <3>2. \A y \in Range(Kept) : \E i \in 1..k : y = n - k + i
      BY <2>4, <2>6 DEF Range
    <3>3. ASSUME NEW x \in Range(delivered), NEW y \in Range(Kept)
          PROVE  x < y
      <4>1. PICK i \in 1..k : y = n - k + i
        BY <3>2
      <4>2. x \in 1..(n - Count)
        BY <3>1
      <4> QED
        BY <2>3, <2>4, <4>1, <4>2
    <3> QED
      BY <3>3
  <2>12. Increasing(delivered \o Kept)
    BY <2>4, <2>8, <2>9, <2>10, <2>11, AscendingConcat DEF Increasing, Ascending
  <2>13. Range(delivered \o Kept) = Range(delivered) \union Range(Kept)
    BY <2>4, <2>8, NumbersConcat
  <2>14. ASSUME NEW lost \in accepted \ Range(delivered \o Kept), NEW i \in DOMAIN Kept
         PROVE  lost < Kept[i]
    <3>1. lost \in 1..n /\ lost \notin Range(Kept) /\ i \in 1..k
      BY <2>5, <2>6, <2>13, <2>14
    <3>2. \A j \in 1..k : Kept[j] # lost
      BY <2>6, <3>1 DEF Range
    <3>3. PICK m \in Nat : m = lost
      BY <3>1
    <3>4. ASSUME m - (n - k) \in 1..k
          PROVE  FALSE
      <4>1. Kept[m - (n - k)] = n - k + (m - (n - k))
        BY <2>4, <3>4
      <4>2. n - k + (m - (n - k)) = m
        BY <2>3, <2>4, <3>3
      <4> QED
        BY <3>2, <3>3, <3>4, <4>1, <4>2
    <3>5. m <= n /\ m <= n - k
      BY <2>3, <2>4, <3>1, <3>3, <3>4
    <3>6. Kept[i] = n - k + i /\ i >= 1 /\ i \in Nat
      BY <2>4, <3>1
    <3> QED
      BY <2>3, <2>4, <3>3, <3>5, <3>6
  <2> QED
    BY <2>3, <2>5, <2>12, <2>14 DEF Last
<1> QED
  BY <1>1, Invariance, PTL

=============================================================================
