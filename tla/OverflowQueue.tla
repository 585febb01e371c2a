--------------------------- MODULE OverflowQueue ---------------------------
(***************************************************************************)
(* What the program does with a full ring.  A producer thread hands its    *)
(* items to enqueue (SubscriptionManager::enqueue; QueuedDownstream::      *)
(* submit, KfkpbClient::pushRaw and pushEvent have the same shape) while   *)
(* the consumer pops.  When try_push is refused,                           *)
(*   - under Block the producer tries again until there is room;           *)
(*   - under DropOldest the producer itself calls try_pop, throws the      *)
(*     result away, and tries to push once more.                           *)
(* The second makes two threads call try_pop on a queue written for one:   *)
(* the steps of the two pops interleave here access by access.             *)
(*                                                                         *)
(* Items are numbered in the order they are offered.                       *)
(***************************************************************************)
EXTENDS RingSteps, FiniteSets, Functions

CONSTANT MaxItems  (* bound: how many items the producer offers *)

ASSUME ItemsAreNumbered == MaxItems \in Nat /\ Values = 1..MaxItems

VARIABLES
  policy,     (* opts_.overflow, fixed when the queue is made               *)
  call,       (* where the producer stands in enqueue                       *)
  offered,    (* number of the last item given to enqueue                   *)
  accepted,   (* items whose try_push returned true                         *)
  delivered,  (* what the consumer's pops handed out, in order              *)
  overlap     (* history: the two threads were inside try_pop at one time   *)

vars == <<ringvars, policy, call, offered, accepted, delivered, overlap>>

Init ==
  /\ RingInit
  /\ policy \in {"Block", "DropOldest"}
  /\ call = "idle"
  /\ offered = 0
  /\ accepted = {}
  /\ delivered = << >>
  /\ overlap = FALSE

-----------------------------------------------------------------------------
(* The producer: enqueue(e) *)

Offer ==
  /\ call = "idle"
  /\ offered < MaxItems
  /\ PushBegin(Producer, offered + 1)
  /\ offered' = offered + 1
  /\ call' = "first"
  /\ UNCHANGED <<policy, accepted, delivered, overlap>>

Accepted ==
  /\ PushStore(Producer)
  /\ accepted' = accepted \union {offered}
  /\ call' = "idle"
  /\ UNCHANGED <<policy, offered, delivered, overlap>>

(* Mutant of FirstRefused: a refused item is given up under both policies. *)
FirstRefusedGivesUp ==
  /\ call = "first"
  /\ PushFull(Producer)
  /\ call' = IF policy = "DropOldest" THEN "drop" ELSE "idle"
  /\ accepted' = accepted \union {offered}
  /\ UNCHANGED <<policy, offered, delivered, overlap>>

FirstRefused ==
  /\ call = "first"
  /\ PushFull(Producer)
  /\ call' = IF policy = "DropOldest" THEN "drop" ELSE "spin"
  /\ UNCHANGED <<policy, offered, accepted, delivered, overlap>>

(* The result of the second push is returned and nobody looks at it. *)
SecondRefused ==
  /\ call = "second"
  /\ PushFull(Producer)
  /\ call' = "idle"
  /\ UNCHANGED <<policy, offered, accepted, delivered, overlap>>

SpinRefused ==
  /\ call = "spin"
  /\ PushFull(Producer)
  /\ UNCHANGED <<policy, call, offered, accepted, delivered, overlap>>

(* Mutant of PushAgain: enqueue waits for room without trying again. *)
PushAgainOnce ==
  /\ call = "second"
  /\ PushBegin(Producer, offered)
  /\ UNCHANGED <<policy, call, offered, accepted, delivered, overlap>>

(* A refused push left the item with the caller: it is offered again. *)
PushAgain ==
  /\ call \in {"second", "spin"}
  /\ PushBegin(Producer, offered)
  /\ UNCHANGED <<policy, call, offered, accepted, delivered, overlap>>

PushInside ==
  /\ PushRoom(Producer) \/ PushWrite(Producer)
  /\ UNCHANGED <<policy, call, offered, accepted, delivered, overlap>>

DropBegin ==
  /\ call = "drop"
  /\ PopBegin(Producer)
  /\ overlap' = (overlap \/ pc[Consumer] \in PopPCs)
  /\ UNCHANGED <<policy, call, offered, accepted, delivered>>

DropInside ==
  /\ PopSome(Producer) \/ PopRead(Producer) \/ PopClear(Producer)
  /\ UNCHANGED <<policy, call, offered, accepted, delivered, overlap>>

(* Mutant of DropEnd: the new item is not pushed after the pop. *)
DropEndOnly ==
  /\ PopEmpty(Producer) \/ PopStore(Producer)
  /\ call' = "idle"
  /\ UNCHANGED <<policy, offered, accepted, delivered, overlap>>

DropEnd ==
  /\ PopEmpty(Producer) \/ PopStore(Producer)
  /\ call' = "second"
  /\ UNCHANGED <<policy, offered, accepted, delivered, overlap>>

FinishEnqueue ==
  \/ Accepted
  \/ FirstRefused
  \/ SecondRefused
  \/ SpinRefused
  \/ PushAgain
  \/ PushInside
  \/ DropBegin
  \/ DropInside
  \/ DropEnd

-----------------------------------------------------------------------------
(* The consumer's polling loop *)

PollBegin ==
  /\ PopBegin(Consumer)
  /\ overlap' = (overlap \/ pc[Producer] \in PopPCs)
  /\ UNCHANGED <<policy, call, offered, accepted, delivered>>

PollInside ==
  /\ \/ PopEmpty(Consumer)
     \/ PopSome(Consumer)
     \/ PopRead(Consumer)
     \/ PopClear(Consumer)
  /\ UNCHANGED <<policy, call, offered, accepted, delivered, overlap>>

Deliver ==
  /\ PopStore(Consumer)
  /\ delivered' = Append(delivered, item[Consumer])
  /\ UNCHANGED <<policy, call, offered, accepted, overlap>>

Poll == PollBegin \/ PollInside \/ Deliver

-----------------------------------------------------------------------------
Next == Offer \/ FinishEnqueue \/ Poll

(* Both threads run: the producer ends the calls it has begun, but need not
   offer anything, and the consumer polls. *)
Fairness == WF_vars(FinishEnqueue) /\ WF_vars(Poll)

Spec == Init /\ [][Next]_vars /\ Fairness

-----------------------------------------------------------------------------
(* Every variable stays within its range, whatever the interleaving. *)
TypeOK ==
  /\ RingTypeOK
  /\ policy \in {"Block", "DropOldest"}
  /\ call \in {"idle", "first", "drop", "second", "spin"}
  /\ offered \in 0..MaxItems
  /\ accepted \subseteq 1..offered
  /\ Range(delivered) \subseteq Items
  /\ overlap \in BOOLEAN

(* The ring without the item the producer is throwing away. *)
Kept ==
  IF pc[Producer] \in {"pop_clear", "pop_store"} THEN Tail(Contents) ELSE Contents

Increasing(s) == \A i, j \in DOMAIN s : i < j => s[i] < s[j]

(* Under Block every item that enqueue accepted is delivered or still queued,
   in order (SubscriptionManager.cpp:450-453). *)
BlockLosesNothing ==
  policy = "Block" =>
    delivered \o Contents = [i \in 1..Cardinality(accepted) |-> i]

(* As long as the producer's pop never overlapped one of the consumer's,
   DropOldest does what it is named for: the newest item always gets in,
   order is kept, and whatever is missing is older than everything still
   queued (SubscriptionManager.cpp:445-449, Dispatcher.cpp:19-25). *)
DropsOnlyOldest ==
  policy = "DropOldest" /\ ~overlap =>
    LET alive == delivered \o Kept IN
    /\ accepted = 1..(IF call = "idle" THEN offered ELSE offered - 1)
    /\ Increasing(alive)
    /\ \A lost \in accepted \ Range(alive) : \A i \in DOMAIN Kept : lost < Kept[i]

(* No item reaches the consumer twice, not even when the two pops race. *)
NoDoubleDelivery ==
  \A i, j \in DOMAIN delivered :
    i # j /\ delivered[i] = delivered[j] => delivered[i] = Null

(* enqueue returns: at once under DropOldest, and under Block as soon as the
   polling consumer has made room. *)
EnqueueReturns == call # "idle" ~> call = "idle"

(* SPSCQueue.hpp:57-66: try_pop returns false when the queue is empty, so a
   pop that returns true has handed out an item. *)
PopsGiveItems == \A i \in DOMAIN delivered : delivered[i] # Null
=============================================================================
