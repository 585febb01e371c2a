----------------------------- MODULE SPSCQueue -----------------------------
(***************************************************************************)
(* momo_common/include/SPSCQueue.hpp used as its name says: one thread     *)
(* calls try_push, another one try_pop (or pop_many, which repeats it).    *)
(* It implements BoundedFIFO with Cap - 1 places.                          *)
(***************************************************************************)
EXTENDS RingSteps

Init == RingInit

Produce ==
  \/ \E v \in Values : PushBegin(Producer, v)
  \/ PushStep(Producer)

Consume == PopStep(Consumer)

Next == Produce \/ Consume

(* Every consumer of this program polls in a loop (SubscriptionManager::run,
   QueuedDownstream::loop, KfkpbClient::decodeLoop); nothing makes a producer
   push. *)
Fairness == WF_ringvars(Consume)

Spec == Init /\ [][Next]_ringvars /\ Fairness

-----------------------------------------------------------------------------
(* Every variable stays within its range. *)
TypeOK == RingTypeOK

(* try_push and try_pop never touch one slot at the same time: this is what
   the slot that stays free and the order of the stores buy, and why buf_
   needs no lock (SPSCQueue.hpp:35-40 and 59-64). *)
NoDataRace ==
  ~ /\ pc[Producer] = "push_write"
    /\ pc[Consumer] \in {"pop_read", "pop_clear"}
    /\ idx[Producer] = idx[Consumer]

(* A pop that returns true hands out an item, never a slot that was not
   written yet or was moved from already (SPSCQueue.hpp:57-66). *)
NeverPopsNothing ==
  pc[Consumer] \in {"pop_clear", "pop_store"} => item[Consumer] \in Values

FIFO == INSTANCE BoundedFIFO WITH Capacity <- Cap - 1, queue <- Contents

(* The ring is a bounded FIFO: items come out in push order, none lost, none
   twice, push refused only at Cap - 1 items and pop only at none. *)
ImplementsFIFO == FIFO!Spec

(* What was pushed gets popped while the consumer polls: no item is left
   behind in a slot that head and tail both passed. *)
ItemsAreServed == FIFO!Served

(* The parts of the inductive invariant behind the proofs. *)
ProducerInv ==
  /\ pc[Producer] \in {"idle"} \union PushPCs
  /\ pc[Producer] # "idle" => idx[Producer] = head
  /\ pc[Producer] \in {"push_check", "push_write"} => item[Producer] \in Values
  /\ pc[Producer] \in {"push_write", "push_store"} => Succ(head) # tail
  /\ pc[Producer] = "push_store" => buf[head] \in Values

ConsumerInv ==
  /\ pc[Consumer] \in {"idle"} \union PopPCs
  /\ pc[Consumer] # "idle" => idx[Consumer] = tail
  /\ pc[Consumer] \in PopPCs \ {"pop_check"} => head # tail
  /\ pc[Consumer] \in {"pop_clear", "pop_store"} => item[Consumer] \in Values

ContentsInv == \A i \in 1..Count : Contents[i] \in Values

(* What holds between any two steps, strong enough to be inductive. *)
IInv == TypeOK /\ ProducerInv /\ ConsumerInv /\ ContentsInv
=============================================================================
