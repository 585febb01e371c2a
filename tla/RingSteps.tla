----------------------------- MODULE RingSteps -----------------------------
(***************************************************************************)
(* The ring buffer of momo_common/include/SPSCQueue.hpp, one action per    *)
(* access to shared memory: the atomics head_ and tail_ and the slots of   *)
(* buf_.  The steps of try_push and try_pop take the calling thread as a   *)
(* parameter: SPSCQueue composes them the way the class is named for (one  *)
(* thread pushes, another one pops), OverflowQueue the way enqueue() does, *)
(* where the producer calls try_pop as well.                               *)
(*                                                                         *)
(* Atomics are sequentially consistent here; the release stores and        *)
(* acquire loads of the code are what lets the slot accesses be ordered by *)
(* them.  A move is two accesses, a read and the clearing of the source.   *)
(***************************************************************************)
EXTENDS Integers, Sequences

CONSTANTS
  Cap,       (* cap_: number of slots, one of which always stays free *)
  Values,    (* the items                                             *)
  Null,      (* a slot that is value-initialised or moved from        *)
  Producer,  (* the thread that calls try_push                        *)
  Consumer   (* the thread that calls try_pop and pop_many            *)

(* The constructor throws unless the capacity is a power of two, 2 or more. *)
ASSUME CapAssumption ==
  /\ Cap \in Nat
  /\ Cap >= 2
  /\ \E k \in 1..Cap : Cap = 2^k

ASSUME ValuesAssumption == Null \notin Values
ASSUME ThreadsAssumption == Producer # Consumer

VARIABLES
  buf,       (* buf_: the slots                                             *)
  head,      (* head_: the slot the next push writes                        *)
  tail,      (* tail_: the slot the next pop reads                          *)
  pc,        (* where each thread stands in try_push or try_pop             *)
  idx,       (* each thread's local: the head or tail it loaded             *)
  item,      (* each thread's local: the v it pushes, the out it popped into*)
  pushed,    (* what the last try_push returned                             *)
  popped     (* what the last try_pop handed out, Null when it found nothing*)

ringvars == <<buf, head, tail, pc, idx, item, pushed, popped>>

Threads == {Producer, Consumer}
Slots == 0..(Cap - 1)
Items == Values \union {Null}

PushPCs == {"push_check", "push_write", "push_store"}
PopPCs == {"pop_check", "pop_read", "pop_clear", "pop_store"}

(* Mutant of Succ: the mask is forgotten. *)
SuccUnmasked(i) == i + 1

(* (i + 1) & mask_, with mask_ = Cap - 1 and Cap a power of two *)
Succ(i) == (i + 1) % Cap

RingInit ==
  /\ buf = [s \in Slots |-> Null]
  /\ head = 0
  /\ tail = 0
  /\ pc = [t \in Threads |-> "idle"]
  /\ idx = [t \in Threads |-> 0]
  /\ item = [t \in Threads |-> Null]
  /\ pushed = FALSE
  /\ popped = Null

Goto(t, label) == pc' = [pc EXCEPT ![t] = label]

-----------------------------------------------------------------------------
(* try_push(v) *)

PushBegin(t, v) ==
  /\ pc[t] = "idle"
  /\ idx' = [idx EXCEPT ![t] = head]
  /\ item' = [item EXCEPT ![t] = v]
  /\ Goto(t, "push_check")
  /\ UNCHANGED <<buf, head, tail, pushed, popped>>

(* No room: false is returned and v is left with the caller. *)
PushFull(t) ==
  /\ pc[t] = "push_check"
  /\ Succ(idx[t]) = tail
  /\ pushed' = FALSE
  /\ Goto(t, "idle")
  /\ UNCHANGED <<buf, head, tail, idx, item, popped>>

(* Mutant of PushRoom: the check for room is forgotten. *)
PushRoomUnchecked(t) ==
  /\ pc[t] = "push_check"
  /\ Goto(t, "push_write")
  /\ UNCHANGED <<buf, head, tail, idx, item, pushed, popped>>

PushRoom(t) ==
  /\ pc[t] = "push_check"
  /\ Succ(idx[t]) # tail
  /\ Goto(t, "push_write")
  /\ UNCHANGED <<buf, head, tail, idx, item, pushed, popped>>

PushWrite(t) ==
  /\ pc[t] = "push_write"
  /\ buf' = [buf EXCEPT ![idx[t]] = item[t]]
  /\ item' = [item EXCEPT ![t] = Null]
  /\ Goto(t, "push_store")
  /\ UNCHANGED <<head, tail, idx, pushed, popped>>

PushStore(t) ==
  /\ pc[t] = "push_store"
  /\ head' = Succ(idx[t])
  /\ pushed' = TRUE
  /\ Goto(t, "idle")
  /\ UNCHANGED <<buf, tail, idx, item, popped>>

-----------------------------------------------------------------------------
(* try_pop(out); pop_many repeats it until it returns false *)

PopBegin(t) ==
  /\ pc[t] = "idle"
  /\ idx' = [idx EXCEPT ![t] = tail]
  /\ Goto(t, "pop_check")
  /\ UNCHANGED <<buf, head, tail, item, pushed, popped>>

PopEmpty(t) ==
  /\ pc[t] = "pop_check"
  /\ idx[t] = head
  /\ popped' = Null
  /\ Goto(t, "idle")
  /\ UNCHANGED <<buf, head, tail, idx, item, pushed>>

(* Mutants of PopSome: an empty queue is popped; and the last item is left. *)
PopSomeUnchecked(t) ==
  /\ pc[t] = "pop_check"
  /\ Goto(t, "pop_read")
  /\ UNCHANGED <<buf, head, tail, idx, item, pushed, popped>>

PopSomeOfTwo(t) ==
  /\ pc[t] = "pop_check"
  /\ head \notin {idx[t], Succ(idx[t])}
  /\ Goto(t, "pop_read")
  /\ UNCHANGED <<buf, head, tail, idx, item, pushed, popped>>

PopSome(t) ==
  /\ pc[t] = "pop_check"
  /\ idx[t] # head
  /\ Goto(t, "pop_read")
  /\ UNCHANGED <<buf, head, tail, idx, item, pushed, popped>>

PopRead(t) ==
  /\ pc[t] = "pop_read"
  /\ item' = [item EXCEPT ![t] = buf[idx[t]]]
  /\ Goto(t, "pop_clear")
  /\ UNCHANGED <<buf, head, tail, idx, pushed, popped>>

(* Mutant of PopClear: the slot is copied from, not moved from. *)
PopCopies(t) ==
  /\ pc[t] = "pop_clear"
  /\ Goto(t, "pop_store")
  /\ UNCHANGED <<buf, head, tail, idx, item, pushed, popped>>

PopClear(t) ==
  /\ pc[t] = "pop_clear"
  /\ buf' = [buf EXCEPT ![idx[t]] = Null]
  /\ Goto(t, "pop_store")
  /\ UNCHANGED <<head, tail, idx, item, pushed, popped>>

PopStore(t) ==
  /\ pc[t] = "pop_store"
  /\ tail' = Succ(idx[t])
  /\ popped' = item[t]
  /\ Goto(t, "idle")
  /\ UNCHANGED <<buf, head, idx, item, pushed>>

-----------------------------------------------------------------------------
PushStep(t) ==
  \/ PushFull(t)
  \/ PushRoom(t)
  \/ PushWrite(t)
  \/ PushStore(t)

PopStep(t) ==
  \/ PopBegin(t)
  \/ PopEmpty(t)
  \/ PopSome(t)
  \/ PopRead(t)
  \/ PopClear(t)
  \/ PopStore(t)

(* Everything shared and local stays within its range. *)
RingTypeOK ==
  /\ buf \in [Slots -> Items]
  /\ head \in Slots
  /\ tail \in Slots
  /\ pc \in [Threads -> {"idle"} \union PushPCs \union PopPCs]
  /\ idx \in [Threads -> Slots]
  /\ item \in [Threads -> Items]
  /\ pushed \in BOOLEAN
  /\ popped \in Items

(* How many slots lie between tail and head, and the i-th of them. *)
Count == IF tail <= head THEN head - tail ELSE head - tail + Cap
At(i) == IF tail + i < Cap THEN tail + i ELSE tail + i - Cap

(* The queue as the threads see it between calls: the slots from tail up to
   head, where the item the consumer is moving out still counts until the
   store of tail makes its slot free. *)
Contents ==
  [i \in 1..Count |->
     IF i = 1 /\ pc[Consumer] \in {"pop_clear", "pop_store"}
     THEN item[Consumer]
     ELSE buf[At(i - 1)]]
=============================================================================
