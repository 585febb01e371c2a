---------------------------- MODULE BoundedFIFO ----------------------------
(***************************************************************************)
(* What a bounded queue between two threads promises, with every call as   *)
(* one step: items leave in the order they entered, nothing is lost or     *)
(* invented, a push is refused only when the queue is full and a pop only  *)
(* when it is empty.                                                       *)
(*                                                                         *)
(* SPSCQueue implements this specification.                                *)
(***************************************************************************)
EXTENDS Naturals, Sequences

CONSTANTS
  Capacity,  (* how many items the queue can hold              *)
  Values,    (* the items                                      *)
  Null       (* "no item": what a pop that found nothing gives *)

VARIABLES
  queue,     (* the items, oldest first                        *)
  pushed,    (* result of the last completed push              *)
  popped     (* item handed out by the last completed pop      *)

vars == <<queue, pushed, popped>>

Init ==
  /\ queue = << >>
  /\ pushed = FALSE
  /\ popped = Null

Push(v) ==
  /\ Len(queue) < Capacity
  /\ queue' = Append(queue, v)
  /\ pushed' = TRUE
  /\ UNCHANGED popped

PushFull ==
  /\ Len(queue) = Capacity
  /\ pushed' = FALSE
  /\ UNCHANGED <<queue, popped>>

Pop ==
  /\ queue # << >>
  /\ popped' = Head(queue)
  /\ queue' = Tail(queue)
  /\ UNCHANGED pushed

PopEmpty ==
  /\ queue = << >>
  /\ popped' = Null
  /\ UNCHANGED <<queue, pushed>>

Next ==
  \/ \E v \in Values : Push(v)
  \/ PushFull
  \/ Pop
  \/ PopEmpty

Spec == Init /\ [][Next]_vars

(* The consumer keeps polling: a queue that holds items gets popped. *)
Served == WF_vars(Pop)
=============================================================================
