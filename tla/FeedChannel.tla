---------------------------- MODULE FeedChannel ----------------------------
(***************************************************************************)
(* What momo_feed promises for its envelopes, whatever queues lie on the   *)
(* way: each sink is handed envelopes that were offered, in the order they *)
(* were offered and none twice.  Some may be missing.                      *)
(*                                                                         *)
(* Feed implements this specification.                                     *)
(***************************************************************************)
EXTENDS Naturals, Sequences

CONSTANT Sinks

VARIABLES
  offered,    (* envelopes the callbacks made so far; they are numbered *)
  published   (* what each sink was handed, in order                    *)

vars == <<offered, published>>

Init ==
  /\ offered = 0
  /\ published = [s \in Sinks |-> << >>]

Offer ==
  /\ offered' = offered + 1
  /\ UNCHANGED published

Publish(s) ==
  /\ \E n \in 1..offered :
       /\ \A i \in DOMAIN published[s] : published[s][i] < n
       /\ published' = [published EXCEPT ![s] = Append(@, n)]
  /\ UNCHANGED offered

Next == Offer \/ \E s \in Sinks : Publish(s)

Spec == Init /\ [][Next]_vars
=============================================================================
