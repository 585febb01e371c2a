-------------------------- MODULE MCOverflowQueue --------------------------
(* OverflowQueue on a ring with three usable places.  Six items: the ring
   overflows with its cursors at different alignments and wraps. *)
EXTENDS OverflowQueue
=============================================================================
