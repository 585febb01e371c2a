---------------------------- MODULE MCSPSCQueue ----------------------------
(* SPSCQueue with four slots (three usable, so that the indices wrap at every
   alignment of head and tail) and three items that may be pushed any number
   of times. *)
EXTENDS SPSCQueue

CONSTANTS a, b, c
=============================================================================
