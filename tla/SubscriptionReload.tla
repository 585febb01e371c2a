------------------------- MODULE SubscriptionReload -------------------------
(***************************************************************************)
(* One subscription file after another is loaded, canonicalised and diffed *)
(* against the state of the one before, as SubscriptionManager does on     *)
(* each reload (SubscriptionManager.cpp:254-277 and 320-321).  The files   *)
(* come from outside, and any of them may be unusable.                     *)
(***************************************************************************)
EXTENDS SubscriptionLoader

CONSTANT Files  (* the files that may be found *)

ASSUME FilesAssumption == Files \subseteq SubscriptionFile

VARIABLES
  lastGood,  (* history: the last file that anybody would call well-formed *)
  previous,  (* current_state_ when the last change was found              *)
  current,   (* current_state_ after it was applied                        *)
  ended      (* an exception has left run() and main                       *)

vars == <<lastGood, previous, current, ended>>

NoFile == [readable |-> TRUE, version |-> "number", defaults |-> Absent,
           securities |-> << >>]

WellFormed(file) ==
  /\ file.readable
  /\ file.version = "number"
  /\ file.defaults # Malformed
  /\ file.securities # Malformed
  /\ \A i \in DOMAIN file.securities :
       /\ file.securities[i].symbol \in Securities
       /\ file.securities[i].subtypes # Malformed

Init ==
  /\ lastGood = NoFile
  /\ previous = EmptyState
  /\ current = EmptyState
  /\ ended = FALSE

(* An unchanged state is not applied again. *)
Reload(file) ==
  /\ Outcome(file) = "loaded"
  /\ previous' = current
  /\ LET st == Canonicalize(Load(file)) IN
       current' = IF StEqual(current, st) THEN current ELSE st
  /\ UNCHANGED ended

(* The error is logged and the state stays in force. *)
Reject(file) ==
  /\ Outcome(file) = "error"
  /\ UNCHANGED <<previous, current, ended>>

Terminate(file) ==
  /\ Outcome(file) = "exception"
  /\ ended' = TRUE
  /\ UNCHANGED <<previous, current>>

Next ==
  /\ ~ended
  /\ \E file \in Files :
       /\ lastGood' = IF WellFormed(file) THEN file ELSE lastGood
       /\ Reload(file) \/ Reject(file) \/ Terminate(file)

Spec == Init /\ [][Next]_vars

-----------------------------------------------------------------------------
(* The file is one, the states map securities to sets of subtypes. *)
TypeOK ==
  /\ lastGood \in SubscriptionFile
  /\ previous \in SubState
  /\ current \in SubState
  /\ ended \in BOOLEAN

(* The state in force asks for exactly the pairs that the last well-formed
   file lists, in an item or by its defaults, whatever the order of the items
   and however often a security is repeated, and knows every security listed;
   no unusable file, however many came since, changes anything of it
   (SubscriptionLoader.cpp:5-61, Subscription.hpp:58-72). *)
CurrentIsConfig ==
  LET items == lastGood.securities IN
  /\ DOMAIN current = {items[i].symbol : i \in DOMAIN items}
  /\ \A s \in Securities, t \in SubTypes :
       <<s, t>> \in Subscribed(current) <=>
         \E i \in DOMAIN items :
           /\ items[i].symbol = s
           /\ \/ items[i].subtypes # Absent /\ t \in items[i].subtypes
              \/ /\ items[i].subtypes = Absent
                 /\ lastGood.defaults # Absent
                 /\ t \in lastGood.defaults

Diff == DiffState(previous, current)
Removed == Pairs(Diff.remove_security) \union Pairs(Diff.del_subtypes)
Added == Pairs(Diff.add_subtypes) \union Pairs(Diff.add_security)

(* Sending the unsubscriptions and then the subscriptions of the diff turns
   what the old state asked for into what the new one asks for
   (SubscriptionTools.hpp:21-44 with SubscriptionManager.cpp:320-355). *)
DiffRealises ==
  (Subscribed(previous) \ Removed) \union Added = Subscribed(current)

(* The diff leaves alone what both states ask for, and asks for nothing that
   is already there: no push is interrupted by a reload that keeps it. *)
DiffIsMinimal ==
  /\ Removed = Subscribed(previous) \ Subscribed(current)
  /\ Added = Subscribed(current) \ Subscribed(previous)
=============================================================================
