---------------------------- MODULE Subscription ----------------------------
(***************************************************************************)
(* The pure part of the subscription control plane:                        *)
(* futu_quote/Subscription.hpp (configuration to canonical state) and      *)
(* futu_quote/SubscriptionTools.hpp (what changed between two states).     *)
(*                                                                         *)
(* A SubState is a map from securities to sets of subtypes; the code keeps *)
(* each set as a bit mask, so | & ~ are union, intersection, complement.   *)
(***************************************************************************)
EXTENDS Naturals, FiniteSets, Sequences

CONSTANTS
  Securities,  (* SecurityId: a market and a code              *)
  SubTypes     (* the six subtypes subtype_bit gives a bit to  *)

(* One entry of the configuration, after defaults were filled in. *)
SecuritySpec == [id : Securities, subtypes : SUBSET SubTypes]

SubState == UNION {[ids -> SUBSET SubTypes] : ids \in SUBSET Securities}

EmptyState == [id \in {} |-> {}]

(* Mutant of Canonicalize: the last entry of a security wins. *)
CanonicalizeLast(securities) ==
  [id \in {securities[i].id : i \in DOMAIN securities} |->
     LET last == CHOOSE i \in DOMAIN securities :
                   /\ securities[i].id = id
                   /\ \A j \in DOMAIN securities : securities[j].id = id => j <= i
     IN securities[last].subtypes]

(* Entries of one security are merged by union; an entry without subtypes
   still makes a key, with mask 0. *)
Canonicalize(securities) ==
  LET Entries(id) == {i \in DOMAIN securities : securities[i].id = id} IN
  [id \in {securities[i].id : i \in DOMAIN securities} |->
     UNION {securities[i].subtypes : i \in Entries(id)}]

(* The sizes agree, and each entry of a is in b with the same mask. *)
StEqual(a, b) ==
  /\ Cardinality(DOMAIN a) = Cardinality(DOMAIN b)
  /\ \A id \in DOMAIN a : id \in DOMAIN b /\ b[id] = a[id]

Item(id, mask) == [id |-> id, mask |-> mask]

(* Mutants of DiffState: subtypes are never taken away; a security that
   changes is unsubscribed and subscribed anew. *)
DiffStateAddsOnly(oldS, newS) ==
  LET kept == DOMAIN oldS \intersect DOMAIN newS IN
  [remove_security |-> {Item(id, oldS[id]) : id \in DOMAIN oldS \ DOMAIN newS},
   add_security    |-> {Item(id, newS[id]) : id \in DOMAIN newS \ DOMAIN oldS},
   add_subtypes    |-> {Item(id, newS[id] \ oldS[id]) : id \in kept},
   del_subtypes    |-> {}]

DiffStateAnew(oldS, newS) ==
  LET changed == {id \in DOMAIN oldS \intersect DOMAIN newS : oldS[id] # newS[id]} IN
  [remove_security |-> {Item(id, oldS[id]) : id \in DOMAIN oldS \ DOMAIN newS},
   add_security    |-> {Item(id, newS[id]) : id \in DOMAIN newS \ DOMAIN oldS},
   add_subtypes    |-> {Item(id, newS[id]) : id \in changed},
   del_subtypes    |-> {Item(id, oldS[id]) : id \in changed}]

DiffState(oldS, newS) ==
  LET kept == DOMAIN oldS \intersect DOMAIN newS IN
  [remove_security |-> {Item(id, oldS[id]) : id \in DOMAIN oldS \ DOMAIN newS},
   add_security    |-> {Item(id, newS[id]) : id \in DOMAIN newS \ DOMAIN oldS},
   add_subtypes    |-> {Item(id, newS[id] \ oldS[id]) :
                          id \in {k \in kept : newS[k] \ oldS[k] # {}}},
   del_subtypes    |-> {Item(id, oldS[id] \ newS[id]) :
                          id \in {k \in kept : oldS[k] \ newS[k] # {}}}]

(* The security/subtype pairs that a set of items, or a state, stands for. *)
Pairs(items) == UNION {{i.id} \X i.mask : i \in items}
StateItems(st) == {Item(id, st[id]) : id \in DOMAIN st}
Subscribed(st) == Pairs(StateItems(st))
=============================================================================
