------------------------- MODULE SubscriptionLoader -------------------------
(***************************************************************************)
(* config/SubscriptionLoader: what becomes of a subscription file.  The    *)
(* text of symbols, markets and subtypes is abstracted to whether it can   *)
(* be parsed; the order of the checks, and what is an error and what an    *)
(* exception that nobody catches, are the code's.                          *)
(***************************************************************************)
EXTENDS Subscription

CONSTANTS
  Absent,      (* a key the file does not have                               *)
  Malformed,   (* a value the loader recognises as wrong: not a sequence or  *)
               (* not a scalar where one is wanted, an unknown market or     *)
               (* subtype, a symbol without a dot or without a code          *)
  NotMap,      (* stands for the symbol of an item that is a bare scalar     *)
  MaxEntries   (* bound: items of one file                                   *)

ASSUME MaxEntriesAssumption == MaxEntries \in Nat

FileItem == [symbol : Securities \union {Malformed, NotMap},
             subtypes : {Absent, Malformed} \union SUBSET SubTypes]

ItemLists == UNION {[1..n -> FileItem] : n \in 0..MaxEntries}

ASSUME MarkersAssumption ==
  /\ Absent # Malformed /\ Malformed # NotMap
  /\ {Malformed, NotMap} \intersect Securities = {}
  /\ \A types \in SUBSET SubTypes : types # Absent /\ types # Malformed
  /\ Malformed \notin ItemLists

SubscriptionFile ==
  [readable   : BOOLEAN,               (* it exists and is YAML              *)
   version    : {"number", "other"},   (* "other": a scalar, but no integer  *)
   defaults   : {Absent, Malformed} \union SUBSET SubTypes,
   securities : {Malformed} \union ItemLists]

(* What the loader makes of the entries: SubscribeConfig::securities. *)
Configs == UNION {[1..n -> SecuritySpec] : n \in 0..MaxEntries}

Outcomes == {"loaded", "error", "exception"}

(* parse_security and parse_security_subtypes for one item.  A key looked up
   in a scalar makes yaml-cpp throw. *)
ItemOutcome(entry) ==
  IF entry.symbol = NotMap THEN "exception"
  ELSE IF Malformed \in {entry.symbol, entry.subtypes} THEN "error"
  ELSE "loaded"

(* The first item that cannot be used decides. *)
ItemsOutcome(items) ==
  LET bad == {i \in DOMAIN items : ItemOutcome(items[i]) # "loaded"}
      throws(i) == ItemOutcome(items[i]) = "exception" /\ \A j \in bad : i <= j
  IN IF bad = {} THEN "loaded"
     ELSE IF \E i \in bad : throws(i) THEN "exception" ELSE "error"

(* The checks in the order of load(): only LoadFile is inside a try. *)
Outcome(file) ==
  IF ~file.readable THEN "error"
  ELSE IF file.version = "other" THEN "exception"
  ELSE IF Malformed \in {file.defaults, file.securities} THEN "error"
  ELSE ItemsOutcome(file.securities)

(* The defaults stand in for subtypes that are absent, not for empty ones. *)
SubtypesOf(file, entry) ==
  IF entry.subtypes # Absent THEN entry.subtypes
  ELSE IF file.defaults = Absent THEN {} ELSE file.defaults

(* The securities of a file that is loaded. *)
Load(file) ==
  [i \in DOMAIN file.securities |->
     [id |-> file.securities[i].symbol,
      subtypes |-> SubtypesOf(file, file.securities[i])]]
=============================================================================
