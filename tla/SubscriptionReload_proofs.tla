---------------------- MODULE SubscriptionReload_proofs ----------------------
(***************************************************************************)
(* SubscriptionReload for all securities, subtypes and files: the state in *)
(* force is the one the last well-formed file asks for, and the diff of    *)
(* any two states turns what one asks for into what the other asks for,    *)
(* and touches nothing that both ask for.  Then QuotePath, which extends   *)
(* it: whatever is pushed for what the state asks for, each cell of each   *)
(* table is the field its column is named for, and a push comes out whole  *)
(* or as an error.                                                         *)
(***************************************************************************)
EXTENDS QuotePath, FunctionTheorems, FiniteSetTheorems, TLAPS

(* A state is a map from some of the securities to sets of subtypes. *)
LEMMA StateIsFunction ==
  ASSUME NEW st \in SubState
  PROVE  /\ DOMAIN st \subseteq Securities
         /\ \A id \in DOMAIN st : st[id] \subseteq SubTypes
         /\ st = [id \in DOMAIN st |-> st[id]]
BY DEF SubState

(* The items made from some securities and a map of masks. *)
ItemsOf(ids, f) == {Item(id, f[id]) : id \in ids}

(* What they stand for. *)
LEMMA PairsOf ==
  ASSUME NEW ids, NEW f, NEW p
  PROVE  p \in Pairs(ItemsOf(ids, f))
           <=> \E id \in ids : \E t \in f[id] : p = <<id, t>>
<1>1. ASSUME NEW id \in ids, NEW t \in f[id], p = <<id, t>>
      PROVE  p \in Pairs(ItemsOf(ids, f))
  <2> DEFINE i == Item(id, f[id])
  <2>1. p \in {i.id} \X i.mask
    BY <1>1 DEF Item
  <2> QED
    BY <2>1 DEF Pairs, ItemsOf
<1>2. ASSUME NEW i \in ItemsOf(ids, f), p \in {i.id} \X i.mask
      PROVE  \E id \in ids : \E t \in f[id] : p = <<id, t>>
  BY <1>2 DEF Item, ItemsOf
<1> QED
  BY <1>1, <1>2 DEF Pairs

(* What a state asks for. *)
LEMMA SubscribedPairs ==
  ASSUME NEW st, NEW p
  PROVE  p \in Subscribed(st) <=> \E id \in DOMAIN st : \E t \in st[id] : p = <<id, t>>
<1>1. StateItems(st) = ItemsOf(DOMAIN st, st)
  BY DEF StateItems, ItemsOf
<1> QED
  BY <1>1, PairsOf DEF Subscribed

(* Canonicalising a list of entries makes a state. *)
LEMMA CanonicalizeType ==
  ASSUME NEW securities \in Configs
  PROVE  Canonicalize(securities) \in SubState
<1>1. PICK n \in 0..MaxEntries : securities \in [1..n -> SecuritySpec]
  BY DEF Configs
<1> DEFINE ids == {securities[i].id : i \in DOMAIN securities}
<1>2. ids \subseteq Securities
  BY <1>1 DEF SecuritySpec
<1>3. Canonicalize(securities) \in [ids -> SUBSET SubTypes]
  <2>1. ASSUME NEW id \in ids
        PROVE  UNION {securities[i].subtypes :
                        i \in {j \in DOMAIN securities : securities[j].id = id}}
                 \subseteq SubTypes
    BY <1>1 DEF SecuritySpec
  <2> QED
    BY <2>1 DEF Canonicalize
<1> QED
  BY <1>2, <1>3 DEF SubState

(* What those of some securities that gain anything gain from a to b. *)
GainsOf(kept, a, b) ==
  {Item(id, b[id] \ a[id]) : id \in {k \in kept : b[k] \ a[k] # {}}}

(* What it stands for. *)
LEMMA GainedPairs ==
  ASSUME NEW a, NEW b, NEW kept, NEW p
  PROVE  p \in Pairs(GainsOf(kept, a, b))
           <=> \E id \in kept : \E t \in b[id] \ a[id] : p = <<id, t>>
<1>1. PICK ids : ids = {k \in kept : b[k] \ a[k] # {}}
  OBVIOUS
<1>2. PICK f : f = [id \in ids |-> b[id] \ a[id]]
  OBVIOUS
<1>3. GainsOf(kept, a, b) = ItemsOf(ids, f)
  BY <1>1, <1>2 DEF ItemsOf, GainsOf
<1>4. p \in Pairs(ItemsOf(ids, f)) <=> \E id \in ids : \E t \in f[id] : p = <<id, t>>
  BY PairsOf
<1> QED
  BY <1>1, <1>2, <1>3, <1>4

(* The difference of two states asks exactly for what changes. *)
LEMMA DiffPairs ==
  ASSUME NEW oldS, NEW newS,
         NEW d, d = DiffState(oldS, newS)
  PROVE  /\ Pairs(d.remove_security) \union Pairs(d.del_subtypes)
              = Subscribed(oldS) \ Subscribed(newS)
         /\ Pairs(d.add_subtypes) \union Pairs(d.add_security)
              = Subscribed(newS) \ Subscribed(oldS)
<1> DEFINE kept == DOMAIN oldS \intersect DOMAIN newS
           asks(st, id, t) == id \in DOMAIN st /\ t \in st[id]
<1>1. ASSUME NEW p
      PROVE  /\ p \in Pairs(d.remove_security) <=>
                   \E id \in DOMAIN oldS \ DOMAIN newS : \E t \in oldS[id] : p = <<id, t>>
             /\ p \in Pairs(d.del_subtypes) <=>
                   \E id \in kept : \E t \in oldS[id] \ newS[id] : p = <<id, t>>
             /\ p \in Pairs(d.add_subtypes) <=>
                   \E id \in kept : \E t \in newS[id] \ oldS[id] : p = <<id, t>>
             /\ p \in Pairs(d.add_security) <=>
                   \E id \in DOMAIN newS \ DOMAIN oldS : \E t \in newS[id] : p = <<id, t>>
  <2>1. /\ d.remove_security = ItemsOf(DOMAIN oldS \ DOMAIN newS, oldS)
        /\ d.add_security = ItemsOf(DOMAIN newS \ DOMAIN oldS, newS)
        /\ d.add_subtypes = GainsOf(kept, oldS, newS)
        /\ d.del_subtypes = GainsOf(kept, newS, oldS)
    BY DEF DiffState, ItemsOf, GainsOf
  <2> HIDE DEF kept
  <2>2. p \in Pairs(d.remove_security) <=>
          \E id \in DOMAIN oldS \ DOMAIN newS : \E t \in oldS[id] : p = <<id, t>>
    BY <2>1, PairsOf
  <2>3. p \in Pairs(d.add_security) <=>
          \E id \in DOMAIN newS \ DOMAIN oldS : \E t \in newS[id] : p = <<id, t>>
    BY <2>1, PairsOf
  <2>4. p \in Pairs(d.del_subtypes) <=>
          \E id \in kept : \E t \in oldS[id] \ newS[id] : p = <<id, t>>
    BY <2>1, GainedPairs
  <2>5. p \in Pairs(d.add_subtypes) <=>
          \E id \in kept : \E t \in newS[id] \ oldS[id] : p = <<id, t>>
    BY <2>1, GainedPairs
  <2> QED
    BY <2>2, <2>3, <2>4, <2>5
<1>2. ASSUME NEW p
      PROVE  /\ p \in Subscribed(oldS) <=> \E id, t : p = <<id, t>> /\ asks(oldS, id, t)
             /\ p \in Subscribed(newS) <=> \E id, t : p = <<id, t>> /\ asks(newS, id, t)
  BY SubscribedPairs
<1>3. ASSUME NEW id, NEW t
      PROVE  /\ <<id, t>> \in Subscribed(oldS) <=> asks(oldS, id, t)
             /\ <<id, t>> \in Subscribed(newS) <=> asks(newS, id, t)
  BY <1>2
<1> QED
  BY <1>1, <1>2, <1>3

-----------------------------------------------------------------------------
(* Reloads *)

(* The comparison by size and entries finds out whether two states differ. *)
LEMMA EqualStates ==
  ASSUME NEW c1 \in Configs, NEW c2 \in Configs,
         StEqual(Canonicalize(c1), Canonicalize(c2))
  PROVE  Canonicalize(c1) = Canonicalize(c2)
<1> DEFINE a == Canonicalize(c1)
           b == Canonicalize(c2)
<1>1. ASSUME NEW c \in Configs PROVE IsFiniteSet(DOMAIN Canonicalize(c))
  <2>1. PICK n \in 0..MaxEntries : c \in [1..n -> SecuritySpec]
    BY DEF Configs
  <2>2. IsFiniteSet(1..n)
    BY FS_Interval, MaxEntriesAssumption
  <2>3. DOMAIN Canonicalize(c) = {c[i].id : i \in 1..n}
    BY <2>1 DEF Canonicalize
  <2> DEFINE f == [i \in 1..n |-> c[i].id]
  <2>4. f \in Surjection(1..n, {c[i].id : i \in 1..n})
    BY DEF Surjection
  <2> QED
    BY <2>2, <2>3, <2>4, FS_Surjection
<1>2. /\ Cardinality(DOMAIN a) = Cardinality(DOMAIN b)
      /\ \A id \in DOMAIN a : id \in DOMAIN b /\ b[id] = a[id]
  BY DEF StEqual
<1>3. DOMAIN a = DOMAIN b
  BY <1>1, <1>2, FS_Subset
<1>4. a \in SubState /\ b \in SubState
  BY CanonicalizeType
<1> HIDE DEF a, b
<1>5. a = [id \in DOMAIN a |-> a[id]] /\ b = [id \in DOMAIN b |-> b[id]]
  BY <1>4, StateIsFunction
<1>6. a = b
  BY <1>2, <1>3, <1>5
<1> QED
  BY <1>6 DEF a, b

(* An item can be used when its symbol and its subtypes can. *)
LEMMA UsableItems ==
  ASSUME NEW entry \in FileItem
  PROVE  ItemOutcome(entry) = "loaded"
           <=> entry.symbol \in Securities /\ entry.subtypes # Malformed
BY MarkersAssumption DEF FileItem, ItemOutcome

(* A list is loaded when all its items can be used. *)
LEMMA UsableLists ==
  ASSUME NEW items
  PROVE  ItemsOutcome(items) = "loaded"
           <=> \A i \in DOMAIN items : ItemOutcome(items[i]) = "loaded"
BY DEF ItemsOutcome

(* A file is loaded exactly when it is well-formed, and makes a
   configuration. *)
LEMMA LoadedFiles ==
  ASSUME NEW file \in SubscriptionFile
  PROVE  /\ Outcome(file) = "loaded" <=> WellFormed(file)
         /\ WellFormed(file) => Load(file) \in Configs
<1>1. file.securities = Malformed \/ file.securities \in ItemLists
  BY DEF SubscriptionFile
<1>2. CASE file.securities = Malformed
  BY <1>2 DEF Outcome, WellFormed
<1>3. CASE file.securities # Malformed
  <2> DEFINE items == file.securities
  <2>1. PICK n \in 0..MaxEntries : items \in [1..n -> FileItem]
    BY <1>1, <1>3 DEF ItemLists
  <2>2. Outcome(file) = "loaded" <=> WellFormed(file)
    <3>1. ItemsOutcome(items) = "loaded"
            <=> \A i \in DOMAIN items : /\ items[i].symbol \in Securities
                                        /\ items[i].subtypes # Malformed
      BY <1>1, <1>3, <2>1, UsableLists, UsableItems
    <3>2. file.version \in {"number", "other"}
      BY DEF SubscriptionFile
    <3> QED
      BY <1>3, <3>1, <3>2 DEF Outcome, WellFormed
  <2>3. ASSUME WellFormed(file) PROVE Load(file) \in Configs
    <3>1. ASSUME NEW i \in 1..n
          PROVE  [id |-> items[i].symbol, subtypes |-> SubtypesOf(file, items[i])]
                   \in SecuritySpec
      <4>1. items[i].symbol \in Securities
        BY <2>1, <2>3 DEF WellFormed
      <4>2. items[i].subtypes \in {Absent} \union SUBSET SubTypes
        BY <2>1, <2>3 DEF WellFormed, FileItem
      <4>3. file.defaults \in {Absent} \union SUBSET SubTypes
        BY <2>3 DEF WellFormed, SubscriptionFile
      <4>4. SubtypesOf(file, items[i]) \in SUBSET SubTypes
        BY <4>2, <4>3 DEF SubtypesOf
      <4> QED
        BY <4>1, <4>4 DEF SecuritySpec
    <3>2. Load(file) \in [1..n -> SecuritySpec]
      BY <2>1, <3>1 DEF Load
    <3> QED
      BY <3>2 DEF Configs
  <2> QED
    BY <2>2, <2>3
<1> QED
  BY <1>2, <1>3

(* The state in force is the canonical state of the last well-formed file. *)
CurrentIsCanonical ==
  /\ lastGood \in SubscriptionFile /\ WellFormed(lastGood)
  /\ previous \in SubState
  /\ current = Canonicalize(Load(lastGood))
  /\ ended \in BOOLEAN

(* Having no file yet is like having one without items. *)
LEMMA EmptyConfig ==
  /\ NoFile \in SubscriptionFile /\ WellFormed(NoFile)
  /\ Canonicalize(Load(NoFile)) = EmptyState
  /\ EmptyState \in SubState
<1>1. << >> \in ItemLists
  BY MaxEntriesAssumption DEF ItemLists
<1>2. NoFile \in SubscriptionFile
  BY <1>1 DEF NoFile, SubscriptionFile
<1>3. << >> # Malformed
  BY <1>1, MarkersAssumption
<1>4. WellFormed(NoFile)
  BY <1>3, MarkersAssumption DEF NoFile, WellFormed
<1>5. Canonicalize(Load(NoFile)) = EmptyState
  BY DEF NoFile, Load, Canonicalize, EmptyState
<1>6. EmptyState \in SubState
  BY DEF EmptyState, SubState
<1> QED
  BY <1>2, <1>4, <1>5, <1>6

(* It stays so: a state that is not applied again is equal to the new one,
   and a file that is not loaded is not well-formed. *)
LEMMA ReloadKeepsCanonical == Spec => []CurrentIsCanonical
<1>1. Init => CurrentIsCanonical
  BY EmptyConfig DEF Init, CurrentIsCanonical
<1>2. CurrentIsCanonical /\ [Next]_vars => CurrentIsCanonical'
  <2> SUFFICES ASSUME CurrentIsCanonical, [Next]_vars PROVE CurrentIsCanonical'
    OBVIOUS
  <2>1. ASSUME NEW file \in Files,
               lastGood' = IF WellFormed(file) THEN file ELSE lastGood,
               Reload(file) \/ Reject(file) \/ Terminate(file)
        PROVE  CurrentIsCanonical'
    <3>1. file \in SubscriptionFile
      BY FilesAssumption
    <3>2. CASE Reload(file)
      <4>1. WellFormed(file) /\ lastGood' = file
        BY <2>1, <3>1, <3>2, LoadedFiles DEF Reload
      <4>2. Load(file) \in Configs /\ Load(lastGood) \in Configs
        BY <3>1, <4>1, LoadedFiles DEF CurrentIsCanonical
      <4>3. current' = Canonicalize(Load(file))
        BY <3>2, <4>2, EqualStates DEF CurrentIsCanonical, Reload
      <4>4. previous' \in SubState
        BY <3>2, <4>2, CanonicalizeType DEF CurrentIsCanonical, Reload
      <4> QED
        BY <3>1, <3>2, <4>1, <4>3, <4>4 DEF CurrentIsCanonical, Reload
    <3>3. CASE Reject(file) \/ Terminate(file)
      <4>1. ~WellFormed(file)
        BY <3>1, <3>3, LoadedFiles DEF Reject, Terminate
      <4> QED
        BY <2>1, <3>3, <4>1 DEF CurrentIsCanonical, Reject, Terminate
    <3> QED
      BY <2>1, <3>2, <3>3
  <2>2. CASE UNCHANGED vars
    BY <2>2 DEF CurrentIsCanonical, vars
  <2> QED
    BY <2>1, <2>2 DEF Next
<1> QED
  BY <1>1, <1>2, PTL DEF Spec

(* Files and states have their types after any reloads
   (Subscription.hpp:58-72). *)
THEOREM ReloadTyping == Spec => []TypeOK
<1>1. CurrentIsCanonical => TypeOK
  BY CanonicalizeType, LoadedFiles DEF CurrentIsCanonical, TypeOK
<1> QED
  BY <1>1, ReloadKeepsCanonical, PTL

(* After any files the state in force asks for exactly what the last
   well-formed one lists (SubscriptionLoader.cpp:5-61, Subscription.hpp:58-94,
   SubscriptionManager.cpp:254-277). *)
THEOREM ReloadIsExact == Spec => []CurrentIsConfig
<1>1. CurrentIsCanonical => CurrentIsConfig
  <2> SUFFICES ASSUME CurrentIsCanonical PROVE CurrentIsConfig
    OBVIOUS
  <2> DEFINE items == lastGood.securities
             config == Load(lastGood)
  <2>1. /\ DOMAIN config = DOMAIN items
        /\ \A i \in DOMAIN items : /\ config[i].id = items[i].symbol
                                   /\ config[i].subtypes = SubtypesOf(lastGood, items[i])
    BY DEF Load
  <2>2. current = Canonicalize(config)
    BY DEF CurrentIsCanonical
  <2> HIDE DEF config
  <2>3. DOMAIN current = {items[i].symbol : i \in DOMAIN items}
    BY <2>1, <2>2 DEF Canonicalize
  <2>4. ASSUME NEW s \in DOMAIN current, NEW t
        PROVE  t \in current[s]
                 <=> \E i \in DOMAIN items :
                       items[i].symbol = s /\ t \in SubtypesOf(lastGood, items[i])
    BY <2>1, <2>2, <2>3 DEF Canonicalize
  <2>5. ASSUME NEW s, NEW t
        PROVE  <<s, t>> \in Subscribed(current) <=> s \in DOMAIN current /\ t \in current[s]
    <3>1. <<s, t>> \in Subscribed(current)
            <=> \E id \in DOMAIN current : \E x \in current[id] : <<s, t>> = <<id, x>>
      BY SubscribedPairs
    <3> QED
      BY <3>1
  <2>6. ASSUME NEW i \in DOMAIN items, NEW t
        PROVE  t \in SubtypesOf(lastGood, items[i])
                 <=> \/ items[i].subtypes # Absent /\ t \in items[i].subtypes
                     \/ /\ items[i].subtypes = Absent
                        /\ lastGood.defaults # Absent
                        /\ t \in lastGood.defaults
    BY DEF SubtypesOf
  <2> QED
    BY <2>3, <2>4, <2>5, <2>6 DEF CurrentIsConfig
<1> QED
  BY <1>1, ReloadKeepsCanonical, PTL

(* The diff of every two states leaves what both ask for alone and sends
   nothing twice (SubscriptionTools.hpp:21-44). *)
THEOREM DiffMinimality == Spec => []DiffIsMinimal
<1>1. DiffIsMinimal
  BY DiffPairs DEF DiffIsMinimal, Diff, Removed, Added
<1> QED
  BY <1>1, PTL

(* Carrying it out turns what the old state asked for into what the new one
   asks for (SubscriptionTools.hpp:21-44, SubscriptionManager.cpp:320-355). *)
THEOREM DiffRealisation == Spec => []DiffRealises
<1>1. DiffIsMinimal => DiffRealises
  BY DEF DiffIsMinimal, DiffRealises
<1> QED
  BY <1>1, DiffMinimality, PTL

-----------------------------------------------------------------------------
(* The types that can be consumed. *)
DecodedTypes == {"BasicQot", "OrderBook", "Ticker", "KL_1Min"}

(* What becomes of the topic of each type. *)
LEMMA Topics ==
  \A t \in DOMAIN TopicOf :
    /\ TopicOf[t] \in Consumable <=> t \in DecodedTypes
    /\ t \in DecodedTypes => TypeOfTopic[TopicOf[t]] = t
<1>1. DOMAIN TopicOf = {"BasicQot", "OrderBook", "Ticker", "KL_1Min", "RT", "Broker"}
  BY DEF TopicOf
<1>2. DOMAIN TypeOfTopic = {TopicOf[t] : t \in DOMAIN TopicOf}
  BY DEF TypeOfTopic
<1>3. \A t \in DOMAIN TopicOf :
        TypeOfTopic[TopicOf[t]] = IF t \in {"RT", "Broker"} THEN "Unknown" ELSE t
  BY <1>1 DEF TypeOfTopic, TopicOf
<1> QED
  BY <1>1, <1>2, <1>3 DEF Consumable, DecodedTypes

(* The push that the i-th envelope of a push holds. *)
Part(p, i) ==
  IF p.type = "BasicQot" THEN [p EXCEPT !.quotes = <<p.quotes[i]>>] ELSE p

(* The envelopes of a push: one for each quote, or one. *)
Parts(p) == IF p.type = "BasicQot" THEN DOMAIN p.quotes ELSE {1}

LEMMA PartIsPush ==
  ASSUME NEW type, NEW p \in PushRecord(type), NEW i \in Parts(p)
  PROVE  /\ Part(p, i) \in PushRecord(type)
         /\ Part(p, i).quotes = Together(p, i)
         /\ Part(p, i).failed = p.failed /\ Part(p, i).hasS2C = p.hasS2C
<1>1. CASE p.type = "BasicQot"
  <2>1. p.quotes[i] \in Quote /\ <<p.quotes[i]>> \in Seq(Quote)
    BY <1>1 DEF PushRecord, Parts
  <2> QED
    BY <1>1, <2>1 DEF PushRecord, Part, Together
<1>2. CASE p.type # "BasicQot"
  BY <1>2 DEF Part, Together
<1> QED
  BY <1>1, <1>2

(* What the push handlers make of a push. *)
LEMMA Enveloped ==
  ASSUME NEW type, NEW p \in PushRecord(type)
  PROVE  /\ DOMAIN Envelopes(p) = Parts(p)
         /\ \A i \in Parts(p) :
              /\ Envelopes(p)[i].topic = TopicOf[type]
              /\ Envelopes(p)[i].payload = Part(p, i)
              /\ p.hasS2C =>
                   Envelopes(p)[i].key = Symbol(IF type = "BasicQot"
                                                THEN Together(p, i)[1].security
                                                ELSE p.security)
<1>1. p.type = type
  BY DEF PushRecord
<1>2. CASE type = "BasicQot"
  BY <1>1, <1>2 DEF Envelopes, Parts, Part, Together
<1>3. CASE type # "BasicQot"
  BY <1>1, <1>3 DEF Envelopes, Parts, Part, Together
<1> QED
  BY <1>2, <1>3

(* The table that a decoder makes. *)
TableOf(type, p) ==
  CASE type = "BasicQot" -> DecodeBasicQuote(p)
    [] type = "OrderBook" -> DecodeOrderBook(p)
    [] type = "Ticker" -> DecodeTicker(p)
    [] type = "KL_1Min" -> DecodeKL1Min(p)

(* What q is handed for a push: for each envelope, unless its topic cannot be
   consumed, the table of its decoder. *)
LEMMA Receptions ==
  ASSUME NEW type \in DOMAIN TopicOf, NEW p \in PushRecord(type)
  PROVE  /\ type \notin DecodedTypes => Received(p) = << >>
         /\ type \in DecodedTypes =>
              /\ DOMAIN Received(p) = Parts(p)
              /\ \A i \in Parts(p) :
                   /\ Received(p)[i].type = type
                   /\ Received(p)[i].key = Envelopes(p)[i].key
                   /\ Received(p)[i].table = TableOf(type, Part(p, i))
<1> DEFINE consumed == {j \in DOMAIN Envelopes(p) : Envelopes(p)[j].topic \in Consumable}
<1>1. Received(p) = [i \in consumed |-> Decode(Envelopes(p)[i])]
  BY DEF Received
<1>2. CASE type \notin DecodedTypes
  <2>1. consumed = {}
    BY <1>2, Topics, Enveloped
  <2> QED
    BY <1>1, <1>2, <2>1
<1>3. CASE type \in DecodedTypes
  <2>1. consumed = Parts(p)
    BY <1>3, Topics, Enveloped
  <2>2. ASSUME NEW i \in Parts(p)
        PROVE  /\ Decode(Envelopes(p)[i]).type = type
               /\ Decode(Envelopes(p)[i]).key = Envelopes(p)[i].key
               /\ Decode(Envelopes(p)[i]).table = TableOf(type, Part(p, i))
    <3>1. TypeOfTopic[Envelopes(p)[i].topic] = type /\ Envelopes(p)[i].payload = Part(p, i)
      BY <1>3, Topics, Enveloped
    <3> QED
      BY <3>1 DEF Decode, TableOf
  <2> HIDE DEF consumed
  <2> QED
    BY <1>1, <1>3, <2>1, <2>2
<1> QED
  BY <1>2, <1>3

(* A table has the columns it is given, as long as there are rows. *)
LEMMA TableCells ==
  ASSUME NEW names, NEW columns, NEW rows, NEW n \in Nat, DOMAIN rows = 1..n
  PROVE  LET table == Table(names, columns, rows) IN
         /\ table.names = names /\ DOMAIN table.columns = DOMAIN columns
         /\ \A m \in Nat : DOMAIN columns = 1..m => Len(table.columns) = m
         /\ \A c \in DOMAIN columns :
              /\ DOMAIN table.columns[c] = 1..n /\ Len(table.columns[c]) = n
              /\ \A r \in 1..n :
                   table.columns[c][r] = <<columns[c].kind, rows[r][columns[c].member]>>
BY DEF Table

(* The members of a row. *)
LEMMA RowMembers ==
  ASSUME NEW p, NEW from, NEW i \in DOMAIN p.quotes
  PROVE  /\ DOMAIN Rows(p, from) = DOMAIN p.quotes
         /\ DOMAIN Rows(p, from)[i] = DOMAIN from \union {"symbol", "time"}
         /\ Rows(p, from)[i]["symbol"] = Symbol(p.quotes[i].security)
         /\ Rows(p, from)[i]["time"] = <<"received">>
         /\ \A member \in DOMAIN from :
              member \notin {"symbol", "time"} =>
                Rows(p, from)[i][member] = Value(p.quotes[i], from[member])
BY DEF Rows

(* A cell that is right, or differs as it is known to. *)
IsMeant(type, name, quotes, i, cell) ==
  cell = Meant(type, name, quotes, i) \/ Differs(type, name, quotes[i], cell)

(* The columns that hold a field of the API. *)
LEMMA FieldNames ==
  /\ DOMAIN FieldOf["BasicQot"] =
       {"spread", "high", "open", "low", "cur", "lastclose", "volume", "amount",
        "turnoverrate", "amplitude", "updtime"}
  /\ DOMAIN FieldOf["OrderBook"] = {"price", "volume", "ordercount"}
  /\ DOMAIN FieldOf["Ticker"] =
       {"direction", "price", "volume", "amount", "msgTime", "recvTime"}
  /\ DOMAIN FieldOf["KL_1Min"] =
       {"high", "open", "low", "close", "lastclose", "volume", "amount", "turnoverrate",
        "pe", "changerate", "recvtime", "tstime"}
BY DEF FieldOf

LEMMA FieldCell ==
  ASSUME NEW type, NEW name \in DOMAIN FieldOf[type], NEW quotes, NEW i
  PROVE  IsMeant(type, name, quotes, i,
                 <<FieldOf[type][name][1], Value(quotes[i], FieldOf[type][name][2])>>)
BY DEF IsMeant, Meant

(* The columns all tables begin with: the name of the security, of whatever
   market, and the time the push was received. *)
LEMMA SymCell ==
  ASSUME NEW type \in DecodedTypes, NEW quotes, NEW i, quotes[i].security \in Securities
  PROVE  IsMeant(type, "sym", quotes, i, <<"symbol", Symbol(quotes[i].security)>>)
<1> DEFINE s == quotes[i].security
           cell == <<"symbol", Symbol(s)>>
<1>1. Meant(type, "sym", quotes, i) = <<"symbol", <<MarketOf[s], s>>>>
  BY FieldNames DEF DecodedTypes, Meant, Derived
<1>2. MarketOf[s] \in Markets
  BY MarketAssumption
<1>3. CASE MarketOf[s] \in {"HK", "US"}
  <2>1. Symbol(s) = <<MarketOf[s], s>>
    BY <1>3 DEF Symbol, MarketPrefix
  <2> QED
    BY <1>1, <2>1 DEF IsMeant
<1>4. CASE MarketOf[s] \in {"SH", "SZ"}
  <2>1. cell[2][2] = s
    BY DEF Symbol
  <2> QED
    BY <1>4, <2>1 DEF IsMeant, Differs
<1> QED
  BY <1>2, <1>3, <1>4 DEF Markets

LEMMA ReceivedCell ==
  ASSUME NEW type \in DecodedTypes, NEW quotes, NEW i
  PROVE  IsMeant(type, "time", quotes, i, <<"timestamp", <<"received">>>>)
BY FieldNames DEF DecodedTypes, IsMeant, Meant, Derived

(* A table that has a name for each column and a row for each quote, with
   what is meant in each cell. *)
IsTableOf(type, p, table) ==
  /\ table.names # << >> /\ Len(table.columns) = Len(table.names)
  /\ \A c \in DOMAIN table.columns :
       /\ DOMAIN table.columns[c] = DOMAIN p.quotes
       /\ Len(table.columns[c]) = Len(p.quotes)
       /\ \A r \in DOMAIN p.quotes :
            IsMeant(type, table.names[c], p.quotes, r, table.columns[c][r])

LEMMA QuotesOf ==
  ASSUME NEW type, NEW p \in PushRecord(type)
  PROVE  /\ Len(p.quotes) \in Nat /\ DOMAIN p.quotes = 1..Len(p.quotes)
         /\ \A i \in DOMAIN p.quotes : p.quotes[i] \in Quote
<1>1. p.quotes \in Seq(Quote)
  BY DEF PushRecord
<1> QED
  BY <1>1

(* It is enough that each column is named for the field its member holds. *)
LEMMA TableIsMeant ==
  ASSUME NEW type, NEW p \in PushRecord(type),
         NEW names, NEW columns, NEW rows, NEW m \in Nat \ {0},
         Len(names) = m, DOMAIN columns = 1..m, DOMAIN rows = DOMAIN p.quotes,
         \A c \in 1..m : \A r \in DOMAIN p.quotes :
           IsMeant(type, names[c], p.quotes, r,
                   <<columns[c].kind, rows[r][columns[c].member]>>)
  PROVE  IsTableOf(type, p, Table(names, columns, rows))
<1> DEFINE table == Table(names, columns, rows)
<1>1. Len(p.quotes) \in Nat /\ DOMAIN p.quotes = 1..Len(p.quotes)
  BY QuotesOf
<1>2. /\ table.names = names /\ DOMAIN table.columns = 1..m /\ Len(table.columns) = m
      /\ \A c \in 1..m :
           /\ DOMAIN table.columns[c] = DOMAIN p.quotes
           /\ Len(table.columns[c]) = Len(p.quotes)
           /\ \A r \in DOMAIN p.quotes :
                table.columns[c][r] = <<columns[c].kind, rows[r][columns[c].member]>>
  BY <1>1, TableCells
<1>3. names # << >>
  OBVIOUS
<1> HIDE DEF table
<1>4. IsTableOf(type, p, table)
  <2>1. table.names # << >> /\ Len(table.columns) = Len(table.names)
    BY <1>2, <1>3
  <2>2. ASSUME NEW c \in DOMAIN table.columns, NEW r \in DOMAIN p.quotes
        PROVE  IsMeant(type, table.names[c], p.quotes, r, table.columns[c][r])
    <3>1. c \in 1..m /\ table.names[c] = names[c]
      BY <1>2
    <3>2. table.columns[c][r] = <<columns[c].kind, rows[r][columns[c].member]>>
      BY <1>2, <3>1
    <3>3. IsMeant(type, names[c], p.quotes, r,
                  <<columns[c].kind, rows[r][columns[c].member]>>)
      BY <3>1
    <3> QED
      BY <3>1, <3>2, <3>3
  <2> QED
    BY <1>2, <2>1, <2>2 DEF IsTableOf
<1> QED
  BY <1>4 DEF table

(* What a column of the rows that Rows makes must be. *)
Carries(type, name, column, from) ==
  /\ column.member \in DOMAIN from \ {"symbol", "time"}
  /\ \/ /\ name \in DOMAIN FieldOf[type]
        /\ column.kind = FieldOf[type][name][1]
        /\ from[column.member] = FieldOf[type][name][2]
     \/ /\ type = "KL_1Min" /\ name = "amount" /\ column.kind = "float"
        /\ from[column.member] = "none"

LEMMA CarriedCell ==
  ASSUME NEW type, NEW p \in PushRecord(type), NEW r \in DOMAIN p.quotes,
         NEW name, NEW column, NEW from, Carries(type, name, column, from)
  PROVE  IsMeant(type, name, p.quotes, r,
                 <<column.kind, Rows(p, from)[r][column.member]>>)
<1>1. Rows(p, from)[r][column.member] = Value(p.quotes[r], from[column.member])
  BY RowMembers DEF Carries
<1>2. CASE /\ name \in DOMAIN FieldOf[type]
           /\ column.kind = FieldOf[type][name][1]
           /\ from[column.member] = FieldOf[type][name][2]
  BY <1>1, <1>2, FieldCell
<1>3. CASE /\ type = "KL_1Min" /\ name = "amount" /\ column.kind = "float"
           /\ from[column.member] = "none"
  <2>1. "none" \notin p.quotes[r].fields
    BY QuotesOf DEF Quote, ApiFields
  <2>2. Value(p.quotes[r], "none") = Default
    BY <2>1 DEF Value
  <2> QED
    BY <1>1, <1>3, <2>2 DEF IsMeant, Differs
<1> QED
  BY <1>2, <1>3 DEF Carries

(* The first two columns of every table. *)
BeginsRight(names, columns) ==
  /\ names[1] = "sym" /\ columns[1] = Sym("symbol")
  /\ names[2] = "time" /\ columns[2] = Ts("time")

LEMMA LeadingCells ==
  ASSUME NEW type \in DecodedTypes, NEW p \in PushRecord(type), NEW r \in DOMAIN p.quotes,
         NEW names, NEW columns, NEW rows, BeginsRight(names, columns),
         rows[r]["symbol"] = Symbol(p.quotes[r].security), rows[r]["time"] = <<"received">>,
         NEW c \in 1..2
  PROVE  IsMeant(type, names[c], p.quotes, r, <<columns[c].kind, rows[r][columns[c].member]>>)
<1>1. CASE c = 1
  <2>1. p.quotes[r].security \in Securities
    BY QuotesOf DEF Quote
  <2>2. columns[c].kind = "symbol" /\ columns[c].member = "symbol" /\ names[c] = "sym"
    BY <1>1 DEF BeginsRight, Sym, Column
  <2> QED
    BY <2>1, <2>2, SymCell
<1>2. CASE c = 2
  <2>1. columns[c].kind = "timestamp" /\ columns[c].member = "time" /\ names[c] = "time"
    BY <1>2 DEF BeginsRight, Ts, Column
  <2> QED
    BY <2>1, ReceivedCell
<1> QED
  BY <1>1, <1>2

(* A table of rows that were set from the fields alone. *)
LEMMA TableOfFields ==
  ASSUME NEW type \in DecodedTypes, NEW p \in PushRecord(type), NEW from,
         NEW names, NEW columns, NEW m \in Nat, m > 2,
         Len(names) = m, DOMAIN columns = 1..m, BeginsRight(names, columns),
         \A c \in 3..m : Carries(type, names[c], columns[c], from)
  PROVE  IsTableOf(type, p, Table(names, columns, Rows(p, from)))
<1> DEFINE rows == Rows(p, from)
<1>1. DOMAIN rows = DOMAIN p.quotes
  BY DEF Rows
<1>2. ASSUME NEW c \in 1..m, NEW r \in DOMAIN p.quotes
      PROVE  IsMeant(type, names[c], p.quotes, r,
                     <<columns[c].kind, rows[r][columns[c].member]>>)
  <2>1. c \in 1..2 \/ c \in 3..m
    OBVIOUS
  <2>2. CASE c \in 1..2
    <3>1. rows[r]["symbol"] = Symbol(p.quotes[r].security) /\ rows[r]["time"] = <<"received">>
      BY RowMembers
    <3> HIDE DEF rows
    <3> QED
      BY <2>2, <3>1, LeadingCells
  <2>3. CASE c \in 3..m
    BY <2>3, CarriedCell
  <2> QED
    BY <2>1, <2>2, <2>3
<1> HIDE DEF rows
<1>3. IsTableOf(type, p, Table(names, columns, rows))
  BY <1>1, <1>2, TableIsMeant
<1> QED
  BY <1>3 DEF rows

(* The tables of the decoders whose rows are set from the fields alone, column by
   column. *)
LEMMA BasicQuoteTable ==
  ASSUME NEW p \in PushRecord("BasicQot"), Decodes("BasicQot", p)
  PROVE  IsTableOf("BasicQot", p, DecodeBasicQuote(p))
<1> DEFINE from == [Same({"priceSpread", "highPrice", "openPrice", "lowPrice", "curPrice",
                            "lastClosePrice", "volume", "amount", "turnoverRate",
                            "amplitude", "updateTime"})
                      EXCEPT !["amount"] = "turnover"]
           names == <<"sym", "time", "spread", "high", "open", "low", "cur", "lastclose",
                      "volume", "amount", "turnoverrate", "amplitude", "updtime">>
           columns == <<Sym("symbol"), Ts("time"), F64("priceSpread"), F64("highPrice"),
                        F64("openPrice"), F64("lowPrice"), F64("curPrice"),
                        F64("lastClosePrice"), I64("volume"), F64("amount"),
                        F64("turnoverRate"), F64("amplitude"), Ts("updateTime")>>
<1>1. ASSUME NEW c \in 3..13
      PROVE  Carries("BasicQot", names[c], columns[c], from)
  <2>1. /\ DOMAIN from = {"priceSpread", "highPrice", "openPrice", "lowPrice", "curPrice",
                        "lastClosePrice", "volume", "turnoverRate", "amplitude", "updateTime",
                        "amount"}
        /\ from["priceSpread"] = "priceSpread" /\ from["highPrice"] = "highPrice"
        /\ from["openPrice"] = "openPrice" /\ from["lowPrice"] = "lowPrice"
        /\ from["curPrice"] = "curPrice" /\ from["lastClosePrice"] = "lastClosePrice"
        /\ from["volume"] = "volume" /\ from["turnoverRate"] = "turnoverRate"
        /\ from["amplitude"] = "amplitude" /\ from["updateTime"] = "updateTime"
        /\ from["amount"] = "turnover"
    BY DEF Same
  <2> HIDE DEF from
  <2>2. CASE c = 3
    BY <2>1, <2>2 DEF Carries, FieldOf, Float, Long, Integer, Time, I32, I64, F64, Ts, Column
  <2>3. CASE c = 4
    BY <2>1, <2>3 DEF Carries, FieldOf, Float, Long, Integer, Time, I32, I64, F64, Ts, Column
  <2>4. CASE c = 5
    BY <2>1, <2>4 DEF Carries, FieldOf, Float, Long, Integer, Time, I32, I64, F64, Ts, Column
  <2>5. CASE c = 6
    BY <2>1, <2>5 DEF Carries, FieldOf, Float, Long, Integer, Time, I32, I64, F64, Ts, Column
  <2>6. CASE c = 7
    BY <2>1, <2>6 DEF Carries, FieldOf, Float, Long, Integer, Time, I32, I64, F64, Ts, Column
  <2>7. CASE c = 8
    BY <2>1, <2>7 DEF Carries, FieldOf, Float, Long, Integer, Time, I32, I64, F64, Ts, Column
  <2>8. CASE c = 9
    BY <2>1, <2>8 DEF Carries, FieldOf, Float, Long, Integer, Time, I32, I64, F64, Ts, Column
  <2>9. CASE c = 10
    BY <2>1, <2>9 DEF Carries, FieldOf, Float, Long, Integer, Time, I32, I64, F64, Ts, Column
  <2>10. CASE c = 11
    BY <2>1, <2>10 DEF Carries, FieldOf, Float, Long, Integer, Time, I32, I64, F64, Ts, Column
  <2>11. CASE c = 12
    BY <2>1, <2>11 DEF Carries, FieldOf, Float, Long, Integer, Time, I32, I64, F64, Ts, Column
  <2>12. CASE c = 13
    BY <2>1, <2>12 DEF Carries, FieldOf, Float, Long, Integer, Time, I32, I64, F64, Ts, Column
  <2> QED
    BY <2>2, <2>3, <2>4, <2>5, <2>6, <2>7, <2>8, <2>9, <2>10, <2>11, <2>12
<1>2. Len(names) = 13 /\ DOMAIN columns = 1..13 /\ BeginsRight(names, columns)
  BY DEF BeginsRight
<1>3. DecodeBasicQuote(p) = Table(names, columns, Rows(p, from))
  BY DEF DecodeBasicQuote, SerializeBasicQuote
<1> HIDE DEF from, names, columns
<1>4. IsTableOf("BasicQot", p, Table(names, columns, Rows(p, from)))
  <2>1. "BasicQot" \in DecodedTypes
    BY DEF DecodedTypes
  <2>2. 13 \in Nat /\ 13 > 2
    OBVIOUS
  <2>3. \A c \in 3..13 : Carries("BasicQot", names[c], columns[c], from)
    BY <1>1
  <2> QED
    BY <1>2, <2>1, <2>2, <2>3, TableOfFields
<1> QED
  BY <1>3, <1>4

LEMMA TickerTable ==
  ASSUME NEW p \in PushRecord("Ticker"), Decodes("Ticker", p)
  PROVE  IsTableOf("Ticker", p, DecodeTicker(p))
<1> DEFINE from == [Same({"direction", "price", "volume", "amount", "msgTime", "recvTime"})
                      EXCEPT !["direction"] = "dir", !["amount"] = "turnover",
                             !["msgTime"] = "time"]
           names == <<"sym", "time", "direction", "price", "volume", "amount", "msgTime",
                      "recvTime">>
           columns == <<Sym("symbol"), Ts("time"), I32("direction"), F64("price"),
                        I64("volume"), F64("amount"), Ts("msgTime"), Ts("recvTime")>>
<1>1. ASSUME NEW c \in 3..8
      PROVE  Carries("Ticker", names[c], columns[c], from)
  <2>1. /\ DOMAIN from = {"direction", "price", "volume", "amount", "msgTime", "recvTime"}
        /\ from["direction"] = "dir" /\ from["price"] = "price" /\ from["volume"] = "volume"
        /\ from["amount"] = "turnover" /\ from["msgTime"] = "time"
        /\ from["recvTime"] = "recvTime"
    BY DEF Same
  <2> HIDE DEF from
  <2>2. CASE c = 3
    BY <2>1, <2>2 DEF Carries, FieldOf, Float, Long, Integer, Time, I32, I64, F64, Ts, Column
  <2>3. CASE c = 4
    BY <2>1, <2>3 DEF Carries, FieldOf, Float, Long, Integer, Time, I32, I64, F64, Ts, Column
  <2>4. CASE c = 5
    BY <2>1, <2>4 DEF Carries, FieldOf, Float, Long, Integer, Time, I32, I64, F64, Ts, Column
  <2>5. CASE c = 6
    BY <2>1, <2>5 DEF Carries, FieldOf, Float, Long, Integer, Time, I32, I64, F64, Ts, Column
  <2>6. CASE c = 7
    BY <2>1, <2>6 DEF Carries, FieldOf, Float, Long, Integer, Time, I32, I64, F64, Ts, Column
  <2>7. CASE c = 8
    BY <2>1, <2>7 DEF Carries, FieldOf, Float, Long, Integer, Time, I32, I64, F64, Ts, Column
  <2> QED
    BY <2>2, <2>3, <2>4, <2>5, <2>6, <2>7
<1>2. Len(names) = 8 /\ DOMAIN columns = 1..8 /\ BeginsRight(names, columns)
  BY DEF BeginsRight
<1>3. DecodeTicker(p) = Table(names, columns, Rows(p, from))
  BY DEF DecodeTicker, SerializeTicker
<1> HIDE DEF from, names, columns
<1>4. IsTableOf("Ticker", p, Table(names, columns, Rows(p, from)))
  <2>1. "Ticker" \in DecodedTypes
    BY DEF DecodedTypes
  <2>2. 8 \in Nat /\ 8 > 2
    OBVIOUS
  <2>3. \A c \in 3..8 : Carries("Ticker", names[c], columns[c], from)
    BY <1>1
  <2> QED
    BY <1>2, <2>1, <2>2, <2>3, TableOfFields
<1> QED
  BY <1>3, <1>4

LEMMA KL1MinTable ==
  ASSUME NEW p \in PushRecord("KL_1Min"), Decodes("KL_1Min", p)
  PROVE  IsTableOf("KL_1Min", p, DecodeKL1Min(p))
<1> DEFINE from == [Same({"highPrice", "openPrice", "lowPrice", "closePrice",
                            "lastClosePrice", "volume", "amount", "turnoverRate", "pe",
                            "changeRate", "recvTime", "timestamp"})
                      EXCEPT !["recvTime"] = "time", !["amount"] = "none"]
           names == <<"sym", "time", "high", "open", "low", "close", "lastclose", "volume",
                      "amount", "turnoverrate", "pe", "changerate", "recvtime", "tstime">>
           columns == <<Sym("symbol"), Ts("time"), F64("highPrice"), F64("openPrice"),
                        F64("lowPrice"), F64("closePrice"), F64("lastClosePrice"),
                        I64("volume"), F64("amount"), F64("turnoverRate"), F64("pe"),
                        F64("changeRate"), Ts("recvTime"), Ts("timestamp")>>
<1>1. ASSUME NEW c \in 3..14
      PROVE  Carries("KL_1Min", names[c], columns[c], from)
  <2>1. /\ DOMAIN from = {"highPrice", "openPrice", "lowPrice", "closePrice", "lastClosePrice",
                        "volume", "turnoverRate", "pe", "changeRate", "timestamp", "recvTime",
                        "amount"}
        /\ from["highPrice"] = "highPrice" /\ from["openPrice"] = "openPrice"
        /\ from["lowPrice"] = "lowPrice" /\ from["closePrice"] = "closePrice"
        /\ from["lastClosePrice"] = "lastClosePrice" /\ from["volume"] = "volume"
        /\ from["turnoverRate"] = "turnoverRate" /\ from["pe"] = "pe"
        /\ from["changeRate"] = "changeRate" /\ from["timestamp"] = "timestamp"
        /\ from["recvTime"] = "time" /\ from["amount"] = "none"
    BY DEF Same
  <2> HIDE DEF from
  <2>2. CASE c = 3
    BY <2>1, <2>2 DEF Carries, FieldOf, Float, Long, Integer, Time, I32, I64, F64, Ts, Column
  <2>3. CASE c = 4
    BY <2>1, <2>3 DEF Carries, FieldOf, Float, Long, Integer, Time, I32, I64, F64, Ts, Column
  <2>4. CASE c = 5
    BY <2>1, <2>4 DEF Carries, FieldOf, Float, Long, Integer, Time, I32, I64, F64, Ts, Column
  <2>5. CASE c = 6
    BY <2>1, <2>5 DEF Carries, FieldOf, Float, Long, Integer, Time, I32, I64, F64, Ts, Column
  <2>6. CASE c = 7
    BY <2>1, <2>6 DEF Carries, FieldOf, Float, Long, Integer, Time, I32, I64, F64, Ts, Column
  <2>7. CASE c = 8
    BY <2>1, <2>7 DEF Carries, FieldOf, Float, Long, Integer, Time, I32, I64, F64, Ts, Column
  <2>8. CASE c = 9
    BY <2>1, <2>8 DEF Carries, FieldOf, Float, Long, Integer, Time, I32, I64, F64, Ts, Column
  <2>9. CASE c = 10
    BY <2>1, <2>9 DEF Carries, FieldOf, Float, Long, Integer, Time, I32, I64, F64, Ts, Column
  <2>10. CASE c = 11
    BY <2>1, <2>10 DEF Carries, FieldOf, Float, Long, Integer, Time, I32, I64, F64, Ts, Column
  <2>11. CASE c = 12
    BY <2>1, <2>11 DEF Carries, FieldOf, Float, Long, Integer, Time, I32, I64, F64, Ts, Column
  <2>12. CASE c = 13
    BY <2>1, <2>12 DEF Carries, FieldOf, Float, Long, Integer, Time, I32, I64, F64, Ts, Column
  <2>13. CASE c = 14
    BY <2>1, <2>13 DEF Carries, FieldOf, Float, Long, Integer, Time, I32, I64, F64, Ts, Column
  <2> QED
    BY <2>2, <2>3, <2>4, <2>5, <2>6, <2>7, <2>8, <2>9, <2>10, <2>11, <2>12, <2>13
<1>2. Len(names) = 14 /\ DOMAIN columns = 1..14 /\ BeginsRight(names, columns)
  BY DEF BeginsRight
<1>3. DecodeKL1Min(p) = Table(names, columns, Rows(p, from))
  BY DEF DecodeKL1Min, SerializeKL1Min
<1> HIDE DEF from, names, columns
<1>4. IsTableOf("KL_1Min", p, Table(names, columns, Rows(p, from)))
  <2>1. "KL_1Min" \in DecodedTypes
    BY DEF DecodedTypes
  <2>2. 14 \in Nat /\ 14 > 2
    OBVIOUS
  <2>3. \A c \in 3..14 : Carries("KL_1Min", names[c], columns[c], from)
    BY <1>1
  <2> QED
    BY <1>2, <2>1, <2>2, <2>3, TableOfFields
<1> QED
  BY <1>3, <1>4

(* The table of an order book, whose rows also have a side and the rank in it. *)
LEMMA OrderBookTable ==
  ASSUME NEW p \in PushRecord("OrderBook"), Decodes("OrderBook", p)
  PROVE  IsTableOf("OrderBook", p, DecodeOrderBook(p))
<1> DEFINE from == [Same({"price", "volume", "orderCount"})
                      EXCEPT !["orderCount"] = "orederCount"]
           Before(i) == {j \in 1..(i - 1) : p.quotes[j].side = p.quotes[i].side}
           Ranked(i, row) ==
             [member \in DOMAIN row \union {"side", "rank"} |->
                CASE member = "side" -> <<p.quotes[i].side>>
                  [] member = "rank" -> <<Cardinality(Before(i))>>
                  [] OTHER -> row[member]]
           rows == [i \in DOMAIN p.quotes |-> Ranked(i, Rows(p, from)[i])]
           names == <<"sym", "time", "side", "level", "price", "volume", "ordercount">>
           columns == <<Sym("symbol"), Ts("time"), Sym("side"), I32("rank"), F64("price"),
                        I64("volume"), I32("orderCount")>>
<1>1. /\ DOMAIN from = {"price", "volume", "orderCount"}
      /\ from["price"] = "price" /\ from["volume"] = "volume"
      /\ from["orderCount"] = "orederCount"
  BY DEF Same
<1>2. DecodeOrderBook(p) = Table(names, columns, rows)
  BY DEF DecodeOrderBook, SerializeOrderBook
<1> HIDE DEF from
<1>3. ASSUME NEW r \in DOMAIN p.quotes
      PROVE  /\ rows[r]["side"] = <<p.quotes[r].side>>
             /\ rows[r]["rank"] = <<Cardinality(Before(r))>>
             /\ \A member \in {"symbol", "time", "price", "volume", "orderCount"} :
                  rows[r][member] = Rows(p, from)[r][member]
  <2> DEFINE row == Rows(p, from)[r]
  <2>1. DOMAIN row = {"symbol", "time", "price", "volume", "orderCount"}
    BY <1>1, RowMembers
  <2> HIDE DEF row
  <2>2. rows[r] = Ranked(r, row)
    BY DEF row
  <2>3. /\ Ranked(r, row)["side"] = <<p.quotes[r].side>>
        /\ Ranked(r, row)["rank"] = <<Cardinality(Before(r))>>
        /\ \A member \in {"symbol", "time", "price", "volume", "orderCount"} :
             Ranked(r, row)[member] = row[member]
    BY <2>1
  <2> QED
    BY <2>2, <2>3 DEF row
<1>4. DOMAIN rows = DOMAIN p.quotes
  OBVIOUS
<1> HIDE DEF rows
<1>5. Len(names) = 7 /\ DOMAIN columns = 1..7 /\ BeginsRight(names, columns)
  BY DEF BeginsRight
<1>6. ASSUME NEW c \in 5..7
      PROVE  Carries("OrderBook", names[c], columns[c], from)
  <2>1. CASE c = 5
    BY <1>1, <2>1 DEF Carries, FieldOf, Float, F64, Column
  <2>2. CASE c = 6
    BY <1>1, <2>2 DEF Carries, FieldOf, Long, I64, Column
  <2>3. CASE c = 7
    BY <1>1, <2>3 DEF Carries, FieldOf, Integer, I32, Column
  <2> QED
    BY <2>1, <2>2, <2>3
<1>7. ASSUME NEW c \in 1..7, NEW r \in DOMAIN p.quotes
      PROVE  IsMeant("OrderBook", names[c], p.quotes, r,
                     <<columns[c].kind, rows[r][columns[c].member]>>)
  <2>1. CASE c \in 1..2
    <3>1. rows[r]["symbol"] = Rows(p, from)[r]["symbol"]
      BY <1>3
    <3>2. rows[r]["time"] = Rows(p, from)[r]["time"]
      BY <1>3
    <3>3. rows[r]["symbol"] = Symbol(p.quotes[r].security) /\ rows[r]["time"] = <<"received">>
      BY <3>1, <3>2, RowMembers
    <3> HIDE DEF names, columns
    <3> QED
      BY <1>5, <2>1, <3>3, LeadingCells DEF DecodedTypes
  <2>2. CASE c = 3
    <3>1. Meant("OrderBook", "side", p.quotes, r) = <<"symbol", <<p.quotes[r].side>>>>
      BY FieldNames DEF Meant, Derived
    <3> QED
      BY <1>3, <2>2, <3>1 DEF IsMeant, Sym, Column
  <2>3. CASE c = 4
    <3>1. Meant("OrderBook", "level", p.quotes, r) = <<"int", <<Cardinality(Before(r))>>>>
      BY FieldNames DEF Meant, Derived
    <3> QED
      BY <1>3, <2>3, <3>1 DEF IsMeant, I32, Column
  <2>4. CASE c \in 5..7
    <3>1. columns[c].member \in {"price", "volume", "orderCount"}
      BY <1>1, <1>6, <2>4 DEF Carries
    <3>2. \A member \in {"symbol", "time", "price", "volume", "orderCount"} :
            rows[r][member] = Rows(p, from)[r][member]
      BY <1>3
    <3> HIDE DEF names, columns
    <3>3. rows[r][columns[c].member] = Rows(p, from)[r][columns[c].member]
      BY <3>1, <3>2
    <3> QED
      BY <1>6, <2>4, <3>3, CarriedCell
  <2> QED
    BY <2>1, <2>2, <2>3, <2>4
<1> HIDE DEF names, columns
<1>8. IsTableOf("OrderBook", p, Table(names, columns, rows))
  <2>1. 7 \in Nat \ {0}
    OBVIOUS
  <2> QED
    BY <1>4, <1>5, <1>7, <2>1, TableIsMeant
<1> QED
  BY <1>2, <1>8

(* A push that can be decoded gives its table, any other none. *)
LEMMA Tables ==
  ASSUME NEW type \in DecodedTypes, NEW p \in PushRecord(type)
  PROVE  IF Decodes(type, p) THEN IsTableOf(type, p, TableOf(type, p))
                             ELSE TableOf(type, p) = NoTable
<1>1. CASE type = "BasicQot"
  <2>1. TableOf(type, p) = DecodeBasicQuote(p)
    BY <1>1 DEF TableOf
  <2> QED
    BY <1>1, <2>1, BasicQuoteTable DEF DecodeBasicQuote
<1>2. CASE type = "OrderBook"
  <2>1. TableOf(type, p) = DecodeOrderBook(p)
    BY <1>2 DEF TableOf
  <2> QED
    BY <1>2, <2>1, OrderBookTable DEF DecodeOrderBook
<1>3. CASE type = "Ticker"
  <2>1. TableOf(type, p) = DecodeTicker(p)
    BY <1>3 DEF TableOf
  <2> QED
    BY <1>3, <2>1, TickerTable DEF DecodeTicker
<1>4. CASE type = "KL_1Min"
  <2>1. TableOf(type, p) = DecodeKL1Min(p)
    BY <1>4 DEF TableOf
  <2> QED
    BY <1>4, <2>1, KL1MinTable DEF DecodeKL1Min
<1> QED
  BY <1>1, <1>2, <1>3, <1>4 DEF DecodedTypes

-----------------------------------------------------------------------------
(* A push changes nothing of the reloads. *)
LEMMA PathReloads == PathSpec => Spec
<1>1. PathInit => Init
  BY DEF PathInit
<1>2. [PathNext]_pathVars => [Next]_vars
  BY DEF PathNext, Change, Push, pathVars
<1> QED
  BY <1>1, <1>2, PTL DEF PathSpec, Spec

(* What was pushed is a push of the API, and q was handed what becomes of it. *)
PathInv ==
  \/ pushed = << >> /\ received = << >>
  \/ \E type \in SubTypes : \E p \in PushRecord(type) :
       pushed = <<p>> /\ received = Received(p)

LEMMA Pushes == PathSpec => []PathInv
<1>1. PathInit => PathInv
  BY DEF PathInit, PathInv
<1>2. TypeOK /\ PathInv /\ [PathNext]_pathVars => PathInv'
  <2> SUFFICES ASSUME TypeOK, PathInv, [PathNext]_pathVars PROVE PathInv'
    OBVIOUS
  <2>1. CASE Push
    <3>1. PICK pair \in Subscribed(current) : \E p \in PushesOf(pair[1], pair[2]) :
            pushed' = <<p>> /\ received' = Received(p)
      BY <2>1 DEF Push
    <3>2. PICK id \in DOMAIN current : \E t \in current[id] : pair = <<id, t>>
      BY <3>1, SubscribedPairs
    <3>3. PICK t \in current[id] : pair = <<id, t>>
      BY <3>2
    <3>4. pair[1] \in Securities /\ pair[2] \in SubTypes
      BY <3>2, <3>3, StateIsFunction DEF TypeOK
    <3>5. PushesOf(pair[1], pair[2]) \subseteq PushRecord(pair[2])
      BY <3>4, PushesAssumption
    <3> QED
      BY <3>1, <3>4, <3>5 DEF PathInv
  <2>2. CASE Change \/ UNCHANGED pathVars
    BY <2>2 DEF PathInv, Change, pathVars
  <2> QED
    BY <2>1, <2>2 DEF PathNext
<1> QED
  BY <1>1, <1>2, PathReloads, ReloadTyping, PTL DEF PathSpec

(* Of whatever securities, with any quotes and any of their fields, a push
   that is decoded gives a table in which every cell is the field its column
   is named for, but for the cells that Differs names (decoders.cpp:57-335,
   qipc.cpp:50-176). *)
THEOREM CellsAreFields == PathSpec => []ColumnsAreFields
<1>1. PathInv => ColumnsAreFields
  <2> SUFFICES ASSUME PathInv, NEW i \in DOMAIN received
               PROVE  LET event == received[i]
                          quotes == Together(pushed[1], i)
                      IN /\ Len(event.table.columns) = Len(event.table.names)
                         /\ \A c \in DOMAIN event.table.columns :
                              \A r \in DOMAIN event.table.columns[c] :
                                IsMeant(event.type, event.table.names[c], quotes, r,
                                        event.table.columns[c][r])
    BY DEF ColumnsAreFields, IsMeant
  <2>1. PICK type \in SubTypes : \E p \in PushRecord(type) :
          pushed = <<p>> /\ received = Received(p)
    BY DEF PathInv
  <2> PICK p \in PushRecord(type) : pushed = <<p>> /\ received = Received(p)
    BY <2>1
  <2>2. type \in DOMAIN TopicOf
    BY SubTypesAssumption
  <2>3. type \in DecodedTypes /\ i \in Parts(p)
    BY <2>1, <2>2, Receptions
  <2> DEFINE part == Part(p, i)
             table == TableOf(type, part)
  <2>4. received[i].type = type /\ received[i].table = table
    BY <2>1, <2>2, <2>3, Receptions
  <2>5. part \in PushRecord(type) /\ part.quotes = Together(p, i)
    BY <2>3, PartIsPush
  <2> HIDE DEF part
  <2>6. CASE Decodes(type, part)
    <3>1. IsTableOf(type, part, table)
      BY <2>3, <2>5, <2>6, Tables
    <3> HIDE DEF table
    <3> QED
      BY <2>1, <2>4, <2>5, <3>1 DEF IsTableOf
  <2>7. CASE ~Decodes(type, part)
    <3>1. table = NoTable
      BY <2>3, <2>5, <2>7, Tables
    <3>2. table.columns = << >> /\ table.names = << >>
      BY <3>1 DEF NoTable
    <3> HIDE DEF table
    <3> QED
      BY <2>4, <3>2
  <2> QED
    BY <2>6, <2>7
<1> QED
  BY <1>1, Pushes, PTL

(* Such a push comes out as one table for each envelope, with a row for each
   quote, or as an error under its security's key, and never in part
   (SubscriptionManager.cpp:68-165, decoders.cpp:33-81,
   kfkpb_core.cpp:363-387). *)
THEOREM PushesComeWhole == PathSpec => []WholePushOrError
<1>1. PathInv => WholePushOrError
  <2> SUFFICES ASSUME PathInv, NEW p \in {pushed[i] : i \in DOMAIN pushed}
               PROVE  IF p.type \in {"RT", "Broker"} \/ (p.type = "BasicQot" /\ p.quotes = << >>)
                      THEN received = << >>
                      ELSE
                        /\ DOMAIN received =
                             IF p.type = "BasicQot" THEN DOMAIN p.quotes ELSE {1}
                        /\ \A i \in DOMAIN received :
                             LET quotes == Together(p, i)
                                 good == /\ ~p.failed /\ p.hasS2C /\ quotes # << >>
                                         /\ \A j \in DOMAIN quotes : quotes[j].malformed = {}
                                 table == received[i].table
                             IN /\ received[i].type = p.type
                                /\ p.hasS2C =>
                                     received[i].key =
                                       Symbol(IF p.type = "BasicQot" THEN quotes[1].security
                                              ELSE p.security)
                                /\ table # NoTable <=> good
                                /\ \A c \in DOMAIN table.columns :
                                     Len(table.columns[c]) = Len(quotes)
    BY DEF WholePushOrError
  <2>1. PICK type \in SubTypes : p \in PushRecord(type) /\ received = Received(p)
    BY DEF PathInv
  <2>2. type \in DOMAIN TopicOf /\ p.type = type
    BY <2>1, SubTypesAssumption DEF PushRecord
  <2>3. type \in DecodedTypes <=> type \notin {"RT", "Broker"}
    BY <2>2 DEF TopicOf, DecodedTypes
  <2>4. CASE type \in {"RT", "Broker"}
    BY <2>1, <2>2, <2>3, <2>4, Receptions
  <2>5. CASE type \in DecodedTypes
    <3>1. DOMAIN received = Parts(p)
      BY <2>1, <2>2, <2>5, Receptions
    <3>2. CASE type = "BasicQot" /\ p.quotes = << >>
      <4>1. Parts(p) = {}
        BY <2>2, <3>2 DEF Parts
      <4>2. Received(p) = << >>
        BY <2>1, <3>1, <4>1 DEF Received
      <4> QED
        BY <2>1, <2>2, <3>2, <4>2
    <3>3. ASSUME NEW i \in Parts(p)
          PROVE  LET quotes == Together(p, i)
                     good == /\ ~p.failed /\ p.hasS2C /\ quotes # << >>
                             /\ \A j \in DOMAIN quotes : quotes[j].malformed = {}
                     table == received[i].table
                 IN /\ received[i].type = type
                    /\ p.hasS2C =>
                         received[i].key =
                           Symbol(IF type = "BasicQot" THEN quotes[1].security
                                  ELSE p.security)
                    /\ table # NoTable <=> good
                    /\ \A c \in DOMAIN table.columns :
                         Len(table.columns[c]) = Len(quotes)
      <4> DEFINE part == Part(p, i)
                 table == TableOf(type, part)
      <4>1. /\ received[i].type = type /\ received[i].table = table
            /\ received[i].key = Envelopes(p)[i].key
        BY <2>1, <2>2, <2>5, <3>3, Receptions
      <4>2. /\ part \in PushRecord(type) /\ part.quotes = Together(p, i)
            /\ part.failed = p.failed /\ part.hasS2C = p.hasS2C
        BY <2>1, <3>3, PartIsPush
      <4>3. p.hasS2C =>
              received[i].key = Symbol(IF type = "BasicQot" THEN Together(p, i)[1].security
                                       ELSE p.security)
        BY <2>1, <3>3, <4>1, Enveloped
      <4> HIDE DEF part
      <4>4. Decodes(type, part) <=>
              /\ ~p.failed /\ p.hasS2C /\ Together(p, i) # << >>
              /\ \A j \in DOMAIN Together(p, i) : Together(p, i)[j].malformed = {}
        BY <4>2 DEF Decodes, PushRecord
      <4>5. CASE Decodes(type, part)
        <5>1. IsTableOf(type, part, table)
          BY <2>5, <4>2, <4>5, Tables
        <5> HIDE DEF table
        <5>2. table # NoTable
          BY <5>1 DEF IsTableOf, NoTable
        <5>3. \A c \in DOMAIN table.columns : Len(table.columns[c]) = Len(Together(p, i))
          BY <4>2, <5>1 DEF IsTableOf
        <5> QED
          BY <4>1, <4>3, <4>4, <4>5, <5>2, <5>3
      <4>6. CASE ~Decodes(type, part)
        <5>1. table = NoTable
          BY <2>5, <4>2, <4>6, Tables
        <5>2. DOMAIN table.columns = {}
          BY <5>1 DEF NoTable
        <5> HIDE DEF table
        <5> QED
          BY <4>1, <4>3, <4>4, <4>6, <5>1, <5>2
      <4> QED
        BY <4>5, <4>6
    <3>4. Parts(p) = IF type = "BasicQot" THEN DOMAIN p.quotes ELSE {1}
      BY <2>2 DEF Parts
    <3> QED
      BY <2>2, <2>3, <2>5, <3>1, <3>2, <3>3, <3>4
  <2> QED
    BY <2>2, <2>3, <2>4, <2>5
<1> QED
  BY <1>1, Pushes, PTL
=============================================================================
