---------------------- MODULE SubscriptionManager_proofs ----------------------
(***************************************************************************)
(* The subscription control plane for all files, times and numbers of      *)
(* connections: a manager that is between two cycles is in step with the   *)
(* server unless a request was rejected or a connection was announced in   *)
(* the window in which run() loses the flag, and a diff never interrupts a *)
(* push that is to stay.                                                   *)
(***************************************************************************)
EXTENDS SubscriptionManager, SequenceTheorems, TLAPS

(* The pairs a server can push, and the requests for them. *)
AllPairs == Securities \X SubTypes
Request == [op : {"unsub", "sub"}, item : [id : Securities, mask : SUBSET SubTypes]]

(* What a request is about. *)
About(request) == {request.item.id} \X request.item.mask

(* The pairs that requests of a kind in some phases are about. *)
LeftIn(phases, op) ==
  {p \in AllPairs : \E k \in DOMAIN phases : \E r \in phases[k] : r.op = op /\ p \in About(r)}

Left(op) == LeftIn(todo, op)

(* The phases are made of requests, and those that unsubscribe come first. *)
Phased(phases) ==
  /\ phases \in Seq(SUBSET Request)
  /\ \A k, l \in DOMAIN phases :
       k <= l => \A r \in phases[k], q \in phases[l] : r.op = "sub" => q.op = "sub"

TodoInv ==
  /\ Phased(todo)
  /\ pc # "send" => todo = << >>

(* The flag is not set while it would be lost, unless this is recorded or the
   connection is still being announced. *)
WindowInv ==
  force /\ wantForce /\ (pc = "send" \/ (pc = "clear" /\ hasCurrent))
    => raced \/ callback = "on_connected"

(* The server pushes nothing but what is in force or about to be: what is not
   is still to be unsubscribed. *)
NothingElse ==
  /\ ~hasCurrent => current = EmptyState
  /\ ~up => serverSubs = {}
  /\ pc # "send" /\ ~lossy => serverSubs \subseteq Subscribed(current)
  /\ pc = "send" /\ ~lossy => serverSubs \subseteq Subscribed(pending) \union Left("unsub")
  /\ pc = "send" => Left("sub") \subseteq Subscribed(pending)

(* The flag of the connection that is up has been taken. *)
Taken == up /\ callback = "none" /\ ~force /\ ~lossy /\ ~raced

(* Then nothing is missing but what is still to be subscribed. *)
NothingMissing ==
  /\ Taken /\ pc # "send" => Subscribed(current) \subseteq serverSubs
  /\ Taken /\ pc = "send" =>
       Subscribed(pending) \subseteq (serverSubs \ Left("unsub")) \union Left("sub")

(* A diff unsubscribes nothing that is to stay. *)
DiffInv == pc = "send" /\ ~full => Left("unsub") \intersect Subscribed(pending) = {}

IInv ==
  /\ TypeOK
  /\ TodoInv
  /\ WindowInv
  /\ NothingElse
  /\ NothingMissing
  /\ DiffInv

-----------------------------------------------------------------------------
(* The items made from some securities and a map of masks, and the pairs they
   stand for. *)
ItemsOf(ids, f) == {Item(id, f[id]) : id \in ids}

LEMMA PairsOf ==
  ASSUME NEW ids, NEW f, NEW p
  PROVE  p \in Pairs(ItemsOf(ids, f)) <=> \E id \in ids : \E t \in f[id] : p = <<id, t>>
<1>1. ASSUME NEW id \in ids, NEW t \in f[id], p = <<id, t>>
      PROVE  p \in Pairs(ItemsOf(ids, f))
  <2> DEFINE i == Item(id, f[id])
  <2>1. p \in {i.id} \X i.mask
    BY <1>1 DEF Item
  <2> QED
    BY <2>1 DEF Pairs, ItemsOf
<1>2. ASSUME NEW i \in ItemsOf(ids, f), p \in {i.id} \X i.mask
      PROVE  \E id \in ids : \E t \in f[id] : p = <<id, t>>
  BY <1>2 DEF Item, ItemsOf
<1> QED
  BY <1>1, <1>2 DEF Pairs

(* They are items when the securities and the masks are. *)
Items == [id : Securities, mask : SUBSET SubTypes]

LEMMA ItemsOfTypes ==
  ASSUME NEW ids \in SUBSET Securities, NEW f, \A id \in ids : f[id] \subseteq SubTypes
  PROVE  ItemsOf(ids, f) \in SUBSET Items
BY DEF ItemsOf, Items, Item

(* What a state asks for. *)
LEMMA SubscribedPairs ==
  ASSUME NEW st \in SubState
  PROVE  /\ Subscribed(st) \subseteq AllPairs
         /\ StateItems(st) \in SUBSET Items
         /\ \A p : p \in Subscribed(st) <=> \E id \in DOMAIN st : \E t \in st[id] : p = <<id, t>>
<1>1. DOMAIN st \in SUBSET Securities /\ \A id \in DOMAIN st : st[id] \subseteq SubTypes
  BY DEF SubState
<1>2. StateItems(st) = ItemsOf(DOMAIN st, st)
  BY DEF StateItems, ItemsOf
<1>3. ASSUME NEW p
      PROVE  p \in Subscribed(st) <=> \E id \in DOMAIN st : \E t \in st[id] : p = <<id, t>>
  BY <1>2, PairsOf DEF Subscribed
<1>4. StateItems(st) \in SUBSET Items
  BY <1>1, <1>2, ItemsOfTypes
<1> QED
  BY <1>1, <1>3, <1>4 DEF AllPairs

(* The requests for some items. *)
LEMMA RequestTypes ==
  ASSUME NEW op \in {"unsub", "sub"}, NEW items \in SUBSET Items
  PROVE  /\ Requests(op, items) \in SUBSET Request
         /\ \A r \in Requests(op, items) : r.op = op
         /\ \A p : (\E r \in Requests(op, items) : p \in About(r)) <=> p \in Pairs(items)
<1>1. ASSUME NEW r \in Requests(op, items)
      PROVE  r \in Request /\ r.op = op /\ r.item \in items /\ About(r) = {r.item.id} \X r.item.mask
  BY DEF Requests, Request, Items, About
<1>2. ASSUME NEW i \in items
      PROVE  \E r \in Requests(op, items) : r.item = i
  <2> DEFINE r == [op |-> op, item |-> i]
  <2>1. r \in Requests(op, items) /\ r.item = i
    BY DEF Requests
  <2> QED
    BY <2>1
<1>3. ASSUME NEW p
      PROVE  p \in Pairs(items) <=> \E i \in items : p \in {i.id} \X i.mask
  BY DEF Pairs
<1> QED
  BY <1>1, <1>2, <1>3

(* What those of some securities that gain anything gain from a to b. *)
GainsOf(kept, a, b) ==
  {Item(id, b[id] \ a[id]) : id \in {k \in kept : b[k] \ a[k] # {}}}

LEMMA GainedPairs ==
  ASSUME NEW kept \in SUBSET Securities, NEW a, NEW b, \A id \in kept : b[id] \subseteq SubTypes
  PROVE  /\ GainsOf(kept, a, b) \in SUBSET Items
         /\ \A p : p \in Pairs(GainsOf(kept, a, b))
                     <=> \E id \in kept : \E t \in b[id] \ a[id] : p = <<id, t>>
<1>1. PICK ids : ids = {k \in kept : b[k] \ a[k] # {}}
  OBVIOUS
<1>2. PICK f : f = [id \in ids |-> b[id] \ a[id]]
  OBVIOUS
<1>3. GainsOf(kept, a, b) = ItemsOf(ids, f)
  BY <1>1, <1>2 DEF ItemsOf, GainsOf
<1>4. \A p : p \in Pairs(ItemsOf(ids, f)) <=> \E id \in ids : \E t \in f[id] : p = <<id, t>>
  BY PairsOf
<1>5. ItemsOf(ids, f) \in SUBSET Items
  BY <1>1, <1>2, ItemsOfTypes
<1>6. ASSUME NEW p
      PROVE  (\E id \in ids : \E t \in f[id] : p = <<id, t>>)
               <=> \E id \in kept : \E t \in b[id] \ a[id] : p = <<id, t>>
  BY <1>1, <1>2
<1> QED
  BY <1>3, <1>4, <1>5, <1>6

(* The difference of two states asks exactly for what changes. *)
LEMMA DiffPairs ==
  ASSUME NEW old \in SubState, NEW new \in SubState, NEW d, d = DiffState(old, new)
  PROVE  /\ Pairs(d.remove_security) \union Pairs(d.del_subtypes)
              = Subscribed(old) \ Subscribed(new)
         /\ Pairs(d.add_subtypes) \union Pairs(d.add_security)
              = Subscribed(new) \ Subscribed(old)
         /\ d.remove_security \in SUBSET Items /\ d.del_subtypes \in SUBSET Items
         /\ d.add_subtypes \in SUBSET Items /\ d.add_security \in SUBSET Items
<1> DEFINE kept == DOMAIN old \intersect DOMAIN new
           asks(st, id, t) == id \in DOMAIN st /\ t \in st[id]
<1>1. /\ DOMAIN old \subseteq Securities /\ \A id \in DOMAIN old : old[id] \subseteq SubTypes
      /\ DOMAIN new \subseteq Securities /\ \A id \in DOMAIN new : new[id] \subseteq SubTypes
  BY DEF SubState
<1>2. /\ d.remove_security = ItemsOf(DOMAIN old \ DOMAIN new, old)
      /\ d.add_security = ItemsOf(DOMAIN new \ DOMAIN old, new)
      /\ d.add_subtypes = GainsOf(kept, old, new)
      /\ d.del_subtypes = GainsOf(kept, new, old)
  BY DEF DiffState, ItemsOf, GainsOf
<1>3. /\ d.remove_security \in SUBSET Items /\ d.del_subtypes \in SUBSET Items
      /\ d.add_subtypes \in SUBSET Items /\ d.add_security \in SUBSET Items
  <2>1. d.remove_security \in SUBSET Items /\ d.add_security \in SUBSET Items
    BY <1>1, <1>2, ItemsOfTypes
  <2>2. /\ kept \in SUBSET Securities
        /\ \A id \in kept : old[id] \subseteq SubTypes /\ new[id] \subseteq SubTypes
    BY <1>1
  <2> HIDE DEF kept
  <2>3. GainsOf(kept, old, new) \in SUBSET Items
    BY <2>2, GainedPairs
  <2>4. GainsOf(kept, new, old) \in SUBSET Items
    BY <2>2, GainedPairs
  <2> QED
    BY <1>2, <2>1, <2>3, <2>4
<1>4. ASSUME NEW p
      PROVE  /\ p \in Pairs(d.remove_security) <=>
                   \E id \in DOMAIN old \ DOMAIN new : \E t \in old[id] : p = <<id, t>>
             /\ p \in Pairs(d.del_subtypes) <=>
                   \E id \in kept : \E t \in old[id] \ new[id] : p = <<id, t>>
             /\ p \in Pairs(d.add_subtypes) <=>
                   \E id \in kept : \E t \in new[id] \ old[id] : p = <<id, t>>
             /\ p \in Pairs(d.add_security) <=>
                   \E id \in DOMAIN new \ DOMAIN old : \E t \in new[id] : p = <<id, t>>
  <2>1. /\ kept \in SUBSET Securities
        /\ \A id \in kept : old[id] \subseteq SubTypes /\ new[id] \subseteq SubTypes
    BY <1>1
  <2> HIDE DEF kept
  <2>2. p \in Pairs(d.remove_security) <=>
          \E id \in DOMAIN old \ DOMAIN new : \E t \in old[id] : p = <<id, t>>
    BY <1>2, PairsOf
  <2>3. p \in Pairs(d.add_security) <=>
          \E id \in DOMAIN new \ DOMAIN old : \E t \in new[id] : p = <<id, t>>
    BY <1>2, PairsOf
  <2>4. p \in Pairs(d.del_subtypes) <=>
          \E id \in kept : \E t \in old[id] \ new[id] : p = <<id, t>>
    BY <1>2, <2>1, GainedPairs
  <2>5. p \in Pairs(d.add_subtypes) <=>
          \E id \in kept : \E t \in new[id] \ old[id] : p = <<id, t>>
    BY <1>2, <2>1, GainedPairs
  <2> QED
    BY <2>2, <2>3, <2>4, <2>5
<1>5. ASSUME NEW p
      PROVE  /\ p \in Subscribed(old) <=> \E id, t : p = <<id, t>> /\ asks(old, id, t)
             /\ p \in Subscribed(new) <=> \E id, t : p = <<id, t>> /\ asks(new, id, t)
  BY SubscribedPairs
<1>6. ASSUME NEW id, NEW t
      PROVE  /\ <<id, t>> \in Subscribed(old) <=> asks(old, id, t)
             /\ <<id, t>> \in Subscribed(new) <=> asks(new, id, t)
  BY <1>5
<1> HIDE DEF kept
<1>7. /\ Pairs(d.remove_security) \union Pairs(d.del_subtypes)
           = Subscribed(old) \ Subscribed(new)
      /\ Pairs(d.add_subtypes) \union Pairs(d.add_security)
           = Subscribed(new) \ Subscribed(old)
  BY <1>4, <1>5, <1>6 DEF kept
<1> QED
  BY <1>3, <1>7

(* The phases of a full resubscription. *)
LEMMA FullPhases ==
  ASSUME TypeOK, NEW phases, phases = FullResubscribe(pending)
  PROVE  /\ Phased(phases)
         /\ LeftIn(phases, "unsub") = IF hasCurrent THEN Subscribed(current) ELSE {}
         /\ LeftIn(phases, "sub") = Subscribed(pending)
<1> DEFINE old == IF hasCurrent THEN StateItems(current) ELSE {}
<1> DEFINE new == StateItems(pending)
<1> DEFINE off == Requests("unsub", old)
<1> DEFINE on == Requests("sub", new)
<1>0. current \in SubState /\ pending \in SubState
  BY DEF TypeOK
<1>1. /\ old \in SUBSET Items /\ new \in SUBSET Items
      /\ Pairs(old) = IF hasCurrent THEN Subscribed(current) ELSE {}
      /\ Pairs(new) = Subscribed(pending)
      /\ Pairs(old) \subseteq AllPairs /\ Pairs(new) \subseteq AllPairs
  BY <1>0, SubscribedPairs DEF Subscribed, Pairs
<1> HIDE DEF old, new
<1>2. /\ off \in SUBSET Request /\ on \in SUBSET Request
      /\ \A r \in off : r.op = "unsub"
      /\ \A r \in on : r.op = "sub"
      /\ \A p : (\E r \in off : p \in About(r)) <=> p \in Pairs(old)
      /\ \A p : (\E r \in on : p \in About(r)) <=> p \in Pairs(new)
  BY <1>1, RequestTypes
<1>3. phases = <<off, on>>
  BY DEF FullResubscribe, old, new
<1> HIDE DEF off, on
<1>4. phases \in Seq(SUBSET Request) /\ DOMAIN phases = 1..2 /\ phases[1] = off /\ phases[2] = on
  BY <1>2, <1>3
<1>5. Phased(phases)
  BY <1>2, <1>4 DEF Phased
<1>6. /\ LeftIn(phases, "unsub") = Pairs(old)
      /\ LeftIn(phases, "sub") = Pairs(new)
  BY <1>1, <1>2, <1>4 DEF LeftIn
<1> QED
  BY <1>1, <1>5, <1>6

(* The phases of a diff. *)
LEMMA DiffPhases ==
  ASSUME TypeOK, NEW phases, phases = ExecuteDiff(current, pending)
  PROVE  /\ Phased(phases)
         /\ LeftIn(phases, "unsub") = Subscribed(current) \ Subscribed(pending)
         /\ LeftIn(phases, "sub") = Subscribed(pending) \ Subscribed(current)
<1> DEFINE d == DiffState(current, pending)
<1> DEFINE off == Requests("unsub", d.remove_security)
<1> DEFINE less == Requests("unsub", d.del_subtypes)
<1> DEFINE more == Requests("sub", d.add_subtypes)
<1> DEFINE on == Requests("sub", d.add_security)
<1>0. current \in SubState /\ pending \in SubState
  BY DEF TypeOK
<1>1. phases = <<off, less, more, on>>
  BY DEF ExecuteDiff
<1> HIDE DEF d
<1>2. /\ Pairs(d.remove_security) \union Pairs(d.del_subtypes)
           = Subscribed(current) \ Subscribed(pending)
      /\ Pairs(d.add_subtypes) \union Pairs(d.add_security)
           = Subscribed(pending) \ Subscribed(current)
      /\ d.remove_security \in SUBSET Items /\ d.del_subtypes \in SUBSET Items
      /\ d.add_subtypes \in SUBSET Items /\ d.add_security \in SUBSET Items
  BY <1>0, DiffPairs DEF d
<1>3. /\ off \in SUBSET Request /\ less \in SUBSET Request
      /\ \A r \in off : r.op = "unsub"
      /\ \A r \in less : r.op = "unsub"
      /\ \A p : (\E r \in off : p \in About(r)) <=> p \in Pairs(d.remove_security)
      /\ \A p : (\E r \in less : p \in About(r)) <=> p \in Pairs(d.del_subtypes)
  BY <1>2, RequestTypes
<1>4. /\ more \in SUBSET Request /\ on \in SUBSET Request
      /\ \A r \in more : r.op = "sub"
      /\ \A r \in on : r.op = "sub"
      /\ \A p : (\E r \in more : p \in About(r)) <=> p \in Pairs(d.add_subtypes)
      /\ \A p : (\E r \in on : p \in About(r)) <=> p \in Pairs(d.add_security)
  BY <1>2, RequestTypes
<1> HIDE DEF off, less, more, on
<1>5. /\ phases \in Seq(SUBSET Request) /\ DOMAIN phases = 1..4
      /\ phases[1] = off /\ phases[2] = less /\ phases[3] = more /\ phases[4] = on
  BY <1>1, <1>3, <1>4
<1>6. \A k \in 1..4 : k = 1 \/ k = 2 \/ k = 3 \/ k = 4
  OBVIOUS
<1>7. Phased(phases)
  <2> SUFFICES ASSUME NEW k \in 1..4, NEW l \in 1..4, k <= l,
                      NEW r \in phases[k], NEW q \in phases[l], r.op = "sub"
               PROVE  q.op = "sub"
    BY <1>5 DEF Phased
  <2>1. k \in {3, 4}
    BY <1>3, <1>5, <1>6
  <2>2. l \in {3, 4}
    BY <2>1
  <2> QED
    BY <1>4, <1>5, <2>2
<1>8. Subscribed(current) \subseteq AllPairs /\ Subscribed(pending) \subseteq AllPairs
  BY <1>0, SubscribedPairs
<1>9. ASSUME NEW p \in AllPairs
      PROVE  /\ p \in LeftIn(phases, "unsub") <=> p \in Subscribed(current) \ Subscribed(pending)
             /\ p \in LeftIn(phases, "sub") <=> p \in Subscribed(pending) \ Subscribed(current)
  <2>1. p \in LeftIn(phases, "unsub")
          <=> (\E r \in off : p \in About(r)) \/ (\E r \in less : p \in About(r))
    BY <1>3, <1>4, <1>5, <1>6 DEF LeftIn
  <2>2. p \in LeftIn(phases, "sub")
          <=> (\E r \in more : p \in About(r)) \/ (\E r \in on : p \in About(r))
    BY <1>3, <1>4, <1>5, <1>6 DEF LeftIn
  <2> QED
    BY <1>2, <1>3, <1>4, <2>1, <2>2
<1>10. \A op : LeftIn(phases, op) \subseteq AllPairs
  BY DEF LeftIn
<1> QED
  BY <1>7, <1>8, <1>9, <1>10

(* Going on to the next phase leaves nothing out. *)
LEMMA NextPhaseLeft ==
  ASSUME NEW phases, Phased(phases), phases # << >>, Head(phases) = {},
         NEW rest, rest = Tail(phases)
  PROVE  /\ Phased(rest)
         /\ \A op : LeftIn(rest, op) = LeftIn(phases, op)
<1>1. phases \in Seq(SUBSET Request)
  BY DEF Phased
<1>2. /\ rest \in Seq(SUBSET Request) /\ DOMAIN phases = 1..Len(phases)
      /\ Len(phases) \in Nat /\ Len(phases) > 0
      /\ Len(rest) = Len(phases) - 1 /\ DOMAIN rest = 1..Len(rest)
      /\ \A k \in DOMAIN rest : rest[k] = phases[k + 1]
      /\ phases[1] = {}
  BY <1>1
<1>3. \A k \in DOMAIN rest : k + 1 \in DOMAIN phases
  BY <1>2
<1>4. \A k, l \in DOMAIN rest : k <= l => k + 1 <= l + 1
  BY <1>2
<1>5. Phased(rest)
  BY <1>2, <1>3, <1>4 DEF Phased
<1>6. \A k \in DOMAIN phases : k = 1 \/ (k - 1 \in DOMAIN rest /\ rest[k - 1] = phases[k])
  BY <1>2
<1>7. ASSUME NEW op PROVE LeftIn(rest, op) = LeftIn(phases, op)
  <2>1. ASSUME NEW k \in DOMAIN phases, NEW r \in phases[k]
        PROVE  \E l \in DOMAIN rest : r \in rest[l]
    BY <1>2, <1>6
  <2>2. ASSUME NEW k \in DOMAIN rest, NEW r \in rest[k]
        PROVE  \E l \in DOMAIN phases : r \in phases[l]
    BY <1>2, <1>3
  <2> QED
    BY <2>1, <2>2 DEF LeftIn
<1> QED
  BY <1>5, <1>7

(* Sending a request takes what it is about, and nothing else, off what is
   left; when it subscribes, nothing is left to unsubscribe. *)
LEMMA SendLeft ==
  ASSUME NEW phases, Phased(phases), phases # << >>, NEW request \in Head(phases),
         NEW rest, rest = <<Head(phases) \ {request}>> \o Tail(phases)
  PROVE  /\ Phased(rest)
         /\ request \in Request
         /\ About(request) \subseteq LeftIn(phases, request.op)
         /\ \A op : LeftIn(rest, op) \subseteq LeftIn(phases, op)
         /\ \A op : LeftIn(phases, op) \subseteq LeftIn(rest, op) \union About(request)
         /\ \A op : op # request.op => LeftIn(rest, op) = LeftIn(phases, op)
         /\ request.op = "sub" => LeftIn(phases, "unsub") = {}
<1> DEFINE first == Head(phases) \ {request}
<1>1. phases \in Seq(SUBSET Request)
  BY DEF Phased
<1>2. /\ DOMAIN phases = 1..Len(phases) /\ Len(phases) \in Nat /\ Len(phases) > 0
      /\ phases[1] = Head(phases) /\ phases[1] \in SUBSET Request /\ 1 \in DOMAIN phases
      /\ Tail(phases) \in Seq(SUBSET Request) /\ Len(Tail(phases)) = Len(phases) - 1
      /\ \A k \in 1..Len(Tail(phases)) : Tail(phases)[k] = phases[k + 1]
  BY <1>1
<1>3. first \in SUBSET Request
  BY <1>2
<1>4. /\ rest \in Seq(SUBSET Request) /\ DOMAIN rest = DOMAIN phases
      /\ rest[1] = first
      /\ \A k \in DOMAIN phases : k # 1 => rest[k] = phases[k]
  <2> DEFINE t == Tail(phases)
             h == <<first>>
  <2>1. t \in Seq(SUBSET Request) /\ Len(t) = Len(phases) - 1
    BY <1>2
  <2> HIDE DEF first
  <2>2. h \in Seq(SUBSET Request) /\ Len(h) = 1 /\ h[1] = first
    BY <1>3
  <2>3. rest = h \o t
    BY DEF first
  <2> HIDE DEF h
  <2>4. \A k \in 1..Len(t) : t[k] = phases[k + 1]
    BY <1>2
  <2> HIDE DEF t
  <2>5. /\ h \o t \in Seq(SUBSET Request) /\ Len(h \o t) = Len(h) + Len(t)
        /\ \A k \in 1..Len(h) + Len(t) :
             (h \o t)[k] = IF k <= Len(h) THEN h[k] ELSE t[k - Len(h)]
    BY <2>1, <2>2, ConcatProperties
  <2>6. /\ rest \in Seq(SUBSET Request) /\ Len(rest) = Len(phases)
        /\ rest[1] = first
        /\ \A k \in 1..Len(rest) : k # 1 => rest[k] = t[k - 1]
    BY <1>2, <2>1, <2>2, <2>3, <2>5
  <2>7. ASSUME NEW k \in DOMAIN phases, k # 1
        PROVE  rest[k] = phases[k]
    <3>1. k - 1 \in 1..Len(t) /\ k \in 1..Len(rest) /\ (k - 1) + 1 = k
      BY <1>2, <2>1, <2>6, <2>7
    <3> QED
      BY <2>4, <2>6, <2>7, <3>1
  <2> QED
    BY <1>2, <2>6, <2>7
<1>5. \A k \in DOMAIN rest : rest[k] \subseteq phases[k]
  BY <1>2, <1>4
<1>6. Phased(rest)
  BY <1>4, <1>5 DEF Phased
<1>7. request \in Request /\ About(request) \subseteq AllPairs
  BY <1>2 DEF Request, About, AllPairs
<1>8. About(request) \subseteq LeftIn(phases, request.op)
  BY <1>2, <1>7 DEF LeftIn
<1>9. \A op : LeftIn(rest, op) \subseteq LeftIn(phases, op)
  BY <1>4, <1>5 DEF LeftIn
<1>10. \A k \in DOMAIN phases : \A r \in phases[k] : r = request \/ r \in rest[k]
  BY <1>2, <1>4
<1>11. \A op : LeftIn(phases, op) \subseteq LeftIn(rest, op) \union About(request)
  BY <1>4, <1>10 DEF LeftIn
<1>12. ASSUME NEW op, op # request.op PROVE LeftIn(rest, op) = LeftIn(phases, op)
  BY <1>4, <1>9, <1>10, <1>12 DEF LeftIn
<1>13. ASSUME request.op = "sub" PROVE LeftIn(phases, "unsub") = {}
  <2>1. \A l \in DOMAIN phases : \A q \in phases[l] : 1 <= l => q.op = "sub"
    BY <1>2, <1>13 DEF Phased
  <2>2. \A l \in DOMAIN phases : 1 <= l
    BY <1>2
  <2> QED
    BY <2>1, <2>2 DEF LeftIn
<1> QED
  BY <1>6, <1>7, <1>8, <1>9, <1>11, <1>12, <1>13

-----------------------------------------------------------------------------
(* Every variable stays within its range. *)
LEMMA TypeStep ==
  ASSUME TypeOK, TodoInv, NothingElse, [Next]_vars
  PROVE  TypeOK'
<1> USE FilesAssumption, BoundsAssumption DEF TypeOK
<1>1. CASE Connect
  <2>1. connects' \in 0..MaxConnects
    BY <1>1 DEF Connect
  <2>2. UNCHANGED <<rejects, file, mtime, usedTimes, force, pc, isConnected, wantForce, readTime,
                    lastTime, current, hasCurrent, pending, hasPending, full>>
    BY <1>1 DEF Connect, disk, cycle, state, sending
  <2>3. /\ up' \in BOOLEAN /\ serverSubs' = {} /\ callback' = "on_connected"
        /\ connected' \in BOOLEAN /\ lossy' \in BOOLEAN /\ raced' \in BOOLEAN
    BY <1>1 DEF Connect
  <2> QED
    BY <2>1, <2>2, <2>3
<1>2. CASE SetForce
  BY <1>2 DEF SetForce, disk, cycle, state, sending
<1>3. CASE ConnectFails
  BY <1>3 DEF ConnectFails, session, disk, cycle, state, sending, history
<1>4. CASE Disconnect
  BY <1>4 DEF Disconnect, disk, atomics, cycle, state, sending, history
<1>5. CASE EditFile
  BY <1>5 DEF EditFile, session, atomics, cycle, state, sending, history
<1>6. CASE ReadConnected
  BY <1>6 DEF ReadConnected, session, disk, atomics, state, sending, history
<1>7. CASE ReadForce
  BY <1>7 DEF ReadForce, session, disk, atomics, state, sending, history
<1>8. CASE Due(TRUE) \/ Due(FALSE)
  <2>1. UNCHANGED <<session, disk, atomics, state, sending, history>>
    BY <1>8 DEF Due
  <2>2. /\ {isConnected', wantForce'} \subseteq BOOLEAN /\ readTime' \in Times
        /\ pc = "poll" /\ pc' \in {"mtime", "connected"}
    BY <1>8 DEF Due, NextTurn, cycle
  <2> QED
    BY <2>1, <2>2 DEF session, disk, atomics, state, sending, history
<1>9. CASE ReadMtime
  BY <1>9 DEF ReadMtime, session, disk, atomics, state, sending, history
<1>10. CASE SameMtime
  BY <1>10 DEF SameMtime, NotLoaded, session, disk, atomics, cycle, sending, history
<1>11. CASE LoadFails
  BY <1>11 DEF LoadFails, NotLoaded, session, disk, atomics, cycle, sending, history
<1>12. CASE LoadSame
  BY <1>12 DEF LoadSame, NotLoaded, session, disk, atomics, cycle, sending, history
<1>13. CASE LoadChanged
  BY <1>13 DEF LoadChanged, session, disk, atomics, cycle, sending, history
<1>14. CASE TakeForce
  BY <1>14 DEF TakeForce, session, disk, cycle, state, history
<1>15. CASE NextPhase
  BY <1>15 DEF NextPhase, session, disk, atomics, cycle, state, history
<1>16. CASE SendNext
  <2>1. PICK request \in Head(todo) :
          todo # << >> /\ (Served(request) \/ Rejected(request) \/ NotSent(request))
    BY <1>16 DEF SendNext
  <2>2. request \in Request
    BY <2>1, SendLeft DEF TodoInv
  <2>3. Pairs({request.item}) \subseteq Securities \X SubTypes
    BY <2>2 DEF Request, Pairs
  <2>4. CASE Served(request)
    BY <2>3, <2>4 DEF Served, Send, disk, atomics, cycle, state
  <2>5. CASE Rejected(request)
    BY <2>5 DEF Rejected, Send, disk, atomics, cycle, state
  <2>6. CASE NotSent(request)
    BY <2>6 DEF NotSent, Send, disk, atomics, cycle, state
  <2> QED
    BY <2>1, <2>4, <2>5, <2>6
<1>17. CASE Commit
  BY <1>17 DEF Commit, session, disk, atomics, cycle, history
<1>18. CASE ClearForce
  BY <1>18 DEF ClearForce, NextTurn, session, disk, state, sending, history
<1>19. CASE UNCHANGED vars
  BY <1>19 DEF vars, session, disk, atomics, cycle, state, sending, history
<1> HIDE DEF TypeOK
<1> QED
  BY <1>1, <1>2, <1>3, <1>4, <1>5, <1>6, <1>7, <1>8, <1>9, <1>10, <1>11, <1>12, <1>13, <1>14,
     <1>15, <1>16, <1>17, <1>18, <1>19 DEF Next, Environment, Run

(* What sending a request does to the server and to what is left. *)
LEMMA SendEffect ==
  ASSUME TodoInv, SendNext
  PROVE  \E request \in Request :
           /\ pc = "send" /\ pc' = "send" /\ Phased(todo')
           /\ UNCHANGED <<up, callback, force, wantForce, current, hasCurrent, pending, full,
                          raced>>
           /\ About(request) \subseteq Left(request.op)
           /\ Left("unsub")' \subseteq Left("unsub") /\ Left("sub")' \subseteq Left("sub")
           /\ \A op \in {"unsub", "sub"} :
                Left(op) \subseteq Left(op)' \union (IF request.op = op THEN About(request) ELSE {})
           /\ request.op = "sub" => Left("unsub") = {}
           /\ request.op \in {"unsub", "sub"}
           /\ \/ /\ up /\ UNCHANGED lossy
                 /\ serverSubs' = IF request.op = "sub" THEN serverSubs \union About(request)
                                                       ELSE serverSubs \ About(request)
              \/ up /\ lossy' /\ UNCHANGED serverSubs
              \/ ~up /\ UNCHANGED <<serverSubs, lossy>>
<1>1. PICK request \in Head(todo) :
        todo # << >> /\ (Served(request) \/ Rejected(request) \/ NotSent(request))
  BY DEF SendNext
<1>2. /\ Send(request)
      /\ todo' = <<Head(todo) \ {request}>> \o Tail(todo)
  BY <1>1 DEF Served, Rejected, NotSent, Send
<1>3. /\ Phased(todo')
      /\ request \in Request
      /\ About(request) \subseteq LeftIn(todo, request.op)
      /\ \A op : LeftIn(todo', op) \subseteq LeftIn(todo, op)
      /\ \A op : LeftIn(todo, op) \subseteq LeftIn(todo', op) \union About(request)
      /\ \A op : op # request.op => LeftIn(todo', op) = LeftIn(todo, op)
      /\ request.op = "sub" => LeftIn(todo, "unsub") = {}
  <2> DEFINE rest == <<Head(todo) \ {request}>> \o Tail(todo)
  <2>1. todo' = rest
    BY <1>2
  <2> HIDE DEF rest
  <2>2. Phased(todo)
    BY DEF TodoInv
  <2>3. /\ Phased(rest)
        /\ request \in Request
        /\ About(request) \subseteq LeftIn(todo, request.op)
        /\ \A op : LeftIn(rest, op) \subseteq LeftIn(todo, op)
        /\ \A op : LeftIn(todo, op) \subseteq LeftIn(rest, op) \union About(request)
        /\ \A op : op # request.op => LeftIn(rest, op) = LeftIn(todo, op)
        /\ request.op = "sub" => LeftIn(todo, "unsub") = {}
    BY <1>1, <2>2, SendLeft DEF rest
  <2> QED
    BY <2>1, <2>3
<1>4. Pairs({request.item}) = About(request)
  BY DEF Pairs, About
<1>5. /\ pc = "send" /\ pc' = "send"
      /\ UNCHANGED <<up, callback, force, wantForce, current, hasCurrent, pending, full, raced>>
  BY <1>2 DEF Send, atomics, cycle, state
<1>6. \/ /\ up /\ UNCHANGED lossy
         /\ serverSubs' = IF request.op = "sub" THEN serverSubs \union About(request)
                                               ELSE serverSubs \ About(request)
      \/ up /\ lossy' /\ UNCHANGED serverSubs
      \/ ~up /\ UNCHANGED <<serverSubs, lossy>>
  BY <1>1, <1>4 DEF Served, Rejected, NotSent
<1>7. request.op \in {"unsub", "sub"}
  BY <1>3 DEF Request
<1>8. \A op \in {"unsub", "sub"} :
        Left(op) \subseteq Left(op)' \union (IF request.op = op THEN About(request) ELSE {})
  BY <1>3, <1>7 DEF Left
<1>9. /\ About(request) \subseteq Left(request.op)
      /\ Left("unsub")' \subseteq Left("unsub") /\ Left("sub")' \subseteq Left("sub")
      /\ request.op = "sub" => Left("unsub") = {}
  BY <1>3 DEF Left
<1> QED
  BY <1>3, <1>5, <1>6, <1>7, <1>8, <1>9

(* What going on to the next phase does. *)
LEMMA NextPhaseEffect ==
  ASSUME TodoInv, NextPhase
  PROVE  Phased(todo') /\ Left("unsub")' = Left("unsub") /\ Left("sub")' = Left("sub")
<1>1. Phased(todo) /\ todo # << >> /\ Head(todo) = {} /\ todo' = Tail(todo)
  BY DEF TodoInv, NextPhase
<1> DEFINE rest == Tail(todo)
<1>2. Phased(rest) /\ \A op : LeftIn(rest, op) = LeftIn(todo, op)
  BY <1>1, NextPhaseLeft
<1> QED
  BY <1>1, <1>2 DEF Left

(* What taking the flag does. *)
LEMMA TakeForceEffect ==
  ASSUME TypeOK, TakeForce
  PROVE  /\ Phased(todo') /\ pc = "apply" /\ pc' = "send" /\ force' = FALSE
         /\ UNCHANGED <<up, serverSubs, callback, wantForce, current, hasCurrent, pending, lossy,
                        raced>>
         /\ full' = (force \/ ~hasCurrent)
         /\ full' => /\ Left("unsub")' = IF hasCurrent THEN Subscribed(current) ELSE {}
                     /\ Left("sub")' = Subscribed(pending)
         /\ ~full' => /\ Left("unsub")' = Subscribed(current) \ Subscribed(pending)
                      /\ Left("sub")' = Subscribed(pending) \ Subscribed(current)
<1>1. /\ pc = "apply" /\ pc' = "send" /\ force' = FALSE
      /\ UNCHANGED <<up, serverSubs, callback, wantForce, current, hasCurrent, pending, lossy,
                     raced>>
      /\ full' = (force \/ ~hasCurrent)
      /\ todo' = IF full' THEN FullResubscribe(pending) ELSE ExecuteDiff(current, pending)
  BY DEF TakeForce, session, cycle, state, history
<1>2. CASE full'
  <2> DEFINE phases == FullResubscribe(pending)
  <2>1. /\ Phased(phases)
        /\ LeftIn(phases, "unsub") = IF hasCurrent THEN Subscribed(current) ELSE {}
        /\ LeftIn(phases, "sub") = Subscribed(pending)
    BY FullPhases
  <2>2. todo' = phases
    BY <1>1, <1>2
  <2> HIDE DEF phases
  <2> QED
    BY <1>1, <1>2, <2>1, <2>2 DEF Left
<1>3. CASE ~full'
  <2> DEFINE phases == ExecuteDiff(current, pending)
  <2>1. /\ Phased(phases)
        /\ LeftIn(phases, "unsub") = Subscribed(current) \ Subscribed(pending)
        /\ LeftIn(phases, "sub") = Subscribed(pending) \ Subscribed(current)
    BY DiffPhases
  <2>2. todo' = phases
    BY <1>1, <1>3
  <2> HIDE DEF phases
  <2> QED
    BY <1>1, <1>3, <2>1, <2>2 DEF Left
<1> QED
  BY <1>2, <1>3

(* The other steps leave the requests alone. *)
Quiet ==
  \/ Environment
  \/ ReadConnected \/ ReadForce \/ Due(TRUE) \/ Due(FALSE) \/ ReadMtime \/ SameMtime
  \/ LoadFails \/ LoadSame \/ LoadChanged \/ Commit \/ ClearForce
  \/ UNCHANGED vars

LEMMA QuietEffect ==
  ASSUME Quiet
  PROVE  UNCHANGED todo /\ (pc = "send" <=> pc' = "send" \/ Commit)
<1> USE DEF session, disk, atomics, cycle, state, sending, history
<1>1. CASE Connect \/ SetForce \/ ConnectFails \/ Disconnect \/ EditFile
  BY <1>1 DEF Connect, SetForce, ConnectFails, Disconnect, EditFile, Commit
<1>2. CASE ReadConnected \/ ReadForce \/ ReadMtime
  BY <1>2 DEF ReadConnected, ReadForce, ReadMtime, Commit
<1>3. CASE Due(TRUE) \/ Due(FALSE)
  <2>1. pc = "poll" /\ pc' # "send" /\ UNCHANGED todo
    BY <1>3 DEF Due, NextTurn
  <2> QED
    BY <2>1 DEF Commit
<1>4. CASE SameMtime \/ LoadFails \/ LoadSame \/ LoadChanged
  BY <1>4 DEF SameMtime, LoadFails, LoadSame, LoadChanged, NotLoaded, Commit
<1>5. CASE Commit \/ ClearForce
  BY <1>5 DEF Commit, ClearForce, NextTurn
<1>6. CASE UNCHANGED vars
  BY <1>6 DEF vars, Commit
<1> QED
  BY <1>1, <1>2, <1>3, <1>4, <1>5, <1>6 DEF Quiet, Environment

LEMMA Cases == ASSUME [Next]_vars PROVE Quiet \/ TakeForce \/ NextPhase \/ SendNext
BY DEF Next, Run, Quiet

(* Nothing is left of no phases, and no state asks for nothing. *)
LEMMA NothingLeft == ASSUME todo = << >> PROVE Left("unsub") = {} /\ Left("sub") = {}
BY DEF Left, LeftIn

LEMMA EmptyStateSubscribed == EmptyState \in SubState /\ Subscribed(EmptyState) = {}
<1>1. EmptyState \in SubState
  BY DEF EmptyState, SubState
<1>2. DOMAIN EmptyState = {}
  BY DEF EmptyState
<1> QED
  BY <1>1, <1>2, SubscribedPairs

(* Between two cycles no requests are left, and those that are left come in
   their order. *)
LEMMA TodoStep ==
  ASSUME TypeOK, TodoInv, [Next]_vars
  PROVE  TodoInv'
<1>1. CASE Quiet
  <2>1. UNCHANGED todo /\ (pc = "send" <=> pc' = "send" \/ Commit)
    BY <1>1, QuietEffect
  <2>2. Commit => todo = << >>
    BY DEF Commit
  <2> QED
    BY <2>1, <2>2 DEF TodoInv
<1>2. CASE TakeForce
  BY <1>2, TakeForceEffect DEF TodoInv
<1>3. CASE NextPhase
  BY <1>3, NextPhaseEffect DEF TodoInv, NextPhase
<1>4. CASE SendNext
  BY <1>4, SendEffect DEF TodoInv
<1> QED
  BY <1>1, <1>2, <1>3, <1>4, Cases

(* What the requests of a diff unsubscribe is not to stay. *)
LEMMA DiffStep ==
  ASSUME TypeOK, TodoInv, DiffInv, [Next]_vars
  PROVE  DiffInv'
<1>1. CASE Quiet
  <2>1. CASE pc' = "send"
    <3>1. UNCHANGED todo /\ pc = "send"
      BY <1>1, <2>1, QuietEffect
    <3>2. UNCHANGED <<pending, full>>
      BY <1>1, <2>1, <3>1 DEF Quiet, Environment, Connect, SetForce, ConnectFails, Disconnect,
         EditFile,
         ReadConnected, ReadForce, Due, ReadMtime, SameMtime, LoadFails, LoadSame, LoadChanged,
             Commit,
         ClearForce, vars, state, sending
    <3> QED
      BY <3>1, <3>2 DEF DiffInv, Left
  <2> QED
    BY <2>1 DEF DiffInv
<1>2. CASE TakeForce
  BY <1>2, TakeForceEffect DEF DiffInv
<1>3. CASE NextPhase
  <2>1. UNCHANGED <<pc, pending, full>>
    BY <1>3 DEF NextPhase, state
  <2> QED
    BY <1>3, <2>1, NextPhaseEffect DEF DiffInv
<1>4. CASE SendNext
  BY <1>4, SendEffect DEF DiffInv
<1> QED
  BY <1>1, <1>2, <1>3, <1>4, Cases

(* The flag is not lost unnoticed. *)
LEMMA WindowStep ==
  ASSUME TypeOK, TodoInv, WindowInv, [Next]_vars
  PROVE  WindowInv'
<1> USE DEF WindowInv
<1>1. CASE Connect \/ SetForce
  BY <1>1 DEF Connect, SetForce, cycle, state, TypeOK
<1>2. CASE ConnectFails \/ Disconnect \/ EditFile
  BY <1>2 DEF ConnectFails, Disconnect, EditFile, session, atomics, cycle, state, history
<1>3. CASE ReadConnected \/ ReadForce \/ ReadMtime
  BY <1>3 DEF ReadConnected, ReadForce, ReadMtime
<1>4. CASE Due(TRUE) \/ Due(FALSE)
  <2>1. pc' \in {"mtime", "connected"}
    BY <1>4 DEF Due, NextTurn
  <2> QED
    BY <2>1
<1>5. CASE SameMtime \/ LoadFails \/ LoadSame
  BY <1>5 DEF SameMtime, LoadFails, LoadSame, NotLoaded, session, atomics, cycle, history
<1>6. CASE LoadChanged
  BY <1>6 DEF LoadChanged
<1>7. CASE TakeForce
  BY <1>7 DEF TakeForce
<1>8. CASE NextPhase
  BY <1>8 DEF NextPhase, session, atomics, cycle, state, history
<1>9. CASE SendNext
  BY <1>9, SendEffect
<1>10. CASE Commit
  BY <1>10 DEF Commit, session, atomics, cycle, history
<1>11. CASE ClearForce
  BY <1>11 DEF ClearForce, NextTurn
<1>12. CASE UNCHANGED vars
  BY <1>12 DEF vars, session, atomics, cycle, state, history
<1> QED
  BY <1>1, <1>2, <1>3, <1>4, <1>5, <1>6, <1>7, <1>8, <1>9, <1>10, <1>11, <1>12
     DEF Next, Environment, Run

(* The steps of run() that only read, wait or load. *)
Looking ==
  \/ ConnectFails \/ EditFile
  \/ ReadConnected \/ ReadForce \/ Due(TRUE) \/ Due(FALSE) \/ ReadMtime \/ SameMtime
  \/ LoadFails \/ LoadSame \/ LoadChanged
  \/ UNCHANGED vars

LEMMA LookingEffect ==
  ASSUME Looking
  PROVE  /\ UNCHANGED <<up, serverSubs, callback, force, current, hasCurrent, lossy, raced, todo>>
         /\ pc' = "send" <=> pc = "send"
         /\ pc = "send" => UNCHANGED pending
<1> USE DEF session, disk, atomics, cycle, state, sending, history
<1>1. CASE ConnectFails \/ EditFile
  BY <1>1 DEF ConnectFails, EditFile
<1>2. CASE ReadConnected \/ ReadForce \/ ReadMtime
  BY <1>2 DEF ReadConnected, ReadForce, ReadMtime
<1>3. CASE Due(TRUE) \/ Due(FALSE)
  <2>1. pc = "poll" /\ pc' # "send"
    BY <1>3 DEF Due, NextTurn
  <2>2. UNCHANGED <<session, disk, atomics, state, sending, history>>
    BY <1>3 DEF Due
  <2> QED
    BY <2>1, <2>2
<1>4. CASE SameMtime \/ LoadFails \/ LoadSame \/ LoadChanged
  <2>1. pc \in {"mtime", "load"} /\ pc' # "send"
    BY <1>4 DEF SameMtime, LoadFails, LoadSame, LoadChanged, NotLoaded
  <2>2. UNCHANGED <<session, disk, atomics, current, hasCurrent, sending, history>>
    BY <1>4 DEF SameMtime, LoadFails, LoadSame, LoadChanged
  <2> QED
    BY <2>1, <2>2
<1>5. CASE UNCHANGED vars
  BY <1>5 DEF vars
<1> QED
  BY <1>1, <1>2, <1>3, <1>4, <1>5 DEF Looking

(* What is left to send changes with the phases only. *)
LEMMA LeftUnchanged ==
  ASSUME UNCHANGED todo
  PROVE  UNCHANGED <<Left("unsub"), Left("sub")>>
BY DEF Left

LEMMA OtherCases ==
  ASSUME [Next]_vars
  PROVE  \/ Connect \/ SetForce \/ Disconnect
         \/ Looking
         \/ TakeForce \/ NextPhase \/ SendNext \/ Commit \/ ClearForce
BY DEF Next, Environment, Run, Looking

(* The server pushes nothing else. *)
LEMMA ElseStep ==
  ASSUME TypeOK, TodoInv, NothingElse, [Next]_vars
  PROVE  NothingElse'
<1> USE DEF NothingElse
<1>1. CASE Connect \/ Disconnect
  <2>1. serverSubs' = {} /\ UNCHANGED <<pc, current, hasCurrent, pending, todo>>
    BY <1>1 DEF Connect, Disconnect, state, sending
  <2> QED
    BY <2>1, LeftUnchanged
<1>2. CASE SetForce
  <2>1. UNCHANGED <<up, serverSubs, pc, current, hasCurrent, pending, todo, lossy>>
    BY <1>2 DEF SetForce, state, sending
  <2> QED
    BY <2>1, LeftUnchanged
<1>3. CASE Looking
  BY <1>3, LookingEffect, LeftUnchanged
<1>4. CASE TakeForce
  <2>1. pc # "send"
    BY <1>4 DEF TakeForce
  <2>2. CASE ~full' \/ hasCurrent
    BY <1>4, <2>1, <2>2, TakeForceEffect
  <2>3. CASE full' /\ ~hasCurrent
    BY <1>4, <2>1, <2>3, TakeForceEffect, EmptyStateSubscribed
  <2> QED
    BY <2>2, <2>3
<1>5. CASE NextPhase
  <2>1. UNCHANGED <<up, serverSubs, pc, current, hasCurrent, pending, lossy>>
    BY <1>5 DEF NextPhase, session, state, history
  <2> QED
    BY <1>5, <2>1, NextPhaseEffect
<1>6. CASE SendNext
  <2>1. PICK request \in Request :
           /\ pc = "send" /\ pc' = "send"
           /\ UNCHANGED <<up, current, hasCurrent, pending>>
           /\ About(request) \subseteq Left(request.op)
           /\ Left("unsub")' \subseteq Left("unsub") /\ Left("sub")' \subseteq Left("sub")
           /\ Left("unsub") \subseteq
                Left("unsub")' \union (IF request.op = "unsub" THEN About(request) ELSE {})
           /\ request.op = "sub" => Left("unsub") = {}
           /\ request.op \in {"unsub", "sub"}
           /\ \/ /\ up /\ UNCHANGED lossy
                 /\ serverSubs' = IF request.op = "sub" THEN serverSubs \union About(request)
                                                       ELSE serverSubs \ About(request)
              \/ up /\ lossy' /\ UNCHANGED serverSubs
              \/ ~up /\ UNCHANGED <<serverSubs, lossy>>
    BY <1>6, SendEffect
  <2>2. ~up' => serverSubs' = {}
    BY <2>1
  <2>3. Left("sub")' \subseteq Subscribed(pending')
    BY <2>1
  <2>4. ASSUME ~lossy' PROVE serverSubs' \subseteq Subscribed(pending') \union Left("unsub")'
    BY <2>1, <2>4
  <2> QED
    BY <2>1, <2>2, <2>3, <2>4
<1>7. CASE Commit
  <2>1. /\ pc = "send" /\ todo = << >> /\ pc' # "send" /\ current' = pending /\ hasCurrent'
        /\ UNCHANGED <<up, serverSubs, lossy>>
    BY <1>7 DEF Commit, session, history
  <2> QED
    BY <2>1, NothingLeft
<1>8. CASE ClearForce
  <2>1. /\ pc # "send" /\ pc' # "send"
        /\ UNCHANGED <<up, serverSubs, current, hasCurrent, lossy>>
    BY <1>8 DEF ClearForce, NextTurn, session, state, history
  <2> QED
    BY <2>1
<1> QED
  BY <1>1, <1>2, <1>3, <1>4, <1>5, <1>6, <1>7, <1>8, OtherCases

(* Nothing is missing once the flag of the connection has been taken. *)
LEMMA MissingStep ==
  ASSUME TypeOK, TodoInv, WindowInv, NothingElse, NothingMissing, [Next]_vars
  PROVE  NothingMissing'
<1> USE DEF NothingMissing, Taken
<1>1. CASE Connect \/ SetForce \/ Disconnect
  <2>1. ~Taken'
    BY <1>1 DEF Connect, SetForce, Disconnect
  <2> QED
    BY <2>1
<1>2. CASE Looking
  BY <1>2, LookingEffect, LeftUnchanged
<1>3. CASE TakeForce
  <2>1. pc # "send"
    BY <1>3 DEF TakeForce
  <2>2. CASE full'
    BY <1>3, <2>2, TakeForceEffect
  <2>3. CASE ~full'
    <3>1. ~force
      BY <1>3, <2>3 DEF TakeForce
    <3> QED
      BY <1>3, <2>1, <2>3, <3>1, TakeForceEffect
  <2> QED
    BY <2>2, <2>3
<1>4. CASE NextPhase
  <2>1. UNCHANGED <<up, serverSubs, callback, force, pc, current, pending, lossy, raced>>
    BY <1>4 DEF NextPhase, session, atomics, state, history
  <2> QED
    BY <1>4, <2>1, NextPhaseEffect
<1>5. CASE SendNext
  BY <1>5, SendEffect
<1>6. CASE Commit
  <2>1. /\ pc = "send" /\ todo = << >> /\ pc' # "send" /\ current' = pending
        /\ UNCHANGED <<up, serverSubs, callback, force, lossy, raced>>
    BY <1>6 DEF Commit, session, atomics, history
  <2> QED
    BY <2>1, NothingLeft
<1>7. CASE ClearForce
  <2>1. /\ pc = "clear" /\ pc' # "send"
        /\ UNCHANGED <<up, serverSubs, callback, current, lossy, raced>>
    BY <1>7 DEF ClearForce, NextTurn, session, state, history
  <2>2. CASE force /\ wantForce /\ hasCurrent
    <3>1. ~Taken'
      BY <2>1, <2>2 DEF WindowInv
    <3> QED
      BY <3>1
  <2>3. CASE ~(force /\ wantForce /\ hasCurrent)
    <3>1. Taken' => Taken
      BY <1>7, <2>1, <2>3 DEF ClearForce, TypeOK
    <3> QED
      BY <2>1, <3>1
  <2> QED
    BY <2>2, <2>3
<1> QED
  BY <1>1, <1>2, <1>3, <1>4, <1>5, <1>6, <1>7, OtherCases

-----------------------------------------------------------------------------
LEMMA InitInv == Init => IInv
<1> SUFFICES ASSUME Init PROVE IInv
  OBVIOUS
<1>1. EmptyState \in SubState
  BY EmptyStateSubscribed
<1>2. TypeOK
  <2>1. /\ up \in BOOLEAN /\ hasCurrent \in BOOLEAN
    BY DEF Init
  <2>2. {connected, force, isConnected, wantForce, full, lossy, raced} \subseteq BOOLEAN
    BY DEF Init
  <2>3. {mtime, readTime, lastTime} \subseteq Times /\ usedTimes \subseteq Times
    BY DEF Init
  <2>4. connects \in 0..MaxConnects /\ rejects \in 0..MaxRejects
    BY BoundsAssumption DEF Init
  <2> QED
    BY <1>1, <2>1, <2>2, <2>3, <2>4 DEF Init, TypeOK
<1>3. TodoInv
  BY DEF Init, TodoInv, Phased
<1>4. WindowInv /\ DiffInv
  BY DEF Init, WindowInv, DiffInv
<1>5. NothingElse /\ NothingMissing
  BY EmptyStateSubscribed DEF Init, NothingElse, NothingMissing, Taken
<1> QED
  BY <1>2, <1>3, <1>4, <1>5 DEF IInv

LEMMA InvStep == IInv /\ [Next]_vars => IInv'
BY TypeStep, TodoStep, WindowStep, ElseStep, MissingStep, DiffStep DEF IInv

(* The inductive invariant. *)
THEOREM Invariance == Spec => []IInv
BY InitInv, InvStep, PTL DEF Spec

(* The variables of both threads stay within their ranges
   (SubscriptionManager.hpp:60-88). *)
THEOREM Typing == Spec => []TypeOK
<1>1. IInv => TypeOK
  BY DEF IInv
<1> QED
  BY <1>1, Invariance, PTL

(* Between two cycles the server pushes exactly what the state in force asks
   for, unless it rejected a request or the connection was announced in the
   window between the two resets of the flag (SubscriptionManager.cpp:162-210
   and 280-318). *)
THEOREM SettledIsSynced == Spec => []SyncedUnlessRaced
<1>1. IInv => SyncedUnlessRaced
  BY DEF IInv, NothingElse, NothingMissing, Taken, SyncedUnlessRaced, Settled
<1> QED
  BY <1>1, Invariance, PTL

(* A diff never interrupts a push that the old and the new state both ask for
   (SubscriptionManager.cpp:320-355). *)
THEOREM DiffsKeepPushes == Spec => DiffKeepsPushes
<1>1. ASSUME IInv, [Next]_vars, pc = "send", ~full, up, up'
      PROVE  serverSubs \intersect Subscribed(current) \intersect Subscribed(pending)
               \subseteq serverSubs'
  <2>1. CASE SendNext
    <3>1. TodoInv /\ Left("unsub") \intersect Subscribed(pending) = {}
      BY <1>1 DEF IInv, DiffInv
    <3> QED
      BY <2>1, <3>1, SendEffect
  <2>2. CASE Connect \/ Disconnect
    BY <1>1, <2>2 DEF Connect, Disconnect
  <2>3. CASE SetForce \/ NextPhase \/ Commit \/ ClearForce \/ TakeForce
    BY <2>3 DEF SetForce, NextPhase, Commit, ClearForce, TakeForce, session
  <2>4. CASE Looking
    BY <2>4, LookingEffect
  <2> QED
    BY <1>1, <2>1, <2>2, <2>3, <2>4, OtherCases
<1>2. IInv /\ [Next]_vars =>
        [pc = "send" /\ ~full /\ up /\ up' =>
           serverSubs \intersect Subscribed(current) \intersect Subscribed(pending)
             \subseteq serverSubs']_vars
  BY <1>1
<1> QED
  BY <1>2, Invariance, PTL DEF Spec, DiffKeepsPushes
=============================================================================
