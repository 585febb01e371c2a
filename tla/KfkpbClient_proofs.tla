------------------------- MODULE KfkpbClient_proofs -------------------------
(***************************************************************************)
(* The Kafka client for all numbers of decode threads, queue capacities,   *)
(* keys and topics: every message has exactly one place, the events of a   *)
(* key come out in the order in which its messages were polled, and the    *)
(* subscription that is in force is the one the client was given.          *)
(***************************************************************************)
EXTENDS KfkpbClient, SequenceLemmas

Message ==
  [id : Nat, err : {"none", "topic", "consumer"}, key : Keys \union {None},
   topic : Topics \union {None}, epoch : Nat]

(* No message, or one. *)
AtMostOne == {<< >>} \union {<<m>> : m \in Message}

Pushing == consumer \in {"put", "put_drop"}

(* Each variable is of its kind. *)
Kinds ==
  /\ {adapter, socket, got, stop, seekFrom, locked, refused, overtaken} \subseteq BOOLEAN
  /\ {told, cfgEpoch, made} \subseteq Nat
  /\ drained \in Seq(Message)
  /\ raw \in [Ws -> Seq(Message)] /\ evt \in [Ws -> Seq(Message)]
  /\ held \in [Ws -> AtMostOne] /\ msg \in AtMostOne
  /\ {epoch, seen} \subseteq [Ws -> Nat]
  /\ worker \in [Ws -> {"check", "exited", "pop", "load", "wait", "decode", "put",
                        "put_drop", "send"}]
  /\ consumer \in {"check", "exited", "seek", "settle", "poll", "put", "put_drop", "bump"}
  /\ after \in {"check", "seek", "settle"}
  /\ dropped \subseteq Nat

(* The consumer holds a message exactly while it pushes it, and returns to
   where it can give the lock up. *)
ConsumerInv ==
  /\ msg # Nothing <=> consumer \in {"put", "put_drop", "bump"}
  /\ locked /\ consumer # "settle" => after = "settle"

(* What a decode thread has in front of it, and with the message that is about
   to be pushed to it. *)
Ahead(w) == Range(evt[w]) \union Range(held[w]) \union Range(raw[w])
Coming(w) == Ahead(w) \union (IF Pushing /\ Target = w THEN Range(msg) ELSE {})

(* The places of messages, numbered as in Accounted. *)
Spots == 1..(3 + 3 * Workers)
Place(i) ==
  IF i = 1 THEN IdsIn(drained)
  ELSE IF i = 2 THEN dropped
  ELSE IF i = 3 THEN IF Pushing THEN IdsIn(msg) ELSE {}
  ELSE IF i <= 3 + Workers THEN IdsIn(evt[i - 3])
  ELSE IF i <= 3 + 2 * Workers THEN IdsIn(held[i - 3 - Workers])
  ELSE IdsIn(raw[i - 3 - 2 * Workers])

PlaceInv ==
  /\ \A i \in Spots : Place(i) \subseteq 1..made
  /\ \A x \in 1..made : \E i \in Spots : x \in Place(i)
  /\ \A i, j \in Spots : i # j => Place(i) \intersect Place(j) = {}

(* The numbers of a sequence of messages grow; all of one set are below all of
   another. *)
Growing(s) == \A i, j \in DOMAIN s : i < j => s[i].id < s[j].id
Before(ms, ns) == \A m \in ms, n \in ns : m.id < n.id

(* Messages pass through a decode thread in the order of their numbers, and
   the newest is the one that is pushed. *)
OrderInv ==
  /\ \A w \in Ws :
       /\ Growing(evt[w]) /\ Growing(raw[w])
       /\ Before(Range(evt[w]), Range(held[w]))
       /\ Before(Range(evt[w]), Range(raw[w]))
       /\ Before(Range(held[w]), Range(raw[w]))
  /\ Pushing => \A m \in Range(msg) : m.id = made

(* A key has one thread, and what was drained of it is older. *)
SameKey(m, n) == m.key = n.key /\ m.key # None
KeysGrowing(s) == \A i, j \in DOMAIN s : i < j /\ SameKey(s[i], s[j]) => s[i].id < s[j].id
KeyInv ==
  /\ \A w \in Ws : \A m \in Ahead(w) : m.key # None => WorkerOf[m.key] = w
  /\ \A w \in Ws : \A d \in Range(drained), m \in Ahead(w) : SameKey(d, m) => d.id < m.id
  /\ KeysGrowing(drained)

(* The consumer is applying the configuration it took last. *)
Applying == consumer \in {"seek", "settle"} \/ (msg # Nothing /\ after \in {"seek", "settle"})

(* What the broker serves is what was asked for. *)
ServeInv ==
  /\ InForce => broker = topics
  /\ Applying /\ ~refused /\ ~overtaken => broker = topics

(* A message that was polled under the subscription of now has a topic of it. *)
Mapped(m) ==
  /\ m.err # "topic"
  /\ m.epoch <= cfgEpoch + 1
  /\ m.err = "none" /\ m.epoch = cfgEpoch + 1 => m.topic \in topics

TopicInv ==
  /\ \A m \in Range(msg) : Mapped(m)
  /\ \A w \in Ws : \A m \in Range(raw[w]) : Mapped(m)
  /\ \A w \in Ws : \A m \in Range(held[w]) :
       IF worker[w] = "decode" THEN Mapped(m)
       ELSE m.epoch <= cfgEpoch + 1 /\ (m.err = "topic" => m.epoch # cfgEpoch + 1)

IInv ==
  /\ TypeOK
  /\ Kinds
  /\ ConsumerInv
  /\ PlaceInv
  /\ OrderInv
  /\ KeyInv
  /\ ServeInv
  /\ TopicInv

-----------------------------------------------------------------------------
(* Sequences of messages *)

LEMMA MessagesAppend ==
  \A s \in Seq(Message), m \in Message :
    /\ Append(s, m) \in Seq(Message)
    /\ Len(s) \in Nat /\ Len(Append(s, m)) = Len(s) + 1
    /\ Range(Append(s, m)) = Range(s) \union {m}
    /\ IdsIn(Append(s, m)) = IdsIn(s) \union {m.id}
    /\ Growing(s) /\ Before(Range(s), {m}) => Growing(Append(s, m))
    /\ KeysGrowing(s) /\ (\A x \in Range(s) : SameKey(x, m) => x.id < m.id)
         => KeysGrowing(Append(s, m))
<1> SUFFICES ASSUME NEW s \in Seq(Message), NEW m \in Message
             PROVE  /\ Append(s, m) \in Seq(Message)
                    /\ Len(s) \in Nat /\ Len(Append(s, m)) = Len(s) + 1
                    /\ Range(Append(s, m)) = Range(s) \union {m}
                    /\ IdsIn(Append(s, m)) = IdsIn(s) \union {m.id}
                    /\ Growing(s) /\ Before(Range(s), {m}) => Growing(Append(s, m))
                    /\ KeysGrowing(s) /\ (\A x \in Range(s) : SameKey(x, m) => x.id < m.id)
                         => KeysGrowing(Append(s, m))
  OBVIOUS
<1> DEFINE t == Append(s, m)
<1>1. /\ t \in Seq(Message) /\ Len(s) \in Nat /\ Len(t) = Len(s) + 1
      /\ \A i \in 1..Len(s) : t[i] = s[i]
      /\ t[Len(s) + 1] = m
      /\ DOMAIN s = 1..Len(s) /\ DOMAIN t = 1..Len(t)
  BY AppendProperties
<1>2. Range(t) = Range(s) \union {m}
  BY RangeOfAppend
<1> HIDE DEF t
<1>3. IdsIn(t) = IdsIn(s) \union {m.id}
  BY <1>2 DEF IdsIn
<1>4. ASSUME Growing(s), Before(Range(s), {m}) PROVE Growing(t)
  <2>1. \A i \in 1..Len(s) : s[i].id < m.id
    BY <1>1, <1>4 DEF Before, Range
  <2>2. ASSUME NEW i \in 1..Len(t), NEW j \in 1..Len(t), i < j PROVE t[i].id < t[j].id
    <3>1. i \in 1..Len(s) /\ (j \in 1..Len(s) \/ j = Len(s) + 1)
      BY <1>1, <2>2
    <3> QED
      BY <1>1, <1>4, <2>1, <2>2, <3>1 DEF Growing
  <2> QED
    BY <1>1, <2>2 DEF Growing
<1>5. ASSUME KeysGrowing(s), \A x \in Range(s) : SameKey(x, m) => x.id < m.id
      PROVE  KeysGrowing(t)
  <2>1. \A i \in 1..Len(s) : SameKey(s[i], m) => s[i].id < m.id
    BY <1>1, <1>5 DEF Range
  <2>2. ASSUME NEW i \in 1..Len(t), NEW j \in 1..Len(t), i < j, SameKey(t[i], t[j])
        PROVE  t[i].id < t[j].id
    <3>1. i \in 1..Len(s) /\ (j \in 1..Len(s) \/ j = Len(s) + 1)
      BY <1>1, <2>2
    <3> QED
      BY <1>1, <1>5, <2>1, <2>2, <3>1 DEF KeysGrowing
  <2> QED
    BY <1>1, <2>2 DEF KeysGrowing
<1> QED
  BY <1>1, <1>2, <1>3, <1>4, <1>5 DEF t

LEMMA MessagesTail ==
  \A s \in Seq(Message) : s # << >> =>
    /\ Head(s) \in Message /\ Tail(s) \in Seq(Message)
    /\ Len(s) \in Nat /\ Len(s) > 0 /\ Len(Tail(s)) = Len(s) - 1
    /\ Range(s) = Range(Tail(s)) \union {Head(s)}
    /\ IdsIn(s) = IdsIn(Tail(s)) \union {Head(s).id}
    /\ Growing(s) => /\ Growing(Tail(s)) /\ Before({Head(s)}, Range(Tail(s)))
                     /\ IdsIn(Tail(s)) = IdsIn(s) \ {Head(s).id}
<1> SUFFICES ASSUME NEW s \in Seq(Message), s # << >>
             PROVE  /\ Head(s) \in Message /\ Tail(s) \in Seq(Message)
                    /\ Len(s) \in Nat /\ Len(s) > 0 /\ Len(Tail(s)) = Len(s) - 1
                    /\ Range(s) = Range(Tail(s)) \union {Head(s)}
                    /\ IdsIn(s) = IdsIn(Tail(s)) \union {Head(s).id}
                    /\ Growing(s) => /\ Growing(Tail(s)) /\ Before({Head(s)}, Range(Tail(s)))
                                     /\ IdsIn(Tail(s)) = IdsIn(s) \ {Head(s).id}
  OBVIOUS
<1> DEFINE t == Tail(s)
<1>1. /\ Head(s) \in Message /\ t \in Seq(Message) /\ Head(s) = s[1]
      /\ Len(s) \in Nat /\ Len(s) > 0 /\ Len(t) = Len(s) - 1
      /\ DOMAIN s = 1..Len(s) /\ DOMAIN t = 1..Len(t)
      /\ \A i \in 1..Len(t) : t[i] = s[i + 1]
  OBVIOUS
<1>2. Range(s) = Range(t) \union {Head(s)}
  BY RangeOfTail
<1> HIDE DEF t
<1>3. IdsIn(s) = IdsIn(t) \union {Head(s).id}
  BY <1>2 DEF IdsIn
<1>4. ASSUME Growing(s)
      PROVE  /\ Growing(t) /\ Before({Head(s)}, Range(t))
             /\ IdsIn(t) = IdsIn(s) \ {Head(s).id}
  <2>1. ASSUME NEW i \in 1..Len(t), NEW j \in 1..Len(t), i < j PROVE t[i].id < t[j].id
    <3>1. i + 1 \in 1..Len(s) /\ j + 1 \in 1..Len(s) /\ i + 1 < j + 1
      BY <1>1, <2>1
    <3> QED
      BY <1>1, <1>4, <3>1 DEF Growing
  <2>2. ASSUME NEW i \in 1..Len(t) PROVE s[1].id < t[i].id
    <3>1. i + 1 \in 1..Len(s) /\ 1 \in 1..Len(s) /\ 1 < i + 1
      BY <1>1
    <3> QED
      BY <1>1, <1>4, <3>1 DEF Growing
  <2>3. Growing(t)
    BY <1>1, <2>1 DEF Growing
  <2>4. Before({Head(s)}, Range(t))
    BY <1>1, <2>2 DEF Before, Range
  <2>5. \A m \in Message : m.id \in Nat
    BY DEF Message
  <2>6. Head(s).id \notin IdsIn(t)
    <3>1. ASSUME NEW m \in Range(t) PROVE m.id # Head(s).id
      <4>1. Head(s).id < m.id
        BY <2>4 DEF Before
      <4>2. Head(s).id \in Nat
        BY <1>1, <2>5
      <4> QED
        BY <4>1, <4>2
    <3> QED
      BY <3>1 DEF IdsIn
  <2> QED
    BY <1>3, <2>3, <2>4, <2>6
<1> QED
  BY <1>1, <1>2, <1>3, <1>4 DEF t

LEMMA MessagesFew ==
  /\ << >> \in Seq(Message) /\ Len(<< >>) = 0
  /\ Range(<< >>) = {} /\ IdsIn(<< >>) = {} /\ Growing(<< >>)
  /\ \A m : /\ Range(<<m>>) = {m} /\ IdsIn(<<m>>) = {m.id} /\ <<m>>[1] = m
            /\ <<m>> # << >>
<1>1. Range(<< >>) = {} /\ \A m : Range(<<m>>) = {m}
  BY DEF Range
<1> QED
  BY <1>1 DEF IdsIn, Growing

(* What a thread holds is a message. *)
LEMMA OneMessage ==
  \A s \in AtMostOne : s # Nothing =>
    s[1] \in Message /\ s = <<s[1]>> /\ Range(s) = {s[1]} /\ IdsIn(s) = {s[1].id}
<1> SUFFICES ASSUME NEW s \in AtMostOne, s # Nothing
             PROVE  s[1] \in Message /\ s = <<s[1]>> /\ Range(s) = {s[1]} /\ IdsIn(s) = {s[1].id}
  OBVIOUS
<1>1. PICK m \in Message : s = <<m>>
  BY DEF AtMostOne, Nothing
<1>2. s[1] = m
  BY <1>1
<1> QED
  BY <1>1, <1>2, MessagesFew

-----------------------------------------------------------------------------
(* The message that is pushed goes to one of the threads. *)
LEMMA TargetThread ==
  ASSUME Kinds, TypeOK, msg # Nothing
  PROVE  Target \in Ws /\ (msg[1].key # None => Target = WorkerOf[msg[1].key])
<1>1. msg[1] \in Message
  BY OneMessage DEF Kinds
<1>2. msg[1].key = None \/ msg[1].key \in Keys
  BY <1>1 DEF Message
<1> QED
  BY <1>2, ClientAssumption DEF Target, TypeOK, Ws

LEMMA NextOfThread == \A w \in Ws : NextOf(w) \in Ws
BY ClientAssumption DEF Ws, NextOf

LEMMA BumpKinds ==
  ASSUME Kinds
  PROVE  \A w \in Ws : \A unseen : Bump(w, unseen) =>
           epoch' \in [Ws -> Nat] /\ \A v \in Ws : epoch[v] <= epoch'[v]
<1> SUFFICES ASSUME NEW w \in Ws, NEW unseen, epoch' = [epoch EXCEPT ![w] = @ + 1]
             PROVE  epoch' \in [Ws -> Nat] /\ \A v \in Ws : epoch[v] <= epoch'[v]
  BY DEF Bump
<1>1. epoch \in [Ws -> Nat]
  BY DEF Kinds
<1> QED
  BY <1>1

(* A step keeps the kinds of the variables. *)
LEMMA CallerKinds ==
  ASSUME Kinds, TypeOK,
         \/ \E ts \in SUBSET Topics, fromTime \in BOOLEAN : Subscribe(ts, fromTime)
         \/ DrainBegin \/ Draining \/ Close \/ Closing
  PROVE  Kinds' /\ UNCHANGED <<raw, held, seen, worker, dropped, msg, after, consumer, locked,
                               made>>
<1> USE DEF notCaller, drainVars, subscribeVars, closeVars, pushVars
<1>1. CASE \E ts \in SUBSET Topics, fromTime \in BOOLEAN : Subscribe(ts, fromTime)
  <2>1. PICK ts \in SUBSET Topics, fromTime \in BOOLEAN : Subscribe(ts, fromTime)
    BY <1>1
  <2>2. cfgEpoch' \in Nat
    BY <2>1 DEF Subscribe, Kinds
  <2>3. seekFrom' \in BOOLEAN /\ overtaken' \in BOOLEAN
    BY <2>1 DEF Subscribe, Kinds, Seeking
  <2> QED
    BY <2>1, <2>2, <2>3 DEF Subscribe, Kinds
<1>2. CASE DrainBegin
  BY <1>2 DEF DrainBegin, Kinds
<1>3. CASE DrainPop
  <2>1. at \in Ws /\ evt[at] \in Seq(Message) /\ evt[at] # << >>
    BY <1>3 DEF DrainPop, Kinds, TypeOK
  <2>2. drained' \in Seq(Message) /\ evt' \in [Ws -> Seq(Message)]
    BY <1>3, <2>1, MessagesAppend, MessagesTail DEF DrainPop, Kinds
  <2>3. got' \in BOOLEAN
    BY <1>3 DEF DrainPop, DrainEnds, Kinds
  <2> QED
    BY <1>3, <2>2, <2>3 DEF DrainPop, Kinds
<1>4. CASE DrainNext \/ DrainLast
  BY <1>4 DEF DrainNext, DrainLast, DrainEnds, Kinds
<1>5. CASE Hand
  <2>1. told' \in Nat
    BY <1>5, LenProperties DEF Hand, Kinds
  <2> QED
    BY <1>5, <2>1 DEF Hand, Kinds
<1>6. CASE Return \/ Close \/ Join
  BY <1>6 DEF Return, Close, Join, Kinds
<1>7. CASE WakeWorker
  <2>1. epoch' \in [Ws -> Nat]
    BY <1>7, BumpKinds DEF WakeWorker, TypeOK
  <2> QED
    BY <1>7, <2>1 DEF WakeWorker, Kinds
<1> QED
  BY <1>1, <1>2, <1>3, <1>4, <1>5, <1>6, <1>7 DEF Draining, Closing

(* The steps in which the consumer makes a message: it is the newest, and one
   of a topic has been polled under the subscription it names. *)
Make ==
  \E m \in Message, to \in {"check", "seek", "settle"} :
    /\ MakeRaw(m, to)
    /\ m.id = made + 1
    /\ \/ m.err = "consumer" /\ m.epoch = 0
       \/ /\ m.err = "none" /\ m.topic \in broker /\ to = "check"
          /\ m.epoch = IF InForce THEN applied ELSE 0

LEMMA MakeCases ==
  ASSUME Kinds, TypeOK,
         \/ ApplyFails \/ SeekFails
         \/ \E key \in Keys \union {None}, topic \in Topics : PollMessage(key, topic)
  PROVE  Make /\ UNCHANGED <<notConsumer, queueVars, applied, broker>>
<1> USE DEF configVars
<1>1. ASSUME NEW to \in {"check", "seek", "settle"}, MakeError(to)
      PROVE  Make
  <2> DEFINE m == [id |-> made + 1, err |-> "consumer", key |-> None, topic |-> None, epoch |-> 0]
  <2>1. m \in Message /\ m.id = made + 1 /\ m.err = "consumer" /\ m.epoch = 0
    BY DEF Kinds, Message
  <2>2. MakeRaw(m, to)
    BY <1>1 DEF MakeError
  <2> HIDE DEF m
  <2> QED
    BY <2>1, <2>2 DEF Make
<1>2. CASE ApplyFails \/ SeekFails
  BY <1>1, <1>2 DEF ApplyFails, SeekFails
<1>3. CASE \E key \in Keys \union {None}, topic \in Topics : PollMessage(key, topic)
  <2>1. PICK key \in Keys \union {None}, topic \in Topics : PollMessage(key, topic)
    BY <1>3
  <2> DEFINE m == [id |-> made + 1, err |-> "none", key |-> key, topic |-> topic,
                   epoch |-> IF InForce THEN applied ELSE 0]
  <2>2. applied \in Nat /\ made \in Nat
    BY DEF Kinds, TypeOK
  <2>3. m \in Message /\ m.id = made + 1 /\ m.err = "none" /\ m.topic = topic
        /\ m.epoch = IF InForce THEN applied ELSE 0
    BY <2>2 DEF Message
  <2>4. MakeRaw(m, "check") /\ topic \in broker
    BY <2>1 DEF PollMessage
  <2> HIDE DEF m
  <2>5. Make
    BY <2>3, <2>4 DEF Make
  <2> QED
    BY <2>1, <2>5 DEF PollMessage
<1> QED
  BY <1>2, <1>3

(* The other steps of the consumer that move no message. *)
Stay ==
  ConsumerExits \/ Apply \/ SeekDone \/ Settle \/ PollNothing

LEMMA ConsumeCases ==
  ASSUME Consume
  PROVE  \/ Stay \/ Put \/ DropRaw \/ NotifyWorker
         \/ ApplyFails \/ SeekFails
         \/ \E key \in Keys \union {None}, topic \in Topics : PollMessage(key, topic)
BY DEF Consume, Stay

LEMMA ConsumerKinds ==
  ASSUME Kinds, TypeOK, ConsumerInv, Consume
  PROVE  Kinds' /\ ConsumerInv'
<1> USE DEF notConsumer, drainVars, configVars, queueVars, pushVars
<1>1. CASE ConsumerExits \/ SeekDone \/ PollNothing
  <2>1. /\ UNCHANGED <<notConsumer, configVars, pushVars, queueVars>>
        /\ consumer \in {"check", "seek", "poll"} /\ consumer' \in {"exited", "settle", "check"}
    BY <1>1 DEF ConsumerExits, SeekDone, PollNothing
  <2>2. Kinds'
    BY <2>1 DEF Kinds
  <2>3. ConsumerInv'
    BY <2>1 DEF ConsumerInv, TypeOK
  <2> QED
    BY <2>2, <2>3
<1>2. CASE Apply
  <2>1. consumer = "check" /\ consumer' \in {"seek", "poll"}
        /\ {refused', overtaken'} \subseteq BOOLEAN
    BY <1>2 DEF Apply, ApplyNothing, ApplyNew, Kinds
  <2>2. UNCHANGED <<notConsumer, locked, pushVars, queueVars>>
    BY <1>2 DEF Apply
  <2>3. Kinds'
    BY <2>1, <2>2 DEF Kinds
  <2>4. ConsumerInv'
    BY <2>1, <2>2 DEF ConsumerInv, TypeOK
  <2> QED
    BY <2>3, <2>4
<1>3. CASE Settle
  BY <1>3 DEF Settle, Kinds, ConsumerInv
<1>4. CASE \/ ApplyFails \/ SeekFails
           \/ \E key \in Keys \union {None}, topic \in Topics : PollMessage(key, topic)
  <2>1. /\ made' \in Nat /\ msg' \in AtMostOne /\ msg' # Nothing
        /\ after' \in {"check", "seek", "settle"} /\ consumer' = "put"
    <3>1. PICK m \in Message, to \in {"check", "seek", "settle"} : MakeRaw(m, to)
      BY <1>4, MakeCases DEF Make
    <3>2. <<m>> \in AtMostOne /\ <<m>> # Nothing
      BY MessagesFew DEF AtMostOne, Nothing
    <3> QED
      BY <3>1, <3>2 DEF MakeRaw, Kinds
  <2>2. UNCHANGED <<notConsumer, queueVars>>
    BY <1>4, MakeCases
  <2>3. {locked', refused', overtaken'} \subseteq BOOLEAN
    BY <1>4 DEF ApplyFails, SeekFails, PollMessage, Kinds
  <2>4. Kinds'
    BY <2>1, <2>2, <2>3 DEF Kinds
  <2>5. locked' => after' = "settle"
    BY <1>4 DEF ApplyFails, SeekFails, PollMessage, MakeError, MakeRaw, TypeOK
  <2> QED
    BY <2>1, <2>4, <2>5 DEF ConsumerInv
<1>5. CASE Put \/ DropRaw
  <2>1. msg # Nothing /\ msg[1] \in Message /\ Target \in Ws
    BY <1>5, TargetThread, OneMessage DEF Put, DropRaw, ConsumerInv, Kinds
  <2>2. raw[Target] \in Seq(Message)
    BY <2>1 DEF Kinds
  <2>3. UNCHANGED <<notConsumer, configVars, pushVars, epoch>>
        /\ consumer \in {"put", "put_drop"} /\ consumer' \in {"put_drop", "bump"}
    BY <1>5 DEF Put, DropRaw
  <2>4. raw' \in [Ws -> Seq(Message)] /\ dropped' \subseteq Nat
    <3>1. ASSUME NEW queue \in Seq(Message), PutRaw(queue) PROVE raw' \in [Ws -> Seq(Message)]
      <4>1. Append(queue, msg[1]) \in Seq(Message)
        BY <2>1, MessagesAppend
      <4> QED
        BY <3>1, <4>1 DEF PutRaw, Kinds
    <3>2. raw[Target] # << >> =>
            Tail(raw[Target]) \in Seq(Message) /\ Head(raw[Target]).id \in Nat
      BY <2>2, MessagesTail DEF Message
    <3>3. << >> \in Seq(Message)
      BY MessagesFew
    <3>4. CASE Put
      BY <2>2, <3>1, <3>4 DEF Put, Kinds
    <3>5. CASE DropRaw
      BY <3>1, <3>2, <3>3, <3>5 DEF DropRaw, Kinds
    <3> QED
      BY <1>5, <3>4, <3>5
  <2>5. Kinds'
    BY <2>3, <2>4 DEF Kinds
  <2>6. ConsumerInv'
    BY <2>3 DEF ConsumerInv
  <2> QED
    BY <2>5, <2>6
<1>6. CASE NotifyWorker
  <2>1. consumer = "bump" /\ msg # Nothing /\ Target \in Ws
    BY <1>6, TargetThread DEF NotifyWorker, ConsumerInv
  <2>2. epoch' \in [Ws -> Nat]
    BY <1>6, <2>1, BumpKinds DEF NotifyWorker
  <2>3. /\ UNCHANGED <<notConsumer, configVars, made, raw, dropped>>
        /\ msg' = Nothing /\ after' = "check" /\ consumer' = after
    BY <1>6 DEF NotifyWorker, PushReturns
  <2>4. Nothing \in AtMostOne
    BY DEF AtMostOne, Nothing
  <2>5. Kinds'
    BY <2>2, <2>3, <2>4 DEF Kinds
  <2>6. ConsumerInv'
    BY <2>1, <2>3 DEF ConsumerInv, Kinds
  <2> QED
    BY <2>5, <2>6
<1> QED
  BY <1>1, <1>2, <1>3, <1>4, <1>5, <1>6, ConsumeCases DEF Stay

LEMMA WorkerKinds ==
  ASSUME Kinds, TypeOK, NEW w \in Ws, Work(w)
  PROVE  Kinds'
<1> USE DEF notWorker, drainVars, configVars, pushVars, WorkerAt
<1>1. CASE WorkerCheck(w) \/ PopNothing(w) \/ Notify(w)
  BY <1>1 DEF WorkerCheck, PopNothing, Notify, Kinds
<1>2. CASE LoadEpoch(w) \/ Wake(w)
  <2>1. seen \in [Ws -> Nat] /\ epoch[w] \in Nat
    BY DEF Kinds
  <2>2. seen' \in [Ws -> Nat]
    BY <1>2, <2>1 DEF LoadEpoch, Wake
  <2>3. CASE LoadEpoch(w)
    BY <2>2, <2>3 DEF LoadEpoch, Kinds
  <2>4. CASE Wake(w)
    BY <2>2, <2>4 DEF Wake, Kinds
  <2> QED
    BY <1>2, <2>3, <2>4
<1>3. CASE PopRaw(w)
  <2>1. raw[w] \in Seq(Message) /\ raw[w] # << >>
    BY <1>3 DEF PopRaw, Kinds
  <2>2. Tail(raw[w]) \in Seq(Message) /\ <<Head(raw[w])>> \in AtMostOne
    BY <2>1, MessagesTail DEF AtMostOne
  <2>3. raw' \in [Ws -> Seq(Message)] /\ held' \in [Ws -> AtMostOne]
    BY <1>3, <2>2 DEF PopRaw, Kinds
  <2> QED
    BY <1>3, <2>3 DEF PopRaw, Kinds
<1>4. CASE Decode(w)
  <2>1. held[w][1] \in Message
    BY <1>4, OneMessage DEF Decode, Kinds, TypeOK
  <2>2. Outcome(held[w][1]) \in {"none", "topic", "consumer"}
    BY <2>1 DEF Outcome, Message
  <2>3. [held[w][1] EXCEPT !.err = Outcome(held[w][1])] \in Message
    BY <2>1, <2>2 DEF Message
  <2>4. held' \in [Ws -> AtMostOne]
    BY <1>4, <2>3 DEF Decode, Kinds, AtMostOne
  <2> QED
    BY <1>4, <2>4 DEF Decode, Kinds
<1>5. CASE PushEvent(w) \/ DropEvent(w)
  <2>1. worker[w] \in {"put", "put_drop"}
    BY <1>5 DEF PushEvent, DropEvent
  <2>2. held[w][1] \in Message /\ evt[w] \in Seq(Message)
    BY <2>1, OneMessage DEF Kinds, TypeOK
  <2>3. [held[w][1] EXCEPT !.epoch = 0] \in Message
    BY <2>2 DEF Message
  <2>4. ASSUME NEW queue \in Seq(Message), PutEvent(w, queue)
        PROVE  evt' \in [Ws -> Seq(Message)] /\ held' \in [Ws -> AtMostOne]
    <3>1. Append(queue, [held[w][1] EXCEPT !.epoch = 0]) \in Seq(Message)
      BY <2>3, MessagesAppend
    <3>2. Nothing \in AtMostOne
      BY DEF AtMostOne, Nothing
    <3> QED
      BY <2>4, <3>1, <3>2 DEF PutEvent, Kinds
  <2>5. evt[w] # << >> => Tail(evt[w]) \in Seq(Message) /\ Head(evt[w]).id \in Nat
    BY <2>2, MessagesTail DEF Message
  <2>6. << >> \in Seq(Message)
    BY MessagesFew
  <2>7. evt' \in [Ws -> Seq(Message)] /\ held' \in [Ws -> AtMostOne] /\ dropped' \subseteq Nat
    <3>1. CASE PushEvent(w)
      BY <2>2, <2>4, <3>1 DEF PushEvent, Kinds
    <3>2. CASE DropEvent(w)
      BY <2>4, <2>5, <2>6, <3>2 DEF DropEvent, Kinds
    <3> QED
      BY <1>5, <3>1, <3>2
  <2>8. UNCHANGED <<notWorker, seen, raw, bytes>> /\ worker' \in [Ws -> {"check", "exited", "pop",
                      "load", "wait", "decode", "put", "put_drop", "send"}]
    BY <1>5 DEF PushEvent, DropEvent, Kinds
  <2> QED
    BY <2>7, <2>8 DEF Kinds
<1> QED
  BY <1>1, <1>2, <1>3, <1>4, <1>5 DEF Work

(* Every step is one of the caller's, the consumer's or a decode thread's. *)
Call ==
  \/ \E ts \in SUBSET Topics, fromTime \in BOOLEAN : Subscribe(ts, fromTime)
  \/ DrainBegin \/ Draining \/ Close \/ Closing

LEMMA ThreadCases ==
  ASSUME [Next]_vars
  PROVE  Call \/ Consume \/ (\E w \in Ws : Work(w)) \/ UNCHANGED vars
BY DEF Next, Call

LEMMA KindsStep ==
  ASSUME Kinds, TypeOK, ConsumerInv, [Next]_vars
  PROVE  Kinds' /\ ConsumerInv'
<1>1. CASE Call
  BY <1>1, CallerKinds DEF Call, ConsumerInv
<1>2. CASE Consume
  BY <1>2, ConsumerKinds
<1>3. CASE \E w \in Ws : Work(w)
  <2>1. PICK w \in Ws : Work(w)
    BY <1>3
  <2>2. UNCHANGED <<msg, consumer, locked, after>>
    BY <2>1 DEF Work, WorkerCheck, PopRaw, PopNothing, LoadEpoch, Wake, Decode, PushEvent,
       DropEvent,
                Notify, notWorker, configVars, pushVars
  <2> QED
    BY <2>1, <2>2, WorkerKinds DEF ConsumerInv
<1>4. CASE UNCHANGED vars
  BY <1>4 DEF vars, notCaller, drainVars, subscribeVars, closeVars, pushVars, Kinds, ConsumerInv
<1> QED
  BY <1>1, <1>2, <1>3, <1>4, ThreadCases

-----------------------------------------------------------------------------
(* Every variable stays within its range. *)
LEMMA CallerType ==
  ASSUME Kinds, TypeOK, Call
  PROVE  TypeOK'
<1> USE DEF notCaller, drainVars, subscribeVars, closeVars, pushVars
<1>0. /\ Len(drained) \in Nat /\ told \in Nat /\ Workers \in Nat \ {0}
      /\ \A w \in Ws : /\ Len(raw[w]) \in Nat /\ Len(evt[w]) \in Nat /\ epoch[w] \in Nat
                       /\ seen[w] \in Nat
      /\ cfgEpoch \in Nat
  BY ClientAssumption DEF Kinds
<1>1. CASE \E ts \in SUBSET Topics, fromTime \in BOOLEAN : Subscribe(ts, fromTime)
  <2>1. PICK ts \in SUBSET Topics, fromTime \in BOOLEAN : Subscribe(ts, fromTime)
    BY <1>1
  <2>2. applied' \in 0..(cfgEpoch' + 1)
    BY <1>0, <2>1 DEF Subscribe, TypeOK
  <2> QED
    BY <2>1, <2>2 DEF Subscribe, TypeOK
<1>2. CASE DrainBegin
  <2>1. bytes' \in 0..SocketCap /\ left' \in 0..Workers /\ at' \in Ws /\ drainRR' \in Ws
    BY <1>0, <1>2, NextOfThread, ClientAssumption DEF DrainBegin, TypeOK
  <2> QED
    BY <1>2, <2>1 DEF DrainBegin, TypeOK
<1>3. CASE DrainPop
  <2>1. at \in Ws /\ evt[at] \in Seq(Message) /\ evt[at] # << >> /\ drained \in Seq(Message)
    BY <1>3 DEF DrainPop, Kinds, TypeOK
  <2>2. /\ Len(drained') = Len(drained) + 1
        /\ Len(Tail(evt[at])) \in Nat /\ Len(Tail(evt[at])) <= Len(evt[at])
    BY <1>0, <1>3, <2>1, MessagesAppend, MessagesTail DEF DrainPop
  <2>3. \A w \in Ws : Len(evt'[w]) <= EvtCap
    <3>1. evt' = [evt EXCEPT ![at] = Tail(evt[at])]
      BY <1>3 DEF DrainPop
    <3>2. evt \in [Ws -> Seq(Message)] /\ \A w \in Ws : Len(evt[w]) <= EvtCap
      BY DEF Kinds, TypeOK
    <3> QED
      BY <1>0, <2>1, <2>2, <3>1, <3>2, ClientAssumption
  <2>4. /\ told' <= Len(drained') /\ (caller' = "idle" => told' = Len(drained'))
        /\ caller' \in {"drain", "deliver", "idle"} /\ at' \in Ws /\ left' \in 0..Workers
    <3>1. told <= Len(drained) /\ told' = told
      BY <1>3 DEF DrainPop, TypeOK
    <3>2. CASE caller = "drain"
      BY <1>0, <1>3, <2>2, <3>1, <3>2 DEF DrainPop, TypeOK
    <3>3. CASE caller # "drain"
      <4>1. DrainEnds(Len(drained) + 1)
        BY <1>3, <3>3 DEF DrainPop
      <4>2. 1 \in Ws
        BY <1>0 DEF Ws
      <4> QED
        BY <1>0, <2>2, <3>1, <4>1, <4>2 DEF DrainEnds
    <3> QED
      BY <3>2, <3>3
  <2>5. caller \in {"drain", "retry"}
    BY <1>3 DEF DrainPop
  <2>6. UNCHANGED <<notCaller, drainRR, told, subscribeVars, closeVars, bytes>>
    BY <1>3 DEF DrainPop
  <2> QED
    BY <2>3, <2>4, <2>5, <2>6 DEF TypeOK
<1>4. CASE DrainNext
  <2>1. left' \in 0..Workers /\ at' \in Ws /\ caller' \in {"drain", "retry"}
        /\ caller \in {"drain", "retry"}
    BY <1>0, <1>4, NextOfThread DEF DrainNext, TypeOK
  <2> QED
    BY <1>4, <2>1 DEF DrainNext, TypeOK
<1>5. CASE DrainLast
  <2>1. left' \in 0..Workers /\ at' \in Ws /\ caller \in {"drain", "retry"}
        /\ caller' \in {"deliver", "idle"} /\ (caller' = "idle" => told = Len(drained))
    BY <1>0, <1>5 DEF DrainLast, DrainEnds, TypeOK, Ws
  <2> QED
    BY <1>5, <2>1 DEF DrainLast, TypeOK
<1>6. CASE Hand
  <2>1. /\ told' <= Len(drained) /\ caller \in {"deliver", "consumecb", "closed"}
        /\ caller' = IF caller = "closed" THEN caller ELSE "consumecb"
    BY <1>0, <1>6 DEF Hand, TypeOK
  <2> QED
    BY <1>6, <2>1 DEF Hand, TypeOK
<1>7. CASE Return \/ Join
  BY <1>7 DEF Return, Join, TypeOK
<1>8. CASE Close
  BY <1>8 DEF Close, Free, TypeOK
<1>9. CASE WakeWorker
  <2>1. \A v \in Ws : epoch'[v] \in Nat /\ epoch[v] <= epoch'[v]
    BY <1>9, BumpKinds DEF WakeWorker, TypeOK
  <2>2. ASSUME NEW v \in Ws PROVE seen[v] <= epoch'[v]
    <3>1. seen[v] <= epoch[v]
      BY DEF TypeOK
    <3> QED
      BY <1>0, <2>1, <3>1
  <2>3. at' \in Ws /\ caller = "wake" /\ caller' \in {"join_consumer", "wake"}
    BY <1>9, NextOfThread DEF WakeWorker, TypeOK
  <2> QED
    BY <1>9, <2>2, <2>3 DEF WakeWorker, TypeOK
<1> QED
  BY <1>1, <1>2, <1>3, <1>4, <1>5, <1>6, <1>7, <1>8, <1>9 DEF Call, Draining, Closing

LEMMA ConsumerType ==
  ASSUME Kinds, TypeOK, ConsumerInv, Consume
  PROVE  TypeOK'
<1> USE DEF notConsumer, drainVars, configVars, queueVars, pushVars
<1>0. /\ \A w \in Ws : /\ Len(raw[w]) \in Nat /\ epoch[w] \in Nat /\ seen[w] \in Nat
      /\ cfgEpoch \in Nat
  BY DEF Kinds
<1>1. CASE ConsumerExits \/ SeekDone \/ PollNothing
  <2>1. /\ UNCHANGED <<notConsumer, configVars, pushVars, queueVars>>
        /\ consumer \in {"check", "seek", "poll"}
    BY <1>1 DEF ConsumerExits, SeekDone, PollNothing
  <2> QED
    BY <2>1 DEF TypeOK
<1>2. CASE Apply
  <2>1. consumer = "check" /\ broker' \subseteq Topics /\ applied' \in 0..(cfgEpoch + 1)
    BY <1>0, <1>2 DEF Apply, ApplyNothing, ApplyNew, TypeOK
  <2>2. UNCHANGED <<notConsumer, locked, pushVars, queueVars>>
    BY <1>2 DEF Apply
  <2> QED
    BY <2>1, <2>2 DEF TypeOK
<1>3. CASE Settle
  <2>1. applied' \in 0..(cfgEpoch + 1)
    BY <1>0, <1>3 DEF Settle
  <2> QED
    BY <1>3, <2>1 DEF Settle, TypeOK
<1>4. CASE \/ ApplyFails \/ SeekFails
           \/ \E key \in Keys \union {None}, topic \in Topics : PollMessage(key, topic)
  <2>1. consumer' = "put" /\ UNCHANGED fallbackRR
    BY <1>4, MakeCases DEF Make, MakeRaw
  <2>2. UNCHANGED <<notConsumer, queueVars, applied, broker>>
    BY <1>4, MakeCases
  <2> QED
    BY <2>1, <2>2 DEF TypeOK
<1>5. CASE Put \/ DropRaw
  <2>1. msg[1] \in Message /\ Target \in Ws /\ raw[Target] \in Seq(Message)
    BY <1>5, TargetThread, OneMessage DEF Put, DropRaw, ConsumerInv, Kinds
  <2>2. UNCHANGED <<notConsumer, configVars, pushVars, epoch>> /\ consumer' \in {"put_drop", "bump"}
    BY <1>5 DEF Put, DropRaw
  <2>3. ASSUME NEW queue \in Seq(Message), PutRaw(queue), Len(queue) < RawCap
        PROVE  \A w \in Ws : Len(raw'[w]) <= RawCap
    <3>1. Len(Append(queue, msg[1])) <= RawCap
      BY <2>1, <2>3, MessagesAppend, ClientAssumption
    <3>2. raw' = [raw EXCEPT ![Target] = Append(queue, msg[1])]
      BY <2>3 DEF PutRaw
    <3> QED
      BY <3>1, <3>2 DEF Kinds, TypeOK
  <2>4. << >> \in Seq(Message) /\ Len(<< >>) < RawCap
    BY MessagesFew, ClientAssumption
  <2>5. raw[Target] # << >> => Tail(raw[Target]) \in Seq(Message) /\ Len(Tail(raw[Target])) < RawCap
    <3>1. Len(raw[Target]) <= RawCap
      BY <2>1 DEF TypeOK
    <3> QED
      BY <2>1, <3>1, MessagesTail, ClientAssumption
  <2>6. \A w \in Ws : Len(raw'[w]) <= RawCap
    <3>1. CASE Put
      BY <2>1, <2>3, <3>1 DEF Put, TypeOK
    <3>2. CASE DropRaw
      BY <2>3, <2>4, <2>5, <3>2 DEF DropRaw
    <3> QED
      BY <1>5, <3>1, <3>2
  <2> QED
    BY <2>2, <2>6 DEF TypeOK
<1>6. CASE NotifyWorker
  <2>1. consumer = "bump" /\ msg # Nothing /\ Target \in Ws
    BY <1>6, TargetThread DEF NotifyWorker, ConsumerInv
  <2>2. \A v \in Ws : epoch'[v] \in Nat /\ epoch[v] <= epoch'[v]
    BY <1>6, <2>1, BumpKinds DEF NotifyWorker
  <2>3. ASSUME NEW v \in Ws PROVE seen[v] <= epoch'[v]
    <3>1. seen[v] <= epoch[v]
      BY DEF TypeOK
    <3> QED
      BY <1>0, <2>2, <3>1
  <2>4. fallbackRR' \in Ws
    BY <1>6, NextOfThread DEF NotifyWorker, PushReturns, TypeOK
  <2>5. locked => consumer' \in {"put", "put_drop", "bump", "settle"}
    BY <1>6, <2>1 DEF NotifyWorker, PushReturns, ConsumerInv
  <2>6. UNCHANGED <<notConsumer, configVars, made, raw, dropped>>
    BY <1>6 DEF NotifyWorker
  <2> QED
    BY <2>3, <2>4, <2>5, <2>6 DEF TypeOK
<1> QED
  BY <1>1, <1>2, <1>3, <1>4, <1>5, <1>6, ConsumeCases DEF Stay

LEMMA WorkerType ==
  ASSUME Kinds, TypeOK, NEW w \in Ws, Work(w)
  PROVE  TypeOK'
<1> DEFINE Holding(v) == held[v] # Nothing <=> worker[v] \in {"decode", "put", "put_drop"}
<1> USE DEF notWorker, drainVars, configVars, pushVars
<1>0. /\ raw \in [Ws -> Seq(Message)] /\ evt \in [Ws -> Seq(Message)]
      /\ held \in [Ws -> AtMostOne] /\ epoch \in [Ws -> Nat] /\ seen \in [Ws -> Nat]
      /\ worker \in [Ws -> {"check", "exited", "pop", "load", "wait", "decode", "put",
                            "put_drop", "send"}]
      /\ \A v \in Ws : /\ Len(raw[v]) <= RawCap /\ Len(evt[v]) <= EvtCap /\ Holding(v)
                       /\ seen[v] <= epoch[v] /\ Len(raw[v]) \in Nat /\ Len(evt[v]) \in Nat
      /\ bytes \in 0..SocketCap
  <2>1. /\ raw \in [Ws -> Seq(Message)] /\ evt \in [Ws -> Seq(Message)]
        /\ held \in [Ws -> AtMostOne] /\ epoch \in [Ws -> Nat] /\ seen \in [Ws -> Nat]
        /\ worker \in [Ws -> {"check", "exited", "pop", "load", "wait", "decode", "put",
                              "put_drop", "send"}]
    BY DEF Kinds
  <2>2. \A v \in Ws : Len(raw[v]) \in Nat /\ Len(evt[v]) \in Nat
    BY <2>1
  <2>3. /\ \A v \in Ws : /\ Len(raw[v]) <= RawCap /\ Len(evt[v]) <= EvtCap /\ Holding(v)
                         /\ seen[v] <= epoch[v]
        /\ bytes \in 0..SocketCap
    BY DEF TypeOK
  <2> QED
    BY <2>1, <2>2, <2>3
<1>1. SUFFICES /\ \A v \in Ws : Len(raw'[v]) <= RawCap
               /\ \A v \in Ws : Len(evt'[v]) <= EvtCap
               /\ \A v \in Ws : Holding(v)'
               /\ \A v \in Ws : seen'[v] <= epoch'[v]
               /\ bytes' \in 0..SocketCap
               /\ UNCHANGED notWorker
  BY DEF TypeOK
<1>2. CASE WorkerCheck(w) \/ PopNothing(w)
  BY <1>0, <1>2 DEF WorkerCheck, PopNothing, WorkerAt
<1>3. CASE LoadEpoch(w) \/ Wake(w)
  <2>1. \A v \in Ws : seen'[v] <= epoch[v]
    <3>1. epoch[w] \in Nat
      BY <1>0
    <3>2. CASE LoadEpoch(w)
      BY <1>0, <3>1, <3>2 DEF LoadEpoch
    <3>3. CASE Wake(w)
      BY <1>0, <3>1, <3>3 DEF Wake
    <3> QED
      BY <1>3, <3>2, <3>3
  <2>2. \A v \in Ws : Holding(v)'
    BY <1>0, <1>3 DEF LoadEpoch, Wake, WorkerAt
  <2> QED
    BY <1>0, <1>3, <2>1, <2>2 DEF LoadEpoch, Wake
<1>4. CASE Notify(w)
  <2>1. bytes' \in 0..SocketCap
    BY <1>0, <1>4, ClientAssumption DEF Notify
  <2>2. \A v \in Ws : Holding(v)'
    BY <1>0, <1>4 DEF Notify, WorkerAt
  <2> QED
    BY <1>0, <1>4, <2>1, <2>2 DEF Notify
<1>5. CASE PopRaw(w)
  <2>1. raw[w] \in Seq(Message) /\ raw[w] # << >>
    BY <1>0, <1>5 DEF PopRaw
  <2>2. Len(Tail(raw[w])) \in Nat /\ Len(Tail(raw[w])) <= Len(raw[w])
    BY <2>1, MessagesTail
  <2>3. raw' = [raw EXCEPT ![w] = Tail(raw[w])]
    BY <1>5 DEF PopRaw
  <2>4. \A v \in Ws : Len(raw'[v]) <= RawCap
    BY <1>0, <2>2, <2>3, ClientAssumption
  <2>5. <<Head(raw[w])>> # Nothing
    BY MessagesFew DEF Nothing
  <2>6. \A v \in Ws : Holding(v)'
    BY <1>0, <1>5, <2>5 DEF PopRaw, WorkerAt
  <2> QED
    BY <1>0, <1>5, <2>4, <2>6 DEF PopRaw
<1>6. CASE Decode(w)
  <2>1. <<[held[w][1] EXCEPT !.err = Outcome(held[w][1])]>> # Nothing
    BY MessagesFew DEF Nothing
  <2>2. \A v \in Ws : Holding(v)'
    BY <1>0, <1>6, <2>1 DEF Decode, WorkerAt
  <2> QED
    BY <1>0, <1>6, <2>2 DEF Decode
<1>7. CASE PushEvent(w) \/ DropEvent(w)
  <2>1. worker[w] \in {"put", "put_drop"} /\ evt[w] \in Seq(Message)
    BY <1>0, <1>7 DEF PushEvent, DropEvent, WorkerAt
  <2>2. [held[w][1] EXCEPT !.epoch = 0] \in Message
    <3>1. held[w][1] \in Message
      BY <1>0, <2>1, OneMessage
    <3> QED
      BY <3>1 DEF Message
  <2>3. ASSUME NEW queue \in Seq(Message), PutEvent(w, queue), Len(queue) < EvtCap,
               worker' = [worker EXCEPT ![w] = "send"]
        PROVE  (\A v \in Ws : Len(evt'[v]) <= EvtCap) /\ (\A v \in Ws : Holding(v)')
    <3> DEFINE e == [held[w][1] EXCEPT !.epoch = 0]
    <3>1. Len(Append(queue, e)) <= EvtCap
      BY <2>2, <2>3, MessagesAppend, ClientAssumption
    <3>2. evt' = [evt EXCEPT ![w] = Append(queue, e)] /\ held' = [held EXCEPT ![w] = Nothing]
      BY <2>3 DEF PutEvent
    <3> HIDE DEF e
    <3>3. \A v \in Ws : Len(evt'[v]) <= EvtCap
      BY <1>0, <3>1, <3>2
    <3>4. \A v \in Ws : Holding(v)'
      BY <1>0, <2>3, <3>2
    <3> QED
      BY <3>3, <3>4
  <2>4. << >> \in Seq(Message) /\ Len(<< >>) < EvtCap
    BY MessagesFew, ClientAssumption
  <2>5. evt[w] # << >> => Tail(evt[w]) \in Seq(Message) /\ Len(Tail(evt[w])) < EvtCap
    BY <1>0, <2>1, MessagesTail, ClientAssumption
  <2>6. CASE PushEvent(w) /\ Len(evt[w]) < EvtCap
    BY <1>0, <2>1, <2>3, <2>6 DEF PushEvent, WorkerAt
  <2>7. CASE PushEvent(w) /\ ~(Len(evt[w]) < EvtCap)
    BY <1>0, <2>7 DEF PushEvent, WorkerAt
  <2>8. CASE DropEvent(w)
    <3>1. (\A v \in Ws : Len(evt'[v]) <= EvtCap) /\ (\A v \in Ws : Holding(v)')
      BY <2>3, <2>4, <2>5, <2>8 DEF DropEvent, WorkerAt
    <3> QED
      BY <1>0, <2>8, <3>1 DEF DropEvent
  <2> QED
    BY <1>7, <2>6, <2>7, <2>8
<1> QED
  BY <1>2, <1>3, <1>4, <1>5, <1>6, <1>7 DEF Work

LEMMA TypeStep ==
  ASSUME Kinds, TypeOK, ConsumerInv, [Next]_vars
  PROVE  TypeOK'
<1>1. CASE UNCHANGED vars
  BY <1>1 DEF vars, notCaller, drainVars, subscribeVars, closeVars, pushVars, TypeOK
<1> QED
  BY <1>1, CallerType, ConsumerType, WorkerType, ThreadCases

-----------------------------------------------------------------------------
(* The places, by what they are. *)
EvtSpot(w) == 3 + w
HeldSpot(w) == 3 + Workers + w
RawSpot(w) == 3 + 2 * Workers + w

LEMMA SpotFacts ==
  /\ {1, 2, 3} \subseteq Spots
  /\ \A w \in Ws :
       /\ {EvtSpot(w), HeldSpot(w), RawSpot(w)} \subseteq Spots
       /\ \A v \in Ws :
            /\ v # w => EvtSpot(v) # EvtSpot(w) /\ HeldSpot(v) # HeldSpot(w)
                         /\ RawSpot(v) # RawSpot(w)
            /\ EvtSpot(v) # HeldSpot(w) /\ EvtSpot(v) # RawSpot(w) /\ HeldSpot(v) # RawSpot(w)
       /\ EvtSpot(w) \notin {1, 2, 3} /\ HeldSpot(w) \notin {1, 2, 3}
       /\ RawSpot(w) \notin {1, 2, 3}
  /\ \A i \in Spots :
       \/ i \in {1, 2, 3}
       \/ \E w \in Ws : i = EvtSpot(w) \/ i = HeldSpot(w) \/ i = RawSpot(w)
<1>1. Workers \in Nat /\ Workers > 0
  BY ClientAssumption
<1> USE DEF Spots, Ws, EvtSpot, HeldSpot, RawSpot
<1>2. {1, 2, 3} \subseteq Spots
  BY <1>1
<1>3. ASSUME NEW w \in Ws
      PROVE  /\ {EvtSpot(w), HeldSpot(w), RawSpot(w)} \subseteq Spots
             /\ EvtSpot(w) \notin {1, 2, 3} /\ HeldSpot(w) \notin {1, 2, 3}
             /\ RawSpot(w) \notin {1, 2, 3}
  BY <1>1
<1>4. ASSUME NEW v \in Ws, NEW w \in Ws
      PROVE  /\ v # w => EvtSpot(v) # EvtSpot(w) /\ HeldSpot(v) # HeldSpot(w)
                          /\ RawSpot(v) # RawSpot(w)
             /\ EvtSpot(v) # HeldSpot(w) /\ EvtSpot(v) # RawSpot(w) /\ HeldSpot(v) # RawSpot(w)
  BY <1>1
<1>5. ASSUME NEW i \in Spots, i \notin {1, 2, 3}
      PROVE  \E w \in Ws : i = EvtSpot(w) \/ i = HeldSpot(w) \/ i = RawSpot(w)
  <2>1. CASE i <= 3 + Workers
    <3>1. i - 3 \in Ws /\ i = EvtSpot(i - 3)
      BY <1>1, <1>5, <2>1
    <3> QED
      BY <3>1
  <2>2. CASE ~(i <= 3 + Workers) /\ i <= 3 + 2 * Workers
    <3>1. i - 3 - Workers \in Ws /\ i = HeldSpot(i - 3 - Workers)
      BY <1>1, <1>5, <2>2
    <3> QED
      BY <3>1
  <2>3. CASE ~(i <= 3 + 2 * Workers)
    <3>1. i - 3 - 2 * Workers \in Ws /\ i = RawSpot(i - 3 - 2 * Workers)
      BY <1>1, <1>5, <2>3
    <3> QED
      BY <3>1
  <2> QED
    BY <2>1, <2>2, <2>3
<1> QED
  BY <1>2, <1>3, <1>4, <1>5

LEMMA PlaceFacts ==
  /\ Place(1) = IdsIn(drained) /\ Place(2) = dropped
  /\ Place(3) = IF Pushing THEN IdsIn(msg) ELSE {}
  /\ \A w \in Ws : /\ Place(EvtSpot(w)) = IdsIn(evt[w])
                   /\ Place(HeldSpot(w)) = IdsIn(held[w])
                   /\ Place(RawSpot(w)) = IdsIn(raw[w])
  /\ Place(1)' = IdsIn(drained)' /\ Place(2)' = dropped'
  /\ Place(3)' = IF Pushing' THEN IdsIn(msg)' ELSE {}
  /\ \A w \in Ws : /\ Place(EvtSpot(w))' = IdsIn(evt'[w])
                   /\ Place(HeldSpot(w))' = IdsIn(held'[w])
                   /\ Place(RawSpot(w))' = IdsIn(raw'[w])
<1>1. ASSUME NEW w \in Ws
      PROVE  /\ EvtSpot(w) \notin {1, 2, 3} /\ EvtSpot(w) <= 3 + Workers /\ EvtSpot(w) - 3 = w
             /\ HeldSpot(w) \notin {1, 2, 3} /\ ~(HeldSpot(w) <= 3 + Workers)
             /\ HeldSpot(w) <= 3 + 2 * Workers /\ HeldSpot(w) - 3 - Workers = w
             /\ RawSpot(w) \notin {1, 2, 3} /\ ~(RawSpot(w) <= 3 + Workers)
             /\ ~(RawSpot(w) <= 3 + 2 * Workers) /\ RawSpot(w) - 3 - 2 * Workers = w
  BY ClientAssumption DEF Ws, EvtSpot, HeldSpot, RawSpot
<1>2. ASSUME NEW w \in Ws
      PROVE  /\ Place(EvtSpot(w)) = IdsIn(evt[w]) /\ Place(EvtSpot(w))' = IdsIn(evt'[w])
             /\ Place(HeldSpot(w)) = IdsIn(held[w]) /\ Place(HeldSpot(w))' = IdsIn(held'[w])
             /\ Place(RawSpot(w)) = IdsIn(raw[w]) /\ Place(RawSpot(w))' = IdsIn(raw'[w])
  BY <1>1 DEF Place, IdsIn
<1>3. /\ Place(1) = IdsIn(drained) /\ Place(2) = dropped
      /\ Place(3) = IF Pushing THEN IdsIn(msg) ELSE {}
      /\ Place(1)' = IdsIn(drained)' /\ Place(2)' = dropped'
      /\ Place(3)' = IF Pushing' THEN IdsIn(msg)' ELSE {}
  BY DEF Place
<1> QED
  BY <1>2, <1>3

(* A number changes its place, or two do, or a new one gets one. *)
LEMMA Moved ==
  ASSUME PlaceInv, UNCHANGED made, NEW a \in Spots, NEW b \in Spots, a # b, NEW x \in Place(a),
         Place(a)' = Place(a) \ {x}, Place(b)' = Place(b) \union {x},
         \A i \in Spots \ {a, b} : Place(i)' = Place(i)
  PROVE  PlaceInv'
<1>1. \A i \in Spots : Place(i)' \subseteq 1..made
  BY DEF PlaceInv
<1>2. \A y \in 1..made : \E i \in Spots : y \in Place(i)'
  BY DEF PlaceInv
<1>3. \A i, j \in Spots : i # j => Place(i)' \intersect Place(j)' = {}
  BY DEF PlaceInv
<1> QED
  BY <1>1, <1>2, <1>3 DEF PlaceInv, Spots

LEMMA MovedOn ==
  ASSUME PlaceInv, UNCHANGED made,
         NEW a \in Spots, NEW b \in Spots, NEW c \in Spots, a # b, b # c, a # c,
         NEW x \in Place(a), NEW y \in Place(c),
         Place(a)' = (Place(a) \ {x}) \union {y}, Place(b)' = Place(b) \union {x},
         Place(c)' = Place(c) \ {y},
         \A i \in Spots \ {a, b, c} : Place(i)' = Place(i)
  PROVE  PlaceInv'
<1>1. \A i \in Spots : Place(i)' \subseteq 1..made
  BY DEF PlaceInv
<1>2. \A z \in 1..made : \E i \in Spots : z \in Place(i)'
  BY DEF PlaceInv
<1>3. \A i, j \in Spots : i # j => Place(i)' \intersect Place(j)' = {}
  BY DEF PlaceInv
<1> QED
  BY <1>1, <1>2, <1>3 DEF PlaceInv, Spots

LEMMA Added ==
  ASSUME PlaceInv, made \in Nat, made' = made + 1, NEW a \in Spots, Place(a) = {},
         Place(a)' = {made'},
         \A i \in Spots \ {a} : Place(i)' = Place(i)
  PROVE  PlaceInv'
<1>1. 1..made' = (1..made) \union {made'} /\ made' \notin 1..made
  OBVIOUS
<1>2. \A i \in Spots : Place(i)' \subseteq 1..made'
  BY <1>1 DEF PlaceInv
<1>3. \A y \in 1..made' : \E i \in Spots : y \in Place(i)'
  BY <1>1 DEF PlaceInv
<1>4. \A i, j \in Spots : i # j => Place(i)' \intersect Place(j)' = {}
  BY <1>1 DEF PlaceInv
<1> QED
  BY <1>2, <1>3, <1>4 DEF PlaceInv, Spots

-----------------------------------------------------------------------------
(* Messages on their way *)

Ordered == PlaceInv /\ OrderInv /\ KeyInv

(* Most steps move no message. *)
Unmoved ==
  /\ UNCHANGED <<drained, dropped, evt, held, raw, made>>
  /\ UNCHANGED msg \/ ~Pushing'
  /\ Pushing' = Pushing

LEMMA UnmovedStep ==
  ASSUME Ordered, Unmoved
  PROVE  Ordered'
<1>1. \A i \in Spots : Place(i)' = Place(i)
  <2>1. Place(1)' = Place(1) /\ Place(2)' = Place(2) /\ Place(3)' = Place(3)
    BY PlaceFacts DEF Unmoved, IdsIn
  <2>2. \A w \in Ws : /\ Place(EvtSpot(w))' = Place(EvtSpot(w))
                      /\ Place(HeldSpot(w))' = Place(HeldSpot(w))
                      /\ Place(RawSpot(w))' = Place(RawSpot(w))
    BY PlaceFacts DEF Unmoved
  <2> QED
    BY <2>1, <2>2, SpotFacts
<1>2. PlaceInv'
  BY <1>1 DEF Ordered, PlaceInv, Unmoved, Spots
<1>3. OrderInv' /\ KeyInv'
  BY DEF Ordered, OrderInv, KeyInv, Ahead, Unmoved
<1> QED
  BY <1>2, <1>3 DEF Ordered

(* A message on its way is below 1 + made. *)
LEMMA Numbered ==
  ASSUME Kinds, PlaceInv
  PROVE  /\ \A m \in Range(drained) : m.id \in 1..made
         /\ \A w \in Ws : \A m \in Ahead(w) : m.id \in 1..made
<1>1. Place(1) \subseteq 1..made
  BY SpotFacts DEF PlaceInv
<1>2. ASSUME NEW w \in Ws
      PROVE  /\ Place(EvtSpot(w)) \subseteq 1..made /\ Place(HeldSpot(w)) \subseteq 1..made
             /\ Place(RawSpot(w)) \subseteq 1..made
  BY SpotFacts DEF PlaceInv
<1> QED
  BY <1>1, <1>2, PlaceFacts DEF Ahead, IdsIn

(* The one that is pushed is above all others. *)
LEMMA Newest ==
  ASSUME Kinds, Ordered, Pushing, msg # Nothing
  PROVE  /\ msg[1].id = made /\ Range(msg) = {msg[1]} /\ Place(3) = {made}
         /\ \A m \in Range(drained) : m.id < made
         /\ \A w \in Ws : \A m \in Ahead(w) : m.id < made
<1>1. Range(msg) = {msg[1]} /\ IdsIn(msg) = {msg[1].id}
  BY OneMessage DEF Kinds
<1>2. msg[1].id = made
  BY <1>1 DEF Ordered, OrderInv
<1>3. Place(3) = {made}
  BY <1>1, <1>2, PlaceFacts
<1>4. \A i \in Spots : i # 3 => made \notin Place(i)
  BY <1>3, SpotFacts DEF Ordered, PlaceInv
<1>5. made \notin Place(1)
  BY <1>4, SpotFacts
<1>6. \A w \in Ws : /\ made \notin Place(EvtSpot(w)) /\ made \notin Place(HeldSpot(w))
                    /\ made \notin Place(RawSpot(w))
  BY <1>4, SpotFacts
<1>7. \A m \in Range(drained) : m.id # made
  BY <1>5, PlaceFacts DEF IdsIn
<1>8. \A w \in Ws : \A m \in Ahead(w) : m.id # made
  BY <1>6, PlaceFacts DEF Ahead, IdsIn
<1>9. made \in Nat /\ \A x \in 1..made : x # made => x < made
  BY DEF Kinds
<1> QED
  BY <1>1, <1>2, <1>3, <1>7, <1>8, <1>9, Numbered DEF Ordered

(* drainTo takes the oldest event of a queue. *)
LEMMA DrainMoves ==
  ASSUME Kinds, TypeOK, Ordered, DrainPop
  PROVE  Ordered'
<1>1. PICK w \in Ws : w = at
  BY DEF TypeOK
<1>2. evt[w] \in Seq(Message) /\ evt[w] # << >> /\ drained \in Seq(Message) /\ Growing(evt[w])
  BY <1>1 DEF DrainPop, Kinds, Ordered, OrderInv
<1>3. PICK h : h = Head(evt[w])
  OBVIOUS
<1>4. PICK t : t = Tail(evt[w])
  OBVIOUS
<1>5. /\ h \in Message /\ Range(evt[w]) = Range(t) \union {h}
           /\ IdsIn(evt[w]) = IdsIn(t) \union {h.id}
      /\ Growing(t) /\ Before({h}, Range(t)) /\ IdsIn(t) = IdsIn(evt[w]) \ {h.id}
  BY <1>2, <1>3, <1>4, MessagesTail
<1>6. /\ drained' = Append(drained, h) /\ evt' = [evt EXCEPT ![w] = t]
      /\ UNCHANGED <<held, raw, dropped, msg, consumer, made, fallbackRR>>
  BY <1>1, <1>3, <1>4 DEF DrainPop, notCaller, pushVars
<1>7. evt'[w] = t /\ \A v \in Ws \ {w} : evt'[v] = evt[v]
  BY <1>6 DEF Kinds
<1>8. /\ Range(drained') = Range(drained) \union {h}
           /\ IdsIn(drained') = IdsIn(drained) \union {h.id}
      /\ KeysGrowing(drained) /\ (\A x \in Range(drained) : SameKey(x, h) => x.id < h.id)
           => KeysGrowing(drained')
  BY <1>2, <1>5, <1>6, MessagesAppend
<1>9. Pushing' = Pushing /\ IdsIn(msg)' = IdsIn(msg) /\ IdsIn(drained)' = IdsIn(drained')
  BY <1>6 DEF Pushing, IdsIn
<1>10. PlaceInv'
  <2>1. Place(EvtSpot(w))' = Place(EvtSpot(w)) \ {h.id} /\ h.id \in Place(EvtSpot(w))
    BY <1>5, <1>7, PlaceFacts
  <2>2. Place(1)' = Place(1) \union {h.id}
    BY <1>8, <1>9, PlaceFacts
  <2>3. Place(2)' = Place(2) /\ Place(3)' = Place(3)
    BY <1>6, <1>9, PlaceFacts
  <2>4. \A v \in Ws : /\ v # w => Place(EvtSpot(v))' = Place(EvtSpot(v))
                      /\ Place(HeldSpot(v))' = Place(HeldSpot(v))
                      /\ Place(RawSpot(v))' = Place(RawSpot(v))
    BY <1>6, <1>7, PlaceFacts
  <2>5. \A i \in Spots \ {EvtSpot(w), 1} : Place(i)' = Place(i)
    BY <2>3, <2>4, SpotFacts
  <2>6. EvtSpot(w) \in Spots /\ 1 \in Spots /\ EvtSpot(w) # 1
    BY SpotFacts
  <2> QED
    BY <1>6, <2>1, <2>2, <2>5, <2>6, Moved DEF Ordered
<1>11. OrderInv'
  BY <1>5, <1>6, <1>7, <1>9 DEF Ordered, OrderInv, Before
<1>12. \A v \in Ws : Ahead(v)' \subseteq Ahead(v)
  BY <1>5, <1>6, <1>7 DEF Ahead
<1>13. h \in Ahead(w) /\ KeyInv
  BY <1>5 DEF Ahead, Ordered
<1>14. KeysGrowing(drained')
  BY <1>8, <1>13 DEF KeyInv
<1>15. ASSUME NEW v \in Ws, NEW m \in Ahead(v)', SameKey(h, m)
       PROVE  h.id < m.id
  <2>1. v = w
    BY <1>12, <1>13, <1>15 DEF KeyInv, SameKey
  <2>2. m \in Range(t) \/ m \in Range(held[w]) \/ m \in Range(raw[w])
    BY <1>6, <1>7, <1>15, <2>1 DEF Ahead
  <2> QED
    BY <1>5, <2>2 DEF Ordered, OrderInv, Before
<1>16. KeyInv'
  BY <1>8, <1>12, <1>13, <1>14, <1>15 DEF KeyInv
<1> QED
  BY <1>10, <1>11, <1>16 DEF Ordered

(* The consumer makes a message. *)
LEMMA MakeMoves ==
  ASSUME Kinds, TypeOK, Ordered, ~Pushing, Make, UNCHANGED <<drained, dropped, evt, held, raw>>
  PROVE  Ordered'
<1>1. PICK m \in Message, to \in {"check", "seek", "settle"} : MakeRaw(m, to) /\ m.id = made + 1
  BY DEF Make
<1>2. made' = made + 1 /\ msg' = <<m>> /\ Pushing' /\ made \in Nat
  BY <1>1 DEF MakeRaw, Pushing, Kinds
<1>3. Range(msg') = {m} /\ IdsIn(msg') = {made'} /\ IdsIn(msg)' = IdsIn(msg')
  BY <1>1, <1>2, MessagesFew DEF IdsIn
<1>4. Place(3) = {} /\ Place(3)' = {made'}
  BY <1>2, <1>3, PlaceFacts
<1>5. \A i \in Spots \ {3} : Place(i)' = Place(i)
  <2>1. Place(1)' = Place(1) /\ Place(2)' = Place(2)
    BY PlaceFacts DEF IdsIn
  <2>2. \A w \in Ws : /\ Place(EvtSpot(w))' = Place(EvtSpot(w))
                      /\ Place(HeldSpot(w))' = Place(HeldSpot(w))
                      /\ Place(RawSpot(w))' = Place(RawSpot(w))
    BY PlaceFacts
  <2> QED
    BY <2>1, <2>2, SpotFacts
<1>6. PlaceInv'
  BY <1>2, <1>4, <1>5, SpotFacts, Added DEF Ordered
<1>7. OrderInv'
  BY <1>1, <1>2, <1>3 DEF Ordered, OrderInv
<1>8. KeyInv'
  BY DEF Ordered, KeyInv, Ahead
<1> QED
  BY <1>6, <1>7, <1>8 DEF Ordered

(* The message that is pushed goes behind a part of what its queue held. *)
LEMMA PutOrdered ==
  ASSUME Kinds, TypeOK, Ordered, Pushing, msg # Nothing, ~Pushing',
         UNCHANGED <<drained, evt, held, made>>,
         NEW queue \in Seq(Message), Growing(queue), Range(queue) \subseteq Range(raw[Target]),
         PutRaw(queue)
  PROVE  OrderInv' /\ KeyInv'
<1>1. PICK w \in Ws : w = Target
  BY TargetThread
<1>2. PICK m \in Message : m = msg[1]
  BY OneMessage DEF Kinds
<1>3. PICK q : q = Append(queue, m)
  OBVIOUS
<1>4. /\ m.id = made /\ (\A x \in Range(drained) : x.id < m.id)
      /\ \A v \in Ws : \A x \in Ahead(v) : x.id < m.id
  BY <1>2, Newest
<1>5. Before(Range(queue), {m})
  BY <1>1, <1>4 DEF Before, Ahead
<1>6. Range(q) = Range(queue) \union {m} /\ Growing(q)
  BY <1>2, <1>3, <1>5, MessagesAppend
<1>7. raw'[w] = q /\ \A v \in Ws \ {w} : raw'[v] = raw[v]
  BY <1>1, <1>2, <1>3 DEF PutRaw, Kinds
<1>8. Range(evt[w]) \subseteq Ahead(w) /\ Range(held[w]) \subseteq Ahead(w)
  BY DEF Ahead
<1>9. OrderInv'
  BY <1>1, <1>4, <1>6, <1>7, <1>8 DEF Ordered, OrderInv, Before
<1>10. Ahead(w)' \subseteq Ahead(w) \union {m} /\ \A v \in Ws \ {w} : Ahead(v)' = Ahead(v)
  BY <1>1, <1>6, <1>7 DEF Ahead
<1>11. m.key # None => WorkerOf[m.key] = w
  BY <1>1, <1>2, TargetThread
<1>12. KeyInv'
  BY <1>4, <1>10, <1>11 DEF Ordered, KeyInv
<1> QED
  BY <1>9, <1>12

LEMMA PutMoves ==
  ASSUME Kinds, TypeOK, ConsumerInv, Ordered, Put \/ DropRaw
  PROVE  Ordered'
<1>1. /\ UNCHANGED <<drained, evt, held, made, msg>> /\ Pushing /\ msg # Nothing
      /\ Put => UNCHANGED dropped
  BY DEF Put, DropRaw, notConsumer, drainVars, pushVars, ConsumerInv, Pushing
<1>2. PICK w \in Ws : w = Target
  BY <1>1, TargetThread
<1>3. raw[w] \in Seq(Message) /\ Growing(raw[w])
  BY DEF Kinds, Ordered, OrderInv
<1>4. /\ msg[1] \in Message /\ msg[1].id = made /\ Place(3) = {made}
  BY <1>1, OneMessage, Newest DEF Kinds
<1>5. ASSUME NEW queue \in Seq(Message), PutRaw(queue), ~Pushing'
      PROVE  /\ Place(3)' = {} /\ Place(RawSpot(w))' = IdsIn(queue) \union {made}
             /\ \A i \in Spots \ {2, 3, RawSpot(w)} : Place(i)' = Place(i)
  <2>1. raw'[w] = Append(queue, msg[1]) /\ \A v \in Ws \ {w} : raw'[v] = raw[v]
    BY <1>2, <1>5 DEF PutRaw, Kinds
  <2>2. IdsIn(raw'[w]) = IdsIn(queue) \union {made}
    BY <1>4, <1>5, <2>1, MessagesAppend
  <2>3. Place(1)' = Place(1)
    BY <1>1, PlaceFacts DEF IdsIn
  <2>4. \A v \in Ws : /\ Place(EvtSpot(v))' = Place(EvtSpot(v))
                      /\ Place(HeldSpot(v))' = Place(HeldSpot(v))
                      /\ v # w => Place(RawSpot(v))' = Place(RawSpot(v))
    BY <1>1, <2>1, PlaceFacts
  <2>5. \A i \in Spots \ {2, 3, RawSpot(w)} : Place(i)' = Place(i)
    BY <2>3, <2>4, SpotFacts
  <2> QED
    BY <1>5, <2>2, <2>5, PlaceFacts
<1>6. {2, 3, RawSpot(w)} \subseteq Spots /\ RawSpot(w) # 2 /\ RawSpot(w) # 3
        /\ Place(RawSpot(w)) = IdsIn(raw[w])
  BY SpotFacts, PlaceFacts
<1>7. CASE PutRaw(raw[w]) /\ consumer' = "bump" /\ UNCHANGED dropped
  <2>1. ~Pushing'
    BY <1>7 DEF Pushing
  <2>2. Place(2)' = Place(2)
    BY <1>7, PlaceFacts
  <2>3. \A i \in Spots \ {3, RawSpot(w)} : Place(i)' = Place(i)
    BY <1>3, <1>5, <1>7, <2>1, <2>2
  <2>4. Place(3)' = Place(3) \ {made} /\ Place(RawSpot(w))' = Place(RawSpot(w)) \union {made}
    BY <1>3, <1>4, <1>5, <1>6, <1>7, <2>1
  <2>5. PlaceInv'
    BY <1>1, <1>4, <1>6, <2>3, <2>4, Moved DEF Ordered
  <2>6. OrderInv' /\ KeyInv'
    BY <1>1, <1>2, <1>3, <1>7, <2>1, PutOrdered
  <2> QED
    BY <2>5, <2>6 DEF Ordered
<1>8. CASE Put /\ consumer' = "put_drop" /\ UNCHANGED raw
  <2>1. Unmoved
    BY <1>1, <1>8 DEF Unmoved, Pushing
  <2> QED
    BY <2>1, UnmovedStep
<1>9. CASE /\ raw[w] # << >> /\ PutRaw(Tail(raw[w])) /\ consumer' = "bump"
           /\ dropped' = dropped \union {Head(raw[w]).id}
  <2>1. ~Pushing'
    BY <1>9 DEF Pushing
  <2>2. PICK t : t = Tail(raw[w])
    OBVIOUS
  <2>3. PICK x : x = Head(raw[w]).id
    OBVIOUS
  <2>4. /\ t \in Seq(Message) /\ Range(t) \subseteq Range(raw[w]) /\ Growing(t)
        /\ IdsIn(t) = IdsIn(raw[w]) \ {x} /\ x \in IdsIn(raw[w])
    BY <1>3, <1>9, <2>2, <2>3, MessagesTail
  <2>5. PutRaw(t) /\ dropped' = dropped \union {x}
    BY <1>9, <2>2, <2>3
  <2>6. Place(2)' = Place(2) \union {x}
    BY <2>5, PlaceFacts
  <2>7. /\ Place(3)' = Place(3) \ {made}
        /\ Place(RawSpot(w))' = (Place(RawSpot(w)) \ {x}) \union {made}
        /\ \A i \in Spots \ {RawSpot(w), 2, 3} : Place(i)' = Place(i)
    BY <1>4, <1>5, <1>6, <2>1, <2>4, <2>5
  <2>8. PlaceInv'
    <3>1. PICK r \in Spots : r = RawSpot(w)
      BY <1>6
    <3>2. /\ PlaceInv /\ UNCHANGED made /\ 2 \in Spots /\ 3 \in Spots /\ r # 2 /\ 2 # 3 /\ r # 3
          /\ x \in Place(r) /\ made \in Place(3)
      BY <1>1, <1>4, <1>6, <2>4, <3>1 DEF Ordered
    <3>3. PICK n : n = made
      OBVIOUS
    <3>4. /\ Place(r)' = (Place(r) \ {x}) \union {n} /\ Place(2)' = Place(2) \union {x}
          /\ Place(3)' = Place(3) \ {n} /\ \A i \in Spots \ {r, 2, 3} : Place(i)' = Place(i)
      BY <2>6, <2>7, <3>1, <3>3
    <3> QED
      BY <3>2, <3>3, <3>4, MovedOn
  <2>9. OrderInv' /\ KeyInv'
    BY <1>1, <1>2, <2>1, <2>4, <2>5, PutOrdered
  <2> QED
    BY <2>8, <2>9 DEF Ordered
<1> QED
  BY <1>1, <1>2, <1>7, <1>8, <1>9 DEF Put, DropRaw

(* A decode thread takes the oldest message of its queue. *)
LEMMA PopMoves ==
  ASSUME Kinds, TypeOK, Ordered, NEW w \in Ws, PopRaw(w)
  PROVE  Ordered'
<1>1. raw[w] \in Seq(Message) /\ raw[w] # << >> /\ Growing(raw[w]) /\ held[w] = << >>
  BY DEF PopRaw, WorkerAt, Kinds, Ordered, OrderInv, TypeOK, Nothing
<1>2. PICK h : h = Head(raw[w])
  OBVIOUS
<1>3. PICK t : t = Tail(raw[w])
  OBVIOUS
<1>4. /\ h \in Message /\ Range(raw[w]) = Range(t) \union {h}
           /\ IdsIn(raw[w]) = IdsIn(t) \union {h.id}
      /\ Growing(t) /\ Before({h}, Range(t)) /\ IdsIn(t) = IdsIn(raw[w]) \ {h.id}
  BY <1>1, <1>2, <1>3, MessagesTail
<1>5. /\ raw' = [raw EXCEPT ![w] = t] /\ held' = [held EXCEPT ![w] = <<h>>]
      /\ UNCHANGED <<drained, evt, dropped, msg, consumer, made, fallbackRR>>
  BY <1>2, <1>3 DEF PopRaw, notWorker, drainVars, pushVars
<1>6. /\ raw'[w] = t /\ held'[w] = <<h>>
      /\ \A v \in Ws \ {w} : raw'[v] = raw[v] /\ held'[v] = held[v]
  BY <1>5 DEF Kinds
<1>7. /\ Range(held'[w]) = {h} /\ IdsIn(held'[w]) = {h.id}
      /\ Range(held[w]) = {} /\ IdsIn(held[w]) = {}
  BY <1>1, <1>6, MessagesFew
<1>8. Pushing' = Pushing /\ IdsIn(msg)' = IdsIn(msg) /\ IdsIn(drained)' = IdsIn(drained)
  BY <1>5 DEF Pushing, IdsIn
<1>9. PlaceInv'
  <2>1. Place(RawSpot(w))' = Place(RawSpot(w)) \ {h.id} /\ h.id \in Place(RawSpot(w))
    BY <1>4, <1>6, PlaceFacts
  <2>2. Place(HeldSpot(w))' = Place(HeldSpot(w)) \union {h.id}
    BY <1>7, PlaceFacts
  <2>3. Place(1)' = Place(1) /\ Place(2)' = Place(2) /\ Place(3)' = Place(3)
    BY <1>5, <1>8, PlaceFacts
  <2>4. \A v \in Ws : /\ Place(EvtSpot(v))' = Place(EvtSpot(v))
                      /\ v # w => Place(HeldSpot(v))' = Place(HeldSpot(v))
                      /\ v # w => Place(RawSpot(v))' = Place(RawSpot(v))
    BY <1>5, <1>6, PlaceFacts
  <2>5. \A i \in Spots \ {RawSpot(w), HeldSpot(w)} : Place(i)' = Place(i)
    BY <2>3, <2>4, SpotFacts
  <2>6. RawSpot(w) \in Spots /\ HeldSpot(w) \in Spots /\ RawSpot(w) # HeldSpot(w)
    BY SpotFacts
  <2> QED
    BY <1>5, <2>1, <2>2, <2>5, <2>6, Moved DEF Ordered
<1>10. OrderInv'
  BY <1>4, <1>5, <1>6, <1>7, <1>8 DEF Ordered, OrderInv, Before
<1>11. \A v \in Ws : Ahead(v)' \subseteq Ahead(v)
  BY <1>4, <1>5, <1>6, <1>7 DEF Ahead
<1>12. KeyInv'
  BY <1>5, <1>11 DEF Ordered, KeyInv
<1> QED
  BY <1>9, <1>10, <1>12 DEF Ordered

(* Decoding changes neither number nor key. *)
LEMMA DecodeMoves ==
  ASSUME Kinds, TypeOK, Ordered, NEW w \in Ws, Decode(w)
  PROVE  Ordered'
<1>1. held[w] # Nothing /\ held[w] \in AtMostOne
  BY DEF Decode, WorkerAt, TypeOK, Kinds
<1>2. PICK m \in Message : held[w] = <<m>> /\ m = held[w][1]
  BY <1>1, OneMessage
<1>3. PICK e : e = [m EXCEPT !.err = Outcome(m)]
  OBVIOUS
<1>4. e.id = m.id /\ e.key = m.key
  BY <1>3 DEF Message
<1>5. /\ held' = [held EXCEPT ![w] = <<e>>]
      /\ UNCHANGED <<drained, evt, raw, dropped, msg, consumer, made, fallbackRR>>
  BY <1>2, <1>3 DEF Decode, notWorker, drainVars, pushVars
<1>6. held'[w] = <<e>> /\ \A v \in Ws \ {w} : held'[v] = held[v]
  BY <1>5 DEF Kinds
<1>7. /\ Range(held'[w]) = {e} /\ IdsIn(held'[w]) = {m.id}
      /\ Range(held[w]) = {m} /\ IdsIn(held[w]) = {m.id}
  BY <1>2, <1>4, <1>6, MessagesFew
<1>8. Pushing' = Pushing /\ IdsIn(msg)' = IdsIn(msg) /\ IdsIn(drained)' = IdsIn(drained)
  BY <1>5 DEF Pushing, IdsIn
<1>9. \A i \in Spots : Place(i)' = Place(i)
  <2>1. Place(1)' = Place(1) /\ Place(2)' = Place(2) /\ Place(3)' = Place(3)
    BY <1>5, <1>8, PlaceFacts
  <2>2. \A v \in Ws : IdsIn(held'[v]) = IdsIn(held[v])
    BY <1>6, <1>7
  <2>3. \A v \in Ws : /\ Place(EvtSpot(v))' = Place(EvtSpot(v))
                      /\ Place(HeldSpot(v))' = Place(HeldSpot(v))
                      /\ Place(RawSpot(v))' = Place(RawSpot(v))
    BY <1>5, <2>2, PlaceFacts
  <2> QED
    BY <2>1, <2>3, SpotFacts
<1>10. PlaceInv'
  BY <1>5, <1>9 DEF Ordered, PlaceInv, Spots
<1>11. OrderInv'
  BY <1>4, <1>5, <1>6, <1>7, <1>8 DEF Ordered, OrderInv, Before
<1>12. Ahead(w)' \subseteq Ahead(w) \union {e} /\ m \in Ahead(w)
         /\ \A v \in Ws \ {w} : Ahead(v)' = Ahead(v)
  BY <1>5, <1>6, <1>7 DEF Ahead
<1>13. KeyInv'
  BY <1>4, <1>5, <1>12 DEF Ordered, KeyInv, SameKey
<1> QED
  BY <1>10, <1>11, <1>13 DEF Ordered

(* The event of a message goes behind a part of what its queue held. *)
LEMMA EventOrdered ==
  ASSUME Kinds, TypeOK, Ordered, NEW w \in Ws, held[w] # Nothing,
         UNCHANGED <<drained, raw, msg, consumer, made, fallbackRR>>,
         NEW queue \in Seq(Message), Growing(queue), Range(queue) \subseteq Range(evt[w]),
         PutEvent(w, queue)
  PROVE  /\ OrderInv' /\ KeyInv'
         /\ held[w][1].id \in Nat /\ IdsIn(held[w]) = {held[w][1].id} /\ IdsIn(held'[w]) = {}
         /\ IdsIn(evt'[w]) = IdsIn(queue) \union {held[w][1].id}
         /\ \A v \in Ws \ {w} : evt'[v] = evt[v] /\ held'[v] = held[v]
<1>1. PICK m \in Message : held[w] = <<m>> /\ m = held[w][1]
  BY OneMessage DEF Kinds
<1>2. PICK e : e = [m EXCEPT !.epoch = 0]
  OBVIOUS
<1>3. e \in Message /\ e.id = m.id /\ e.key = m.key /\ m.id \in Nat
  BY <1>2 DEF Message
<1>4. PICK q : q = Append(queue, e)
  OBVIOUS
<1>5. evt' = [evt EXCEPT ![w] = q] /\ held' = [held EXCEPT ![w] = << >>]
  BY <1>1, <1>2, <1>4 DEF PutEvent, Nothing
<1>6. /\ evt'[w] = q /\ held'[w] = << >>
      /\ \A v \in Ws \ {w} : evt'[v] = evt[v] /\ held'[v] = held[v]
  BY <1>5 DEF Kinds
<1>7. /\ Range(held'[w]) = {} /\ IdsIn(held'[w]) = {}
      /\ Range(held[w]) = {m} /\ IdsIn(held[w]) = {m.id}
  BY <1>1, <1>6, MessagesFew
<1>8. Before(Range(queue), {e})
  BY <1>3, <1>7 DEF Ordered, OrderInv, Before
<1>9. Range(q) = Range(queue) \union {e} /\ Growing(q) /\ IdsIn(q) = IdsIn(queue) \union {m.id}
  BY <1>3, <1>4, <1>8, MessagesAppend
<1>10. OrderInv'
  BY <1>3, <1>6, <1>7, <1>9 DEF Ordered, OrderInv, Before, Pushing
<1>11. Ahead(w)' \subseteq Ahead(w) \union {e} /\ m \in Ahead(w)
         /\ \A v \in Ws \ {w} : Ahead(v)' = Ahead(v)
  BY <1>6, <1>7, <1>9 DEF Ahead
<1>12. KeyInv'
  BY <1>3, <1>11 DEF Ordered, KeyInv, SameKey
<1> QED
  BY <1>1, <1>3, <1>6, <1>7, <1>9, <1>10, <1>12

LEMMA EventMoves ==
  ASSUME Kinds, TypeOK, Ordered, NEW w \in Ws, PushEvent(w) \/ DropEvent(w)
  PROVE  Ordered'
<1>1. /\ UNCHANGED <<drained, raw, msg, consumer, made, fallbackRR>>
      /\ held[w] # Nothing /\ evt[w] \in Seq(Message) /\ Growing(evt[w])
  BY DEF PushEvent, DropEvent, WorkerAt, notWorker, drainVars, pushVars, Kinds, TypeOK, Ordered,
     OrderInv
<1>2. Pushing' = Pushing /\ IdsIn(msg)' = IdsIn(msg) /\ IdsIn(drained)' = IdsIn(drained)
  BY <1>1 DEF Pushing, IdsIn
<1>3. PICK y : y = held[w][1].id
  OBVIOUS
<1>4. ASSUME NEW queue \in Seq(Message), Growing(queue), Range(queue) \subseteq Range(evt[w]),
             PutEvent(w, queue)
      PROVE  /\ OrderInv' /\ KeyInv'
             /\ Place(EvtSpot(w))' = IdsIn(queue) \union {y}
             /\ Place(HeldSpot(w))' = Place(HeldSpot(w)) \ {y} /\ y \in Place(HeldSpot(w))
             /\ \A i \in Spots \ {2, EvtSpot(w), HeldSpot(w)} : Place(i)' = Place(i)
  <2>1. /\ OrderInv' /\ KeyInv'
        /\ IdsIn(held[w]) = {y} /\ IdsIn(held'[w]) = {}
        /\ IdsIn(evt'[w]) = IdsIn(queue) \union {y}
        /\ \A v \in Ws \ {w} : evt'[v] = evt[v] /\ held'[v] = held[v]
    BY <1>1, <1>3, <1>4, EventOrdered
  <2>2. Place(1)' = Place(1) /\ Place(3)' = Place(3)
    BY <1>2, PlaceFacts
  <2>3. \A v \in Ws : /\ v # w => Place(EvtSpot(v))' = Place(EvtSpot(v))
                      /\ v # w => Place(HeldSpot(v))' = Place(HeldSpot(v))
                      /\ Place(RawSpot(v))' = Place(RawSpot(v))
    BY <1>1, <2>1, PlaceFacts
  <2>4. \A i \in Spots \ {2, EvtSpot(w), HeldSpot(w)} : Place(i)' = Place(i)
    BY <2>2, <2>3, SpotFacts
  <2> QED
    BY <2>1, <2>4, PlaceFacts
<1>5. PICK a \in Spots : a = EvtSpot(w)
  BY SpotFacts
<1>6. PICK c \in Spots : c = HeldSpot(w)
  BY SpotFacts
<1>7. 2 \in Spots /\ a # 2 /\ 2 # c /\ a # c /\ Place(a) = IdsIn(evt[w])
  BY <1>5, <1>6, SpotFacts, PlaceFacts
<1>8. CASE PutEvent(w, evt[w]) /\ UNCHANGED dropped
  <2>1. /\ OrderInv' /\ KeyInv' /\ Place(a)' = Place(a) \union {y}
        /\ Place(c)' = Place(c) \ {y} /\ y \in Place(c)
        /\ \A i \in Spots \ {2, a, c} : Place(i)' = Place(i)
    BY <1>1, <1>4, <1>5, <1>6, <1>7, <1>8
  <2>2. Place(2)' = Place(2)
    BY <1>8, PlaceFacts
  <2>3. PlaceInv'
    BY <1>1, <1>7, <2>1, <2>2, Moved DEF Ordered
  <2> QED
    BY <2>1, <2>3 DEF Ordered
<1>9. CASE UNCHANGED <<evt, held, dropped>>
  <2>1. Unmoved
    BY <1>1, <1>2, <1>9 DEF Unmoved
  <2> QED
    BY <2>1, UnmovedStep
<1>10. CASE evt[w] # << >> /\ PutEvent(w, Tail(evt[w]))
              /\ dropped' = dropped \union {Head(evt[w]).id}
  <2>1. PICK t : t = Tail(evt[w])
    OBVIOUS
  <2>2. PICK x : x = Head(evt[w]).id
    OBVIOUS
  <2>3. /\ t \in Seq(Message) /\ Range(t) \subseteq Range(evt[w]) /\ Growing(t)
        /\ IdsIn(t) = IdsIn(evt[w]) \ {x} /\ x \in IdsIn(evt[w])
    BY <1>1, <1>10, <2>1, <2>2, MessagesTail
  <2>4. PutEvent(w, t) /\ dropped' = dropped \union {x}
    BY <1>10, <2>1, <2>2
  <2>5. Place(2)' = Place(2) \union {x}
    BY <2>4, PlaceFacts
  <2>6. /\ OrderInv' /\ KeyInv' /\ Place(a)' = (Place(a) \ {x}) \union {y} /\ x \in Place(a)
        /\ Place(c)' = Place(c) \ {y} /\ y \in Place(c)
        /\ \A i \in Spots \ {2, a, c} : Place(i)' = Place(i)
    BY <1>4, <1>5, <1>6, <1>7, <2>3, <2>4
  <2>7. PlaceInv'
    BY <1>1, <1>7, <2>5, <2>6, MovedOn DEF Ordered
  <2> QED
    BY <2>6, <2>7 DEF Ordered
<1> QED
  BY <1>8, <1>9, <1>10 DEF PushEvent, DropEvent

(* Every step keeps messages in place and in order. *)
LEMMA OrderedStep ==
  ASSUME Kinds, TypeOK, ConsumerInv, Ordered, [Next]_vars
  PROVE  Ordered'
<1>1. CASE Call /\ ~DrainPop
  <2>1. Unmoved
    BY <1>1 DEF Call, Subscribe, DrainBegin, Draining, DrainNext, DrainLast, Hand, Return, Close,
                Closing, WakeWorker, Join, notCaller, drainVars, pushVars, Unmoved, Pushing
  <2> QED
    BY <2>1, UnmovedStep
<1>2. CASE DrainPop
  BY <1>2, DrainMoves
<1>3. CASE Consume
  <2>1. CASE Stay
    <3>1. UNCHANGED <<notConsumer, pushVars, queueVars>> /\ ~Pushing /\ ~Pushing'
      BY <2>1 DEF Stay, ConsumerExits, Apply, ApplyNothing, ApplyNew, SeekDone, Settle,
         PollNothing, Pushing
    <3>2. Unmoved
      BY <3>1 DEF notConsumer, drainVars, pushVars, queueVars, Unmoved, Pushing
    <3> QED
      BY <3>2, UnmovedStep
  <2>2. CASE Put \/ DropRaw
    BY <2>2, PutMoves
  <2>3. CASE NotifyWorker
    <3>1. /\ UNCHANGED <<notConsumer, made, raw, dropped>> /\ ~Pushing /\ consumer' = after
      BY <2>3 DEF NotifyWorker, PushReturns, Pushing
    <3>2. ~Pushing'
      BY <3>1 DEF Pushing, Kinds
    <3>3. UNCHANGED <<drained, dropped, made, evt, held, raw>>
      BY <3>1 DEF notConsumer, drainVars
    <3>4. Unmoved
      BY <3>1, <3>2, <3>3 DEF Unmoved, Pushing
    <3> QED
      BY <3>4, UnmovedStep
  <2>4. CASE \/ ApplyFails \/ SeekFails
             \/ \E key \in Keys \union {None}, topic \in Topics : PollMessage(key, topic)
    <3>1. Make /\ UNCHANGED <<notConsumer, queueVars>>
      BY <2>4, MakeCases
    <3>2. ~Pushing
      BY <2>4 DEF ApplyFails, SeekFails, PollMessage, Pushing
    <3>3. UNCHANGED <<drained, dropped, evt, held, raw>>
      BY <3>1 DEF notConsumer, drainVars, queueVars
    <3> QED
      BY <3>1, <3>2, <3>3, MakeMoves
  <2> QED
    BY <1>3, <2>1, <2>2, <2>3, <2>4, ConsumeCases
<1>4. ASSUME NEW w \in Ws, Work(w)
      PROVE  Ordered'
  <2>1. CASE WorkerCheck(w) \/ PopNothing(w) \/ LoadEpoch(w) \/ Wake(w) \/ Notify(w)
    <3>1. Unmoved
      BY <2>1 DEF WorkerCheck, PopNothing, LoadEpoch, Wake, Notify, notWorker, drainVars, pushVars,
                  Unmoved, Pushing
    <3> QED
      BY <3>1, UnmovedStep
  <2> QED
    BY <1>4, <2>1, PopMoves, DecodeMoves, EventMoves DEF Work
<1>5. CASE UNCHANGED vars
  <2>1. Unmoved
    BY <1>5 DEF vars, notCaller, drainVars, pushVars, Unmoved, Pushing
  <2> QED
    BY <2>1, UnmovedStep
<1> QED
  BY <1>1, <1>2, <1>3, <1>4, <1>5, ThreadCases

-----------------------------------------------------------------------------
(* What is in force, and while the consumer applies it: the steps that change
   neither the configuration nor how far its application is. *)
LEMMA ServeKept ==
  ASSUME ServeInv, UNCHANGED <<topics, cfgEpoch, configVars>>, Applying' => Applying
  PROVE  ServeInv'
BY DEF ServeInv, InForce, configVars

LEMMA ServeStep ==
  ASSUME Kinds, TypeOK, ConsumerInv, ServeInv, [Next]_vars
  PROVE  ServeInv'
<1> USE DEF configVars, pushVars
<1>1. CASE \E ts \in SUBSET Topics, fromTime \in BOOLEAN : Subscribe(ts, fromTime)
  <2>1. /\ ~locked /\ cfgEpoch' = cfgEpoch + 1 /\ overtaken' = (overtaken \/ Seeking)
        /\ UNCHANGED <<consumer, msg, after, applied>>
    BY <1>1 DEF Subscribe, notCaller
  <2>2. applied # cfgEpoch' + 1
    <3>1. cfgEpoch \in Nat
      BY DEF Kinds
    <3>2. applied \in 0..(cfgEpoch + 1)
      BY DEF TypeOK
    <3> QED
      BY <2>1, <3>1, <3>2
  <2>3. Applying => Seeking
    BY <2>1 DEF Applying, Seeking, ConsumerInv
  <2>4. Applying' => overtaken'
    BY <2>1, <2>3 DEF Applying
  <2> QED
    BY <2>1, <2>2, <2>4 DEF ServeInv, InForce
<1>2. CASE DrainBegin \/ Draining \/ Close \/ Closing
  <2>1. UNCHANGED <<topics, cfgEpoch, configVars, consumer, msg, after>>
    BY <1>2 DEF DrainBegin, Draining, DrainPop, DrainNext, DrainLast, Hand, Return, Close,
                Closing, WakeWorker, Join, notCaller, subscribeVars
  <2> QED
    BY <2>1, ServeKept DEF Applying
<1>3. CASE Consume
  <2>1. UNCHANGED <<topics, cfgEpoch>>
    BY <1>3 DEF Consume, ConsumerExits, Apply, ApplyFails, SeekDone, SeekFails, Settle, PollNothing,
                PollMessage, Put, DropRaw, NotifyWorker, notConsumer
  <2>2. CASE ConsumerExits \/ SeekDone \/ PollNothing
    <3>1. UNCHANGED configVars /\ (Applying' => Applying)
      BY <2>2 DEF ConsumerExits, SeekDone, PollNothing, Applying
    <3> QED
      BY <2>1, <3>1, ServeKept
  <2>3. CASE Apply
    <3>1. consumer = "check" /\ consumer' \in {"seek", "poll"} /\ UNCHANGED msg
      BY <2>3 DEF Apply, ApplyNothing, ApplyNew
    <3>2. CASE ApplyNothing
      <4>1. UNCHANGED <<applied, broker, refused, overtaken>> /\ consumer' = "poll"
        BY <3>2 DEF ApplyNothing
      <4>2. ~Applying'
        BY <3>1, <4>1 DEF Applying, ConsumerInv
      <4> QED
        BY <2>1, <4>1, <4>2 DEF ServeInv, InForce
    <3>3. CASE ApplyNew(topics)
      BY <2>1, <3>3 DEF ServeInv, ApplyNew
    <3> QED
      BY <2>3, <3>2, <3>3 DEF Apply
  <2>4. CASE ApplyFails
    BY <2>4 DEF ApplyFails, ServeInv, InForce
  <2>5. CASE SeekFails
    <3>1. UNCHANGED configVars /\ Applying
      BY <2>5 DEF SeekFails, Applying
    <3> QED
      BY <2>1, <3>1, ServeKept
  <2>6. CASE Settle
    <3>1. Applying /\ UNCHANGED <<broker, refused, overtaken, msg>> /\ consumer' = "poll"
      BY <2>6 DEF Settle, Applying
    <3>2. ~Applying'
      BY <2>6, <3>1 DEF Settle, Applying, ConsumerInv
    <3> QED
      BY <2>1, <3>1, <3>2 DEF ServeInv, InForce
  <2>7. CASE \E key \in Keys \union {None}, topic \in Topics : PollMessage(key, topic)
    <3>1. UNCHANGED configVars /\ consumer' = "put" /\ after' = "check"
      BY <2>7 DEF PollMessage, MakeRaw
    <3>2. ~Applying'
      BY <3>1 DEF Applying
    <3> QED
      BY <2>1, <3>1, <3>2, ServeKept
  <2>8. CASE Put \/ DropRaw
    <3>1. UNCHANGED <<configVars, msg, after>> /\ consumer' \in {"bump", "put_drop"}
      BY <2>8 DEF Put, DropRaw
    <3> QED
      BY <2>1, <3>1, ServeKept DEF Applying
  <2>9. CASE NotifyWorker
    <3>1. UNCHANGED configVars /\ consumer = "bump" /\ msg' = Nothing /\ consumer' = after
      BY <2>9 DEF NotifyWorker, PushReturns
    <3>2. Applying' => Applying
      BY <3>1 DEF Applying, ConsumerInv
    <3> QED
      BY <2>1, <3>1, <3>2, ServeKept
  <2> QED
    BY <1>3, <2>2, <2>3, <2>4, <2>5, <2>6, <2>7, <2>8, <2>9 DEF Consume
<1>4. CASE \E w \in Ws : Work(w)
  <2>1. UNCHANGED <<topics, cfgEpoch, configVars, consumer, msg, after>>
    BY <1>4 DEF Work, WorkerCheck, PopRaw, PopNothing, LoadEpoch, Wake, Decode, PushEvent,
       DropEvent,
                Notify, notWorker
  <2> QED
    BY <2>1, ServeKept DEF Applying
<1>5. CASE UNCHANGED vars
  <2>1. UNCHANGED <<topics, cfgEpoch, configVars, consumer, msg, after>>
    BY <1>5 DEF vars, notCaller, subscribeVars
  <2> QED
    BY <2>1, ServeKept DEF Applying
<1> QED
  BY <1>1, <1>2, <1>3, <1>4, <1>5, ThreadCases DEF Call

-----------------------------------------------------------------------------
(* What a decode thread holds has a topic of now until it is decoded; after
   that, only one of an earlier subscription is an error. *)
Resolved(w, m) ==
  IF worker[w] = "decode" THEN Mapped(m)
  ELSE m.epoch <= cfgEpoch + 1 /\ (m.err = "topic" => m.epoch # cfgEpoch + 1)

LEMMA TopicKept ==
  ASSUME UNCHANGED <<topics, cfgEpoch>>,
         \A m \in Range(msg') : Mapped(m),
         \A w \in Ws : \A m \in Range(raw'[w]) : Mapped(m),
         \A w \in Ws : \A m \in Range(held'[w]) :
           IF worker'[w] = "decode" THEN Mapped(m)
           ELSE m.epoch <= cfgEpoch + 1 /\ (m.err = "topic" => m.epoch # cfgEpoch + 1)
  PROVE  TopicInv'
<1>1. \A m : Mapped(m)' <=> Mapped(m)
  BY DEF Mapped
<1> QED
  BY <1>1 DEF TopicInv

(* Nothing is moved, and nothing decoded. *)
LEMMA TopicUnmoved ==
  ASSUME TopicInv, UNCHANGED <<topics, cfgEpoch, raw, held>>, UNCHANGED msg \/ msg' = Nothing,
         \A w \in Ws : worker'[w] = "decode" <=> worker[w] = "decode"
  PROVE  TopicInv'
<1>1. \A m \in Range(msg') : Mapped(m)
  BY MessagesFew DEF TopicInv, Nothing
<1> QED
  BY <1>1, TopicKept DEF TopicInv

LEMMA TopicSubscribe ==
  ASSUME Kinds, TopicInv, NEW ts, NEW fromTime, Subscribe(ts, fromTime)
  PROVE  TopicInv'
<1>1. UNCHANGED <<msg, raw, held, worker>> /\ cfgEpoch \in Nat /\ cfgEpoch' = cfgEpoch + 1
  BY DEF Subscribe, notCaller, pushVars, Kinds
<1>2. ASSUME NEW m \in Message, m.epoch <= cfgEpoch + 1
      PROVE  m.epoch <= cfgEpoch' + 1 /\ m.epoch # cfgEpoch' + 1
  BY <1>1, <1>2 DEF Message
<1>3. ASSUME NEW m \in Message, Mapped(m)
      PROVE  Mapped(m)'
  BY <1>2, <1>3 DEF Mapped
<1>4. Range(msg) \subseteq Message
  BY OneMessage, MessagesFew DEF Kinds, Nothing
<1>5. ASSUME NEW w \in Ws
      PROVE  Range(raw[w]) \subseteq Message /\ Range(held[w]) \subseteq Message
  <2>1. raw[w] \in Seq(Message) /\ held[w] \in AtMostOne
    BY DEF Kinds
  <2>2. Range(raw[w]) \subseteq Message
    BY <2>1 DEF Range
  <2>3. Range(held[w]) \subseteq Message
    BY <2>1, OneMessage, MessagesFew DEF Nothing
  <2> QED
    BY <2>2, <2>3
<1>6. \A m \in Range(msg') : Mapped(m)'
  BY <1>1, <1>3, <1>4 DEF TopicInv
<1>7. \A w \in Ws : \A m \in Range(raw'[w]) : Mapped(m)'
  BY <1>1, <1>3, <1>5 DEF TopicInv
<1>8. ASSUME NEW w \in Ws, NEW m \in Range(held[w])
      PROVE  Resolved(w, m)'
  <2>1. m \in Message
    BY <1>5
  <2>2. m.epoch <= cfgEpoch + 1 /\ (worker[w] = "decode" => Mapped(m))
    BY DEF TopicInv, Mapped
  <2> QED
    BY <1>1, <1>2, <1>3, <2>1, <2>2 DEF Resolved
<1>9. \A w \in Ws : \A m \in Range(held'[w]) : Resolved(w, m)'
  BY <1>1, <1>8
<1> QED
  BY <1>6, <1>7, <1>9 DEF TopicInv, Resolved

LEMMA TopicMake ==
  ASSUME Kinds, TopicInv, ServeInv, Make, UNCHANGED <<notConsumer, queueVars>>
  PROVE  TopicInv'
<1>1. PICK m \in Message, to \in {"check", "seek", "settle"} :
        /\ MakeRaw(m, to)
        /\ \/ m.err = "consumer" /\ m.epoch = 0
           \/ /\ m.err = "none" /\ m.topic \in broker
              /\ m.epoch = IF InForce THEN applied ELSE 0
  BY DEF Make
<1>2. UNCHANGED <<topics, cfgEpoch, raw, held, worker>> /\ Range(msg') = {m} /\ cfgEpoch \in Nat
  BY <1>1, MessagesFew DEF MakeRaw, notConsumer, queueVars, Kinds
<1>3. Mapped(m)
  <2>1. CASE m.epoch = 0
    BY <1>1, <1>2, <2>1 DEF Mapped
  <2>2. CASE m.err = "none" /\ m.topic \in broker /\ InForce /\ m.epoch = applied
    <3>1. m.topic \in topics
      BY <2>2 DEF ServeInv
    <3>2. m.epoch = cfgEpoch + 1
      BY <2>2 DEF InForce
    <3> QED
      BY <1>2, <2>2, <3>1, <3>2 DEF Mapped
  <2> QED
    BY <1>1, <2>1, <2>2
<1> QED
  BY <1>2, <1>3, TopicKept DEF TopicInv

LEMMA TopicPut ==
  ASSUME Kinds, TypeOK, ConsumerInv, TopicInv, Put \/ DropRaw
  PROVE  TopicInv'
<1>1. UNCHANGED <<topics, cfgEpoch, held, worker, msg>> /\ msg # Nothing
  BY DEF Put, DropRaw, notConsumer, pushVars, ConsumerInv
<1>2. PICK w \in Ws : w = Target
  BY <1>1, TargetThread
<1>3. msg[1] \in Message /\ Mapped(msg[1])
  BY <1>1, OneMessage DEF TopicInv, Kinds
<1>4. raw \in [Ws -> Seq(Message)] /\ raw[w] \in Seq(Message)
  BY DEF Kinds
<1>5. ASSUME NEW queue \in Seq(Message), Range(queue) \subseteq Range(raw[w]), PutRaw(queue)
      PROVE  \A v \in Ws : \A m \in Range(raw'[v]) : Mapped(m)
  <2>1. Range(Append(queue, msg[1])) = Range(queue) \union {msg[1]}
    BY <1>3, MessagesAppend
  <2>2. raw'[w] = Append(queue, msg[1]) /\ \A v \in Ws \ {w} : raw'[v] = raw[v]
    BY <1>2, <1>4, <1>5 DEF PutRaw
  <2> QED
    BY <1>3, <1>5, <2>1, <2>2 DEF TopicInv
<1>6. << >> \in Seq(Message) /\ Range(<< >>) = {}
  BY MessagesFew
<1>7. raw[w] # << >> => Tail(raw[w]) \in Seq(Message) /\ Range(Tail(raw[w])) \subseteq Range(raw[w])
  BY <1>4, MessagesTail
<1>8. \/ UNCHANGED raw
      \/ PutRaw(raw[w])
      \/ PutRaw(<< >>)
      \/ raw[w] # << >> /\ PutRaw(Tail(raw[w]))
  BY <1>2 DEF Put, DropRaw
<1>9. \A v \in Ws : \A m \in Range(raw'[v]) : Mapped(m)
  <2>1. CASE UNCHANGED raw
    BY <2>1 DEF TopicInv
  <2>2. CASE PutRaw(raw[w])
    BY <1>4, <1>5, <2>2
  <2>3. CASE PutRaw(<< >>)
    BY <1>5, <1>6, <2>3
  <2>4. CASE raw[w] # << >> /\ PutRaw(Tail(raw[w]))
    BY <1>5, <1>7, <2>4
  <2> QED
    BY <1>8, <2>1, <2>2, <2>3, <2>4
<1> QED
  BY <1>1, <1>9, TopicKept DEF TopicInv

LEMMA TopicPop ==
  ASSUME Kinds, TopicInv, NEW w \in Ws, PopRaw(w)
  PROVE  TopicInv'
<1>1. /\ UNCHANGED <<topics, cfgEpoch, msg>> /\ raw[w] # << >>
      /\ worker' = [worker EXCEPT ![w] = "decode"]
      /\ held' = [held EXCEPT ![w] = <<Head(raw[w])>>]
      /\ raw' = [raw EXCEPT ![w] = Tail(raw[w])]
  BY DEF PopRaw, WorkerAt, notWorker, pushVars
<1>2. PICK h : h = Head(raw[w])
  OBVIOUS
<1>3. PICK t : t = Tail(raw[w])
  OBVIOUS
<1>4. Range(raw[w]) = Range(t) \union {h}
  BY <1>1, <1>2, <1>3, MessagesTail DEF Kinds
<1>5. /\ held'[w] = <<h>> /\ raw'[w] = t /\ worker'[w] = "decode"
      /\ \A v \in Ws \ {w} : held'[v] = held[v] /\ raw'[v] = raw[v] /\ worker'[v] = worker[v]
  BY <1>1, <1>2, <1>3 DEF Kinds
<1>6. Range(held'[w]) = {h} /\ Mapped(h)
  BY <1>4, <1>5, MessagesFew DEF TopicInv
<1> QED
  BY <1>1, <1>4, <1>5, <1>6, TopicKept DEF TopicInv

LEMMA TopicDecode ==
  ASSUME Kinds, TypeOK, TopicInv, NEW w \in Ws, Decode(w)
  PROVE  TopicInv'
<1>1. PICK m : m = held[w][1]
  OBVIOUS
<1>2. PICK r : r = [m EXCEPT !.err = Outcome(m)]
  OBVIOUS
<1>3. /\ UNCHANGED <<topics, cfgEpoch, msg, raw>> /\ worker[w] = "decode"
      /\ worker' = [worker EXCEPT ![w] = "put"]
      /\ held' = [held EXCEPT ![w] = <<r>>]
  BY <1>1, <1>2 DEF Decode, WorkerAt, notWorker, pushVars
<1>4. held[w] \in AtMostOne /\ held[w] # Nothing
  BY <1>3 DEF Kinds, TypeOK
<1>5. m \in Message /\ Mapped(m)
  BY <1>1, <1>3, <1>4, OneMessage DEF TopicInv
<1>6. r.err = Outcome(m) /\ r.epoch = m.epoch
  BY <1>2, <1>5 DEF Message
<1>7. r.epoch <= cfgEpoch + 1 /\ (r.err = "topic" => r.epoch # cfgEpoch + 1)
  BY <1>5, <1>6 DEF Mapped, Outcome
<1>8. /\ held'[w] = <<r>> /\ worker'[w] = "put"
      /\ \A v \in Ws \ {w} : held'[v] = held[v] /\ worker'[v] = worker[v]
  BY <1>3 DEF Kinds
<1>9. Range(held'[w]) = {r}
  BY <1>8, MessagesFew
<1> QED
  BY <1>3, <1>7, <1>8, <1>9, TopicKept DEF TopicInv

LEMMA TopicEvent ==
  ASSUME Kinds, TypeOK, TopicInv, NEW w \in Ws, PushEvent(w) \/ DropEvent(w)
  PROVE  TopicInv'
<1>1. /\ UNCHANGED <<topics, cfgEpoch, msg, raw>>
      /\ UNCHANGED held \/ held' = [held EXCEPT ![w] = Nothing]
      /\ worker[w] \in {"put", "put_drop"}
      /\ \/ worker' = [worker EXCEPT ![w] = "send"]
         \/ worker' = [worker EXCEPT ![w] = "put_drop"]
  BY DEF PushEvent, DropEvent, PutEvent, WorkerAt, notWorker, pushVars
<1>2. \A v \in Ws : worker'[v] = "decode" <=> worker[v] = "decode"
  BY <1>1 DEF Kinds
<1>3. \A v \in Ws : held'[v] = held[v] \/ Range(held'[v]) = {}
  BY <1>1, MessagesFew DEF Kinds, Nothing
<1> QED
  BY <1>1, <1>2, <1>3, TopicKept DEF TopicInv

LEMMA TopicStep ==
  ASSUME Kinds, TypeOK, ConsumerInv, ServeInv, TopicInv, [Next]_vars
  PROVE  TopicInv'
<1> USE DEF pushVars
<1>1. CASE \E ts \in SUBSET Topics, fromTime \in BOOLEAN : Subscribe(ts, fromTime)
  BY <1>1, TopicSubscribe
<1>2. CASE DrainBegin \/ Draining \/ Close \/ Closing
  <2>1. UNCHANGED <<topics, cfgEpoch, msg, raw, held, worker>>
    BY <1>2 DEF DrainBegin, Draining, DrainPop, DrainNext, DrainLast, Hand, Return, Close,
                Closing, WakeWorker, Join, notCaller, subscribeVars
  <2> QED
    BY <2>1, TopicUnmoved
<1>3. CASE Consume
  <2>1. CASE Stay \/ NotifyWorker
    <3>1. UNCHANGED <<topics, cfgEpoch, raw, held, worker>> /\ (UNCHANGED msg \/ msg' = Nothing)
      BY <2>1 DEF Stay, ConsumerExits, Apply, SeekDone, Settle, PollNothing, NotifyWorker,
                  PushReturns, notConsumer, queueVars
    <3> QED
      BY <3>1, TopicUnmoved
  <2>2. CASE Put \/ DropRaw
    BY <2>2, TopicPut
  <2>3. CASE \/ ApplyFails \/ SeekFails
             \/ \E key \in Keys \union {None}, topic \in Topics : PollMessage(key, topic)
    BY <2>3, MakeCases, TopicMake
  <2> QED
    BY <1>3, <2>1, <2>2, <2>3, ConsumeCases
<1>4. ASSUME NEW w \in Ws, Work(w)
      PROVE  TopicInv'
  <2>1. CASE WorkerCheck(w) \/ PopNothing(w) \/ LoadEpoch(w) \/ Wake(w) \/ Notify(w)
    <3>1. UNCHANGED <<topics, cfgEpoch, msg, raw, held>>
      BY <2>1 DEF WorkerCheck, PopNothing, LoadEpoch, Wake, Notify, notWorker
    <3>2. \A v \in Ws : worker'[v] = "decode" <=> worker[v] = "decode"
      BY <2>1 DEF WorkerCheck, PopNothing, LoadEpoch, Wake, Notify, WorkerAt, Kinds
    <3> QED
      BY <3>1, <3>2, TopicUnmoved
  <2> QED
    BY <1>4, <2>1, TopicPop, TopicDecode, TopicEvent DEF Work
<1>5. CASE UNCHANGED vars
  <2>1. UNCHANGED <<topics, cfgEpoch, msg, raw, held, worker>>
    BY <1>5 DEF vars, notCaller, subscribeVars
  <2> QED
    BY <2>1, TopicUnmoved
<1> QED
  BY <1>1, <1>2, <1>3, <1>4, <1>5, ThreadCases DEF Call

-----------------------------------------------------------------------------
LEMMA InitPlaces ==
  ASSUME Init
  PROVE  PlaceInv
<1>1. ASSUME NEW i \in Spots
      PROVE  Place(i) = {}
  <2>1. /\ Place(1) = {} /\ Place(2) = {} /\ Place(3) = {}
        /\ \A w \in Ws : Place(EvtSpot(w)) = {} /\ Place(HeldSpot(w)) = {} /\ Place(RawSpot(w)) = {}
    BY PlaceFacts, MessagesFew DEF Init, Pushing, Nothing
  <2> QED
    BY <2>1, SpotFacts
<1>2. 1..made = {}
  BY DEF Init
<1> QED
  BY <1>1, <1>2 DEF PlaceInv

LEMMA InitInv == Init => IInv
<1> SUFFICES ASSUME Init PROVE IInv
  OBVIOUS
<1> USE DEF Init
<1>1. /\ Workers \in Nat \ {0} /\ SocketCap \in Nat /\ RawCap \in Nat /\ EvtCap \in Nat
      /\ 1 \in Ws /\ 0 \in 0..Workers
  BY ClientAssumption DEF Ws
<1>2. Kinds
  <2>1. {adapter, socket, got, stop, seekFrom, locked, refused, overtaken} \subseteq BOOLEAN
    OBVIOUS
  <2>2. /\ {told, cfgEpoch, made} \subseteq Nat /\ dropped \subseteq Nat
        /\ {epoch, seen} \subseteq [Ws -> Nat]
    OBVIOUS
  <2>3. /\ drained \in Seq(Message) /\ raw \in [Ws -> Seq(Message)]
        /\ evt \in [Ws -> Seq(Message)]
    BY MessagesFew
  <2>4. held \in [Ws -> AtMostOne] /\ msg \in AtMostOne
    BY DEF AtMostOne, Nothing
  <2> QED
    BY <2>1, <2>2, <2>3, <2>4 DEF Kinds
<1>3. TypeOK
  BY <1>1, MessagesFew DEF TypeOK, Nothing
<1>4. ConsumerInv
  BY DEF ConsumerInv
<1>5. PlaceInv
  BY InitPlaces
<1>6. OrderInv /\ KeyInv
  BY MessagesFew DEF OrderInv, KeyInv, Growing, KeysGrowing, Before, Ahead, Pushing, Nothing
<1>7. ServeInv /\ TopicInv
  BY MessagesFew DEF ServeInv, TopicInv, InForce, Nothing
<1> QED
  BY <1>2, <1>3, <1>4, <1>5, <1>6, <1>7 DEF IInv

LEMMA InvStep == IInv /\ [Next]_vars => IInv'
<1> SUFFICES ASSUME IInv, [Next]_vars PROVE IInv'
  OBVIOUS
<1>1. Kinds' /\ ConsumerInv'
  BY KindsStep DEF IInv
<1>2. TypeOK'
  BY TypeStep DEF IInv
<1>3. PlaceInv' /\ OrderInv' /\ KeyInv'
  BY OrderedStep DEF IInv, Ordered
<1>4. ServeInv'
  BY ServeStep DEF IInv
<1>5. TopicInv'
  BY TopicStep DEF IInv
<1> QED
  BY <1>1, <1>2, <1>3, <1>4, <1>5 DEF IInv

(* The inductive invariant. *)
THEOREM Invariance == Spec => []IInv
BY InitInv, InvStep, PTL DEF Spec

(* Every variable stays within its range; a decode thread holds a message
   exactly while it works on it, and cfg_mu_ is kept from one step to the next
   only while an error of the subscription is pushed. *)
THEOREM Typing == Spec => []TypeOK
<1>1. IInv => TypeOK
  BY DEF IInv
<1> QED
  BY <1>1, Invariance, PTL

(* An applied configuration is the one the broker serves, unless it refused it
   or the configuration came during a seek (kfkpb_core.cpp:178-282). *)
THEOREM AppliedIsServed == Spec => []AppliedUnlessOvertaken
<1>1. IInv => AppliedUnlessOvertaken
  BY DEF IInv, ServeInv, AppliedUnlessOvertaken
<1> QED
  BY <1>1, Invariance, PTL

(* No message becomes an "unknown topic mapping" error while the subscription
   it was polled under is in force (kfkpb_core.cpp:331-349). *)
THEOREM PolledIsKnown == Spec => []KnownUnlessReplaced
<1>1. ASSUME IInv PROVE KnownUnlessReplaced
  <2>1. ASSUME NEW w \in Ws, held[w] # Nothing, worker[w] # "decode", held[w][1].err = "topic"
        PROVE  held[w][1].epoch # cfgEpoch + 1
    <3>1. held[w] \in AtMostOne
      BY <1>1 DEF IInv, Kinds
    <3>2. held[w][1] \in Range(held[w])
      BY <2>1, <3>1, OneMessage
    <3> QED
      BY <1>1, <2>1, <3>2 DEF IInv, TopicInv
  <2> QED
    BY <2>1 DEF KnownUnlessReplaced
<1> QED
  BY <1>1, Invariance, PTL

-----------------------------------------------------------------------------
(* The places of Accounted are those of PlaceInv, in this order. *)
LEMMA PlaceSequence ==
  ASSUME Kinds, PlaceInv
  PROVE  LET p == <<IdsIn(drained), dropped,
                    IF consumer \in {"put", "put_drop"} THEN IdsIn(msg) ELSE {}>>
                  \o [w \in Ws |-> IdsIn(evt[w])]
                  \o [w \in Ws |-> IdsIn(held[w])]
                  \o [w \in Ws |-> IdsIn(raw[w])]
         IN  DOMAIN p = Spots /\ \A i \in Spots : p[i] = Place(i)
<1> DEFINE c == <<IdsIn(drained), dropped,
                  IF consumer \in {"put", "put_drop"} THEN IdsIn(msg) ELSE {}>>
<1> DEFINE e == [w \in Ws |-> IdsIn(evt[w])]
<1> DEFINE h == [w \in Ws |-> IdsIn(held[w])]
<1> DEFINE r == [w \in Ws |-> IdsIn(raw[w])]
<1> DEFINE p1 == c \o e
<1> DEFINE p2 == p1 \o h
<1> DEFINE p == p2 \o r
<1>1. PICK S : S = SUBSET Nat
  OBVIOUS
<1>2. \A i \in Spots : Place(i) \subseteq Nat
  BY DEF PlaceInv, Kinds
<1>3. /\ IdsIn(drained) \subseteq Nat /\ dropped \subseteq Nat
      /\ (IF Pushing THEN IdsIn(msg) ELSE {}) \subseteq Nat
      /\ \A w \in Ws : /\ IdsIn(evt[w]) \subseteq Nat /\ IdsIn(held[w]) \subseteq Nat
                       /\ IdsIn(raw[w]) \subseteq Nat
  BY <1>2, SpotFacts, PlaceFacts
<1>4. c \in Seq(SUBSET Nat) /\ Len(c) = 3
  BY <1>3 DEF Pushing
<1>5. c[1] = Place(1) /\ c[2] = Place(2) /\ c[3] = Place(3)
  BY PlaceFacts DEF Pushing
<1>6. Workers \in Nat
  BY ClientAssumption
<1>7. ASSUME NEW f \in [Ws -> SUBSET Nat]
      PROVE  f \in Seq(SUBSET Nat) /\ Len(f) = Workers
  BY <1>6 DEF Ws
<1>8. e \in [Ws -> SUBSET Nat] /\ h \in [Ws -> SUBSET Nat] /\ r \in [Ws -> SUBSET Nat]
  BY <1>3
<1>9. \A w \in Ws : e[w] = Place(EvtSpot(w)) /\ h[w] = Place(HeldSpot(w))
        /\ r[w] = Place(RawSpot(w))
  BY PlaceFacts
<1> HIDE DEF c, e, h, r
<1>10. /\ c \in Seq(S) /\ e \in Seq(S) /\ h \in Seq(S) /\ r \in Seq(S)
  BY <1>1, <1>4, <1>7, <1>8
<1>11. Len(e) = Workers /\ Len(h) = Workers /\ Len(r) = Workers
  BY <1>7, <1>8
<1>12. p1 \in Seq(S) /\ p2 \in Seq(S) /\ p \in Seq(S)
  BY <1>10
<1>13. /\ Len(p1) = Len(c) + Len(e)
       /\ \A i \in 1..Len(c) : p1[i] = c[i]
       /\ \A i \in 1..Len(e) : p1[Len(c) + i] = e[i]
  BY <1>10
<1> HIDE DEF p1
<1>14. /\ Len(p2) = Len(p1) + Len(h)
       /\ \A i \in 1..Len(p1) : p2[i] = p1[i]
       /\ \A i \in 1..Len(h) : p2[Len(p1) + i] = h[i]
  BY <1>10, <1>12
<1> HIDE DEF p2
<1>15. /\ Len(p) = Len(p2) + Len(r) /\ DOMAIN p = 1..Len(p)
       /\ \A i \in 1..Len(p2) : p[i] = p2[i]
       /\ \A i \in 1..Len(r) : p[Len(p2) + i] = r[i]
  BY <1>10, <1>12
<1> HIDE DEF p
<1>16. PICK k1 \in Nat, k2 \in Nat, k3 \in Nat :
         k1 = 3 + Workers /\ k2 = k1 + Workers /\ k3 = k2 + Workers
  BY <1>6
<1>17. Len(p1) = k1 /\ Len(p2) = k2 /\ Len(p) = k3
  BY <1>4, <1>11, <1>13, <1>14, <1>15, <1>16
<1>18. /\ \A i \in 1..3 : p1[i] = c[i]
       /\ \A w \in 1..Workers : p1[3 + w] = e[w]
       /\ \A i \in 1..k1 : p2[i] = p1[i]
       /\ \A w \in 1..Workers : p2[k1 + w] = h[w]
       /\ DOMAIN p = 1..k3
       /\ \A i \in 1..k2 : p[i] = p2[i]
       /\ \A w \in 1..Workers : p[k2 + w] = r[w]
  BY <1>4, <1>11, <1>13, <1>14, <1>15, <1>17, Zenon
<1>19. DOMAIN p = Spots
  <2>1. k3 = 3 + 3 * Workers
    BY <1>6, <1>16
  <2> QED
    BY <1>18, <2>1 DEF Spots
<1>20. \A i \in {1, 2, 3} : p[i] = c[i]
  <2>1. \A i \in {1, 2, 3} : i \in 1..3 /\ i \in 1..k1 /\ i \in 1..k2
    BY <1>6, <1>16
  <2> QED
    BY <1>18, <2>1
<1>21. ASSUME NEW w \in Ws
       PROVE  p[EvtSpot(w)] = e[w] /\ p[HeldSpot(w)] = h[w] /\ p[RawSpot(w)] = r[w]
  <2>1. /\ w \in 1..Workers /\ 3 + w \in 1..k1 /\ 3 + w \in 1..k2 /\ k1 + w \in 1..k2
        /\ EvtSpot(w) = 3 + w /\ HeldSpot(w) = k1 + w /\ RawSpot(w) = k2 + w
    BY <1>6, <1>16 DEF Ws, EvtSpot, HeldSpot, RawSpot
  <2> QED
    BY <1>18, <2>1
<1>22. \A i \in Spots : p[i] = Place(i)
  BY <1>5, <1>9, <1>20, <1>21, SpotFacts
<1> QED
  BY <1>19, <1>22, Zenon DEF p, p2, p1, c, e, h, r

(* Every message has exactly one place (kfkpb_core.cpp:148-173, 293-311,
   315-391, 410-435). *)
THEOREM MessagesAccounted == Spec => []Accounted
<1>1. ASSUME IInv PROVE Accounted
  <2> DEFINE p == <<IdsIn(drained), dropped,
                    IF consumer \in {"put", "put_drop"} THEN IdsIn(msg) ELSE {}>>
                  \o [w \in Ws |-> IdsIn(evt[w])]
                  \o [w \in Ws |-> IdsIn(held[w])]
                  \o [w \in Ws |-> IdsIn(raw[w])]
  <2>1. DOMAIN p = Spots /\ \A i \in Spots : p[i] = Place(i)
    BY <1>1, PlaceSequence, Zenon DEF IInv
  <2> HIDE DEF p
  <2>2. UNION Range(p) = 1..made
    BY <1>1, <2>1 DEF Range, IInv, PlaceInv
  <2>3. \A i, j \in DOMAIN p : i # j => p[i] \intersect p[j] = {}
    BY <1>1, <2>1 DEF IInv, PlaceInv
  <2> QED
    BY <2>2, <2>3, Zenon DEF Accounted, p
<1> QED
  BY <1>1, Invariance, PTL

-----------------------------------------------------------------------------
(* One sequence of messages after another *)
LEMMA KeysConcat ==
  ASSUME NEW s \in Seq(Message), NEW t \in Seq(Message), KeysGrowing(s), KeysGrowing(t),
         \A m \in Range(s), n \in Range(t) : SameKey(m, n) => m.id < n.id
  PROVE  /\ s \o t \in Seq(Message) /\ Range(s \o t) = Range(s) \union Range(t)
         /\ KeysGrowing(s \o t)
<1>1. PICK u : u = s \o t
  OBVIOUS
<1>2. PICK k : k = Len(s)
  OBVIOUS
<1>3. u \in Seq(Message) /\ Range(u) = Range(s) \union Range(t)
  BY <1>1, RangeConcatenation, ConcatProperties
<1>4. /\ k \in Nat /\ Len(t) \in Nat
      /\ DOMAIN u = 1..(k + Len(t)) /\ DOMAIN s = 1..k /\ DOMAIN t = 1..Len(t)
      /\ \A i \in 1..(k + Len(t)) : u[i] = IF i <= k THEN s[i] ELSE t[i - k]
  BY <1>1, <1>2, ConcatProperties, LenProperties
<1>5. ASSUME NEW i \in DOMAIN u, NEW j \in DOMAIN u, i < j, SameKey(u[i], u[j])
      PROVE  u[i].id < u[j].id
  <2>1. CASE j <= k
    <3>1. i \in DOMAIN s /\ j \in DOMAIN s /\ u[i] = s[i] /\ u[j] = s[j]
      BY <1>4, <1>5, <2>1
    <3> QED
      BY <1>5, <3>1 DEF KeysGrowing
  <2>2. CASE i <= k /\ ~(j <= k)
    <3>1. i \in DOMAIN s /\ j - k \in DOMAIN t /\ u[i] = s[i] /\ u[j] = t[j - k]
      BY <1>4, <1>5, <2>2
    <3>2. u[i] \in Range(s) /\ u[j] \in Range(t)
      BY <3>1 DEF Range
    <3> QED
      BY <1>5, <3>2
  <2>3. CASE ~(i <= k)
    <3>1. /\ i - k \in DOMAIN t /\ j - k \in DOMAIN t /\ i - k < j - k
          /\ u[i] = t[i - k] /\ u[j] = t[j - k]
      BY <1>4, <1>5, <2>3
    <3> QED
      BY <1>5, <3>1 DEF KeysGrowing
  <2> QED
    BY <1>4, <1>5, <2>1, <2>2, <2>3
<1> QED
  BY <1>1, <1>3, <1>5 DEF KeysGrowing

LEMMA OneIsGrowing ==
  \A s \in AtMostOne : s \in Seq(Message) /\ KeysGrowing(s)
<1>1. << >> \in Seq(Message) /\ KeysGrowing(<< >>)
  BY DEF KeysGrowing
<1>2. ASSUME NEW m \in Message
      PROVE  <<m>> \in Seq(Message) /\ KeysGrowing(<<m>>)
  BY DEF KeysGrowing
<1> QED
  BY <1>1, <1>2 DEF AtMostOne

(* The events of a key are drained in the order in which its messages were
   polled (kfkpb_core.cpp:437-443). *)
THEOREM KeysKeepOrder == Spec => []KeyOrder
<1>1. ASSUME IInv, NEW key \in Keys, NEW w \in Ws, w = WorkerOf[key]
      PROVE  KeysGrowing(drained \o Pipeline(w))
  <2>1. /\ drained \in Seq(Message) /\ evt[w] \in Seq(Message) /\ raw[w] \in Seq(Message)
        /\ held[w] \in Seq(Message) /\ KeysGrowing(held[w])
    BY <1>1, OneIsGrowing DEF IInv, Kinds
  <2>2. KeysGrowing(evt[w]) /\ KeysGrowing(raw[w]) /\ KeysGrowing(drained)
    BY <1>1 DEF IInv, OrderInv, KeyInv, Growing, KeysGrowing
  <2>3. /\ Before(Range(evt[w]), Range(held[w]))
        /\ Before(Range(evt[w]), Range(raw[w]))
        /\ Before(Range(held[w]), Range(raw[w]))
        /\ \A d \in Range(drained), m \in Ahead(w) : SameKey(d, m) => d.id < m.id
    BY <1>1 DEF IInv, OrderInv, KeyInv
  <2>4. /\ evt[w] \o held[w] \in Seq(Message) /\ KeysGrowing(evt[w] \o held[w])
        /\ Range(evt[w] \o held[w]) = Range(evt[w]) \union Range(held[w])
    BY <2>1, <2>2, <2>3, KeysConcat DEF Before
  <2>5. \A m \in Range(evt[w] \o held[w]), n \in Range(raw[w]) : m.id < n.id
    BY <2>3, <2>4 DEF Before
  <2>6. /\ Pipeline(w) \in Seq(Message) /\ KeysGrowing(Pipeline(w))
        /\ Range(Pipeline(w)) = Ahead(w)
    BY <2>1, <2>2, <2>4, <2>5, KeysConcat DEF Pipeline, Ahead
  <2> QED
    BY <2>1, <2>2, <2>3, <2>6, KeysConcat
<1>2. ASSUME IInv PROVE KeyOrder
  <2>1. ASSUME NEW key \in Keys, NEW all, all = drained \o Pipeline(WorkerOf[key]),
               NEW i \in DOMAIN all, NEW j \in DOMAIN all,
               i < j, all[i].key = key, all[j].key = key
        PROVE  all[i].id < all[j].id
    <3>1. WorkerOf[key] \in Ws /\ key # None
      BY ClientAssumption DEF Ws
    <3>2. KeysGrowing(all)
      BY <1>1, <1>2, <2>1, <3>1
    <3> QED
      BY <2>1, <3>1, <3>2 DEF KeysGrowing, SameKey
  <2> QED
    BY <2>1 DEF KeyOrder
<1> QED
  BY <1>2, Invariance, PTL

=============================================================================
