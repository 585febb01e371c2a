---------------------------- MODULE KfkpbClient ----------------------------
(***************************************************************************)
(* The Kafka side of the q library: momo_subpb/src/kfkpb_core.cpp.  The    *)
(* consumer thread applies the subscription, polls the broker and spreads  *)
(* the messages over the raw queues; decode threads turn them into events  *)
(* and write a byte to a socket for each; the caller's thread drains the   *)
(* events, changes the subscription and closes the client.                 *)
(*                                                                         *)
(* The caller is the q adapter (kfkpb.cpp), whose callback runs while the  *)
(* socket is readable and never reads from it, or kfkpb_demo.cpp, which    *)
(* reads all there is and polls.  What a decoder makes of a payload is in  *)
(* QuotePath; here it succeeds or fails.  Outside the repository, and      *)
(* modelled from how they are used: the broker, which may fail any         *)
(* request, the socket, and the q program behind the adapter.              *)
(*                                                                         *)
(* try_push and try_pop are one step each, as in Dispatcher.               *)
(***************************************************************************)
EXTENDS Naturals, Sequences, FiniteSets, Functions

CONSTANTS
  Topics,         (* the topics whose type is known, see QuotePath          *)
  Keys,           (* message keys                                           *)
  None,           (* a message without key, an error without topic          *)
  Workers,        (* decode_threads; the threads are 1..Workers             *)
  WorkerOf,       (* hash of a key modulo decode_threads                    *)
  RawCap,         (* places of a raw queue                                  *)
  EvtCap,         (* places of an event queue                               *)
  SocketCap,      (* bytes the socket holds                                 *)
  MaxMessages,    (* bound: messages polled                                 *)
  MaxSubscribes   (* bound: calls of subscribe and subscribeFromTime        *)

ASSUME ClientAssumption ==
  /\ Workers \in Nat \ {0}
  /\ {RawCap, EvtCap, SocketCap} \subseteq Nat \ {0}
  /\ {MaxMessages, MaxSubscribes} \subseteq Nat
  /\ WorkerOf \in [Keys -> 1..Workers]
  /\ None \notin Keys \union Topics

VARIABLES
  (* the caller's thread *)
  adapter,     (* the caller is the q adapter                               *)
  socket,      (* there is a socket pair                                    *)
  caller,      (* where the caller stands                                   *)
  at, left,    (* drainTo: the event queue it is at, the queues left        *)
  got,         (* drainTo: drained # 0                                      *)
  drainRR,     (* drain_rr_                                                 *)
  drained,     (* the events drained, in order                              *)
  told,        (* how many of them consumecb was called for, or printed     *)
  (* shared *)
  stop,        (* stop_                                                     *)
  topics,      (* topicTypes_: a topic's name determines its type           *)
  seekFrom,    (* seekFromMs_ has a value                                   *)
  cfgEpoch,    (* cfgEpoch_                                                 *)
  locked,      (* the consumer holds cfg_mu_ from one step to the next      *)
  raw, epoch,  (* raw_qs_, raw_epochs_                                      *)
  evt,         (* evt_qs_                                                   *)
  bytes,       (* in the socket                                             *)
  broker,      (* external: the topics the broker serves us                 *)
  (* the consumer thread *)
  consumer,    (* where it stands                                           *)
  applied,     (* appliedEpoch, plus 1                                      *)
  msg, after,  (* the raw message being pushed, and where to go then        *)
  fallbackRR,  (* fallback_rr_                                              *)
  made,        (* raw messages so far; they are numbered                    *)
  (* the decode threads *)
  worker,      (* where each stands                                         *)
  held,        (* its m or ev, << >> when it has none                       *)
  seen,        (* local seen of popRaw                                      *)
  (* history *)
  dropped,     (* numbers thrown out of a full queue                        *)
  refused,     (* the broker refused the last subscription                  *)
  overtaken,   (* the subscription was changed during the last seek         *)
  missed       (* the decode thread's epoch moved between its failed
                  try_pop, or its look at stop_, and its load of the epoch  *)

drainVars == <<at, left, got, drainRR, drained>>
subscribeVars == <<topics, seekFrom, cfgEpoch, overtaken>>
closeVars == <<stop, epoch, missed>>
configVars == <<applied, locked, broker, refused, overtaken>>
pushVars == <<msg, after, fallbackRR, made>>
queueVars == <<raw, epoch, dropped, missed>>

(* What one kind of thread never changes. *)
notCaller == <<adapter, socket, raw, dropped, consumer, applied, locked, broker,
               refused, pushVars, worker, held, seen>>
notConsumer == <<adapter, socket, caller, drainVars, told, stop, topics, seekFrom,
                 cfgEpoch, evt, bytes, worker, held, seen>>
notWorker == <<adapter, socket, caller, drainVars, told, stop, topics, seekFrom,
               cfgEpoch, epoch, consumer, configVars, pushVars>>

vars == <<notCaller, caller, drainVars, told, subscribeVars, closeVars, evt, bytes>>

Ws == 1..Workers
Nothing == << >>

(* The first client.  Without a socket pair: kfkpb_init failed the first time,
   or was not called before kfkpb_initConsumer. *)
Init ==
  /\ adapter \in BOOLEAN
  /\ socket \in {TRUE, ~adapter}
  /\ bytes = 0
  /\ caller = "idle"
  /\ at = 1 /\ left = 0 /\ got = FALSE /\ drainRR = 1 /\ drained = << >> /\ told = 0
  /\ stop = FALSE
  /\ topics = {} /\ seekFrom = FALSE /\ cfgEpoch = 0
  /\ raw = [w \in Ws |-> << >>]
  /\ epoch = [w \in Ws |-> 0]
  /\ evt = [w \in Ws |-> << >>]
  /\ consumer = "check" /\ applied = 0 /\ msg = Nothing /\ after = "check"
  /\ fallbackRR = 1 /\ made = 0 /\ locked = FALSE /\ broker = {} /\ refused = FALSE
  /\ worker = [w \in Ws |-> "check"]
  /\ held = [w \in Ws |-> Nothing]
  /\ seen = [w \in Ws |-> 0]
  /\ dropped = {}
  /\ overtaken = FALSE
  /\ missed = [w \in Ws |-> FALSE]

NextOf(w) == IF w = Workers THEN 1 ELSE w + 1

-----------------------------------------------------------------------------
(* The caller's thread *)

(* Between two calls; q also calls from within the adapter's callback. *)
Free == caller = "idle" \/ (adapter /\ caller = "consumecb")

(* The consumer has given cfg_mu_ up to seek, and will take it again. *)
Seeking ==
  /\ ~locked
  /\ \/ consumer \in {"seek", "settle"}
     \/ consumer \in {"put", "put_drop", "bump"} /\ after \in {"seek", "settle"}

(* subscribe (fromTime = FALSE) and subscribeFromTime *)
Subscribe(ts, fromTime) ==
  /\ Free
  /\ ~locked
  /\ cfgEpoch < MaxSubscribes
  /\ topics' = ts
  /\ seekFrom' = fromTime
  /\ cfgEpoch' = cfgEpoch + 1
  /\ overtaken' = (overtaken \/ Seeking)
  /\ UNCHANGED <<notCaller, caller, drainVars, told, closeVars, evt, bytes>>

(* The adapter's callback, or the demo's loop: select, recv, drainTo. *)
DrainBegin ==
  /\ caller = "idle"
  /\ adapter => bytes > 0
  /\ bytes' = IF adapter THEN bytes ELSE 0
  /\ at' = drainRR
  /\ drainRR' = NextOf(drainRR)
  /\ left' = Workers
  /\ got' = FALSE
  /\ caller' = "drain"
  /\ UNCHANGED <<notCaller, drained, told, subscribeVars, closeVars, evt>>

DrainEnds(events) ==
  /\ caller' = IF told < events THEN "deliver" ELSE "idle"
  /\ at' = 1 /\ left' = 0 /\ got' = FALSE

(* Each queue is emptied; if all were empty each is tried once more until
   one of them has an event. *)
DrainPop ==
  /\ caller \in {"drain", "retry"}
  /\ evt[at] # << >>
  /\ drained' = Append(drained, Head(evt[at]))
  /\ evt' = [evt EXCEPT ![at] = Tail(@)]
  /\ IF caller = "drain" THEN UNCHANGED <<caller, at, left>> /\ got' = TRUE
                         ELSE DrainEnds(Len(drained) + 1)
  /\ UNCHANGED <<notCaller, drainRR, told, subscribeVars, closeVars, bytes>>

DrainNext ==
  /\ caller \in {"drain", "retry"}
  /\ evt[at] = << >>
  /\ left > 1 \/ (caller = "drain" /\ ~got)
  /\ at' = NextOf(at)
  /\ left' = IF left > 1 THEN left - 1 ELSE Workers
  /\ caller' = IF left > 1 THEN caller ELSE "retry"
  /\ UNCHANGED <<notCaller, got, drainRR, drained, told, subscribeVars, closeVars,
                 evt, bytes>>

DrainLast ==
  /\ caller \in {"drain", "retry"}
  /\ evt[at] = << >>
  /\ left = 1 /\ (caller = "retry" \/ got)
  /\ DrainEnds(Len(drained))
  /\ UNCHANGED <<notCaller, drainRR, drained, told, subscribeVars, closeVars, evt,
                 bytes>>

(* An event of the batch is handed to consumecb, also when q has closed the
   client in an earlier call of this batch; the demo prints them all. *)
Hand ==
  /\ caller \in {"deliver", "consumecb", "closed"}
  /\ told < Len(drained)
  /\ told' = IF adapter THEN told + 1 ELSE Len(drained)
  /\ caller' = IF caller = "closed" THEN caller ELSE "consumecb"
  /\ UNCHANGED <<notCaller, drainVars, subscribeVars, closeVars, evt, bytes>>

Return ==
  /\ caller \in {"deliver", "consumecb"}
  /\ told = Len(drained)
  /\ caller' = "idle"
  /\ UNCHANGED <<notCaller, drainVars, told, subscribeVars, closeVars, evt, bytes>>

(* kfkpb_close: ~KfkpbClient, which joins while g_mu is held. *)
Close ==
  /\ adapter /\ Free
  /\ stop' = TRUE
  /\ caller' = "wake"
  /\ UNCHANGED <<notCaller, drainVars, told, subscribeVars, epoch, missed, evt, bytes>>

(* A step of an epoch with its notify; a decode thread that is about to load
   the epoch will not see that it moved. *)
Bump(w, unseen) ==
  /\ epoch' = [epoch EXCEPT ![w] = @ + 1]
  /\ missed' = [missed EXCEPT ![w] = @ \/ worker[w] \in unseen]

(* Mutant of WakeWorker: the decode threads are not woken. *)
WakeNobody ==
  /\ caller = "wake"
  /\ caller' = "join_consumer"
  /\ UNCHANGED <<notCaller, drainVars, told, subscribeVars, closeVars, evt, bytes>>

WakeWorker ==
  /\ caller = "wake"
  /\ Bump(at, {"pop", "load"})
  /\ at' = NextOf(at)
  /\ caller' = IF at = Workers THEN "join_consumer" ELSE "wake"
  /\ UNCHANGED <<notCaller, left, got, drainRR, drained, told, subscribeVars, stop,
                 evt, bytes>>

Join ==
  /\ \/ /\ caller = "join_consumer"
        /\ consumer = "exited"
        /\ caller' = "join_workers"
     \/ /\ caller = "join_workers"
        /\ \A w \in Ws : worker[w] = "exited"
        /\ caller' = "closed"
  /\ UNCHANGED <<notCaller, drainVars, told, subscribeVars, closeVars, evt, bytes>>

-----------------------------------------------------------------------------
(* consumerLoop *)

ConsumerExits ==
  /\ consumer = "check" /\ stop
  /\ consumer' = "exited"
  /\ UNCHANGED <<notConsumer, configVars, pushVars, queueVars>>

(* The loop's look at stop_ is one step with what follows it under cfg_mu_:
   the caller never waits while it holds that lock.  With a new configuration
   the broker serves `served` from now on. *)
ApplyNew(served) ==
  /\ applied # cfgEpoch + 1
  /\ broker' = served
  /\ refused' = FALSE
  /\ overtaken' = FALSE
  /\ IF topics # {} /\ seekFrom
     THEN consumer' = "seek" /\ UNCHANGED applied
     ELSE consumer' = "poll" /\ applied' = cfgEpoch + 1

ApplyNothing ==
  /\ applied = cfgEpoch + 1
  /\ consumer' = "poll"
  /\ UNCHANGED <<applied, broker, refused, overtaken>>

(* Mutant of Apply: an empty subscription leaves the old one in place. *)
ApplyKeepsOld ==
  /\ consumer = "check" /\ ~stop
  /\ ApplyNothing \/ ApplyNew(IF topics = {} THEN broker ELSE topics)
  /\ UNCHANGED <<notConsumer, locked, pushVars, queueVars>>

(* Nothing new, or no topics, or topics the broker takes. *)
Apply ==
  /\ consumer = "check" /\ ~stop
  /\ ApplyNothing \/ ApplyNew(topics)
  /\ UNCHANGED <<notConsumer, locked, pushVars, queueVars>>

(* Every raw message the consumer makes goes through pushRaw. *)
MakeRaw(m, to) ==
  /\ made' = made + 1
  /\ msg' = <<m>>
  /\ after' = to
  /\ consumer' = "put"
  /\ UNCHANGED fallbackRR

MakeError(to) ==
  MakeRaw([id |-> made + 1, err |-> "consumer", key |-> None, topic |-> None,
           epoch |-> 0], to)

(* rd_kafka_subscribe fails: the error is pushed with cfg_mu_ held. *)
ApplyFails ==
  /\ consumer = "check" /\ ~stop
  /\ applied # cfgEpoch + 1
  /\ topics # {}
  /\ locked' = TRUE
  /\ refused' = TRUE
  /\ overtaken' = FALSE
  /\ MakeError("settle")
  /\ UNCHANGED <<notConsumer, applied, broker, queueVars>>

(* Without the lock: an assignment within 60 attempts, offsets_for_times,
   assign, and seek for each partition. *)
SeekDone ==
  /\ consumer = "seek"
  /\ consumer' = "settle"
  /\ UNCHANGED <<notConsumer, configVars, pushVars, queueVars>>

(* No assignment, or a request failed; where it is the seek of one partition,
   the others follow. *)
SeekFails ==
  /\ consumer = "seek"
  /\ MakeError("settle") \/ (made < MaxMessages /\ MakeError("seek"))
  /\ UNCHANGED <<notConsumer, configVars, queueVars>>

(* Mutant of Settle: the lock is kept. *)
SettleLocked ==
  /\ consumer = "settle"
  /\ applied' = cfgEpoch + 1
  /\ consumer' = "poll"
  /\ UNCHANGED <<notConsumer, locked, broker, refused, overtaken, pushVars, queueVars>>

(* With the lock again: the epoch of now is taken as applied. *)
Settle ==
  /\ consumer = "settle"
  /\ applied' = cfgEpoch + 1
  /\ locked' = FALSE
  /\ consumer' = "poll"
  /\ UNCHANGED <<notConsumer, broker, refused, overtaken, pushVars, queueVars>>

(* rd_kafka_consumer_poll: nothing, or an error, within poll_ms *)
PollNothing ==
  /\ consumer = "poll"
  /\ consumer' = "check"
  /\ UNCHANGED <<notConsumer, configVars, pushVars, queueVars>>

(* The subscription of now is the one the broker was asked for. *)
InForce == applied = cfgEpoch + 1 /\ ~refused /\ ~overtaken

(* epoch is history: the subscription the message was polled under, 0 if it
   is not the one of now. *)
PollMessage(key, topic) ==
  /\ consumer = "poll"
  /\ made < MaxMessages
  /\ topic \in broker
  /\ MakeRaw([id |-> made + 1, err |-> "none", key |-> key, topic |-> topic,
              epoch |-> IF InForce THEN applied ELSE 0], "check")
  /\ UNCHANGED <<notConsumer, configVars, queueVars>>

-----------------------------------------------------------------------------
(* pushRaw *)

(* Mutant of Target: messages go to the decode threads in turn. *)
TargetInTurn == (msg[1].id % Workers) + 1

(* workerIndexFor: a message without key goes to the next thread in turn. *)
Target ==
  LET m == msg[1] IN IF m.key = None THEN fallbackRR ELSE WorkerOf[m.key]

(* The message is pushed onto what its queue holds. *)
PutRaw(queue) == raw' = [raw EXCEPT ![Target] = Append(queue, msg[1])]

Put ==
  /\ consumer = "put"
  /\ IF Len(raw[Target]) < RawCap
     THEN PutRaw(raw[Target]) /\ consumer' = "bump"
     ELSE consumer' = "put_drop" /\ UNCHANGED raw
  /\ UNCHANGED <<notConsumer, configVars, pushVars, epoch, dropped, missed>>

(* Mutant of DropRaw: the message is not pushed after the drop. *)
DropRawOnly ==
  /\ consumer = "put_drop"
  /\ IF raw[Target] = << >>
     THEN UNCHANGED <<raw, dropped>>
     ELSE /\ raw' = [raw EXCEPT ![Target] = Tail(@)]
          /\ dropped' = dropped \union {Head(raw[Target]).id}
  /\ consumer' = "bump"
  /\ UNCHANGED <<notConsumer, configVars, pushVars, epoch, missed>>

(* The consumer's own try_pop, after which there is room. *)
DropRaw ==
  /\ consumer = "put_drop"
  /\ IF raw[Target] = << >>
     THEN PutRaw(<< >>) /\ UNCHANGED dropped
     ELSE /\ PutRaw(Tail(raw[Target]))
          /\ dropped' = dropped \union {Head(raw[Target]).id}
  /\ consumer' = "bump"
  /\ UNCHANGED <<notConsumer, configVars, pushVars, epoch, missed>>

PushReturns ==
  /\ fallbackRR' = IF msg[1].key = None THEN NextOf(fallbackRR) ELSE fallbackRR
  /\ msg' = Nothing
  /\ after' = "check"
  /\ consumer' = after

(* Mutant of NotifyWorker: the epoch is not moved. *)
NotifyNobody ==
  /\ consumer = "bump"
  /\ PushReturns
  /\ UNCHANGED <<notConsumer, configVars, made, queueVars>>

NotifyWorker ==
  /\ consumer = "bump"
  /\ Bump(Target, IF raw[Target] # << >> THEN {"load"} ELSE {})
  /\ PushReturns
  /\ UNCHANGED <<notConsumer, configVars, made, raw, dropped>>

-----------------------------------------------------------------------------
(* decodeLoop and popRaw, run by decode thread w *)

WorkerAt(w, from, to) ==
  /\ worker[w] = from
  /\ worker' = [worker EXCEPT ![w] = to]

WorkerCheck(w) ==
  /\ WorkerAt(w, "check", IF stop THEN "exited" ELSE "pop")
  /\ UNCHANGED <<notWorker, held, seen, raw, evt, bytes, dropped, missed>>

PopRaw(w) ==
  /\ raw[w] # << >>
  /\ WorkerAt(w, "pop", "decode")
  /\ held' = [held EXCEPT ![w] = <<Head(raw[w])>>]
  /\ raw' = [raw EXCEPT ![w] = Tail(@)]
  /\ missed' = [missed EXCEPT ![w] = FALSE]
  /\ UNCHANGED <<notWorker, seen, evt, bytes, dropped>>

PopNothing(w) ==
  /\ raw[w] = << >>
  /\ WorkerAt(w, "pop", "load")
  /\ UNCHANGED <<notWorker, held, seen, raw, evt, bytes, dropped, missed>>

LoadEpoch(w) ==
  /\ WorkerAt(w, "load", "wait")
  /\ seen' = [seen EXCEPT ![w] = epoch[w]]
  /\ UNCHANGED <<notWorker, held, raw, evt, bytes, dropped, missed>>

(* std::atomic_wait returns once the value is another one. *)
Wake(w) ==
  /\ epoch[w] # seen[w]
  /\ WorkerAt(w, "wait", "check")
  /\ seen' = [seen EXCEPT ![w] = 0]
  /\ missed' = [missed EXCEPT ![w] = FALSE]
  /\ UNCHANGED <<notWorker, held, raw, evt, bytes, dropped>>

(* A message becomes an event: its own error, "unknown topic mapping" by the
   topics of now, under cfg_mu_, or what its decoder makes of it. *)
Outcome(m) ==
  IF m.err # "none" THEN m.err
  ELSE IF m.topic \notin topics THEN "topic"
  ELSE "none"

Decode(w) ==
  LET m == held[w][1] IN
  /\ WorkerAt(w, "decode", "put")
  /\ m.err = "none" => ~locked
  /\ held' = [held EXCEPT ![w] = <<[m EXCEPT !.err = Outcome(m)]>>]
  /\ UNCHANGED <<notWorker, seen, raw, evt, bytes, dropped, missed>>

PutEvent(w, queue) ==
  /\ evt' = [evt EXCEPT ![w] = Append(queue, [held[w][1] EXCEPT !.epoch = 0])]
  /\ held' = [held EXCEPT ![w] = Nothing]

PushEvent(w) ==
  /\ IF Len(evt[w]) < EvtCap
     THEN WorkerAt(w, "put", "send") /\ PutEvent(w, evt[w])
     ELSE WorkerAt(w, "put", "put_drop") /\ UNCHANGED <<evt, held>>
  /\ UNCHANGED <<notWorker, seen, raw, bytes, dropped, missed>>

DropEvent(w) ==
  /\ WorkerAt(w, "put_drop", "send")
  /\ IF evt[w] = << >>
     THEN PutEvent(w, << >>) /\ UNCHANGED dropped
     ELSE PutEvent(w, Tail(evt[w])) /\ dropped' = dropped \union {Head(evt[w]).id}
  /\ UNCHANGED <<notWorker, seen, raw, bytes, missed>>

(* Mutant of Notify: the caller is not told of the event. *)
NotifyNot(w) ==
  /\ WorkerAt(w, "send", "check")
  /\ UNCHANGED <<notWorker, held, seen, raw, evt, bytes, dropped, missed>>

(* The adapter's end of the socket blocks when it is full; the demo's does
   not, and the byte is lost.  Without a socket send fails, and nobody looks
   at its result. *)
Notify(w) ==
  /\ WorkerAt(w, "send", "check")
  /\ adapter /\ socket => bytes < SocketCap
  /\ bytes' = IF socket /\ bytes < SocketCap THEN bytes + 1 ELSE bytes
  /\ UNCHANGED <<notWorker, held, seen, raw, evt, dropped, missed>>

-----------------------------------------------------------------------------
Draining == DrainPop \/ DrainNext \/ DrainLast \/ Hand \/ Return
Closing == WakeWorker \/ Join

Consume ==
  \/ ConsumerExits
  \/ Apply
  \/ ApplyFails
  \/ SeekDone
  \/ SeekFails
  \/ Settle
  \/ PollNothing
  \/ \E key \in Keys \union {None}, topic \in Topics : PollMessage(key, topic)
  \/ Put
  \/ DropRaw
  \/ NotifyWorker

Work(w) ==
  \/ WorkerCheck(w)
  \/ PopRaw(w)
  \/ PopNothing(w)
  \/ LoadEpoch(w)
  \/ Wake(w)
  \/ Decode(w)
  \/ PushEvent(w)
  \/ DropEvent(w)
  \/ Notify(w)

Next ==
  \/ \E ts \in SUBSET Topics, fromTime \in BOOLEAN : Subscribe(ts, fromTime)
  \/ DrainBegin
  \/ Draining
  \/ Close
  \/ Closing
  \/ Consume
  \/ \E w \in Ws : Work(w)

(* Every thread runs; the caller ends what it began and comes back to drain
   (q's main loop calls the callback while the socket is readable, the demo
   polls), but need not subscribe or close. *)
Fairness ==
  /\ WF_vars(DrainBegin \/ Draining \/ Closing)
  /\ WF_vars(Consume)
  /\ \A w \in Ws : WF_vars(Work(w))

Spec == Init /\ [][Next]_vars /\ Fairness

-----------------------------------------------------------------------------
Pipeline(w) == evt[w] \o held[w] \o raw[w]
IdsIn(seq) == {m.id : m \in Range(seq)}

(* Every variable stays within its range; the decode threads hold a message
   exactly while they work on it, the lock is held only while an error of
   the subscription is pushed, and after close no thread is left. *)
TypeOK ==
  /\ caller \in {"idle", "drain", "retry", "deliver", "consumecb", "wake",
                 "join_consumer", "join_workers", "closed"}
  /\ at \in Ws /\ drainRR \in Ws /\ fallbackRR \in Ws
  /\ left \in 0..Workers
  /\ told <= Len(drained) /\ (caller = "idle" => told = Len(drained))
  /\ topics \subseteq Topics /\ broker \subseteq Topics
  /\ applied \in 0..(cfgEpoch + 1)
  /\ bytes \in 0..SocketCap
  /\ locked => consumer \in {"put", "put_drop", "bump", "settle"}
  /\ \A w \in Ws :
       /\ Len(raw[w]) <= RawCap /\ Len(evt[w]) <= EvtCap
       /\ held[w] # Nothing <=> worker[w] \in {"decode", "put", "put_drop"}
       /\ seen[w] <= epoch[w]
  /\ stop <=> caller \in {"wake", "join_consumer", "join_workers", "closed"}

(* Every message that was polled, and every error made on the way, is in
   exactly one place: drained, queued, with a thread, or dropped from a
   full queue (kfkpb_core.cpp:148-173, 293-311, 315-391, 410-435). *)
Accounted ==
  LET places == <<IdsIn(drained), dropped,
                  IF consumer \in {"put", "put_drop"} THEN IdsIn(msg) ELSE {}>>
                \o [w \in Ws |-> IdsIn(evt[w])]
                \o [w \in Ws |-> IdsIn(held[w])]
                \o [w \in Ws |-> IdsIn(raw[w])]
  IN /\ UNION Range(places) = 1..made
     /\ \A i, j \in DOMAIN places : i # j => places[i] \intersect places[j] = {}

(* The events of one key are drained in the order in which its messages
   were polled: workerIndexFor sends them all through one decode thread
   (kfkpb_core.cpp:437-443). *)
KeyOrder ==
  \A key \in Keys :
    LET all == drained \o Pipeline(WorkerOf[key]) IN
    \A i, j \in DOMAIN all :
      i < j /\ all[i].key = key /\ all[j].key = key => all[i].id < all[j].id

(* An applied configuration is the one the broker serves, unless the broker
   refused it or it came while the consumer was seeking for an earlier one
   (kfkpb_core.cpp:178-282). *)
AppliedUnlessOvertaken == InForce => broker = topics

(* kfkpb_core.hpp:72-74: subscribe determines which topics are consumed. *)
AppliedIsSubscribed ==
  applied = cfgEpoch + 1 /\ ~refused => broker = topics

(* The decode threads look a topic up when they decode, not when it was
   polled (kfkpb_core.cpp:331-349).  A message becomes an "unknown topic
   mapping" error only if the subscription it was polled under has been
   replaced since, or was not the one the client stored; as long as that one
   is in force, every message of it gets to its decoder. *)
KnownUnlessReplaced ==
  \A w \in Ws : held[w] # Nothing /\ worker[w] # "decode" /\ held[w][1].err = "topic"
    => held[w][1].epoch # cfgEpoch + 1

Blocked == adapter /\ socket /\ bytes = SocketCap

(* What is queued for a decode thread gets decoded, or dropped for a newer
   message, as long as the client is open, the thread did not miss the
   notification and the socket is not full (kfkpb_core.cpp:398-423). *)
DecodedUnlessMissed ==
  \A w \in Ws, m \in 1..(MaxMessages + MaxSubscribes) :
    m \in IdsIn(raw[w]) ~> m \notin IdsIn(raw[w]) \/ missed[w] \/ stop \/ Blocked

(* README.md:8-9: what Kafka delivers is decoded. *)
IsDecoded ==
  \A w \in Ws, m \in 1..(MaxMessages + MaxSubscribes) :
    m \in IdsIn(raw[w]) ~> m \notin IdsIn(raw[w]) \/ stop \/ Blocked

(* Every event that was queued is handed to q, or dropped for a newer one: the
   byte is sent after the event is queued, the demo reads its bytes before it
   drains, and a batch is handed over to its end (kfkpb_core.cpp:434,
   kfkpb.cpp:95-109).  Except without a socket, where q is never called
   (kfkpb.cpp:159-178), and for a client that is closed. *)
EventsAreDrained ==
  \A w \in Ws, m \in 1..(MaxMessages + MaxSubscribes) :
    m \in IdsIn(evt[w]) ~>
      \/ m \in dropped \/ \E i \in 1..told : drained[i].id = m
      \/ stop \/ ~socket

(* close returns, unless a decode thread missed the notification or is stuck
   in send (kfkpb_core.cpp:108-126). *)
CloseReturnsUnlessMissed ==
  caller = "wake" ~> caller = "closed" \/ Blocked \/ \E w \in Ws : missed[w]
=============================================================================
