-------------------------------- MODULE Feed --------------------------------
(***************************************************************************)
(* momo_feed from its configuration to the sinks, and its shutdown: main   *)
(* loads the configuration, starts the downstreams and the session; the    *)
(* API's thread turns pushes into envelopes and enqueues them in the       *)
(* inbox; run() takes them in batches and submits each to the Dispatcher;  *)
(* the workers hand them to RedPandaSink, which produces them to           *)
(* librdkafka.  A signal ends run(); main then closes the session and the  *)
(* destructors run.                                                        *)
(*                                                                         *)
(* The Dispatcher is the module of that name, whose caller is main's       *)
(* thread.  It numbers what it dispatches; ids gives the envelopes behind  *)
(* these numbers.  The control plane of run() is in SubscriptionManager.   *)
(* What a push and an envelope hold is in QuotePath.                       *)
(*                                                                         *)
(* Outside the repository, and modelled from how they are used: the Futu   *)
(* API, whose Close is taken to wait for a callback that is running, and   *)
(* librdkafka, which may refuse a message, fail to deliver it, or purge it *)
(* when it is destroyed.                                                   *)
(***************************************************************************)
EXTENDS AppConfig, FiniteSets, Functions

CONSTANTS
  Configs,                (* the configuration files there may be           *)
  Downstreams, QueueCap,  (* as in Dispatcher                               *)
  MaxMessages,            (* bound: envelopes                               *)
  InboxCap,               (* places of inbox_                               *)
  BatchMax,               (* how many run() takes at once: 1024             *)
  ProducerCap             (* messages librdkafka holds before it refuses    *)

ASSUME FeedAssumption ==
  /\ Downstreams \in Nat
  /\ MaxMessages \in Nat
  /\ {QueueCap, InboxCap, BatchMax, ProducerCap} \subseteq Nat \ {0}

(* The downstreams of a list for which a sink can be made *)
SinksOf(list) ==
  {i \in DOMAIN list :
     /\ list[i] # Scalar
     /\ list[i].type = "redpanda" /\ RedpandaLoads(list[i].redpanda)
     /\ ~SinkRefuses(list[i])}

ASSUME ConfigsAssumption ==
  \A file \in Configs :
    /\ IsFile(file)
    /\ file.downstreams # Absent => Cardinality(SinksOf(file.downstreams)) <= Downstreams

VARIABLES
  (* the Dispatcher's *)
  added, caller, at, sent, queue, running, worker, item, received, dropped, stalled,
  (* the API's thread *)
  callback,   (* where it stands in enqueue, or "off" and "closed"          *)
  made,       (* number of the last envelope                                *)
  more,       (* how many the running callback makes after it               *)
  (* shared *)
  inbox,      (* inbox_                                                     *)
  gStop,      (* g_stop                                                     *)
  (* main's thread *)
  main,       (* where it stands outside the Dispatcher                     *)
  config,     (* the configuration file                                     *)
  entry,      (* the downstream its loop over cfg.downstreams has reached   *)
  policy,     (* opts_.overflow                                             *)
  batch,      (* what run() took and has not submitted                      *)
  ids,        (* the envelopes submitted to the Dispatcher, in order        *)
  (* librdkafka, for each sink *)
  produced,   (* the envelopes it took, in order                            *)
  inflight,   (* those of them it still holds                               *)
  refused,    (* those it did not take                                      *)
  (* history *)
  overrun     (* envelopes that enqueue dropped from the full inbox         *)

D == INSTANCE Dispatcher

dispatcher == <<added, caller, at, sent, queue, running, worker, item, received, dropped,
                stalled>>
session == <<callback, made, more, overrun>>
startup == <<config, entry, policy>>
kafka == <<produced, inflight, refused>>
vars == <<dispatcher, session, startup, inbox, gStop, main, batch, ids, kafka>>

Ds == D!Ds

Init ==
  /\ D!Init
  /\ callback = "off" /\ made = 0 /\ more = 0 /\ overrun = {}
  /\ config \in Configs /\ entry = 1 /\ policy = "DropOldest"
  /\ inbox = << >>
  /\ gStop = FALSE
  /\ main = "load" /\ batch = << >> /\ ids = << >>
  /\ produced = [d \in Ds |-> << >>]
  /\ inflight = [d \in Ds |-> {}]
  /\ refused = [d \in Ds |-> {}]

-----------------------------------------------------------------------------
(* The API's thread: a push handler makes an envelope and enqueues it *)

(* A push makes one envelope, or one for each of its basic quotes. *)
Offer ==
  /\ callback = "idle"
  /\ made < MaxMessages
  /\ made' = made + 1
  /\ more' \in 0..(MaxMessages - made')
  /\ callback' = "push"
  /\ UNCHANGED <<dispatcher, overrun, startup, inbox, gStop, main, batch, ids,
                 kafka>>

(* enqueue returns, and the handler makes its next envelope. *)
Enqueued ==
  IF more = 0 THEN callback' = "idle" /\ UNCHANGED <<made, more>>
              ELSE callback' = "push" /\ made' = made + 1 /\ more' = more - 1

HasRoom == Len(inbox) < InboxCap

(* Mutant of Accept: no further try after the first. *)
AcceptFirst ==
  /\ callback = "push"
  /\ HasRoom
  /\ inbox' = Append(inbox, made)
  /\ Enqueued
  /\ UNCHANGED <<dispatcher, overrun, startup, gStop, main, batch, ids, kafka>>

(* try_push succeeds: the first one, or one of the spin under Block. *)
Accept ==
  /\ callback \in {"push", "spin"}
  /\ HasRoom
  /\ inbox' = Append(inbox, made)
  /\ Enqueued
  /\ UNCHANGED <<dispatcher, overrun, startup, gStop, main, batch, ids, kafka>>

Refuse ==
  /\ callback = "push"
  /\ ~HasRoom
  /\ callback' = IF policy = "DropOldest" THEN "drop" ELSE "spin"
  /\ UNCHANGED <<dispatcher, made, more, overrun, startup, inbox, gStop, main,
                 batch, ids, kafka>>

(* The producer's own try_pop; run() may have emptied the inbox by now. *)
DropOldest ==
  /\ callback = "drop"
  /\ inbox' = IF inbox = << >> THEN inbox ELSE Tail(inbox)
  /\ overrun' = overrun \union (Range(inbox) \ Range(inbox'))
  /\ callback' = "again"
  /\ UNCHANGED <<dispatcher, made, more, startup, gStop, main, batch, ids,
                 kafka>>

(* Mutant of PushAgain: the envelope is not pushed after the drop. *)
PushNotAgain ==
  /\ callback = "again"
  /\ Enqueued
  /\ UNCHANGED <<dispatcher, overrun, startup, inbox, gStop, main, batch, ids,
                 kafka>>

(* After the drop there is room, because nobody else pushes. *)
PushAgain ==
  /\ callback = "again"
  /\ inbox' = Append(inbox, made)
  /\ Enqueued
  /\ UNCHANGED <<dispatcher, overrun, startup, gStop, main, batch, ids, kafka>>

Enqueue == Accept \/ Refuse \/ DropOldest \/ PushAgain

-----------------------------------------------------------------------------
(* main's thread *)

Signal ==
  /\ ~gStop
  /\ gStop' = TRUE
  /\ UNCHANGED <<dispatcher, session, startup, inbox, main, batch, ids, kafka>>

(* Nothing has been started when the file is at fault. *)
LoadConfig ==
  LET outcome == IF ConfigOutcome(config) = "loaded" /\ LoggerThrows(config.logger)
                 THEN "exception" ELSE ConfigOutcome(config) IN
  /\ main = "load"
  /\ main' = CASE outcome = "loaded" -> "start"
               [] outcome = "error" -> "failed"
               [] outcome = "exception" -> "terminated"
  /\ policy' = IF outcome = "loaded" THEN Policy(config) ELSE policy
  /\ UNCHANGED <<dispatcher, session, config, entry, inbox, gStop, batch, ids,
                 kafka>>

(* The downstream main has reached has this type. *)
EntryIs(type) ==
  /\ main = "start"
  /\ entry \in DOMAIN config.downstreams
  /\ config.downstreams[entry].type = type

AddDownstream ==
  /\ EntryIs("redpanda")
  /\ ~SinkRefuses(config.downstreams[entry])
  /\ D!AddDownstream
  /\ entry' = entry + 1
  /\ UNCHANGED <<session, config, policy, inbox, gStop, main, batch, ids,
                 kafka>>

(* No sink is made for demo_log. *)
SkipDemoLog ==
  /\ EntryIs("demo_log")
  /\ entry' = entry + 1
  /\ UNCHANGED <<dispatcher, session, config, policy, inbox, gStop, main, batch,
                 ids, kafka>>

(* The constructor's exception ends the program, with the workers of the
   downstreams before. *)
SinkThrows ==
  /\ EntryIs("redpanda")
  /\ SinkRefuses(config.downstreams[entry])
  /\ main' = "terminated"
  /\ UNCHANGED <<dispatcher, session, startup, inbox, gStop, batch, ids, kafka>>

(* session.start: from here on there may be callbacks. *)
Start ==
  /\ main = "start"
  /\ entry = Len(config.downstreams) + 1
  /\ D!AddEnds
  /\ callback' = "idle"
  /\ main' = "check"
  /\ UNCHANGED <<made, more, overrun, startup, inbox, gStop, batch, ids, kafka>>

(* Mutant of CheckStop: the loop does not end. *)
CheckStopNever ==
  /\ main = "check"
  /\ main' = "pop"
  /\ UNCHANGED <<dispatcher, session, startup, inbox, gStop, batch, ids, kafka>>

CheckStop ==
  /\ main = "check"
  /\ main' = IF gStop THEN "flush" ELSE "pop"
  /\ UNCHANGED <<dispatcher, session, startup, inbox, gStop, batch, ids, kafka>>

(* Mutants of PopOne: no limit on the batch; and the batch is reversed. *)
PopOneUnlimited ==
  /\ main = "pop"
  /\ inbox # << >>
  /\ batch' = Append(batch, Head(inbox))
  /\ inbox' = Tail(inbox)
  /\ UNCHANGED <<dispatcher, session, startup, gStop, main, ids, kafka>>

PopOneInFront ==
  /\ main = "pop"
  /\ inbox # << >> /\ Len(batch) < BatchMax
  /\ batch' = <<Head(inbox)>> \o batch
  /\ inbox' = Tail(inbox)
  /\ UNCHANGED <<dispatcher, session, startup, gStop, main, ids, kafka>>

(* pop_many, one try_pop at a time *)
PopOne ==
  /\ main = "pop"
  /\ inbox # << >> /\ Len(batch) < BatchMax
  /\ batch' = Append(batch, Head(inbox))
  /\ inbox' = Tail(inbox)
  /\ UNCHANGED <<dispatcher, session, startup, gStop, main, ids, kafka>>

PopEnds ==
  /\ main = "pop"
  /\ inbox = << >> \/ Len(batch) = BatchMax
  /\ main' = IF batch = << >> THEN "check" ELSE "submit"
  /\ UNCHANGED <<dispatcher, session, startup, inbox, gStop, batch, ids, kafka>>

Submit ==
  /\ main = "submit"
  /\ batch # << >>
  /\ D!Dispatch
  /\ ids' = Append(ids, Head(batch))
  /\ batch' = Tail(batch)
  /\ UNCHANGED <<session, startup, inbox, gStop, main, kafka>>

Dispatching ==
  /\ D!Dispatching
  /\ UNCHANGED <<session, startup, inbox, gStop, main, batch, ids, kafka>>

(* Mutant of BatchDone: a stop is looked at between two envelopes. *)
BatchDoneOrStop ==
  /\ main = "submit"
  /\ caller = "idle"
  /\ batch = << >> \/ gStop
  /\ main' = "check"
  /\ UNCHANGED <<dispatcher, session, startup, inbox, gStop, batch, ids, kafka>>

BatchDone ==
  /\ main = "submit"
  /\ caller = "idle"
  /\ batch = << >>
  /\ main' = "check"
  /\ UNCHANGED <<dispatcher, session, startup, inbox, gStop, batch, ids, kafka>>

(* flush returns when librdkafka holds nothing more or its time is over; the
   workers go on meanwhile. *)
Flush ==
  /\ main = "flush"
  /\ main' = "close"
  /\ UNCHANGED <<dispatcher, session, startup, inbox, gStop, batch, ids, kafka>>

(* session.stop: Close waits until no callback is running. *)
CloseSession ==
  /\ main = "close"
  /\ callback = "idle"
  /\ callback' = "closed"
  /\ main' = "destroy"
  /\ UNCHANGED <<dispatcher, made, more, overrun, startup, inbox, gStop, batch,
                 ids, kafka>>

DestroyDispatcher ==
  /\ main = "destroy"
  /\ D!Destroy \/ D!Stop \/ D!Join
  /\ UNCHANGED <<session, startup, inbox, gStop, main, batch, ids, kafka>>

(* ~RedPandaSink flushes for two seconds and destroys the producer, which
   purges what it still holds. *)
DestroySinks ==
  /\ main = "destroy"
  /\ caller = "destroyed"
  /\ inflight' = [d \in Ds |-> {}]
  /\ main' = "exited"
  /\ UNCHANGED <<dispatcher, session, startup, inbox, gStop, batch, ids,
                 produced, refused>>

-----------------------------------------------------------------------------
(* The workers and librdkafka *)

Worker(d) ==
  /\ main # "terminated"
  /\ D!Loop(d)
  /\ UNCHANGED <<session, startup, inbox, gStop, main, batch, ids, kafka>>

(* RedPandaSink::submit: producev takes the message and the next is polled. *)
Produce(d) ==
  /\ D!SinkSubmit(d)
  /\ Cardinality(inflight[d]) < ProducerCap
  /\ produced' = [produced EXCEPT ![d] = Append(@, ids[item[d]])]
  /\ inflight' = [inflight EXCEPT ![d] = @ \union {ids[item[d]]}]
  /\ UNCHANGED <<session, startup, inbox, gStop, main, batch, ids, refused>>

(* The queue is full, or the message is refused for another reason: it is
   logged and gone. *)
ProduceFails(d) ==
  /\ D!SinkSubmit(d)
  /\ refused' = [refused EXCEPT ![d] = @ \union {ids[item[d]]}]
  /\ UNCHANGED <<session, startup, inbox, gStop, main, batch, ids, produced,
                 inflight>>

(* The broker took a message, or its time was over. *)
Report(d) ==
  /\ \E e \in inflight[d] : inflight' = [inflight EXCEPT ![d] = @ \ {e}]
  /\ UNCHANGED <<dispatcher, session, startup, inbox, gStop, main, batch, ids,
                 produced, refused>>

-----------------------------------------------------------------------------
Main ==
  \/ LoadConfig
  \/ AddDownstream
  \/ SkipDemoLog
  \/ SinkThrows
  \/ Start
  \/ CheckStop
  \/ PopOne
  \/ PopEnds
  \/ Submit
  \/ Dispatching
  \/ BatchDone
  \/ Flush
  \/ CloseSession
  \/ DestroyDispatcher
  \/ DestroySinks

SinkTakes(d) == Produce(d) \/ ProduceFails(d)

Next ==
  \/ Offer
  \/ Enqueue
  \/ Signal
  \/ Main
  \/ \E d \in Ds : Worker(d) \/ SinkTakes(d) \/ Report(d)

(* The threads run; nothing makes the server push, the user send a signal or
   the broker answer, and a stalled sink may never return. *)
Fairness ==
  /\ WF_vars(Enqueue)
  /\ WF_vars(Main)
  /\ \A d \in Ds :
       /\ WF_vars(Worker(d))
       /\ WF_vars(d \notin stalled /\ SinkTakes(d))

Spec == Init /\ [][Next]_vars /\ Fairness

-----------------------------------------------------------------------------
Ended == {"failed", "terminated", "exited"}

(* Every variable stays within its range; a batch is empty outside the steps
   of run() that fill and submit it. *)
TypeOK ==
  /\ callback \in {"off", "idle", "push", "drop", "again", "spin", "closed"}
  /\ main \in {"load", "start", "check", "pop", "submit", "flush", "close", "destroy"}
               \union Ended
  /\ more \in 0..(MaxMessages - made) /\ (callback = "idle" => more = 0)
  /\ Len(inbox) <= InboxCap
  /\ Len(batch) <= BatchMax
  /\ batch # << >> => main \in {"pop", "submit"}
  /\ Len(ids) = sent
  /\ caller \notin {"add", "idle"} => main \in {"submit", "destroy", "exited"}
  /\ \A d \in Ds : inflight[d] \subseteq Range(produced[d])

Ids(messages) == {ids[m] : m \in messages}

(* Every envelope a callback made is, on its way to each sink, in exactly one
   place, and each loss has one of four causes: dropped from the full inbox,
   dropped from the sink's full queue, refused by librdkafka, or left in the
   inbox when run() returned. *)
EnvelopesAccounted ==
  \A d \in 1..added :
    LET underway == {m \in 1..sent : m > D!Reached(d)}
        places ==
          <<IF callback \in {"push", "drop", "again", "spin"} THEN {made} ELSE {},
            Range(inbox), overrun, Range(batch), Ids(underway),
            Ids(Range(queue[d])), Ids(Range(D!Held(d))), Ids(dropped[d]),
            Range(produced[d]), refused[d]>>
    IN /\ UNION Range(places) = 1..made
       /\ \A i, j \in DOMAIN places : i # j => places[i] \intersect places[j] = {}

Channel == INSTANCE FeedChannel WITH
             Sinks <- Ds, offered <- made, published <- produced

(* Whatever queues overflow and whoever stalls, each sink's producer is given
   offered envelopes in order and none twice. *)
ImplementsChannel == Channel!Spec

(* What run() took from the inbox has been handed to every sink when main
   returns: run() ends its batch before it looks at g_stop, and ~Dispatcher
   drains the queues (SubscriptionManager.cpp:171-229, Dispatcher.cpp:40-43). *)
ExitDrains ==
  main = "exited" =>
    \A d \in 1..added :
      Range(produced[d]) \union refused[d] \union Ids(dropped[d])
        = 1..made \ (overrun \union Range(inbox))

(* What a file may ask for in vain: a value of the wrong form, or a key left
   out that has no default. *)
IsMap(n) == n # Absent /\ \A key \in DOMAIN n : n[key] # Malformed

FaultlessLogger(n) ==
  /\ n # Absent
  /\ \A key \in DOMAIN n : n[key] # Malformed \/ (key = "file" /\ n.path # Absent)
  /\ n.worker_threads # 0 /\ n.path # "unwritable"
  /\ n.file = "unwritable" => n.path # Absent
  /\ n.overflow \in {Absent, "block", "drop_oldest"}

FaultlessFutu(n) ==
  IsMap(n) /\ n.opend_ip # Absent /\ n.opend_port # Absent /\ n.opend_port \in 1..MaxPort

FaultlessManager(n) ==
  /\ IsMap(n)
  /\ n.refresh_ms # Absent /\ n.refresh_ms > 0
  /\ n.overflow \in {Absent, "block", "drop_oldest"}

FaultlessDownstream(d) ==
  /\ d # Scalar
  /\ {d.name, d.type} \intersect {Absent, Malformed} = {}
  /\ d.type \in {"redpanda", "demo_log"}
  /\ d.type = "redpanda" =>
       /\ IsMap(d.redpanda)
       /\ d.redpanda.brokers \notin {Absent, ""} /\ d.redpanda.acks # "unknown"

Faultless(file) ==
  /\ file.readable /\ ~file.scalar
  /\ FaultlessLogger(file.logger)
  /\ FaultlessFutu(file.futu)
  /\ IsMap(file.subscriptions) /\ file.subscriptions.path # Absent
  /\ FaultlessManager(file.subscriptionmanager)
  /\ file.downstreams # Absent
  /\ \A i \in DOMAIN file.downstreams : FaultlessDownstream(file.downstreams[i])

(* The session is started only for a file without any fault, and then with one
   sink for each redpanda downstream and the overflow policy of the file; a
   file with a fault ends the program before there is a callback, although
   sinks may run by then, and no other file does (ConfigLoader.cpp:54-234,
   main.cpp:44-87). *)
StartsAsConfigured ==
  /\ main \notin {"load", "start", "failed", "terminated"} =>
       /\ Faultless(config)
       /\ added = Cardinality({i \in DOMAIN config.downstreams :
                              config.downstreams[i].type = "redpanda"})
       /\ policy = IF config.subscriptionmanager.overflow = "block" THEN "Block"
                   ELSE "DropOldest"
  /\ main \in {"failed", "terminated"} => ~Faultless(config) /\ callback = "off"
  /\ main = "failed" => added = 0

(* enqueue returns while run() loops, even if a sink never does: a slow sink
   is held off by its own queue, not by the callbacks. *)
EnqueueReturns ==
  callback \in {"push", "spin"} ~>
    callback = "idle" \/ main \in {"flush", "close"}

(* A signal ends the program, unless a sink never returns or, under Block, a
   callback spins on the inbox that run() has left: Close waits for it
   (SubscriptionManager.cpp:450-452, main.cpp:126-129). *)
ShutdownEnds ==
  gStop ~>
    \/ main \in Ended
    \/ stalled # {}
    \/ main = "close" /\ callback = "spin" /\ ~HasRoom
=============================================================================
