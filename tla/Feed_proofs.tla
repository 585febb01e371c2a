----------------------------- MODULE Feed_proofs -----------------------------
(***************************************************************************)
(* momo_feed from the callbacks to the sinks for any number of downstreams *)
(* and envelopes, queues and batches of any length, and any configuration: *)
(* whatever queues overflow and whoever stalls, each sink is handed what   *)
(* was offered in order and none twice, every loss has a cause that is     *)
(* counted, and the shutdown leaves nothing behind of what run() took.     *)
(***************************************************************************)
EXTENDS Feed, SequenceLemmas, FiniteSetTheorems

DP == INSTANCE Dispatcher_proofs

(* A callback has made an envelope and not yet put it into the inbox. *)
Offering == callback \in {"push", "drop", "again", "spin"}

(* The last envelope that was put into the inbox. *)
Settled == IF Offering THEN made - 1 ELSE made

(* What went through the inbox, or is in it, in order. *)
Flow == (ids \o batch) \o inbox

(* The envelopes are numbers. *)
Numbers ==
  /\ made \in Nat
  /\ more \in Nat
  /\ inbox \in Seq(Nat) /\ batch \in Seq(Nat) /\ ids \in Seq(Nat)
  /\ produced \in [Ds -> Seq(Nat)]
  /\ inflight \in [Ds -> SUBSET Nat]
  /\ refused \in [Ds -> SUBSET Nat]

(* Where the callbacks and the Dispatcher's caller may be while main's thread
   stands where it does. *)
PhaseInv ==
  /\ caller = "add" <=> main \in {"load", "start", "failed", "terminated"}
  /\ caller = "add" <=> callback = "off"
  /\ callback = "closed" <=> main \in {"destroy", "exited"}
  /\ caller \in {"push", "drop", "again"} => main = "submit"
  /\ caller \in {"stop", "join", "destroyed"} => main \in {"destroy", "exited"}
  /\ main = "exited" => caller = "destroyed"

(* The producer's second try_push finds the place it made. *)
CallbackInv ==
  /\ callback = "again" => HasRoom
  /\ Offering => made > 0
  /\ ~Offering => more = 0

(* Nothing overtakes on its way to the Dispatcher, and what is missing was
   dropped from the inbox. *)
FlowInv == DP!Places(Flow, overrun, Settled)

(* A sink has handed on or lost what its worker gave it, in order. *)
SinkInv ==
  \A d \in Ds :
    /\ Range(received[d]) \subseteq 1..sent
    /\ Range(produced[d]) \union refused[d] = Ids(Range(received[d]))
    /\ Range(produced[d]) \intersect refused[d] = {}
    /\ Ascending(produced[d])

IInv ==
  /\ DP!IInv
  /\ TypeOK
  /\ Numbers
  /\ PhaseInv
  /\ CallbackInv
  /\ FlowInv
  /\ SinkInv

-----------------------------------------------------------------------------
(* The two instances of Dispatcher are the same. *)
LEMMA Bounds ==
  /\ Downstreams \in Nat
  /\ QueueCap \in Nat \ {0}
  /\ MaxMessages \in Nat
BY FeedAssumption

LEMMA SameCaller ==
  /\ D!Init <=> DP!Init
  /\ D!AddDownstream <=> DP!AddDownstream
  /\ D!AddEnds <=> DP!AddEnds
  /\ D!Dispatch <=> DP!Dispatch
  /\ D!Dispatching <=> DP!Dispatching
  /\ D!Destroy <=> DP!Destroy
  /\ D!Stop <=> DP!Stop
  /\ D!Join <=> DP!Join
<1>1. D!Init <=> DP!Init
  BY DEF D!Init, DP!Init, D!Ds, DP!Ds
<1>2. D!AddDownstream <=> DP!AddDownstream
  BY DEF D!AddDownstream, DP!AddDownstream
<1>3. (D!AddEnds <=> DP!AddEnds) /\ (D!Dispatch <=> DP!Dispatch)
  BY DEF D!AddEnds, DP!AddEnds, D!Dispatch, DP!Dispatch
<1>4. D!Dispatching <=> DP!Dispatching
  BY DEF D!Dispatching, DP!Dispatching, D!Push, DP!Push, D!PushRefused, DP!PushRefused,
         D!DropOldest, DP!DropOldest, D!PushAgain, DP!PushAgain, D!Put, DP!Put,
         D!Advance, DP!Advance
<1>5. (D!Destroy <=> DP!Destroy) /\ (D!Stop <=> DP!Stop) /\ (D!Join <=> DP!Join)
  BY DEF D!Destroy, DP!Destroy, D!Stop, DP!Stop, D!Join, DP!Join
<1> QED
  BY <1>1, <1>2, <1>3, <1>4, <1>5

LEMMA SameWorker ==
  ASSUME NEW d \in Ds
  PROVE  /\ d \in DP!Ds
         /\ D!Loop(d) <=> DP!Loop(d)
         /\ D!SinkSubmit(d) <=> DP!SinkSubmit(d)
<1>1. d \in DP!Ds
  BY DEF Ds, D!Ds, DP!Ds
<1>2. D!Loop(d) <=> DP!Loop(d)
  BY DEF D!Loop, DP!Loop, D!CheckRunning, DP!CheckRunning, D!Pop, DP!Pop,
         D!PopNothing, DP!PopNothing, D!Drain, DP!Drain, D!Exit, DP!Exit,
         D!Take, DP!Take, D!WorkerAt, DP!WorkerAt
<1>3. D!SinkSubmit(d) <=> DP!SinkSubmit(d)
  BY DEF D!SinkSubmit, DP!SinkSubmit, D!WorkerAt, DP!WorkerAt
<1> QED
  BY <1>1, <1>2, <1>3

(* Every step of momo_feed is a step of the Dispatcher or leaves it alone. *)
LEMMA DispatcherStep == [Next]_vars => [DP!Next]_DP!vars
<1> SUFFICES ASSUME [Next]_vars PROVE [DP!Next]_DP!vars
  OBVIOUS
<1> USE DEF DP!Next, DP!Caller
<1>1. ASSUME UNCHANGED dispatcher PROVE UNCHANGED DP!vars
  BY <1>1 DEF dispatcher, DP!vars
<1>2. CASE Offer \/ Signal
  BY <1>1, <1>2 DEF Offer, Signal
<1>3. CASE Enqueue
  BY <1>1, <1>3 DEF Enqueue, Accept, Refuse, DropOldest, PushAgain
<1>4. CASE LoadConfig \/ SkipDemoLog \/ SinkThrows \/ CheckStop \/ PopOne \/ PopEnds \/ BatchDone
             \/ Flush \/ CloseSession \/ DestroySinks
  BY <1>1, <1>4 DEF LoadConfig, SkipDemoLog, SinkThrows, CheckStop, PopOne, PopEnds,
                    BatchDone, Flush, CloseSession, DestroySinks
<1>5. CASE AddDownstream \/ Start \/ Submit \/ Dispatching \/ DestroyDispatcher
  BY <1>5, SameCaller DEF AddDownstream, Start, Submit, Dispatching, DestroyDispatcher
<1>6. ASSUME NEW d \in Ds, Worker(d) \/ SinkTakes(d) PROVE DP!Next
  BY <1>6, SameWorker DEF Worker, SinkTakes, Produce, ProduceFails
<1>7. ASSUME NEW d \in Ds, Report(d) PROVE UNCHANGED DP!vars
  BY <1>1, <1>7 DEF Report
<1>8. CASE UNCHANGED vars
  BY <1>1, <1>8 DEF vars
<1> QED
  BY <1>2, <1>3, <1>4, <1>5, <1>6, <1>7, <1>8 DEF Next, Main

LEMMA DispatcherInv == DP!IInv /\ [Next]_vars => DP!IInv'
  BY DispatcherStep, DP!InvStep, Bounds

-----------------------------------------------------------------------------
(* What becomes of a file is one of three things. *)
LEMMA OutcomeKind ==
  ASSUME NEW file
  PROVE  ConfigOutcome(file) \in {"loaded", "error", "exception"}
BY DEF ConfigOutcome, DownstreamsOutcome

(* Where the Dispatcher's caller goes. *)
LEMMA CallerGoes ==
  /\ DP!AddDownstream => caller = "add" /\ caller' = "add"
  /\ DP!AddEnds => caller = "add" /\ caller' = "idle"
  /\ DP!Dispatch => caller = "idle" /\ caller' \in {"idle", "push"}
  /\ DP!Dispatching => /\ caller \in {"push", "drop", "again"}
                       /\ caller' \in {"push", "drop", "again", "idle"}
  /\ DP!Destroy \/ DP!Stop \/ DP!Join =>
       /\ caller \in {"idle", "stop", "join"}
       /\ caller' \in {"stop", "join", "destroyed"}
<1>1. DP!AddDownstream \/ DP!AddEnds \/ DP!Dispatch =>
        /\ DP!AddDownstream => caller = "add" /\ caller' = "add"
        /\ DP!AddEnds => caller = "add" /\ caller' = "idle"
        /\ DP!Dispatch => caller = "idle" /\ caller' \in {"idle", "push"}
  BY DEF DP!AddDownstream, DP!AddEnds, DP!Dispatch
<1>2. DP!Dispatching => /\ caller \in {"push", "drop", "again"}
                       /\ caller' \in {"push", "drop", "again", "idle"}
  BY DEF DP!Dispatching, DP!Push, DP!PushRefused, DP!DropOldest, DP!PushAgain, DP!Advance
<1>3. DP!Destroy \/ DP!Stop \/ DP!Join =>
        /\ caller \in {"idle", "stop", "join"}
        /\ caller' \in {"stop", "join", "destroyed"}
  BY DEF DP!Destroy, DP!Stop, DP!Join
<1> QED
  BY <1>1, <1>2, <1>3

(* The phases of main's thread, the Dispatcher's caller and the callbacks keep
   in step. *)
LEMMA PhaseStep == PhaseInv /\ TypeOK /\ [Next]_vars => PhaseInv'
<1> SUFFICES ASSUME PhaseInv, TypeOK, [Next]_vars PROVE PhaseInv'
  OBVIOUS
<1> USE DEF PhaseInv
<1>1. ASSUME UNCHANGED <<main, caller, callback>> PROVE PhaseInv'
  BY <1>1
<1>2. CASE Offer \/ Signal
  BY <1>2 DEF Offer, Signal, dispatcher, session
<1>3. CASE Enqueue
  <2>1. /\ UNCHANGED <<main, caller>>
        /\ callback \in {"push", "drop", "again", "spin"}
        /\ callback' \in {"push", "drop", "again", "spin", "idle"}
    BY <1>3 DEF Enqueue, Accept, Refuse, DropOldest, PushAgain, Enqueued, dispatcher
  <2> QED
    BY <2>1
<1>4. CASE LoadConfig
  <2>1. /\ UNCHANGED <<caller, callback>>
        /\ main = "load"
        /\ main' \in {"start", "failed", "terminated"}
    BY <1>4, OutcomeKind DEF LoadConfig, dispatcher, session
  <2> QED
    BY <2>1
<1>5. CASE SkipDemoLog \/ SinkThrows \/ CheckStop \/ PopOne \/ PopEnds \/ BatchDone \/ Flush
             \/ DestroySinks
  <2>1. /\ UNCHANGED <<caller, callback>>
        /\ \/ UNCHANGED main
           \/ main = "start" /\ main' = "terminated"
           \/ main \in {"check", "pop"} /\ main' \in {"check", "pop", "flush", "submit"}
           \/ main = "submit" /\ caller = "idle" /\ main' = "check"
           \/ main = "flush" /\ main' = "close"
           \/ main = "destroy" /\ caller = "destroyed" /\ main' = "exited"
    BY <1>5 DEF SkipDemoLog, SinkThrows, EntryIs, CheckStop, PopOne, PopEnds,
                BatchDone, Flush, DestroySinks, dispatcher, session
  <2> QED
    BY <2>1
<1>6. CASE AddDownstream \/ Submit \/ Dispatching \/ DestroyDispatcher
  <2>1. /\ UNCHANGED <<main, callback>>
        /\ \/ UNCHANGED caller
           \/ main = "submit" /\ caller = "idle" /\ caller' \in {"idle", "push"}
           \/ /\ caller \in {"push", "drop", "again"}
              /\ caller' \in {"push", "drop", "again", "idle"}
           \/ /\ main = "destroy" /\ caller \in {"idle", "stop", "join"}
              /\ caller' \in {"stop", "join", "destroyed"}
    BY <1>6, SameCaller, CallerGoes
       DEF AddDownstream, Submit, Dispatching, DestroyDispatcher, session
  <2> QED
    BY <2>1
<1>7. CASE Start
  <2>1. /\ main = "start" /\ main' = "check" /\ callback' = "idle"
        /\ caller = "add" /\ caller' = "idle"
    BY <1>7, SameCaller, CallerGoes DEF Start
  <2> QED
    BY <2>1
<1>8. CASE CloseSession
  <2>1. /\ UNCHANGED caller /\ main = "close" /\ main' = "destroy"
        /\ callback = "idle" /\ callback' = "closed"
    BY <1>8 DEF CloseSession, dispatcher
  <2> QED
    BY <2>1
<1>9. ASSUME NEW d \in Ds, Worker(d) \/ SinkTakes(d) \/ Report(d) PROVE PhaseInv'
  <2>1. UNCHANGED <<main, callback>>
    BY <1>9, Zenon DEF Worker, SinkTakes, Produce, ProduceFails, Report, session
  <2>2. UNCHANGED caller
    BY <1>9, Zenon DEF Worker, SinkTakes, Produce, ProduceFails, Report, dispatcher,
         D!Loop, D!CheckRunning, D!Pop, D!PopNothing, D!Drain, D!Exit, D!Take, D!SinkSubmit
  <2> QED
    BY <2>1, <2>2
<1>10. CASE UNCHANGED vars
  BY <1>10 DEF vars, dispatcher, session
<1> QED
  BY <1>1, <1>2, <1>3, <1>4, <1>5, <1>6, <1>7, <1>8, <1>9, <1>10 DEF Next, Main

-----------------------------------------------------------------------------
(* What Enqueued makes of the callback. *)
LEMMA EnqueuedGoes ==
  ASSUME Enqueued, TypeOK, Numbers
  PROVE  /\ callback' \in {"idle", "push"}
         /\ callback' = "idle" => more = 0 /\ UNCHANGED <<made, more>>
         /\ callback' = "push" => more > 0 /\ made' = made + 1 /\ more' = more - 1
         /\ made' \in Nat /\ more' \in 0..(MaxMessages - made')
<1>1. /\ made \in Nat /\ more \in 0..(MaxMessages - made) /\ MaxMessages \in Nat
  BY FeedAssumption DEF TypeOK, Numbers
<1>2. CASE more = 0
  BY <1>1, <1>2 DEF Enqueued
<1>3. CASE more # 0
  BY <1>1, <1>3 DEF Enqueued
<1> QED
  BY <1>2, <1>3

(* The ranges of what the callbacks change. *)
CallbackTypes ==
  /\ callback \in {"off", "idle", "push", "drop", "again", "spin", "closed"}
  /\ made \in Nat /\ more \in 0..(MaxMessages - made)
  /\ inbox \in Seq(Nat) /\ Len(inbox) <= InboxCap

(* The callbacks: what they count stays within its bounds, and who looks for
   room after making it finds it. *)
LEMMA CallbackStep ==
  TypeOK /\ Numbers /\ PhaseInv /\ CallbackInv /\ [Next]_vars =>
    CallbackInv' /\ CallbackTypes'
<1> SUFFICES ASSUME TypeOK, Numbers, PhaseInv, CallbackInv, [Next]_vars
             PROVE  CallbackInv' /\ CallbackTypes'
  OBVIOUS
<1>0. /\ made \in Nat /\ more \in 0..(MaxMessages - made) /\ MaxMessages \in Nat
      /\ callback \in {"off", "idle", "push", "drop", "again", "spin", "closed"}
      /\ inbox \in Seq(Nat) /\ Len(inbox) \in Nat /\ Len(inbox) <= InboxCap
      /\ InboxCap \in Nat /\ InboxCap > 0
  <2>1. inbox \in Seq(Nat) /\ Len(inbox) \in Nat
    BY LenProperties DEF Numbers
  <2> QED
    BY <2>1, FeedAssumption DEF TypeOK, Numbers
<1> USE DEF CallbackInv, CallbackTypes, Offering, HasRoom
<1>1. ASSUME UNCHANGED session, UNCHANGED inbox \/ (inbox # << >> /\ inbox' = Tail(inbox))
      PROVE  CallbackInv' /\ CallbackTypes'
  <2>1. inbox' \in Seq(Nat) /\ Len(inbox') \in Nat /\ Len(inbox') <= Len(inbox)
    <3>1. CASE UNCHANGED inbox
      BY <1>0, <3>1
    <3>2. CASE inbox # << >> /\ inbox' = Tail(inbox)
      BY <1>0, <3>2, NumbersTail
    <3> QED
      BY <1>1, <3>1, <3>2
  <2>2. UNCHANGED <<callback, made, more>>
    BY <1>1 DEF session
  <2> QED
    BY <1>0, <2>1, <2>2
<1>2. CASE Offer
  BY <1>0, <1>2 DEF Offer
<1>3. CASE Accept \/ PushAgain
  <2>1. /\ callback \in {"push", "spin", "again"}
        /\ Len(inbox) < InboxCap
        /\ Enqueued
        /\ inbox' = Append(inbox, made)
    BY <1>3 DEF Accept, PushAgain
  <2>2. inbox' \in Seq(Nat) /\ Len(inbox') = Len(inbox) + 1
    BY <1>0, <2>1, NumbersAppend
  <2> QED
    BY <1>0, <2>1, <2>2, EnqueuedGoes
<1>4. CASE Refuse
  <2>1. callback' \in {"drop", "spin"} /\ UNCHANGED <<made, more, inbox>> /\ callback = "push"
    BY <1>4 DEF Refuse
  <2> QED
    BY <1>0, <2>1
<1>5. CASE DropOldest
  <2>1. /\ callback = "drop" /\ callback' = "again"
        /\ inbox' = IF inbox = << >> THEN inbox ELSE Tail(inbox)
        /\ UNCHANGED <<made, more>>
    BY <1>5 DEF DropOldest
  <2>2. inbox' \in Seq(Nat) /\ Len(inbox') < InboxCap
    <3>1. CASE inbox = << >>
      BY <1>0, <2>1, <3>1
    <3>2. CASE inbox # << >>
      BY <1>0, <2>1, <3>2, NumbersTail
    <3> QED
      BY <3>1, <3>2
  <2> QED
    BY <1>0, <2>1, <2>2
<1>6. CASE Start \/ CloseSession
  <2>1. /\ UNCHANGED <<made, more, inbox>>
        /\ \/ callback' = "idle" /\ main = "start"
           \/ callback' = "closed" /\ callback = "idle"
    BY <1>6 DEF Start, CloseSession
  <2>2. callback \in {"off", "idle"}
    BY <2>1 DEF PhaseInv
  <2> QED
    BY <1>0, <2>1, <2>2
<1>7. ASSUME Signal \/ LoadConfig \/ AddDownstream \/ SkipDemoLog \/ SinkThrows \/ CheckStop
               \/ PopEnds \/ Submit \/ Dispatching \/ BatchDone \/ Flush
               \/ DestroyDispatcher \/ DestroySinks \/ UNCHANGED vars
      PROVE  UNCHANGED session /\ UNCHANGED inbox
  BY <1>7 DEF Signal, LoadConfig, AddDownstream, SkipDemoLog, SinkThrows, CheckStop,
      PopEnds, Submit, Dispatching, BatchDone, Flush, DestroyDispatcher,
      DestroySinks, vars
<1>9. CASE PopOne
  BY <1>1, <1>9, Zenon DEF PopOne
<1>8. ASSUME NEW d \in Ds, Worker(d) \/ SinkTakes(d) \/ Report(d)
      PROVE  UNCHANGED session /\ UNCHANGED inbox
  BY <1>8, Zenon DEF Worker, SinkTakes, Produce, ProduceFails, Report
<1> QED
  BY <1>0, <1>1, <1>2, <1>3, <1>4, <1>5, <1>6, <1>7, <1>8, <1>9 DEF Next, Main, Enqueue

(* The batch run() holds and the numbers the Dispatcher gave. *)
LEMMA BatchStep ==
  TypeOK /\ Numbers /\ PhaseInv /\ [Next]_vars =>
    /\ batch' \in Seq(Nat) /\ ids' \in Seq(Nat)
    /\ Len(batch') <= BatchMax
    /\ batch' # << >> => main' \in {"pop", "submit"}
    /\ Len(ids') = sent'
    /\ main' \in {"load", "start", "check", "pop", "submit", "flush", "close", "destroy"}
                 \union Ended
<1> SUFFICES ASSUME TypeOK, Numbers, PhaseInv, [Next]_vars
             PROVE  /\ batch' \in Seq(Nat) /\ ids' \in Seq(Nat)
                    /\ Len(batch') <= BatchMax
                    /\ batch' # << >> => main' \in {"pop", "submit"}
                    /\ Len(ids') = sent'
                    /\ main' \in {"load", "start", "check", "pop", "submit", "flush", "close",
                                  "destroy"} \union Ended
  OBVIOUS
<1>0. /\ batch \in Seq(Nat) /\ Len(batch) \in Nat /\ ids \in Seq(Nat) /\ Len(ids) = sent
      /\ Len(batch) <= BatchMax /\ BatchMax \in Nat /\ sent \in Nat
      /\ batch # << >> => main \in {"pop", "submit"}
      /\ main \in {"load", "start", "check", "pop", "submit", "flush", "close", "destroy"}
                  \union Ended
  <2>1. batch \in Seq(Nat) /\ Len(batch) \in Nat /\ ids \in Seq(Nat) /\ Len(ids) \in Nat
    BY LenProperties DEF Numbers
  <2> QED
    BY <2>1, FeedAssumption DEF TypeOK
<1> USE DEF Ended
<1>1. CASE LoadConfig
  <2>1. /\ UNCHANGED <<batch, ids, sent>> /\ main = "load"
        /\ main' \in {"start", "failed", "terminated"}
    BY <1>1, OutcomeKind DEF LoadConfig, dispatcher
  <2> QED
    BY <1>0, <2>1
<1>2. CASE PopOne
  <2>1. /\ UNCHANGED <<main, ids, sent>> /\ main = "pop" /\ inbox # << >>
        /\ batch' = Append(batch, Head(inbox)) /\ Len(batch) < BatchMax
    BY <1>2 DEF PopOne, dispatcher
  <2>2. Head(inbox) \in Nat
    BY <2>1, NumbersTail DEF Numbers
  <2>3. batch' \in Seq(Nat) /\ Len(batch') = Len(batch) + 1
    BY <1>0, <2>1, <2>2, NumbersAppend
  <2> QED
    BY <1>0, <2>1, <2>3
<1>3. CASE Submit
  <2>1. /\ UNCHANGED main /\ main = "submit" /\ sent' = sent + 1 /\ batch # << >>
        /\ batch' = Tail(batch) /\ ids' = Append(ids, Head(batch))
    BY <1>3 DEF Submit, D!Dispatch
  <2>2. /\ Head(batch) \in Nat /\ batch' \in Seq(Nat) /\ Len(batch') = Len(batch) - 1
    BY <1>0, <2>1, NumbersTail
  <2>3. ids' \in Seq(Nat) /\ Len(ids') = Len(ids) + 1
    BY <1>0, <2>1, <2>2, NumbersAppend
  <2> QED
    BY <1>0, <2>1, <2>2, <2>3
<1>4. CASE PopEnds
  <2>1. /\ UNCHANGED <<batch, ids, sent>>
        /\ main' = IF batch = << >> THEN "check" ELSE "submit"
    BY <1>4 DEF PopEnds, dispatcher
  <2> QED
    BY <1>0, <2>1
<1>5. CASE SkipDemoLog \/ SinkThrows \/ CheckStop \/ BatchDone \/ Flush \/ CloseSession
             \/ DestroySinks
  <2>1. /\ UNCHANGED <<batch, ids, sent>>
        /\ \/ UNCHANGED main
           \/ main \in {"start", "check", "flush", "close", "destroy"} \/ batch = << >>
        /\ \/ UNCHANGED main
           \/ main' \in {"terminated", "check", "flush", "pop", "close", "destroy", "exited"}
    BY <1>5 DEF SkipDemoLog, SinkThrows, EntryIs, CheckStop, BatchDone, Flush, CloseSession,
                DestroySinks, dispatcher
  <2> QED
    BY <1>0, <2>1
<1>6. CASE AddDownstream \/ Start \/ Dispatching \/ DestroyDispatcher
  <2>1. UNCHANGED <<batch, ids, sent>> /\ (UNCHANGED main \/ (main = "start" /\ main' = "check"))
    <3>1. CASE AddDownstream \/ Start
      BY <3>1 DEF AddDownstream, Start, D!AddDownstream, D!AddEnds
    <3>2. CASE Dispatching
      BY <3>2 DEF Dispatching, D!Dispatching, D!Push, D!PushRefused, D!DropOldest, D!PushAgain
    <3>3. CASE DestroyDispatcher
      BY <3>3 DEF DestroyDispatcher, D!Destroy, D!Stop, D!Join
    <3> QED
      BY <1>6, <3>1, <3>2, <3>3
  <2> QED
    BY <1>0, <2>1
<1>7. CASE Offer \/ Enqueue \/ Signal \/ UNCHANGED vars
  <2>1. UNCHANGED <<batch, ids, main, sent>>
    BY <1>7, Zenon DEF Offer, Enqueue, Accept, Refuse, DropOldest, PushAgain, Signal, vars,
                       dispatcher
  <2> QED
    BY <1>0, <2>1
<1>8. ASSUME NEW d \in Ds, Worker(d) \/ SinkTakes(d) \/ Report(d)
      PROVE  UNCHANGED <<batch, ids, main, sent>>
  BY <1>8, Zenon DEF Worker, SinkTakes, Produce, ProduceFails, Report, dispatcher,
     D!Loop, D!CheckRunning, D!Pop, D!PopNothing, D!Drain, D!Exit, D!Take, D!SinkSubmit
<1> QED
  BY <1>0, <1>1, <1>2, <1>3, <1>4, <1>5, <1>6, <1>7, <1>8 DEF Next, Main

-----------------------------------------------------------------------------
(* What is on the flow are numbers, and so are its parts. *)
LEMMA FlowParts ==
  ASSUME Numbers
  PROVE  /\ ids \in Seq(Nat) /\ batch \in Seq(Nat) /\ inbox \in Seq(Nat)
         /\ ids \o batch \in Seq(Nat)
         /\ Flow \in Seq(Nat)
BY NumbersConcat DEF Numbers, Flow

(* An envelope that is pushed comes last on the flow. *)
LEMMA PushFlows ==
  ASSUME TypeOK, Numbers, CallbackInv, FlowInv, Offering, Enqueued,
         inbox' = Append(inbox, made), UNCHANGED <<ids, batch, overrun>>
  PROVE  FlowInv'
<1>1. made \in Nat \ {0} /\ Settled = made - 1
  BY DEF CallbackInv, Numbers, Settled
<1>2. Settled' = made
  <2>1. callback' \in {"idle", "push"} /\ (callback' = "idle" => UNCHANGED made)
          /\ (callback' = "push" => made' = made + 1)
    BY EnqueuedGoes
  <2> QED
    BY <1>1, <2>1 DEF Settled, Offering
<1>3. Flow' = Flow \o <<made>>
  <2>1. Append(inbox, made) = inbox \o <<made>> /\ <<made>> \in Seq(Nat)
    BY <1>1, FlowParts, NumbersAppend
  <2>2. (ids \o batch) \o (inbox \o <<made>>) = ((ids \o batch) \o inbox) \o <<made>>
    BY <2>1, FlowParts, NumbersAssociate
  <2> QED
    BY <2>1, <2>2, Zenon DEF Flow
<1>4. DP!Places(Flow \o <<made>>, overrun, made)
  BY <1>1, FlowParts, DP!PlacesAppend, Bounds DEF FlowInv
<1> QED
  BY <1>2, <1>3, <1>4 DEF FlowInv

(* What the producer drops was the first in the inbox, and is gone. *)
LEMMA DropFlows ==
  ASSUME TypeOK, Numbers, FlowInv, inbox # << >>, inbox' = Tail(inbox),
         overrun' = overrun \union (Range(inbox) \ Range(inbox')),
         UNCHANGED <<ids, batch>>, Settled' = Settled
  PROVE  FlowInv'
<1> DEFINE s == ids \o batch
<1> DEFINE x == Head(inbox)
<1> DEFINE t == Tail(inbox)
<1>1. /\ s \in Seq(Nat) /\ x \in Nat /\ t \in Seq(Nat)
      /\ inbox = <<x>> \o t
      /\ Range(inbox) = {x} \union Range(t)
  BY FlowParts, NumbersTail
<1>2. Flow = s \o (<<x>> \o t) /\ Flow' = s \o t
  BY <1>1, Zenon DEF Flow
<1> HIDE DEF s, x, t
<1>3. /\ DP!Places(s \o t, overrun \union {x}, Settled)
      /\ \A y \in Range(t) : x < y
  <2>1. DP!Places(s \o (<<x>> \o t), overrun, Settled)
    BY <1>2 DEF FlowInv
  <2> DEFINE n == Settled
  <2> HIDE DEF n
  <2>2. DP!Places(s \o (<<x>> \o t), overrun, n)
    BY <2>1 DEF n
  <2>3. /\ DP!Places(s \o t, overrun \union {x}, n)
        /\ \A y \in Range(t) : x < y
    BY <1>1, <2>2, DP!PlacesDrop, Bounds DEF Range, DP!Range
  <2> QED
    BY <2>3 DEF n
<1>4. x \notin Range(t)
  BY <1>1, <1>3
<1>5. overrun' = overrun \union {x}
  BY <1>1, <1>4 DEF t
<1> QED
  BY <1>2, <1>3, <1>5 DEF FlowInv

(* run() moves the first of the inbox to the end of its batch, and the first of
   its batch to the Dispatcher. *)
LEMMA MoveFlows ==
  ASSUME Numbers, FlowInv, UNCHANGED <<overrun, Settled>>,
         \/ /\ inbox # << >> /\ batch' = Append(batch, Head(inbox)) /\ inbox' = Tail(inbox)
            /\ UNCHANGED ids
         \/ /\ batch # << >> /\ ids' = Append(ids, Head(batch)) /\ batch' = Tail(batch)
            /\ UNCHANGED inbox
  PROVE  FlowInv'
<1>1. Flow' = Flow
  <2>1. CASE /\ inbox # << >> /\ batch' = Append(batch, Head(inbox)) /\ inbox' = Tail(inbox)
             /\ UNCHANGED ids
    <3> DEFINE x == Head(inbox)
    <3> DEFINE t == Tail(inbox)
    <3> DEFINE one == <<x>>
    <3>1. x \in Nat /\ t \in Seq(Nat) /\ inbox = one \o t
      BY <2>1, FlowParts, NumbersTail
    <3> HIDE DEF x, t
    <3>2. Append(batch, x) = batch \o one /\ one \in Seq(Nat)
      BY <3>1, FlowParts, NumbersAppend
    <3>3. Flow' = (ids \o (batch \o one)) \o t
      BY <2>1, <3>2, Zenon DEF Flow, x, t
    <3>4. Flow = (ids \o batch) \o (one \o t)
      BY <3>1, Zenon DEF Flow
    <3> HIDE DEF one
    <3>5. (ids \o batch) \o one = ids \o (batch \o one)
      BY <3>2, FlowParts, NumbersAssociate
    <3>6. ((ids \o batch) \o one) \o t = (ids \o batch) \o (one \o t)
      <4>1. ids \o batch \in Seq(Nat) /\ one \in Seq(Nat) /\ t \in Seq(Nat)
        BY <3>1, <3>2, FlowParts
      <4> QED
        BY <4>1, NumbersAssociate, Zenon
    <3> QED
      BY <3>3, <3>4, <3>5, <3>6, Zenon
  <2>2. CASE /\ batch # << >> /\ ids' = Append(ids, Head(batch)) /\ batch' = Tail(batch)
             /\ UNCHANGED inbox
    <3> DEFINE x == Head(batch)
    <3> DEFINE t == Tail(batch)
    <3> DEFINE one == <<x>>
    <3>1. x \in Nat /\ t \in Seq(Nat) /\ batch = one \o t
      BY <2>2, FlowParts, NumbersTail
    <3> HIDE DEF x, t
    <3>2. Append(ids, x) = ids \o one /\ one \in Seq(Nat)
      BY <3>1, FlowParts, NumbersAppend
    <3>3. Flow' = ((ids \o one) \o t) \o inbox
      BY <2>2, <3>2, Zenon DEF Flow, x, t
    <3>4. Flow = (ids \o (one \o t)) \o inbox
      BY <3>1, Zenon DEF Flow
    <3> HIDE DEF one
    <3>5. (ids \o one) \o t = ids \o (one \o t)
      <4>1. ids \in Seq(Nat) /\ one \in Seq(Nat) /\ t \in Seq(Nat)
        BY <3>1, <3>2, FlowParts
      <4> QED
        BY <4>1, NumbersAssociate, Zenon
    <3> QED
      BY <3>3, <3>4, <3>5, Zenon
  <2> QED
    BY <2>1, <2>2
<1> QED
  BY <1>1 DEF FlowInv

(* Whatever happens, what was put into the inbox goes to the Dispatcher in
   order or was dropped. *)
LEMMA FlowStep ==
  TypeOK /\ Numbers /\ PhaseInv /\ CallbackInv /\ FlowInv /\ [Next]_vars => FlowInv'
<1> SUFFICES ASSUME TypeOK, Numbers, PhaseInv, CallbackInv, FlowInv, [Next]_vars
             PROVE  FlowInv'
  OBVIOUS
<1>0. made \in Nat
  BY DEF Numbers
<1>1. ASSUME UNCHANGED <<ids, batch, inbox, overrun>>, Settled' = Settled PROVE FlowInv'
  BY <1>1 DEF FlowInv, Flow
<1>2. CASE Accept \/ PushAgain
  <2>1. /\ Offering /\ Enqueued /\ inbox' = Append(inbox, made)
        /\ UNCHANGED <<ids, batch, overrun>>
    BY <1>2 DEF Accept, PushAgain, Offering
  <2> QED
    BY <2>1, PushFlows
<1>3. CASE DropOldest
  <2>1. /\ Settled' = Settled /\ UNCHANGED <<ids, batch>>
        /\ inbox' = IF inbox = << >> THEN inbox ELSE Tail(inbox)
        /\ overrun' = overrun \union (Range(inbox) \ Range(inbox'))
    BY <1>3 DEF DropOldest, Settled, Offering
  <2>2. CASE inbox = << >>
    <3>1. UNCHANGED <<inbox, overrun>>
      BY <2>1, <2>2
    <3> QED
      BY <1>1, <2>1, <3>1
  <2>3. CASE inbox # << >>
    BY <2>1, <2>3, DropFlows
  <2> QED
    BY <2>2, <2>3
<1>4. CASE PopOne \/ Submit
  <2>1. /\ UNCHANGED <<overrun, Settled>>
        /\ \/ /\ inbox # << >> /\ batch' = Append(batch, Head(inbox)) /\ inbox' = Tail(inbox)
              /\ UNCHANGED ids
           \/ /\ batch # << >> /\ ids' = Append(ids, Head(batch)) /\ batch' = Tail(batch)
              /\ UNCHANGED inbox
    BY <1>4 DEF PopOne, Submit, session, Settled, Offering
  <2> QED
    BY <2>1, MoveFlows
<1>5. CASE Offer \/ Refuse
  BY <1>0, <1>1, <1>5 DEF Offer, Refuse, Settled, Offering
<1>6. CASE Start \/ CloseSession
  <2>1. ~Offering
    BY <1>6, SameCaller, CallerGoes DEF Start, CloseSession, PhaseInv, Offering
  <2> QED
    BY <1>1, <1>6, <2>1 DEF Start, CloseSession, Settled, Offering
<1>7. CASE Signal \/ LoadConfig \/ AddDownstream \/ SkipDemoLog \/ SinkThrows \/ CheckStop
             \/ PopEnds \/ Dispatching \/ BatchDone \/ Flush \/ DestroyDispatcher
             \/ DestroySinks \/ UNCHANGED vars
  <2>1. UNCHANGED <<ids, batch, inbox, session>>
    BY <1>7 DEF Signal, LoadConfig, AddDownstream, SkipDemoLog, SinkThrows, CheckStop,
                PopEnds, Dispatching, BatchDone, Flush, DestroyDispatcher, DestroySinks, vars
  <2> QED
    BY <1>1, <2>1 DEF session, Settled, Offering
<1>8. ASSUME NEW d \in Ds, Worker(d) \/ SinkTakes(d) \/ Report(d) PROVE FlowInv'
  <2>1. UNCHANGED <<ids, batch, inbox, session>>
    BY <1>8, Zenon DEF Worker, SinkTakes, Produce, ProduceFails, Report
  <2> QED
    BY <1>1, <2>1 DEF session, Settled, Offering
<1> QED
  BY <1>2, <1>3, <1>4, <1>5, <1>6, <1>7, <1>8 DEF Next, Main, Enqueue

-----------------------------------------------------------------------------
(* An envelope that was put into the inbox is there, in the batch, dispatched,
   or was dropped, and only one of these; the Dispatcher has them in order. *)
LEMMA FlowApart ==
  ASSUME Numbers, FlowInv
  PROVE  /\ Ascending(ids)
         /\ Range(ids) \union Range(batch) \union Range(inbox) \union overrun = 1..Settled
         /\ Range(ids) \intersect Range(batch) = {}
         /\ (Range(ids) \union Range(batch)) \intersect Range(inbox) = {}
         /\ (Range(ids) \union Range(batch) \union Range(inbox)) \intersect overrun = {}
<1>1. /\ Ascending(Flow)
      /\ Range(Flow) \intersect overrun = {}
      /\ Range(Flow) \union overrun = 1..Settled
  BY DEF FlowInv, DP!Places, DP!Ascending, Ascending, DP!Range, Range
<1>2. Ascending((ids \o batch) \o inbox)
  BY <1>1 DEF Flow
<1>3. /\ Ascending(ids \o batch)
      /\ \A x \in Range(ids \o batch), y \in Range(inbox) : x < y
  BY <1>2, FlowParts, AscendingConcat
<1>4. /\ Ascending(ids)
      /\ \A x \in Range(ids), y \in Range(batch) : x < y
  BY <1>3, FlowParts, AscendingConcat
<1>5. /\ Range(ids \o batch) = Range(ids) \union Range(batch)
      /\ Range((ids \o batch) \o inbox) = Range(ids \o batch) \union Range(inbox)
  BY FlowParts, NumbersConcat
<1>6. Range(ids) \subseteq Nat /\ Range(batch) \subseteq Nat /\ Range(inbox) \subseteq Nat
  BY FlowParts, RangeOfSeq
<1>7. Range(ids) \intersect Range(batch) = {}
  BY <1>4, <1>6
<1>8. (Range(ids) \union Range(batch)) \intersect Range(inbox) = {}
  BY <1>3, <1>5, <1>6
<1> QED
  BY <1>1, <1>4, <1>5, <1>7, <1>8 DEF Flow

(* The Dispatcher's numbers stand for envelopes in the same order. *)
LEMMA IdsInOrder ==
  ASSUME TypeOK, Numbers, FlowInv
  PROVE  /\ sent \in Nat /\ DOMAIN ids = 1..sent
         /\ Range(ids) = Ids(1..sent)
         /\ \A m \in 1..sent : ids[m] \in Nat /\ ids[m] \in 1..made
         /\ \A m, n \in 1..sent : m < n => ids[m] < ids[n]
         /\ \A m, n \in 1..sent : ids[m] = ids[n] => m = n
<1>1. ids \in Seq(Nat) /\ Len(ids) = sent /\ made \in Nat
  BY DEF Numbers, TypeOK
<1>2. sent \in Nat /\ DOMAIN ids = 1..sent /\ \A m \in 1..sent : ids[m] \in Nat
  BY <1>1, LenProperties
<1>3. Range(ids) = Ids(1..sent)
  BY <1>2 DEF Range, Ids
<1>4. Range(ids) \subseteq 1..made
  <2>1. Range(ids) \subseteq 1..Settled
    BY FlowApart
  <2>2. 1..Settled \subseteq 1..made
    BY <1>1 DEF Settled
  <2> QED
    BY <2>1, <2>2
<1>5. \A m \in 1..sent : ids[m] \in 1..made
  BY <1>3, <1>4 DEF Ids
<1>6. \A m, n \in 1..sent : m < n => ids[m] < ids[n]
  BY <1>2, FlowApart DEF Ascending
<1>7. \A m, n \in 1..sent : ids[m] = ids[n] => m = n
  BY <1>2, <1>6
<1> QED
  BY <1>2, <1>3, <1>5, <1>6, <1>7

(* The envelope a sink is given next was offered, and is younger than all that
   were handed on or lost before. *)
LEMMA NextEnvelope ==
  ASSUME IInv, NEW d \in Ds, D!SinkSubmit(d)
  PROVE  /\ ids[item[d]] \in 1..made /\ ids[item[d]] \in Nat
         /\ \A e \in Range(produced[d]) \union refused[d] : e < ids[item[d]]
         /\ Range(received'[d]) \subseteq 1..sent
         /\ Ids(Range(received'[d])) = Ids(Range(received[d])) \union {ids[item[d]]}
         /\ \A e \in Ds \ {d} : received'[e] = received[e]
         /\ UNCHANGED sent
<1>1. d \in DP!Ds /\ DP!SinkSubmit(d) /\ DP!IInv /\ Ds = DP!Ds
  BY SameWorker DEF IInv, Ds, D!Ds, DP!Ds
<1>2. /\ item[d] \in 1..sent
      /\ Range(received[d]) \subseteq 1..sent
      /\ \A m \in Range(received[d]) : m < item[d]
      /\ Range(received'[d]) = Range(received[d]) \union {item[d]}
      /\ \A e \in Ds \ {d} : received'[e] = received[e]
      /\ UNCHANGED sent
  BY <1>1, DP!SubmitsInOrder, Bounds DEF DP!Range, Range
<1>3. /\ \A m \in 1..sent : ids[m] \in Nat /\ ids[m] \in 1..made
      /\ \A m, n \in 1..sent : m < n => ids[m] < ids[n]
  BY IdsInOrder DEF IInv
<1>4. Range(produced[d]) \union refused[d] = Ids(Range(received[d]))
  BY DEF IInv, SinkInv
<1>5. \A e \in Ids(Range(received[d])) : e < ids[item[d]]
  BY <1>2, <1>3 DEF Ids
<1>6. Ids(Range(received'[d])) = Ids(Range(received[d])) \union {ids[item[d]]}
  BY <1>2 DEF Ids
<1> QED
  BY <1>2, <1>3, <1>4, <1>5, <1>6

-----------------------------------------------------------------------------
(* What librdkafka holds was handed to it. *)
InflightInv == \A d \in Ds : inflight[d] \subseteq Range(produced[d])

(* The ranges of what the sinks change. *)
SinkTypes ==
  /\ produced \in [Ds -> Seq(Nat)]
  /\ inflight \in [Ds -> SUBSET Nat]
  /\ refused \in [Ds -> SUBSET Nat]

(* A message that librdkafka takes comes last of what it took. *)
LEMMA ProduceStep ==
  ASSUME IInv, NEW d \in Ds, Produce(d)
  PROVE  SinkInv' /\ SinkTypes' /\ InflightInv'
<1> DEFINE n == ids[item[d]]
<1>1. /\ produced' = [produced EXCEPT ![d] = Append(@, n)]
      /\ inflight' = [inflight EXCEPT ![d] = @ \union {n}]
      /\ UNCHANGED <<ids, refused>>
      /\ D!SinkSubmit(d)
  BY DEF Produce
<1>2. /\ n \in Nat
      /\ \A e \in Range(produced[d]) \union refused[d] : e < n
      /\ Range(received'[d]) \subseteq 1..sent
      /\ Ids(Range(received'[d])) = Ids(Range(received[d])) \union {n}
      /\ \A e \in Ds \ {d} : received'[e] = received[e]
      /\ UNCHANGED sent
  BY <1>1, NextEnvelope
<1> HIDE DEF n
<1>3. /\ produced \in [Ds -> Seq(Nat)]
      /\ inflight \in [Ds -> SUBSET Nat]
      /\ refused \in [Ds -> SUBSET Nat]
      /\ InflightInv /\ SinkInv
  BY DEF IInv, Numbers, TypeOK, InflightInv
<1>4. /\ produced[d] \in Seq(Nat) /\ Append(produced[d], n) \in Seq(Nat)
      /\ Append(produced[d], n) = produced[d] \o <<n>> /\ <<n>> \in Seq(Nat)
      /\ Range(<<n>>) = {n}
      /\ Range(Append(produced[d], n)) = Range(produced[d]) \union {n}
  BY <1>2, <1>3, NumbersAppend
<1>5. Ascending(Append(produced[d], n))
  <2>1. Ascending(produced[d]) /\ Ascending(<<n>>)
    BY <1>3 DEF SinkInv, Ascending
  <2>2. \A x \in Range(produced[d]), y \in Range(<<n>>) : x < y
    BY <1>2, <1>4
  <2> QED
    BY <1>4, <2>1, <2>2, AscendingConcat
<1>6. /\ produced'[d] = Append(produced[d], n)
      /\ inflight'[d] = inflight[d] \union {n}
      /\ \A e \in Ds \ {d} : produced'[e] = produced[e] /\ inflight'[e] = inflight[e]
  BY <1>1, <1>3, Zenon
<1>7. SinkTypes'
  BY <1>1, <1>2, <1>3, <1>4 DEF SinkTypes
<1>8. InflightInv'
  BY <1>3, <1>4, <1>6 DEF InflightInv
<1>9. SinkInv'
  <2> SUFFICES ASSUME NEW e \in Ds
               PROVE  /\ Range(received'[e]) \subseteq 1..sent
                      /\ Range(produced'[e]) \union refused'[e] = Ids(Range(received'[e]))
                      /\ Range(produced'[e]) \intersect refused'[e] = {}
                      /\ Ascending(produced'[e])
    BY <1>1, <1>2 DEF SinkInv, Ids
  <2>1. CASE e # d
    BY <1>1, <1>2, <1>3, <1>6, <2>1 DEF SinkInv
  <2>2. CASE e = d
    <3>1. n \notin refused[d]
      BY <1>2
    <3> QED
      BY <1>1, <1>2, <1>3, <1>4, <1>5, <1>6, <2>2, <3>1 DEF SinkInv
  <2> QED
    BY <2>1, <2>2
<1> QED
  BY <1>7, <1>8, <1>9

(* A message that librdkafka refuses is lost. *)
LEMMA ProduceFailsStep ==
  ASSUME IInv, NEW d \in Ds, ProduceFails(d)
  PROVE  SinkInv' /\ SinkTypes' /\ InflightInv'
<1> DEFINE n == ids[item[d]]
<1>1. /\ refused' = [refused EXCEPT ![d] = @ \union {n}]
      /\ UNCHANGED <<ids, produced, inflight>>
      /\ D!SinkSubmit(d)
  BY DEF ProduceFails
<1>2. /\ n \in Nat
      /\ \A e \in Range(produced[d]) \union refused[d] : e < n
      /\ Range(received'[d]) \subseteq 1..sent
      /\ Ids(Range(received'[d])) = Ids(Range(received[d])) \union {n}
      /\ \A e \in Ds \ {d} : received'[e] = received[e]
      /\ UNCHANGED sent
  BY <1>1, NextEnvelope
<1> HIDE DEF n
<1>3. /\ produced \in [Ds -> Seq(Nat)]
      /\ inflight \in [Ds -> SUBSET Nat]
      /\ refused \in [Ds -> SUBSET Nat]
      /\ InflightInv /\ SinkInv
  BY DEF IInv, Numbers, TypeOK, InflightInv
<1>4. /\ refused'[d] = refused[d] \union {n}
      /\ \A e \in Ds \ {d} : refused'[e] = refused[e]
  BY <1>1, <1>3
<1>5. SinkTypes' /\ InflightInv'
  BY <1>1, <1>2, <1>3 DEF SinkTypes, InflightInv
<1>6. SinkInv'
  <2> SUFFICES ASSUME NEW e \in Ds
               PROVE  /\ Range(received'[e]) \subseteq 1..sent
                      /\ Range(produced'[e]) \union refused'[e] = Ids(Range(received'[e]))
                      /\ Range(produced'[e]) \intersect refused'[e] = {}
                      /\ Ascending(produced'[e])
    BY <1>1, <1>2 DEF SinkInv, Ids
  <2>1. CASE e # d
    BY <1>1, <1>2, <1>3, <1>4, <2>1 DEF SinkInv
  <2>2. CASE e = d
    <3>1. n \notin Range(produced[d])
      BY <1>2
    <3> QED
      BY <1>1, <1>2, <1>3, <1>4, <2>2, <3>1 DEF SinkInv
  <2> QED
    BY <2>1, <2>2
<1> QED
  BY <1>5, <1>6

(* The sinks hand on what they are given in order. *)
LEMMA SinkStep == IInv /\ [Next]_vars => SinkInv' /\ SinkTypes' /\ InflightInv'
<1> SUFFICES ASSUME IInv, [Next]_vars PROVE SinkInv' /\ SinkTypes' /\ InflightInv'
  OBVIOUS
<1>0. TypeOK /\ Numbers /\ SinkInv /\ SinkTypes /\ InflightInv
  BY DEF IInv, TypeOK, Numbers, SinkTypes, InflightInv
<1>1. ASSUME UNCHANGED <<received, produced, refused, ids, sent>>, SinkTypes', InflightInv'
      PROVE  SinkInv' /\ SinkTypes' /\ InflightInv'
  <2>1. \A messages : Ids(messages)' = Ids(messages)
    BY <1>1 DEF Ids
  <2> QED
    BY <1>0, <1>1, <2>1 DEF SinkInv, Ids
<1>2. ASSUME UNCHANGED <<received, kafka, ids, sent>>
      PROVE  SinkInv' /\ SinkTypes' /\ InflightInv'
  BY <1>0, <1>1, <1>2 DEF kafka, SinkTypes, InflightInv
<1>3. CASE Submit
  <2>1. /\ UNCHANGED <<received, produced, refused, inflight>>
        /\ sent' = sent + 1 /\ batch # << >> /\ ids' = Append(ids, Head(batch))
    BY <1>3 DEF Submit, D!Dispatch, kafka
  <2>2. ids \in Seq(Nat) /\ Head(batch) \in Nat /\ Len(ids) = sent /\ sent \in Nat
    BY <1>0, <2>1, NumbersTail, IdsInOrder DEF Numbers, TypeOK, IInv
  <2>3. \A m \in 1..sent : ids'[m] = ids[m]
    BY <2>1, <2>2, AppendProperties
  <2>4. \A messages \in SUBSET (1..sent) : {ids'[m] : m \in messages} = {ids[m] : m \in messages}
    BY <2>3
  <2>5. 1..sent \subseteq 1..sent'
    BY <2>1, <2>2
  <2>6. SinkInv'
    BY <1>0, <2>1, <2>4, <2>5 DEF SinkInv, Ids
  <2> QED
    BY <1>0, <2>1, <2>6 DEF SinkTypes, InflightInv
<1>4. CASE DestroySinks
  <2>1. UNCHANGED <<received, produced, refused, ids, sent>> /\ inflight' = [d \in Ds |-> {}]
    BY <1>4 DEF DestroySinks, dispatcher
  <2> QED
    BY <1>0, <1>1, <2>1 DEF SinkTypes, InflightInv
<1>5. ASSUME NEW d \in Ds, Report(d) PROVE SinkInv' /\ SinkTypes' /\ InflightInv'
  <2>1. /\ UNCHANGED <<received, produced, refused, ids, sent>>
        /\ \E e \in inflight[d] : inflight' = [inflight EXCEPT ![d] = @ \ {e}]
    BY <1>5 DEF Report, dispatcher
  <2> QED
    BY <1>0, <1>1, <2>1 DEF SinkTypes, InflightInv
<1>6. ASSUME NEW d \in Ds, SinkTakes(d) PROVE SinkInv' /\ SinkTypes' /\ InflightInv'
  BY <1>6, ProduceStep, ProduceFailsStep DEF SinkTakes
<1>7. ASSUME NEW d \in Ds, Worker(d) PROVE UNCHANGED <<received, kafka, ids, sent>>
  BY <1>7, Zenon DEF Worker, D!Loop, D!CheckRunning, D!Pop, D!PopNothing, D!Drain, D!Exit,
                     D!Take
<1>8. CASE AddDownstream \/ Start \/ Dispatching \/ DestroyDispatcher
  <2>1. CASE AddDownstream \/ Start
    BY <1>2, <2>1 DEF AddDownstream, Start, D!AddDownstream, D!AddEnds
  <2>2. CASE Dispatching
    BY <1>2, <2>2 DEF Dispatching, D!Dispatching, D!Push, D!PushRefused, D!DropOldest, D!PushAgain
  <2>3. CASE DestroyDispatcher
    BY <1>2, <2>3 DEF DestroyDispatcher, D!Destroy, D!Stop, D!Join
  <2> QED
    BY <1>8, <2>1, <2>2, <2>3
<1>9. CASE LoadConfig \/ SkipDemoLog \/ SinkThrows \/ CheckStop \/ PopOne \/ PopEnds
             \/ BatchDone \/ Flush \/ CloseSession \/ Offer \/ Enqueue \/ Signal
             \/ UNCHANGED vars
  <2>1. UNCHANGED <<dispatcher, kafka, ids>>
    BY <1>9 DEF LoadConfig, SkipDemoLog, SinkThrows, CheckStop, PopOne, PopEnds, BatchDone,
                Flush, CloseSession, Offer, Enqueue, Accept, Refuse, DropOldest, PushAgain,
                Signal, vars
  <2> QED
    BY <1>2, <2>1 DEF dispatcher
<1> QED
  BY <1>2, <1>3, <1>4, <1>5, <1>6, <1>7, <1>8, <1>9 DEF Next, Main

-----------------------------------------------------------------------------
(* There are no envelopes at first. *)
LEMMA InitInv == Init => IInv
<1> SUFFICES ASSUME Init PROVE IInv
  OBVIOUS
<1> USE DEF Init
<1>1. DP!IInv
  BY SameCaller, DP!InitInv, Bounds
<1>2. /\ added = 0 /\ caller = "add" /\ sent = 0
      /\ received = [d \in Ds |-> << >>]
  BY DEF D!Init, Ds, D!Ds
<1>3. TypeOK /\ Numbers /\ CallbackInv
  BY <1>2, FeedAssumption DEF TypeOK, Numbers, CallbackInv, Offering
<1>4. PhaseInv
  BY <1>2 DEF PhaseInv
<1>5. FlowInv
  <2>1. Flow = << >> /\ Settled = 0
    <3>1. (<< >> \o << >>) \o << >> = << >>
      OBVIOUS
    <3> QED
      BY <3>1 DEF Flow, Settled, Offering
  <2> QED
    BY <2>1 DEF FlowInv, DP!Places, DP!Ascending, DP!Range
<1>6. SinkInv
  BY <1>2 DEF SinkInv, Ids, Range, Ascending
<1> QED
  BY <1>1, <1>3, <1>4, <1>5, <1>6 DEF IInv

(* No step leaves the invariant. *)
LEMMA InvStep == IInv /\ [Next]_vars => IInv'
<1> SUFFICES ASSUME IInv, [Next]_vars PROVE IInv'
  OBVIOUS
<1>1. DP!IInv /\ TypeOK /\ Numbers /\ PhaseInv /\ CallbackInv /\ FlowInv
  BY DEF IInv
<1>2. DP!IInv' /\ PhaseInv' /\ FlowInv'
  BY <1>1, DispatcherInv, PhaseStep, FlowStep
<1>3. CallbackInv' /\ CallbackTypes'
  BY <1>1, CallbackStep
<1>4. SinkInv' /\ SinkTypes' /\ InflightInv'
  BY SinkStep
<1>5. /\ batch' \in Seq(Nat) /\ ids' \in Seq(Nat)
      /\ Len(batch') <= BatchMax
      /\ batch' # << >> => main' \in {"pop", "submit"}
      /\ Len(ids') = sent'
      /\ main' \in {"load", "start", "check", "pop", "submit", "flush", "close", "destroy"}
                   \union Ended
  BY <1>1, BatchStep
<1>6. Numbers'
  BY <1>3, <1>4, <1>5, FeedAssumption DEF Numbers, CallbackTypes, SinkTypes
<1>7. TypeOK'
  <2>1. callback' = "idle" => more' = 0
    BY <1>3 DEF CallbackInv, Offering
  <2>2. caller' \notin {"add", "idle"} => main' \in {"submit", "destroy", "exited"}
    <3>1. caller' \in {"add", "idle", "push", "drop", "again", "stop", "join", "destroyed"}
      BY <1>2 DEF DP!IInv, DP!TypeOK
    <3> QED
      BY <1>2, <3>1 DEF PhaseInv
  <2> QED
    BY <1>3, <1>4, <1>5, <2>1, <2>2 DEF TypeOK, CallbackTypes, InflightInv
<1> QED
  BY <1>2, <1>3, <1>4, <1>6, <1>7 DEF IInv

(* IInv holds in every state. *)
THEOREM Invariance == Spec => []IInv
<1>1. Init => IInv
  BY InitInv
<1>2. IInv /\ [Next]_vars => IInv'
  BY InvStep
<1> QED
  BY <1>1, <1>2, PTL DEF Spec

(* No variable leaves its range; a batch is empty outside the steps of run()
   that fill and submit it (SubscriptionManager.cpp:171-229). *)
THEOREM Typing == Spec => []TypeOK
<1>1. IInv => TypeOK
  BY DEF IInv
<1> QED
  BY <1>1, Invariance, PTL

-----------------------------------------------------------------------------
(* What a step does for the sinks, seen from FeedChannel. *)
LEMMA ChannelInit == Init => Channel!Init
BY DEF Init, Channel!Init

LEMMA ChannelStep == IInv /\ [Next]_vars => [Channel!Next]_Channel!vars
<1> SUFFICES ASSUME IInv, [Next]_vars PROVE [Channel!Next]_Channel!vars
  OBVIOUS
<1>0. TypeOK /\ Numbers
  BY DEF IInv
<1>1. CASE UNCHANGED produced /\ made' = made
  BY <1>1 DEF Channel!vars
<1>2. CASE UNCHANGED produced /\ made' = made + 1
  BY <1>2 DEF Channel!Next, Channel!Offer
<1>3. ASSUME NEW d \in Ds, Produce(d) PROVE Channel!Next
  <2> DEFINE n == ids[item[d]]
  <2>1. /\ produced' = [produced EXCEPT ![d] = Append(@, n)]
        /\ UNCHANGED made
        /\ D!SinkSubmit(d)
    BY <1>3 DEF Produce, session
  <2>2. n \in 1..made /\ \A e \in Range(produced[d]) : e < n
    BY <2>1, NextEnvelope
  <2>3. \A i \in DOMAIN produced[d] : produced[d][i] < n
    BY <2>2 DEF Range
  <2> HIDE DEF n
  <2> QED
    BY <2>1, <2>2, <2>3, Zenon DEF Channel!Next, Channel!Publish
<1>4. CASE Offer \/ Refuse \/ DropOldest
  BY <1>1, <1>2, <1>4 DEF Offer, Refuse, DropOldest, kafka
<1>5. CASE Accept \/ PushAgain
  <2>1. UNCHANGED produced /\ Enqueued
    BY <1>5 DEF Accept, PushAgain, kafka
  <2>2. made' = made \/ made' = made + 1
    BY <1>0, <2>1, EnqueuedGoes
  <2> QED
    BY <1>1, <1>2, <2>1, <2>2
<1>6. CASE Main \/ Signal \/ UNCHANGED vars
  <2>1. UNCHANGED <<made, produced>>
    BY <1>6 DEF Main, LoadConfig, AddDownstream, SkipDemoLog, SinkThrows, Start, CheckStop,
                PopOne, PopEnds, Submit, Dispatching, BatchDone, Flush, CloseSession,
                DestroyDispatcher, DestroySinks, Signal, vars, session, kafka
  <2> QED
    BY <1>1, <2>1
<1>7. ASSUME NEW d \in Ds, Worker(d) \/ ProduceFails(d) \/ Report(d)
      PROVE  UNCHANGED <<made, produced>>
  BY <1>7, Zenon DEF Worker, ProduceFails, Report, session, kafka
<1> QED
  BY <1>1, <1>3, <1>4, <1>5, <1>6, <1>7 DEF Next, Enqueue, SinkTakes

(* momo_feed implements the channel: each sink's producer is given envelopes
   that a callback made, in the order they were made and none twice, whatever
   is dropped on the way (Dispatcher.cpp:19-44, SubscriptionManager.cpp:171-229,
   441-453). *)
THEOREM FeedImplementsChannel == Spec => ImplementsChannel
<1>1. Init => Channel!Init
  BY ChannelInit
<1>2. IInv /\ [Next]_vars => [Channel!Next]_Channel!vars
  BY ChannelStep
<1> QED
  BY <1>1, <1>2, Invariance, PTL DEF Spec, ImplementsChannel, Channel!Spec

-----------------------------------------------------------------------------
(* Ten sets of which none shares an element with a later one. *)
LEMMA TenApart ==
  ASSUME NEW a, NEW b, NEW c, NEW d, NEW e, NEW f, NEW g, NEW h, NEW k, NEW l,
         a \intersect
           (b \union c \union d \union e \union f \union g \union h \union k \union l) = {},
         b \intersect (c \union d \union e \union f \union g \union h \union k \union l) = {},
         c \intersect (d \union e \union f \union g \union h \union k \union l) = {},
         d \intersect (e \union f \union g \union h \union k \union l) = {},
         e \intersect (f \union g \union h \union k \union l) = {},
         f \intersect (g \union h \union k \union l) = {},
         g \intersect (h \union k \union l) = {},
         h \intersect (k \union l) = {},
         k \intersect l = {}
  PROVE  LET places == <<a, b, c, d, e, f, g, h, k, l>> IN
           /\ UNION Range(places)
                = a \union b \union c \union d \union e \union f \union g \union h \union k \union l
           /\ \A i, j \in DOMAIN places : i # j => places[i] \intersect places[j] = {}
<1> DEFINE places == <<a, b, c, d, e, f, g, h, k, l>>
<1>1. /\ DOMAIN places = 1..10
      /\ places[1] = a /\ places[2] = b /\ places[3] = c /\ places[4] = d /\ places[5] = e
      /\ places[6] = f /\ places[7] = g /\ places[8] = h /\ places[9] = k /\ places[10] = l
  OBVIOUS
<1> HIDE DEF places
<1>2. 1..10 = {1, 2, 3, 4, 5, 6, 7, 8, 9, 10}
  OBVIOUS
<1>3. Range(places) = {a, b, c, d, e, f, g, h, k, l}
  BY <1>1, <1>2 DEF Range
<1>4. UNION Range(places)
        = a \union b \union c \union d \union e \union f \union g \union h \union k \union l
  BY <1>3
<1>5. \A i, j \in DOMAIN places : i < j => places[i] \intersect places[j] = {}
  <2> SUFFICES ASSUME NEW i \in 1..10, NEW j \in 1..10, i < j
               PROVE  places[i] \intersect places[j] = {}
    BY <1>1
  <2>1. CASE i = 1 BY <1>1, <2>1
  <2>2. CASE i = 2 BY <1>1, <2>2
  <2>3. CASE i = 3 BY <1>1, <2>3
  <2>4. CASE i = 4 BY <1>1, <2>4
  <2>5. CASE i = 5 BY <1>1, <2>5
  <2>6. CASE i = 6 BY <1>1, <2>6
  <2>7. CASE i = 7 BY <1>1, <2>7
  <2>8. CASE i = 8 BY <1>1, <2>8
  <2>9. CASE i = 9 BY <1>1, <2>9
  <2> QED
    BY <2>1, <2>2, <2>3, <2>4, <2>5, <2>6, <2>7, <2>8, <2>9
<1>6. \A i, j \in DOMAIN places : i # j => places[i] \intersect places[j] = {}
  <2> SUFFICES ASSUME NEW i \in DOMAIN places, NEW j \in DOMAIN places, i # j
               PROVE  places[i] \intersect places[j] = {}
    OBVIOUS
  <2>1. i < j \/ j < i
    BY <1>1
  <2>2. places[j] \intersect places[i] = {} => places[i] \intersect places[j] = {}
    OBVIOUS
  <2> QED
    BY <1>5, <2>1, <2>2
<1> QED
  BY <1>4, <1>6 DEF places

(* Where the messages of one downstream are, as sets of numbers. *)
LEMMA DownstreamApart ==
  ASSUME IInv, NEW d \in 1..added,
         NEW u, u = {m \in 1..sent : m > D!Reached(d)}
  PROVE  LET q == Range(queue[d])
             h == Range(D!Held(d))
             r == Range(received[d])
         IN /\ u \union q \union h \union dropped[d] \union r = 1..sent
            /\ u \intersect (q \union h \union dropped[d] \union r) = {}
            /\ q \intersect (h \union dropped[d] \union r) = {}
            /\ h \intersect (dropped[d] \union r) = {}
            /\ dropped[d] \intersect r = {}
<1> DEFINE q == Range(queue[d])
<1> DEFINE h == Range(D!Held(d))
<1> DEFINE r == Range(received[d])
<1>1. DP!Reached(d) = D!Reached(d) /\ DP!Held(d) = D!Held(d)
  BY DEF DP!Reached, D!Reached, DP!Held, D!Held
<1>2. /\ r \union h \union q \union dropped[d] = 1..DP!Reached(d)
      /\ r \intersect h = {}
      /\ (r \union h) \intersect q = {}
      /\ (r \union h \union q) \intersect dropped[d] = {}
  BY <1>1, DP!MessagesApart, Bounds DEF IInv, DP!Range, Range
<1>3. sent \in Nat /\ D!Reached(d) \in {sent - 1, sent}
  BY IdsInOrder DEF IInv, D!Reached
<1> HIDE DEF q, h, r
<1>4. u \union 1..D!Reached(d) = 1..sent /\ u \intersect 1..D!Reached(d) = {}
  BY <1>3
<1>5. /\ u \union q \union h \union dropped[d] \union r = 1..sent
      /\ u \intersect (q \union h \union dropped[d] \union r) = {}
      /\ q \intersect (h \union dropped[d] \union r) = {}
      /\ h \intersect (dropped[d] \union r) = {}
      /\ dropped[d] \intersect r = {}
  BY <1>1, <1>2, <1>4
<1> QED
  BY <1>5 DEF q, h, r

(* In every such state an envelope is in one place on its way to each sink. *)
LEMMA PlacesOfEnvelopes == IInv => EnvelopesAccounted
<1> SUFFICES ASSUME IInv, NEW d \in 1..added
             PROVE  LET underway == {m \in 1..sent : m > D!Reached(d)}
                        places ==
                          <<IF callback \in {"push", "drop", "again", "spin"} THEN {made} ELSE {},
                            Range(inbox), overrun, Range(batch), Ids(underway),
                            Ids(Range(queue[d])), Ids(Range(D!Held(d))), Ids(dropped[d]),
                            Range(produced[d]), refused[d]>>
                    IN /\ UNION Range(places) = 1..made
                       /\ \A i, j \in DOMAIN places : i # j => places[i] \intersect places[j] = {}
  BY Zenon DEF EnvelopesAccounted
<1> DEFINE mine == IF callback \in {"push", "drop", "again", "spin"} THEN {made} ELSE {}
<1> DEFINE u == {m \in 1..sent : m > D!Reached(d)}
<1> DEFINE q == Range(queue[d])
<1> DEFINE h == Range(D!Held(d))
<1> DEFINE r == Range(received[d])
<1> DEFINE lost == dropped[d]
<1>0. TypeOK /\ Numbers /\ FlowInv /\ d \in Ds
  BY FeedAssumption DEF IInv, DP!IInv, DP!TypeOK, Ds, D!Ds
<1>1. /\ u \union q \union h \union lost \union r = 1..sent
      /\ u \intersect (q \union h \union lost \union r) = {}
      /\ q \intersect (h \union lost \union r) = {}
      /\ h \intersect (lost \union r) = {}
      /\ lost \intersect r = {}
  BY DownstreamApart, Zenon
<1>2. /\ Range(produced[d]) \union refused[d] = Ids(r)
      /\ Range(produced[d]) \intersect refused[d] = {}
  BY <1>0 DEF IInv, SinkInv
<1>3. /\ mine \union 1..Settled = 1..made
      /\ mine \intersect 1..Settled = {}
  BY <1>0 DEF IInv, Settled, Offering, CallbackInv, Numbers
<1>4. /\ Range(ids) \union Range(batch) \union Range(inbox) \union overrun = 1..Settled
      /\ Range(ids) \intersect Range(batch) = {}
      /\ (Range(ids) \union Range(batch)) \intersect Range(inbox) = {}
      /\ (Range(ids) \union Range(batch) \union Range(inbox)) \intersect overrun = {}
      /\ Range(ids) = Ids(1..sent)
  BY <1>0, FlowApart, IdsInOrder
<1> HIDE DEF mine, u, q, h, r, lost
<1>5. /\ Ids(u) \union Ids(q) \union Ids(h) \union Ids(lost) \union Ids(r) = Range(ids)
      /\ Ids(u) \intersect (Ids(q) \union Ids(h) \union Ids(lost) \union Ids(r)) = {}
      /\ Ids(q) \intersect (Ids(h) \union Ids(lost) \union Ids(r)) = {}
      /\ Ids(h) \intersect (Ids(lost) \union Ids(r)) = {}
      /\ Ids(lost) \intersect Ids(r) = {}
  <2>1. \A m, n \in 1..sent : ids[m] = ids[n] => m = n
    BY <1>0, IdsInOrder
  <2>2. Ids(u) \union Ids(q) \union Ids(h) \union Ids(lost) \union Ids(r) = Range(ids)
    BY <1>1, <1>4 DEF Ids
  <2>3. ASSUME NEW s \in SUBSET (1..sent), NEW t \in SUBSET (1..sent), s \intersect t = {}
        PROVE  Ids(s) \intersect Ids(t) = {}
    BY <2>1, <2>3 DEF Ids
  <2>4. /\ u \in SUBSET (1..sent) /\ q \in SUBSET (1..sent) /\ h \in SUBSET (1..sent)
        /\ lost \in SUBSET (1..sent) /\ r \in SUBSET (1..sent)
    BY <1>1
  <2>5. /\ Ids(u) \intersect Ids(q) = {} /\ Ids(u) \intersect Ids(h) = {}
        /\ Ids(u) \intersect Ids(lost) = {} /\ Ids(u) \intersect Ids(r) = {}
    <3>1. u \intersect q = {} /\ u \intersect h = {} /\ u \intersect lost = {}
            /\ u \intersect r = {}
      BY <1>1
    <3> QED
      BY <2>3, <2>4, <3>1
  <2>6. /\ Ids(q) \intersect Ids(h) = {} /\ Ids(q) \intersect Ids(lost) = {}
        /\ Ids(q) \intersect Ids(r) = {}
    <3>1. q \intersect h = {} /\ q \intersect lost = {} /\ q \intersect r = {}
      BY <1>1
    <3> QED
      BY <2>3, <2>4, <3>1
  <2>7. /\ Ids(h) \intersect Ids(lost) = {} /\ Ids(h) \intersect Ids(r) = {}
        /\ Ids(lost) \intersect Ids(r) = {}
    <3>1. h \intersect lost = {} /\ h \intersect r = {} /\ lost \intersect r = {}
      BY <1>1
    <3> QED
      BY <2>3, <2>4, <3>1
  <2> QED
    BY <2>2, <2>5, <2>6, <2>7
<1> DEFINE iu == Ids(u)
<1> DEFINE iq == Ids(q)
<1> DEFINE ih == Ids(h)
<1> DEFINE il == Ids(lost)
<1> DEFINE ir == Ids(r)
<1> DEFINE all == 1..Settled
<1>6. /\ iu \union iq \union ih \union il \union ir = Range(ids)
      /\ iu \intersect (iq \union ih \union il \union ir) = {}
      /\ iq \intersect (ih \union il \union ir) = {}
      /\ ih \intersect (il \union ir) = {}
      /\ il \intersect ir = {}
      /\ Range(produced[d]) \union refused[d] = ir
  BY <1>2, <1>5
<1>7. /\ Range(ids) \union Range(batch) \union Range(inbox) \union overrun = all
      /\ mine \union all = 1..made
      /\ mine \intersect all = {}
  BY <1>3, <1>4
<1> HIDE DEF iu, iq, ih, il, ir, all
<1>8. /\ mine \intersect (Range(inbox) \union overrun \union Range(batch) \union iu \union iq
            \union ih \union il \union Range(produced[d]) \union refused[d]) = {}
      /\ Range(inbox) \intersect (overrun \union Range(batch) \union iu \union iq
            \union ih \union il \union Range(produced[d]) \union refused[d]) = {}
      /\ overrun \intersect (Range(batch) \union iu \union iq
            \union ih \union il \union Range(produced[d]) \union refused[d]) = {}
      /\ Range(batch) \intersect (iu \union iq
            \union ih \union il \union Range(produced[d]) \union refused[d]) = {}
  BY <1>4, <1>6, <1>7
<1>9. /\ iu \intersect (iq \union ih \union il \union Range(produced[d]) \union refused[d]) = {}
      /\ iq \intersect (ih \union il \union Range(produced[d]) \union refused[d]) = {}
      /\ ih \intersect (il \union Range(produced[d]) \union refused[d]) = {}
      /\ il \intersect (Range(produced[d]) \union refused[d]) = {}
  BY <1>6
<1>10. mine \union Range(inbox) \union overrun \union Range(batch) \union iu \union iq \union ih
         \union il \union Range(produced[d]) \union refused[d] = 1..made
  BY <1>6, <1>7
<1>11. LET places == <<mine, Range(inbox), overrun, Range(batch), iu, iq, ih, il,
                       Range(produced[d]), refused[d]>>
       IN /\ UNION Range(places) = 1..made
          /\ \A i, j \in DOMAIN places : i # j => places[i] \intersect places[j] = {}
  BY <1>2, <1>8, <1>9, <1>10, TenApart
<1> QED
  BY <1>11, Zenon DEF mine, u, q, h, r, lost, iu, iq, ih, il

(* Every envelope a callback made is, on its way to each sink, in exactly one
   place: each loss has one of the four causes (Dispatcher.cpp:19-44,
   SubscriptionManager.cpp:171-229, 441-453, RedPandaSink.cpp:75-101). *)
THEOREM EnvelopesHavePlaces == Spec => []EnvelopesAccounted
<1>1. IInv => EnvelopesAccounted
  BY PlacesOfEnvelopes
<1> QED
  BY <1>1, Invariance, PTL

(* Once main returns the batch is empty, no callback runs, and each downstream
   is drained. *)
LEMMA DrainedAtExit == IInv => ExitDrains
<1> SUFFICES ASSUME IInv, main = "exited", NEW d \in 1..added
             PROVE  Range(produced[d]) \union refused[d] \union Ids(dropped[d])
                      = 1..made \ (overrun \union Range(inbox))
  BY DEF ExitDrains
<1>0. /\ TypeOK /\ Numbers /\ FlowInv /\ PhaseInv /\ d \in Ds /\ d \in DP!Ds /\ DP!IInv
  BY FeedAssumption DEF IInv, DP!IInv, DP!TypeOK, Ds, D!Ds, DP!Ds
<1>1. caller = "destroyed" /\ batch = << >> /\ callback = "closed"
  BY <1>0 DEF PhaseInv, TypeOK
<1>2. Range(produced[d]) \union refused[d] = Ids(Range(received[d]))
  BY <1>0 DEF IInv, SinkInv
<1>3. Range(received[d]) \union dropped[d] = 1..sent
  <2>1. worker[d] = "exited"
    BY <1>0, <1>1 DEF DP!IInv, DP!DestroyInv
  <2>2. queue[d] = << >> /\ item[d] = 0
    BY <1>0, <2>1 DEF DP!IInv, DP!WorkerInv
  <2>3. Range(queue[d]) = {} /\ Range(DP!Held(d)) = {} /\ DP!Reached(d) = sent
    BY <1>1, <2>2 DEF DP!Held, DP!Reached, Range
  <2>4. Range(received[d]) \union Range(DP!Held(d)) \union Range(queue[d]) \union dropped[d]
          = 1..DP!Reached(d)
    BY <1>0, DP!MessagesApart, Bounds DEF DP!Range, Range
  <2> QED
    BY <2>3, <2>4
<1>4. Ids(Range(received[d])) \union Ids(dropped[d]) = Range(ids)
  <2>1. Range(ids) = Ids(1..sent)
    BY <1>0, IdsInOrder
  <2> QED
    BY <1>3, <2>1 DEF Ids
<1>5. Range(ids) = 1..made \ (overrun \union Range(inbox))
  <2>1. Range(batch) = {} /\ Settled = made
    BY <1>1 DEF Range, Settled, Offering
  <2>2. /\ Range(ids) \union Range(batch) \union Range(inbox) \union overrun = 1..Settled
        /\ (Range(ids) \union Range(batch)) \intersect Range(inbox) = {}
        /\ (Range(ids) \union Range(batch) \union Range(inbox)) \intersect overrun = {}
    BY <1>0, FlowApart
  <2> QED
    BY <2>1, <2>2
<1> QED
  BY <1>2, <1>4, <1>5

(* What run() took from the inbox has been handed to every sink, or dropped for
   it, when main returns (SubscriptionManager.cpp:171-229, Dispatcher.cpp:40-43). *)
THEOREM ShutdownDrains == Spec => []ExitDrains
<1>1. IInv => ExitDrains
  BY DrainedAtExit
<1> QED
  BY <1>1, Invariance, PTL

-----------------------------------------------------------------------------
(* The start: what ConfigOutcome and the constructors refuse are the faults of
   the file, each of them and no other. *)
LEMMA LoggerFaults ==
  ASSUME NEW n, HasKeys(n, {"level", "also_console", "path", "file", "queue_size",
                            "worker_threads", "flush_on", "overflow"})
  PROVE  FaultlessLogger(n) <=> LoggerLoads(n) /\ ~LoggerThrows(n)
<1> USE MarksAssumption DEF FaultlessLogger, LoggerLoads, LoggerThrows, HasKeys, Optional,
    IsOverflow
<1>1. CASE n = Absent
  BY <1>1
<1>2. CASE n # Absent
  <2>1. DOMAIN n = {"level", "also_console", "path", "file", "queue_size",
                    "worker_threads", "flush_on", "overflow"}
    BY <1>2
  <2>2. CASE n.path = Absent
    BY <1>2, <2>1, <2>2
  <2>3. CASE n.path # Absent
    BY <1>2, <2>1, <2>3
  <2> QED
    BY <2>2, <2>3
<1> QED
  BY <1>1, <1>2

LEMMA Ports == \A p \in Int : p \in 1..MaxPort <=> p > 0 /\ p <= MaxPort
<1>1. MaxPort \in Int
  BY SMT DEF MaxPort
<1> QED
  BY <1>1

LEMMA FutuFaults ==
  ASSUME NEW n, HasKeys(n, {"opend_ip", "opend_port"}),
         n # Absent => n.opend_port \in Int \union {Absent, Malformed}
  PROVE  FaultlessFutu(n) <=> FutuLoads(n)
<1>1. CASE n = Absent
  BY <1>1 DEF FaultlessFutu, FutuLoads, IsMap
<1>2. CASE n # Absent
  <2>1. IsMap(n) <=> n.opend_ip # Malformed /\ n.opend_port # Malformed
    BY <1>2 DEF HasKeys, IsMap
  <2>2. CASE n.opend_port \in {Absent, Malformed}
    <3>1. ~FutuLoads(n)
      BY <2>2, Zenon DEF FutuLoads, Required
    <3>2. ~FaultlessFutu(n)
      BY <2>1, <2>2, Zenon DEF FaultlessFutu
    <3> QED
      BY <3>1, <3>2
  <2>3. CASE n.opend_port \notin {Absent, Malformed}
    <3>1. n.opend_port \in 1..MaxPort <=> n.opend_port > 0 /\ n.opend_port <= MaxPort
      BY <1>2, <2>3, Ports, Zenon
    <3>2. FutuLoads(n) <=> Required(n.opend_ip) /\ n.opend_port \in 1..MaxPort
      BY <1>2, <2>3, <3>1, Zenon DEF FutuLoads, Required
    <3>3. FaultlessFutu(n) <=> Required(n.opend_ip) /\ n.opend_port \in 1..MaxPort
      BY <2>1, <2>3, Zenon DEF FaultlessFutu, Required
    <3> QED
      BY <3>2, <3>3
  <2> QED
    BY <2>2, <2>3
<1> QED
  BY <1>1, <1>2

LEMMA SubscriptionsFaults ==
  ASSUME NEW n, HasKeys(n, {"path"})
  PROVE  IsMap(n) /\ n.path # Absent <=> SubscriptionsLoad(n)
BY DEF IsMap, SubscriptionsLoad, HasKeys, Required

LEMMA ManagerFaults ==
  ASSUME NEW n, HasKeys(n, {"refresh_ms", "capacity", "overflow", "first_push"})
  PROVE  FaultlessManager(n) <=> ManagerLoads(n)
BY MarksAssumption DEF FaultlessManager, IsMap, ManagerLoads, HasKeys, Required, Optional,
   IsOverflow

LEMMA DownstreamFaults ==
  ASSUME NEW d, HasKeys(d.redpanda, {"brokers", "client_id", "compression", "acks"})
  PROVE  FaultlessDownstream(d) <=>
           d # Scalar /\ DownstreamLoads(d) /\ (d.type = "redpanda" => ~SinkRefuses(d))
<1>1. (Required(d.name) /\ Required(d.type))
        <=> {d.name, d.type} \intersect {Absent, Malformed} = {}
  BY DEF Required
<1>2. CASE d.type = "redpanda"
  <2>1. (RedpandaLoads(d.redpanda) /\ ~SinkRefuses(d)) <=>
          /\ IsMap(d.redpanda)
          /\ d.redpanda.brokers \notin {Absent, ""} /\ d.redpanda.acks # "unknown"
    BY DEF IsMap, RedpandaLoads, SinkRefuses, HasKeys, Required, Optional
  <2> QED
    BY <1>1, <1>2, <2>1 DEF FaultlessDownstream, DownstreamLoads
<1>3. CASE d.type # "redpanda"
  BY <1>1, <1>3 DEF FaultlessDownstream, DownstreamLoads
<1> QED
  BY <1>2, <1>3

(* No downstream is refused, by the loader or by its sink. *)
SinksStart(file) ==
  \A i \in DOMAIN file.downstreams :
    file.downstreams[i].type = "redpanda" => ~SinkRefuses(file.downstreams[i])

LEMMA ListLoads ==
  ASSUME NEW list
  PROVE  DownstreamsOutcome(list) = "loaded" <=>
           \A i \in DOMAIN list : list[i] # Scalar /\ DownstreamLoads(list[i])
BY DEF DownstreamsOutcome

(* A file is loaded when it loads in each of its parts. *)
LEMMA FileLoads ==
  ASSUME NEW file
  PROVE  ConfigOutcome(file) = "loaded" <=>
           /\ file.readable /\ ~file.scalar
           /\ LoggerLoads(file.logger) /\ FutuLoads(file.futu)
           /\ SubscriptionsLoad(file.subscriptions)
           /\ ManagerLoads(file.subscriptionmanager)
           /\ file.downstreams # Absent
           /\ DownstreamsOutcome(file.downstreams) = "loaded"
BY DEF ConfigOutcome

LEMMA FaultlessStarts ==
  ASSUME NEW file, IsFile(file)
  PROVE  Faultless(file) <=>
           /\ ConfigOutcome(file) = "loaded" /\ ~LoggerThrows(file.logger)
           /\ SinksStart(file)
<1>1. FaultlessLogger(file.logger) <=> LoggerLoads(file.logger) /\ ~LoggerThrows(file.logger)
  BY LoggerFaults DEF IsFile
<1>2. FaultlessFutu(file.futu) <=> FutuLoads(file.futu)
  BY FutuFaults DEF IsFile
<1>3. IsMap(file.subscriptions) /\ file.subscriptions.path # Absent
        <=> SubscriptionsLoad(file.subscriptions)
  BY SubscriptionsFaults DEF IsFile
<1>4. FaultlessManager(file.subscriptionmanager) <=> ManagerLoads(file.subscriptionmanager)
  BY ManagerFaults DEF IsFile
<1>5. ASSUME file.downstreams # Absent, NEW i \in DOMAIN file.downstreams
      PROVE  FaultlessDownstream(file.downstreams[i]) <=>
               /\ file.downstreams[i] # Scalar /\ DownstreamLoads(file.downstreams[i])
               /\ file.downstreams[i].type = "redpanda" => ~SinkRefuses(file.downstreams[i])
  <2>1. CASE file.downstreams[i] = Scalar
    BY <2>1 DEF FaultlessDownstream
  <2>2. CASE file.downstreams[i] # Scalar
    <3>1. HasKeys(file.downstreams[i].redpanda, {"brokers", "client_id", "compression", "acks"})
      BY <1>5, <2>2 DEF IsFile
    <3> QED
      BY <3>1, DownstreamFaults
  <2> QED
    BY <2>1, <2>2
<1>6. DownstreamsOutcome(file.downstreams) = "loaded" <=>
        \A i \in DOMAIN file.downstreams :
          file.downstreams[i] # Scalar /\ DownstreamLoads(file.downstreams[i])
  BY ListLoads
<1>7. file.downstreams # Absent =>
        ((\A i \in DOMAIN file.downstreams : FaultlessDownstream(file.downstreams[i])) <=>
           DownstreamsOutcome(file.downstreams) = "loaded" /\ SinksStart(file))
  BY <1>5, <1>6, Zenon DEF SinksStart
<1> QED
  BY <1>1, <1>2, <1>3, <1>4, <1>7, FileLoads, Zenon DEF Faultless

(* The downstreams among the first n for which a sink is made. *)
SinksBefore(n) == {i \in 1..(n - 1) : config.downstreams[i].type = "redpanda"}

(* Where the start of the program has got to. *)
StartInv ==
  /\ config \in Configs
  /\ main \in {"load", "failed"} => added = 0
  /\ main = "load" => entry = 1
  /\ main \in {"failed", "terminated"} => ~Faultless(config)
  /\ main \notin {"load", "failed", "terminated"} =>
       /\ ConfigOutcome(config) = "loaded" /\ ~LoggerThrows(config.logger)
       /\ policy = Policy(config)
       /\ entry \in 1..(Len(config.downstreams) + 1)
       /\ added = Cardinality(SinksBefore(entry))
       /\ \A i \in SinksBefore(entry) : ~SinkRefuses(config.downstreams[i])
  /\ main \notin {"load", "start", "failed", "terminated"} =>
       entry = Len(config.downstreams) + 1

(* Counting one more downstream. *)
LEMMA CountsNext ==
  ASSUME NEW n \in Nat \ {0}
  PROVE  /\ IsFiniteSet(SinksBefore(n)) /\ Cardinality(SinksBefore(n)) \in Nat
         /\ config.downstreams[n].type = "redpanda" =>
              /\ SinksBefore(n + 1) = SinksBefore(n) \union {n}
              /\ Cardinality(SinksBefore(n + 1)) = Cardinality(SinksBefore(n)) + 1
         /\ config.downstreams[n].type # "redpanda" => SinksBefore(n + 1) = SinksBefore(n)
<1>1. IsFiniteSet(1..(n - 1)) /\ SinksBefore(n) \subseteq 1..(n - 1)
  BY FS_Interval DEF SinksBefore
<1>2. IsFiniteSet(SinksBefore(n)) /\ Cardinality(SinksBefore(n)) \in Nat
  BY <1>1, FS_Subset, FS_CardinalityType
<1>3. n \notin SinksBefore(n) /\ 1..n = 1..(n - 1) \union {n} /\ (n + 1) - 1 = n
  BY DEF SinksBefore
<1>4. ASSUME config.downstreams[n].type = "redpanda"
      PROVE  /\ SinksBefore(n + 1) = SinksBefore(n) \union {n}
             /\ Cardinality(SinksBefore(n + 1)) = Cardinality(SinksBefore(n)) + 1
  <2>1. SinksBefore(n + 1) = SinksBefore(n) \union {n}
    BY <1>3, <1>4 DEF SinksBefore
  <2> QED
    BY <1>2, <1>3, <2>1, FS_AddElement
<1>5. config.downstreams[n].type # "redpanda" => SinksBefore(n + 1) = SinksBefore(n)
  BY <1>3 DEF SinksBefore
<1> QED
  BY <1>2, <1>4, <1>5

(* A file that was loaded has its list of downstreams. *)
LEMMA LoadedList ==
  ASSUME NEW file \in Configs, ConfigOutcome(file) = "loaded"
  PROVE  /\ IsFile(file)
         /\ Len(file.downstreams) \in Nat
         /\ DOMAIN file.downstreams = 1..Len(file.downstreams)
<1>1. IsFile(file) /\ file.downstreams # Absent
  BY ConfigsAssumption, FileLoads
<1>2. PICK S : file.downstreams \in Seq(S)
  BY <1>1 DEF IsFile
<1> QED
  BY <1>1, <1>2, LenProperties

LEMMA StartStep == StartInv /\ [Next]_vars => StartInv'
<1> SUFFICES ASSUME StartInv, [Next]_vars PROVE StartInv'
  OBVIOUS
<1>1. ASSUME UNCHANGED <<added, config, entry, policy>>,
             \/ UNCHANGED main
             \/ /\ main \notin {"load", "start", "failed", "terminated"}
                /\ main' \notin {"load", "start", "failed", "terminated"}
      PROVE  StartInv'
  <2>1. SinksBefore(entry)' = SinksBefore(entry)
    BY <1>1 DEF SinksBefore
  <2> QED
    BY <1>1, <2>1 DEF StartInv
<1>2. CASE LoadConfig
  <2>1. /\ UNCHANGED <<added, config, entry>> /\ main = "load" /\ config \in Configs
        /\ added = 0 /\ entry = 1
    BY <1>2 DEF LoadConfig, dispatcher, StartInv
  <2>2. Faultless(config) => ConfigOutcome(config) = "loaded" /\ ~LoggerThrows(config.logger)
    BY <2>1, ConfigsAssumption, FaultlessStarts
  <2>3. CASE ConfigOutcome(config) = "loaded" /\ ~LoggerThrows(config.logger)
    <3>1. main' = "start" /\ policy' = Policy(config)
      BY <1>2, <2>3 DEF LoadConfig
    <3>2. SinksBefore(entry)' = {} /\ entry' = 1
      BY <2>1 DEF SinksBefore
    <3>3. added' = Cardinality(SinksBefore(entry)')
      BY <2>1, <3>2, FS_EmptySet
    <3>4. entry' \in 1..(Len(config.downstreams) + 1)
      BY <2>1, <2>3, LoadedList
    <3> QED
      BY <2>1, <2>3, <3>1, <3>2, <3>3, <3>4 DEF StartInv
  <2>4. CASE ~(ConfigOutcome(config) = "loaded" /\ ~LoggerThrows(config.logger))
    <3>1. main' \in {"failed", "terminated"}
      BY <1>2, <2>4, OutcomeKind DEF LoadConfig
    <3> QED
      BY <2>1, <2>2, <2>4, <3>1 DEF StartInv
  <2> QED
    BY <2>3, <2>4
<1>3. ASSUME main = "start"
      PROVE  /\ config \in Configs /\ ConfigOutcome(config) = "loaded"
             /\ ~LoggerThrows(config.logger) /\ policy = Policy(config)
             /\ entry \in Nat \ {0} /\ Len(config.downstreams) \in Nat
             /\ DOMAIN config.downstreams = 1..Len(config.downstreams)
             /\ added = Cardinality(SinksBefore(entry))
             /\ \A i \in SinksBefore(entry) : ~SinkRefuses(config.downstreams[i])
  <2>1. /\ config \in Configs /\ ConfigOutcome(config) = "loaded"
        /\ ~LoggerThrows(config.logger) /\ policy = Policy(config)
        /\ entry \in 1..(Len(config.downstreams) + 1)
        /\ added = Cardinality(SinksBefore(entry))
        /\ \A i \in SinksBefore(entry) : ~SinkRefuses(config.downstreams[i])
    BY <1>3 DEF StartInv
  <2>2. Len(config.downstreams) \in Nat /\ DOMAIN config.downstreams = 1..Len(config.downstreams)
    BY <2>1, LoadedList
  <2>3. entry \in Nat \ {0}
    BY <2>1, <2>2
  <2> QED
    BY <2>1, <2>2, <2>3
<1>4. CASE AddDownstream
  <2>1. /\ main = "start" /\ entry \in DOMAIN config.downstreams
        /\ config.downstreams[entry].type = "redpanda" /\ ~SinkRefuses(config.downstreams[entry])
        /\ entry' = entry + 1 /\ added' = added + 1 /\ UNCHANGED <<config, policy, main>>
    BY <1>4 DEF AddDownstream, EntryIs, D!AddDownstream
  <2>2. /\ SinksBefore(entry + 1) = SinksBefore(entry) \union {entry}
        /\ Cardinality(SinksBefore(entry + 1)) = Cardinality(SinksBefore(entry)) + 1
    BY <1>3, <2>1, CountsNext
  <2>3. SinksBefore(entry)' = SinksBefore(entry + 1)
    BY <2>1 DEF SinksBefore
  <2>4. entry' \in 1..(Len(config.downstreams) + 1)
    BY <1>3, <2>1
  <2>5. added' = Cardinality(SinksBefore(entry)')
    BY <1>3, <2>1, <2>2, <2>3
  <2>6. \A i \in SinksBefore(entry)' : ~SinkRefuses(config.downstreams[i])
    BY <1>3, <2>1, <2>2, <2>3
  <2> QED
    BY <1>3, <2>1, <2>4, <2>5, <2>6 DEF StartInv
<1>5. CASE SkipDemoLog
  <2>1. /\ main = "start" /\ entry \in DOMAIN config.downstreams
        /\ config.downstreams[entry].type # "redpanda"
        /\ entry' = entry + 1 /\ UNCHANGED <<config, policy, main, added>>
    BY <1>5 DEF SkipDemoLog, EntryIs, dispatcher
  <2>2. SinksBefore(entry + 1) = SinksBefore(entry)
    BY <1>3, <2>1, CountsNext
  <2>3. SinksBefore(entry)' = SinksBefore(entry + 1)
    BY <2>1 DEF SinksBefore
  <2>4. entry' \in 1..(Len(config.downstreams) + 1)
    BY <1>3, <2>1
  <2> QED
    BY <1>3, <2>1, <2>2, <2>3, <2>4 DEF StartInv
<1>6. CASE SinkThrows
  <2>1. /\ main = "start" /\ entry \in DOMAIN config.downstreams
        /\ config.downstreams[entry].type = "redpanda" /\ SinkRefuses(config.downstreams[entry])
        /\ UNCHANGED config /\ main' = "terminated"
    BY <1>6 DEF SinkThrows, EntryIs, startup
  <2>2. ~SinksStart(config) /\ config \in Configs /\ IsFile(config)
    BY <1>3, <2>1, ConfigsAssumption DEF SinksStart
  <2>3. ~Faultless(config)
    BY <2>2, FaultlessStarts
  <2> QED
    BY <2>1, <2>2, <2>3 DEF StartInv
<1>7. CASE Start
  <2>1. /\ main = "start" /\ main' = "check" /\ entry = Len(config.downstreams) + 1
        /\ UNCHANGED <<added, config, entry, policy>>
    BY <1>7 DEF Start, D!AddEnds, startup
  <2>2. SinksBefore(entry)' = SinksBefore(entry)
    BY <2>1 DEF SinksBefore
  <2> QED
    BY <1>3, <2>1, <2>2 DEF StartInv
<1>8. CASE CheckStop \/ PopOne \/ PopEnds \/ BatchDone \/ Flush \/ CloseSession \/ DestroySinks
  <2>1. /\ UNCHANGED <<added, config, entry, policy>>
        /\ main \in {"check", "pop", "submit", "flush", "close", "destroy"}
        /\ main' \in {"check", "pop", "submit", "flush", "close", "destroy", "exited"}
    BY <1>8 DEF CheckStop, PopOne, PopEnds, BatchDone, Flush, CloseSession, DestroySinks,
                dispatcher, startup
  <2> QED
    BY <1>1, <2>1
<1>9. CASE Submit \/ Dispatching \/ DestroyDispatcher
  <2>1. UNCHANGED <<main, config, entry, policy>>
    BY <1>9 DEF Submit, Dispatching, DestroyDispatcher, startup
  <2>2. UNCHANGED added
    BY <1>9 DEF Submit, Dispatching, DestroyDispatcher, D!Dispatch, D!Dispatching, D!Push,
                D!PushRefused, D!DropOldest, D!PushAgain, D!Advance, D!Destroy, D!Stop, D!Join
  <2> QED
    BY <1>1, <2>1, <2>2
<1>10. CASE Offer \/ Enqueue \/ Signal \/ UNCHANGED vars
  <2>1. UNCHANGED <<added, config, entry, policy, main>>
    BY <1>10 DEF Offer, Enqueue, Accept, Refuse, DropOldest, PushAgain, Signal, dispatcher, startup,
                 vars
  <2> QED
    BY <1>1, <2>1
<1>11. ASSUME NEW d \in Ds, Worker(d) \/ SinkTakes(d) \/ Report(d) PROVE StartInv'
  <2>1. UNCHANGED <<config, entry, policy, main>>
    BY <1>11 DEF Worker, SinkTakes, Produce, ProduceFails, Report, startup
  <2>2. UNCHANGED added
    BY <1>11 DEF Worker, SinkTakes, Produce, ProduceFails, Report, dispatcher, D!SinkSubmit, D!Loop,
                 D!CheckRunning, D!Pop, D!PopNothing, D!Drain, D!Exit, D!Take, D!WorkerAt
  <2> QED
    BY <1>1, <2>1, <2>2
<1> QED
  BY <1>2, <1>4, <1>5, <1>6, <1>7, <1>8, <1>9, <1>10, <1>11 DEF Next, Main

LEMMA StartInit == Init => StartInv
BY DEF Init, D!Init, StartInv

LEMMA StartedAsConfigured == StartInv /\ PhaseInv => StartsAsConfigured
<1> SUFFICES ASSUME StartInv, PhaseInv PROVE StartsAsConfigured
  OBVIOUS
<1>1. ASSUME main \notin {"load", "start", "failed", "terminated"}
      PROVE  /\ Faultless(config)
             /\ added = Cardinality({i \in DOMAIN config.downstreams :
                                    config.downstreams[i].type = "redpanda"})
             /\ policy = IF config.subscriptionmanager.overflow = "block" THEN "Block"
                         ELSE "DropOldest"
  <2>1. /\ config \in Configs /\ ConfigOutcome(config) = "loaded"
        /\ ~LoggerThrows(config.logger) /\ policy = Policy(config)
        /\ entry = Len(config.downstreams) + 1
        /\ added = Cardinality(SinksBefore(entry))
        /\ \A i \in SinksBefore(entry) : ~SinkRefuses(config.downstreams[i])
    BY <1>1 DEF StartInv
  <2>2. /\ IsFile(config) /\ Len(config.downstreams) \in Nat
        /\ DOMAIN config.downstreams = 1..Len(config.downstreams)
    BY <2>1, LoadedList
  <2>3. entry - 1 = Len(config.downstreams)
    BY <2>1, <2>2
  <2>4. SinksBefore(entry) = {i \in DOMAIN config.downstreams :
                               config.downstreams[i].type = "redpanda"}
    BY <2>2, <2>3 DEF SinksBefore
  <2>5. SinksStart(config)
    BY <2>1, <2>4 DEF SinksStart
  <2> QED
    BY <2>1, <2>2, <2>4, <2>5, FaultlessStarts DEF Policy
<1>2. main \in {"failed", "terminated"} => ~Faultless(config) /\ callback = "off"
  BY DEF StartInv, PhaseInv
<1>3. main = "failed" => added = 0
  BY DEF StartInv
<1> QED
  BY <1>1, <1>2, <1>3 DEF StartsAsConfigured

(* For any set of configuration files: the session is started only for a file
   without a fault, with a sink for each redpanda downstream and the overflow
   policy it names, and no other file ends the program before
   (ConfigLoader.cpp:54-234, main.cpp:44-87). *)
THEOREM StartFollowsFile == Spec => []StartsAsConfigured
<1>1. Init => StartInv
  BY StartInit
<1>2. StartInv /\ [Next]_vars => StartInv'
  BY StartStep
<1>3. StartInv /\ PhaseInv => StartsAsConfigured
  BY StartedAsConfigured
<1>4. IInv => PhaseInv
  BY DEF IInv
<1> QED
  BY <1>1, <1>2, <1>3, <1>4, Invariance, PTL DEF Spec

=============================================================================
