----------------------------- MODULE Dispatcher -----------------------------
(***************************************************************************)
(* The fan-out of momo_feed: Dispatcher copies each message to the queue   *)
(* of every QueuedDownstream, whose worker thread hands it to its sink,    *)
(* and the shutdown that ~Dispatcher performs.  The caller is the run()    *)
(* thread; it is also the one that adds the downstreams and destroys the   *)
(* dispatcher (main.cpp).                                                  *)
(*                                                                         *)
(* Each try_push and try_pop is one step here: SPSCQueue shows that this   *)
(* is what they amount to.  OverflowQueue has the steps inside them for    *)
(* the case where the caller's try_pop overlaps the worker's.              *)
(***************************************************************************)
EXTENDS Naturals, Sequences, FiniteSets, Functions

CONSTANTS
  Downstreams,  (* bound: downstreams main adds; they are 1..Downstreams   *)
  QueueCap,     (* places of a downstream's queue                          *)
  MaxMessages   (* bound: messages dispatched                              *)

ASSUME DispatcherAssumption ==
  /\ Downstreams \in Nat
  /\ QueueCap \in Nat \ {0}
  /\ MaxMessages \in Nat

VARIABLES
  added,     (* how many downstreams_ there are                           *)
  caller,    (* where the caller stands                                   *)
  at,        (* the downstream its loop over downstreams_ has reached     *)
  sent,      (* the message being dispatched; they are numbered           *)
  queue,     (* q_ of each downstream                                     *)
  running,   (* running_ of each downstream                               *)
  worker,    (* where each worker thread stands                           *)
  item,      (* local e of each worker, 0 when it holds none              *)
  received,  (* what each sink was given, in order                        *)
  dropped,   (* what submit popped from a full queue and threw away       *)
  stalled    (* external: the sinks that may never return from a submit   *)

vars == <<added, caller, at, sent, queue, running, worker, item, received,
          dropped, stalled>>

Ds == 1..Downstreams

Init ==
  /\ added = 0
  /\ caller = "add"
  /\ at = 1
  /\ sent = 0
  /\ queue = [d \in Ds |-> << >>]
  /\ running = [d \in Ds |-> FALSE]
  /\ worker = [d \in Ds |-> "none"]
  /\ item = [d \in Ds |-> 0]
  /\ received = [d \in Ds |-> << >>]
  /\ dropped = [d \in Ds |-> {}]
  /\ stalled \in SUBSET Ds

(* The loop over downstreams_ goes on, or is over and the caller is at next. *)
Advance(next) ==
  IF at < added THEN at' = at + 1 /\ UNCHANGED caller
                ELSE at' = 1 /\ caller' = next

-----------------------------------------------------------------------------
(* The caller *)

(* add_downstream: the worker is started at once. *)
AddDownstream ==
  /\ caller = "add"
  /\ added < Downstreams
  /\ added' = added + 1
  /\ running' = [running EXCEPT ![added'] = TRUE]
  /\ worker' = [worker EXCEPT ![added'] = "check"]
  /\ UNCHANGED <<stalled, caller, at, sent, queue, item, received, dropped>>

(* All are there; there may be none. *)
AddEnds ==
  /\ caller = "add"
  /\ caller' = "idle"
  /\ UNCHANGED <<stalled, added, at, sent, queue, running, worker, item,
                 received, dropped>>

Dispatch ==
  /\ caller = "idle"
  /\ sent < MaxMessages
  /\ sent' = sent + 1
  /\ caller' = IF added = 0 THEN "idle" ELSE "push"
  /\ UNCHANGED <<stalled, added, at, queue, running, worker, item, received,
                 dropped>>

Put(d) == queue' = [queue EXCEPT ![d] = Append(@, sent)]

(* QueuedDownstream::submit: the first try_push. *)
Push ==
  /\ caller = "push"
  /\ Len(queue[at]) < QueueCap
  /\ Put(at)
  /\ Advance("idle")
  /\ UNCHANGED <<stalled, added, sent, running, worker, item, received,
                 dropped>>

(* Mutant of PushRefused: submit waits for room. *)
PushSpins ==
  /\ caller = "push"
  /\ Len(queue[at]) = QueueCap
  /\ UNCHANGED vars

PushRefused ==
  /\ caller = "push"
  /\ Len(queue[at]) = QueueCap
  /\ caller' = "drop"
  /\ UNCHANGED <<stalled, added, at, sent, queue, running, worker, item,
                 received, dropped>>

(* Mutant of DropOldest: the item pushed last is dropped. *)
DropNewest ==
  /\ caller = "drop"
  /\ IF queue[at] = << >>
     THEN UNCHANGED <<queue, dropped>>
     ELSE /\ dropped' = [dropped EXCEPT ![at] = @ \union {queue[at][Len(queue[at])]}]
          /\ queue' = [queue EXCEPT ![at] = SubSeq(@, 1, Len(@) - 1)]
  /\ caller' = "again"
  /\ UNCHANGED <<stalled, added, at, sent, running, worker, item, received>>

(* The caller's own try_pop; the worker may have emptied the queue by now. *)
DropOldest ==
  /\ caller = "drop"
  /\ IF queue[at] = << >>
     THEN UNCHANGED <<queue, dropped>>
     ELSE /\ dropped' = [dropped EXCEPT ![at] = @ \union {Head(queue[at])}]
          /\ queue' = [queue EXCEPT ![at] = Tail(@)]
  /\ caller' = "again"
  /\ UNCHANGED <<stalled, added, at, sent, running, worker, item, received>>

(* Mutant of PushAgain: the message is not pushed after the drop. *)
PushNotAgain ==
  /\ caller = "again"
  /\ IF at < added THEN at' = at + 1 /\ caller' = "push"
                   ELSE at' = 1 /\ caller' = "idle"
  /\ UNCHANGED <<stalled, added, queue, sent, running, worker, item, received,
                 dropped>>

(* The second try_push, whose result is ignored. *)
PushAgain ==
  /\ caller = "again"
  /\ IF Len(queue[at]) < QueueCap THEN Put(at) ELSE UNCHANGED queue
  /\ IF at < added THEN at' = at + 1 /\ caller' = "push"
                   ELSE at' = 1 /\ caller' = "idle"
  /\ UNCHANGED <<stalled, added, sent, running, worker, item, received,
                 dropped>>

(* run() returned and main returns: ~Dispatcher stops one downstream after
   the other. *)
Destroy ==
  /\ caller = "idle"
  /\ caller' = IF added = 0 THEN "destroyed" ELSE "stop"
  /\ UNCHANGED <<stalled, added, at, sent, queue, running, worker, item,
                 received, dropped>>

(* Mutant of Stop: the worker is not told. *)
StopUntold ==
  /\ caller = "stop"
  /\ caller' = "join"
  /\ UNCHANGED <<stalled, added, running, at, sent, queue, worker, item,
                 received, dropped>>

Stop ==
  /\ caller = "stop"
  /\ running' = [running EXCEPT ![at] = FALSE]
  /\ caller' = "join"
  /\ UNCHANGED <<stalled, added, at, sent, queue, worker, item, received,
                 dropped>>

Join ==
  /\ caller = "join"
  /\ worker[at] = "exited"
  /\ IF at < added THEN at' = at + 1 /\ caller' = "stop"
                   ELSE at' = 1 /\ caller' = "destroyed"
  /\ UNCHANGED <<stalled, added, sent, queue, running, worker, item, received,
                 dropped>>

-----------------------------------------------------------------------------
(* QueuedDownstream::loop, run by the worker of d *)

WorkerAt(d, from, to) ==
  /\ worker[d] = from
  /\ worker' = [worker EXCEPT ![d] = to]

(* Mutant of CheckRunning: the worker ends without draining. *)
CheckRunningNoDrain(d) ==
  /\ WorkerAt(d, "check", IF running[d] THEN "pop" ELSE "exited")
  /\ UNCHANGED <<stalled, added, caller, at, sent, queue, running, item,
                 received, dropped>>

CheckRunning(d) ==
  /\ WorkerAt(d, "check", IF running[d] THEN "pop" ELSE "drain")
  /\ UNCHANGED <<stalled, added, caller, at, sent, queue, running, item,
                 received, dropped>>

Take(d) ==
  /\ queue[d] # << >>
  /\ item' = [item EXCEPT ![d] = Head(queue[d])]
  /\ queue' = [queue EXCEPT ![d] = Tail(@)]
  /\ UNCHANGED <<stalled, added, caller, at, sent, running, received, dropped>>

Pop(d) == WorkerAt(d, "pop", "submit") /\ Take(d)

(* Mutant of PopNothing: the worker ends when it finds its queue empty. *)
PopNothingEnds(d) ==
  /\ queue[d] = << >>
  /\ WorkerAt(d, "pop", "exited")
  /\ UNCHANGED <<stalled, added, caller, at, sent, queue, running, item,
                 received, dropped>>

(* sleep, then look at running_ again *)
PopNothing(d) ==
  /\ queue[d] = << >>
  /\ WorkerAt(d, "pop", "check")
  /\ UNCHANGED <<stalled, added, caller, at, sent, queue, running, item,
                 received, dropped>>

(* The messages that remain once running_ is false. *)
Drain(d) == WorkerAt(d, "drain", "drain_submit") /\ Take(d)

Exit(d) ==
  /\ queue[d] = << >>
  /\ WorkerAt(d, "drain", "exited")
  /\ UNCHANGED <<stalled, added, caller, at, sent, queue, running, item,
                 received, dropped>>

SinkSubmit(d) ==
  /\ \/ WorkerAt(d, "submit", "check")
     \/ WorkerAt(d, "drain_submit", "drain")
  /\ received' = [received EXCEPT ![d] = Append(@, item[d])]
  /\ item' = [item EXCEPT ![d] = 0]
  /\ UNCHANGED <<stalled, added, caller, at, sent, queue, running, dropped>>

-----------------------------------------------------------------------------
Dispatching == Push \/ PushRefused \/ DropOldest \/ PushAgain

Caller ==
  \/ AddDownstream
  \/ AddEnds
  \/ Dispatch
  \/ Dispatching
  \/ Destroy
  \/ Stop
  \/ Join

Loop(d) ==
  \/ CheckRunning(d)
  \/ Pop(d)
  \/ PopNothing(d)
  \/ Drain(d)
  \/ Exit(d)

Next == Caller \/ \E d \in Ds : Loop(d) \/ SinkSubmit(d)

(* The threads run, main finishes what it began, and a sink that is not
   stalled returns.  Nothing makes the caller dispatch or destroy. *)
Fairness ==
  /\ WF_vars(AddDownstream \/ AddEnds \/ Dispatching \/ Stop \/ Join)
  /\ \A d \in Ds :
       /\ WF_vars(Loop(d))
       /\ WF_vars(d \notin stalled /\ SinkSubmit(d))

Spec == Init /\ [][Next]_vars /\ Fairness

-----------------------------------------------------------------------------
Held(d) == IF item[d] = 0 THEN << >> ELSE <<item[d]>>
Pipeline(d) == received[d] \o Held(d) \o queue[d]

(* Every variable stays within its range. *)
TypeOK ==
  /\ caller \in {"add", "idle", "push", "drop", "again", "stop", "join", "destroyed"}
  /\ added \in 0..Downstreams
  /\ at = 1 \/ at \in 1..added
  /\ sent \in 0..MaxMessages
  /\ queue \in [Ds -> Seq(1..MaxMessages)]
  /\ running \in [Ds -> BOOLEAN]
  /\ worker \in [Ds -> {"none", "check", "pop", "submit", "drain", "drain_submit",
                        "exited"}]
  /\ item \in [Ds -> 0..MaxMessages]
  /\ received \in [Ds -> Seq(1..MaxMessages)]
  /\ dropped \in [Ds -> SUBSET (1..MaxMessages)]

(* How far the dispatching of messages has come at d. *)
Reached(d) ==
  IF caller \in {"push", "drop", "again"} /\ d >= at THEN sent - 1 ELSE sent

(* Every message a downstream was given is in its sink, on its way there in
   order, or was dropped from its full queue; none is in two places
   (Dispatcher.cpp:19-44, 77-81). *)
Accounted ==
  \A d \in 1..added :
    /\ \A i, j \in DOMAIN Pipeline(d) : i < j => Pipeline(d)[i] < Pipeline(d)[j]
    /\ Range(Pipeline(d)) \intersect dropped[d] = {}
    /\ Range(Pipeline(d)) \union dropped[d] = 1..Reached(d)

(* Once a downstream is joined nothing is left behind in its queue: it was
   drained after running_ went false (Dispatcher.cpp:14-17, 40-43). *)
StopDrains ==
  \A d \in Ds : worker[d] = "exited" => Pipeline(d) = received[d]

(* What is dropped at one downstream is older than all that is still queued
   there, so a slow sink sees the newest messages. *)
DropsOldest ==
  \A d \in Ds : \A i \in DOMAIN queue[d] : \A m \in dropped[d] : m < queue[d][i]

(* A sink that never returns does not hold up the caller, and so neither the
   other downstreams (Dispatcher.cpp:19-25). *)
DispatchReturns == caller = "push" ~> caller = "idle"

(* A message that a downstream accepted reaches its sink, or is thrown away
   for a newer one, whatever the other sinks do. *)
OthersServed ==
  \A d \in Ds, m \in 1..MaxMessages :
    m \in Range(queue[d]) /\ d \notin stalled ~>
      m \in Range(received[d]) \union dropped[d]

(* When no sink stalls the destructor comes to an end (Dispatcher.cpp:53-57). *)
DestructorReturns == caller = "stop" /\ stalled = {} ~> caller = "destroyed"
=============================================================================
