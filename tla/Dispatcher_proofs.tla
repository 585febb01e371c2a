-------------------------- MODULE Dispatcher_proofs --------------------------
(***************************************************************************)
(* Dispatcher for any number of downstreams and messages and queues of any *)
(* length: no message is lost but those that are dropped from a full queue *)
(* for a newer one, each sink is given its messages in order and once, and *)
(* the destructor leaves nothing behind.                                   *)
(***************************************************************************)
EXTENDS Dispatcher, SequenceLemmas

(* The caller's loop is at one of the downstreams there are, and dispatches a
   message with a number; outside the loop it is set to begin with the first. *)
CallerInv ==
  /\ caller \in {"push", "drop", "again", "stop", "join"} => at \in 1..added
  /\ caller \in {"push", "drop", "again"} => sent > 0
  /\ caller \in {"add", "idle", "destroyed"} => at = 1

(* A queue stays within its places, and has room for the second try_push. *)
RoomInv ==
  /\ \A d \in Ds : Len(queue[d]) <= QueueCap
  /\ caller = "again" => Len(queue[at]) < QueueCap

(* A worker holds a message exactly while it is to hand it to its sink; it
   leaves its loop only when it was told to, and with nothing left. *)
WorkerInv ==
  \A d \in Ds :
    /\ item[d] # 0 <=> worker[d] \in {"submit", "drain_submit"}
    /\ worker[d] \in {"drain", "drain_submit", "exited"} => ~running[d]
    /\ worker[d] = "exited" => queue[d] = << >>

(* Nobody stops a downstream, or lets its worker end, while the caller may
   still submit to it. *)
RunningInv ==
  /\ caller \notin {"stop", "join", "destroyed"} => \A d \in 1..added : running[d]
  /\ \A d \in Ds : d > added => worker[d] = "none"

(* What a downstream that is added finds. *)
FreshInv ==
  caller = "add" =>
    /\ sent = 0
    /\ \A d \in Ds :
         queue[d] = << >> /\ received[d] = << >> /\ item[d] = 0 /\ dropped[d] = {}

(* The destructor goes on to the next downstream when a worker has ended. *)
DestroyInv ==
  /\ caller \in {"stop", "join"} => \A d \in 1..(at - 1) : worker[d] = "exited"
  /\ caller = "destroyed" => \A d \in 1..added : worker[d] = "exited"

(* The inductive invariant.  Accounted needs the others: that the second
   try_push finds room, that nobody pushes to a worker that may end, and that a
   downstream is added before any message is. *)
IInv ==
  /\ TypeOK
  /\ CallerInv
  /\ RoomInv
  /\ WorkerInv
  /\ RunningInv
  /\ FreshInv
  /\ DestroyInv
  /\ Accounted
  /\ DropsOldest

-----------------------------------------------------------------------------
(* A downstream finds nothing and has dropped nothing at first. *)
LEMMA InitInv == Init => IInv
<1> SUFFICES ASSUME Init PROVE IInv
  OBVIOUS
<1> USE DispatcherAssumption DEF Init
<1>1. TypeOK
  BY DEF TypeOK, Ds
<1>2. CallerInv /\ RoomInv /\ WorkerInv /\ RunningInv /\ FreshInv /\ DestroyInv
  BY DEF CallerInv, RoomInv, WorkerInv, RunningInv, FreshInv, DestroyInv, Ds
<1>3. Accounted /\ DropsOldest
  BY DEF Accounted, DropsOldest, Ds
<1> QED
  BY <1>1, <1>2, <1>3 DEF IInv

(* What the operations on a queue or on what a sink received return. *)
LEMMA QueueOperations ==
  ASSUME TypeOK, NEW d \in Ds
  PROVE  /\ queue[d] \in Seq(1..MaxMessages)
         /\ received[d] \in Seq(1..MaxMessages)
         /\ sent > 0 => Append(queue[d], sent) \in Seq(1..MaxMessages)
         /\ item[d] # 0 => Append(received[d], item[d]) \in Seq(1..MaxMessages)
         /\ queue[d] # << >> => /\ Head(queue[d]) \in 1..MaxMessages
                               /\ Tail(queue[d]) \in Seq(1..MaxMessages)
                               /\ Len(Tail(queue[d])) = Len(queue[d]) - 1
<1>1. queue[d] \in Seq(1..MaxMessages) /\ received[d] \in Seq(1..MaxMessages)
  BY DEF TypeOK
<1>2. ASSUME sent > 0 PROVE Append(queue[d], sent) \in Seq(1..MaxMessages)
  <2>1. sent \in 1..MaxMessages
    BY <1>2, DispatcherAssumption DEF TypeOK
  <2> QED
    BY <1>1, <2>1, AppendProperties
<1>3. ASSUME item[d] # 0 PROVE Append(received[d], item[d]) \in Seq(1..MaxMessages)
  <2>1. item[d] \in 1..MaxMessages
    BY <1>3, DispatcherAssumption DEF TypeOK
  <2> QED
    BY <1>1, <2>1, AppendProperties
<1>4. ASSUME queue[d] # << >>
      PROVE  /\ Head(queue[d]) \in 1..MaxMessages
             /\ Tail(queue[d]) \in Seq(1..MaxMessages)
             /\ Len(Tail(queue[d])) = Len(queue[d]) - 1
  BY <1>1, <1>4, HeadTailProperties
<1> QED
  BY <1>1, <1>2, <1>3, <1>4

(* No step takes a variable out of its range. *)
LEMMA TypeStep == TypeOK /\ CallerInv /\ WorkerInv /\ [Next]_vars => TypeOK'
<1> SUFFICES ASSUME TypeOK, CallerInv, WorkerInv, [Next]_vars PROVE TypeOK'
  OBVIOUS
<1> USE DispatcherAssumption DEF TypeOK, CallerInv
<1>0. Ds \subseteq Int /\ 1..added \subseteq Ds
  BY DEF Ds
<1>1. CASE AddDownstream BY <1>1 DEF AddDownstream, Ds
<1>2. CASE AddEnds BY <1>2 DEF AddEnds
<1>3. CASE Dispatch BY <1>3 DEF Dispatch
<1>4. CASE Push
  <2>1. Append(queue[at], sent) \in Seq(1..MaxMessages)
    BY <1>0, <1>4, QueueOperations DEF Push
  <2>2. queue' \in [Ds -> Seq(1..MaxMessages)]
    BY <1>0, <1>4, <2>1, Zenon DEF Push, Put
  <2>3. caller' \in {"push", "idle"} /\ (at' = 1 \/ at' \in 1..added)
    BY <1>4 DEF Push, Advance
  <2>4. UNCHANGED <<added, sent, running, worker, item, received, dropped>>
    BY <1>4 DEF Push
  <2> QED
    BY <2>2, <2>3, <2>4
<1>5. CASE PushRefused BY <1>5 DEF PushRefused
<1>6. CASE DropOldest
  <2>1. at \in Ds
    BY <1>0, <1>6 DEF DropOldest
  <2>2. CASE queue[at] = << >>
    BY <1>6, <2>2 DEF DropOldest
  <2>3. CASE queue[at] # << >>
    <3>1. Head(queue[at]) \in 1..MaxMessages /\ Tail(queue[at]) \in Seq(1..MaxMessages)
      BY <2>1, <2>3, QueueOperations
    <3>2. /\ queue' = [queue EXCEPT ![at] = Tail(@)]
          /\ dropped' = [dropped EXCEPT ![at] = @ \union {Head(queue[at])}]
          /\ caller' = "again"
          /\ UNCHANGED <<stalled, added, at, sent, running, worker, item, received>>
      BY <1>6, <2>3 DEF DropOldest
    <3>3. queue' \in [Ds -> Seq(1..MaxMessages)]
      BY <3>1, <3>2, <2>1
    <3>4. dropped' \in [Ds -> SUBSET (1..MaxMessages)]
      BY <3>1, <3>2, <2>1
    <3> QED
      BY <3>2, <3>3, <3>4
  <2> QED BY <2>2, <2>3
<1>7. CASE PushAgain
  <2>1. Append(queue[at], sent) \in Seq(1..MaxMessages)
    BY <1>0, <1>7, QueueOperations DEF PushAgain
  <2>2. queue' \in [Ds -> Seq(1..MaxMessages)]
    BY <1>0, <1>7, <2>1, Zenon DEF PushAgain, Put
  <2>3. caller' \in {"push", "idle"} /\ (at' = 1 \/ at' \in 1..added)
    BY <1>7 DEF PushAgain
  <2>4. UNCHANGED <<added, sent, running, worker, item, received, dropped>>
    BY <1>7 DEF PushAgain
  <2> QED
    BY <2>2, <2>3, <2>4
<1>8. CASE Destroy BY <1>8 DEF Destroy
<1>9. CASE Stop BY <1>9 DEF Stop
<1>10. CASE Join BY <1>10 DEF Join
<1>11. ASSUME NEW d \in Ds, Take(d) PROVE /\ item' \in [Ds -> 0..MaxMessages]
                                         /\ queue' \in [Ds -> Seq(1..MaxMessages)]
  <2>1. Head(queue[d]) \in 0..MaxMessages /\ Tail(queue[d]) \in Seq(1..MaxMessages)
    BY <1>11, QueueOperations DEF Take
  <2> QED
    BY <1>11, <2>1 DEF Take
<1>12. ASSUME NEW d \in Ds, Loop(d) PROVE TypeOK'
  <2>1. CASE CheckRunning(d) BY <2>1 DEF CheckRunning, WorkerAt
  <2>2. CASE Pop(d) BY <1>11, <2>2 DEF Pop, WorkerAt, Take
  <2>3. CASE PopNothing(d) BY <2>3 DEF PopNothing, WorkerAt
  <2>4. CASE Drain(d) BY <1>11, <2>4 DEF Drain, WorkerAt, Take
  <2>5. CASE Exit(d) BY <2>5 DEF Exit, WorkerAt
  <2> QED BY <1>12, <2>1, <2>2, <2>3, <2>4, <2>5 DEF Loop
<1>13. ASSUME NEW d \in Ds, SinkSubmit(d) PROVE TypeOK'
  <2>1. Append(received[d], item[d]) \in Seq(1..MaxMessages)
    BY <1>13, QueueOperations DEF SinkSubmit, WorkerAt, WorkerInv
  <2>2. received' \in [Ds -> Seq(1..MaxMessages)]
    BY <1>13, <2>1, Zenon DEF SinkSubmit
  <2>3. /\ \/ worker' = [worker EXCEPT ![d] = "check"]
           \/ worker' = [worker EXCEPT ![d] = "drain"]
        /\ item' = [item EXCEPT ![d] = 0]
        /\ UNCHANGED <<added, caller, at, sent, queue, running, dropped>>
    BY <1>13, Zenon DEF SinkSubmit, WorkerAt
  <2>4. worker' \in [Ds -> {"none", "check", "pop", "submit", "drain", "drain_submit",
                           "exited"}]
    BY <2>3
  <2> QED
    BY <2>2, <2>3, <2>4
<1>14. CASE UNCHANGED vars
  BY <1>14 DEF vars
<1> QED
  BY <1>1, <1>2, <1>3, <1>4, <1>5, <1>6, <1>7, <1>8, <1>9, <1>10, <1>12, <1>13, <1>14
     DEF Next, Caller, Dispatching
(* The loop over the downstreams starts at the first and ends at the last. *)
LEMMA CallerStep == TypeOK /\ CallerInv /\ [Next]_vars => CallerInv'
<1> SUFFICES ASSUME TypeOK, CallerInv, [Next]_vars PROVE CallerInv'
  OBVIOUS
<1> USE DispatcherAssumption DEF TypeOK, CallerInv
<1>1. CASE AddDownstream BY <1>1 DEF AddDownstream
<1>2. CASE AddEnds BY <1>2 DEF AddEnds
<1>3. CASE Dispatch BY <1>3 DEF Dispatch
<1>4. CASE Push BY <1>4 DEF Push, Advance
<1>5. CASE PushRefused BY <1>5 DEF PushRefused
<1>6. CASE DropOldest BY <1>6 DEF DropOldest
<1>7. CASE PushAgain BY <1>7 DEF PushAgain
<1>8. CASE Destroy BY <1>8 DEF Destroy
<1>9. CASE Stop BY <1>9 DEF Stop
<1>10. CASE Join BY <1>10 DEF Join
<1>11. ASSUME NEW d \in Ds, Loop(d) \/ SinkSubmit(d) PROVE CallerInv'
  <2>1. UNCHANGED <<added, caller, at, sent>>
    BY <1>11, Zenon
       DEF Loop, CheckRunning, Pop, PopNothing, Drain, Exit, Take, SinkSubmit
  <2> QED
    BY <2>1
<1>12. CASE UNCHANGED vars
  BY <1>12 DEF vars
<1> QED
  BY <1>1, <1>2, <1>3, <1>4, <1>5, <1>6, <1>7, <1>8, <1>9, <1>10, <1>11, <1>12
     DEF Next, Caller, Dispatching

(* A full queue is never pushed to: the second try_push finds the place that
   the first one missed, as nobody else pushes. *)
LEMMA RoomStep == TypeOK /\ CallerInv /\ RoomInv /\ [Next]_vars => RoomInv'
<1> SUFFICES ASSUME TypeOK, CallerInv, RoomInv, [Next]_vars PROVE RoomInv'
  OBVIOUS
<1>0. /\ added \in Nat /\ 1..added \subseteq Ds /\ QueueCap \in Nat /\ QueueCap > 0
      /\ \A d \in Ds : Len(queue[d]) \in Nat /\ Len(queue[d]) <= QueueCap
      /\ \A d \in Ds : queue[d] \in Seq(1..MaxMessages)
      /\ DOMAIN queue = Ds
      /\ caller = "again" => Len(queue[at]) < QueueCap
  BY DispatcherAssumption, QueueOperations, LenProperties DEF TypeOK, RoomInv, Ds
<1>1. ASSUME Put(at), at \in Ds, Len(queue[at]) < QueueCap, caller' # "again"
      PROVE  RoomInv'
  <2>1. /\ DOMAIN queue' = Ds
        /\ queue'[at] = Append(queue[at], sent)
        /\ \A d \in Ds \ {at} : queue'[d] = queue[d]
    BY <1>0, <1>1, Zenon DEF Put
  <2>2. Len(queue'[at]) = Len(queue[at]) + 1
    BY <1>0, <1>1, <2>1
  <2> QED
    BY <1>0, <1>1, <2>1, <2>2 DEF RoomInv
<1>2. ASSUME NEW d \in Ds, queue[d] # << >>, queue' = [queue EXCEPT ![d] = Tail(@)]
      PROVE  /\ Len(queue'[d]) < Len(queue[d])
             /\ \A e \in Ds \ {d} : queue'[e] = queue[e]
             /\ \A e \in Ds : Len(queue'[e]) \in Nat /\ Len(queue'[e]) <= Len(queue[e])
  <2>1. /\ queue'[d] = Tail(queue[d])
        /\ \A e \in Ds \ {d} : queue'[e] = queue[e]
    BY <1>0, <1>2, Zenon
  <2>2. Len(queue'[d]) = Len(queue[d]) - 1 /\ Len(queue[d]) > 0
    BY <1>0, <1>2, <2>1, QueueOperations
  <2> QED
    BY <1>0, <2>1, <2>2
<1>3. CASE Push
  <2>1. at \in Ds /\ Put(at) /\ Len(queue[at]) < QueueCap /\ caller' # "again"
    BY <1>0, <1>3 DEF Push, CallerInv, Advance
  <2> QED BY <1>1, <2>1
<1>4. CASE DropOldest
  <2>1. at \in Ds /\ at' = at
    BY <1>0, <1>4 DEF DropOldest, CallerInv
  <2>2. CASE queue[at] = << >>
    <3>1. queue' = queue /\ Len(queue[at]) = 0
      BY <1>4, <2>2 DEF DropOldest
    <3> QED
      BY <1>0, <2>1, <3>1 DEF RoomInv
  <2>3. CASE queue[at] # << >>
    <3>1. queue' = [queue EXCEPT ![at] = Tail(@)]
      BY <1>4, <2>3, Zenon DEF DropOldest
    <3> QED
      BY <1>0, <1>2, <2>1, <2>3, <3>1 DEF RoomInv
  <2> QED BY <2>2, <2>3
<1>5. CASE PushAgain
  <2>1. at \in Ds /\ Put(at) /\ Len(queue[at]) < QueueCap /\ caller' # "again"
    BY <1>0, <1>5 DEF PushAgain, CallerInv
  <2> QED BY <1>1, <2>1
<1>6. ASSUME NEW d \in Ds, Take(d) PROVE RoomInv'
  <2>1. /\ queue[d] # << >>
        /\ queue' = [queue EXCEPT ![d] = Tail(@)]
        /\ UNCHANGED <<caller, at, added>>
    BY <1>6, Zenon DEF Take
  <2>2. caller = "again" => at \in Ds
    BY <1>0 DEF CallerInv
  <2> QED
    BY <1>0, <1>2, <2>1, <2>2 DEF RoomInv
<1>7. ASSUME UNCHANGED queue, caller' # "again" \/ UNCHANGED <<caller, at>>
      PROVE  RoomInv'
  BY <1>7 DEF RoomInv
<1>8. ASSUME NEW d \in Ds, Loop(d) \/ SinkSubmit(d) PROVE RoomInv'
  <2>1. Take(d) \/ UNCHANGED <<queue, caller, at>>
    BY <1>8, Zenon
       DEF Loop, CheckRunning, Pop, PopNothing, Drain, Exit, SinkSubmit
  <2> QED
    BY <1>6, <1>7, <2>1
<1>9. CASE AddDownstream \/ AddEnds \/ Dispatch \/ PushRefused \/ Destroy \/ Stop \/ Join
  <2>1. UNCHANGED queue /\ (caller' # "again" \/ UNCHANGED <<caller, at>>)
    BY <1>9 DEF AddDownstream, AddEnds, Dispatch, PushRefused, Destroy, Stop, Join
  <2> QED
    BY <1>7, <2>1
<1>10. CASE UNCHANGED vars
  BY <1>7, <1>10 DEF vars
<1> QED
  BY <1>3, <1>4, <1>5, <1>8, <1>9, <1>10 DEF Next, Caller, Dispatching
(* What a step of a worker, or of its sink, leaves alone. *)
LEMMA WorkerFrame ==
  ASSUME NEW d \in Ds, TypeOK, Loop(d) \/ SinkSubmit(d)
  PROVE  /\ UNCHANGED <<added, caller, at, sent, running, dropped, stalled>>
         /\ \A e \in Ds \ {d} : /\ worker'[e] = worker[e]
                                /\ queue'[e] = queue[e]
                                /\ item'[e] = item[e]
                                /\ received'[e] = received[e]
<1>1. UNCHANGED <<added, caller, at, sent, running, dropped, stalled>>
  BY Zenon DEF Loop, CheckRunning, Pop, PopNothing, Drain, Exit, Take, SinkSubmit
<1>2. \A e \in Ds \ {d} : worker'[e] = worker[e]
  BY DEF TypeOK, Loop, CheckRunning, Pop, PopNothing, Drain, Exit, SinkSubmit, WorkerAt
<1>3. \A e \in Ds \ {d} : queue'[e] = queue[e] /\ item'[e] = item[e]
  BY Zenon DEF TypeOK, Loop, CheckRunning, Pop, PopNothing, Drain, Exit, Take, SinkSubmit
<1>4. \A e \in Ds \ {d} : received'[e] = received[e]
  BY Zenon DEF TypeOK, Loop, CheckRunning, Pop, PopNothing, Drain, Exit, Take, SinkSubmit
<1> QED
  BY <1>1, <1>2, <1>3, <1>4

(* While the caller pushes, all that were added run; what is not added has no
   worker. *)
LEMMA RunningStep == TypeOK /\ CallerInv /\ RunningInv /\ [Next]_vars => RunningInv'
<1> SUFFICES ASSUME TypeOK, CallerInv, RunningInv, [Next]_vars PROVE RunningInv'
  OBVIOUS
<1>1. CASE AddDownstream
  BY <1>1, DispatcherAssumption DEF AddDownstream, RunningInv, TypeOK, Ds
<1>2. CASE Stop
  BY <1>2, DispatcherAssumption DEF Stop, RunningInv, TypeOK
<1>3. CASE AddEnds \/ Dispatch \/ Dispatching \/ Destroy \/ Join
  <2>1. UNCHANGED <<added, running, worker>>
    BY <1>3 DEF AddEnds, Dispatch, Dispatching, Push, PushRefused, DropOldest,
                PushAgain, Destroy, Join
  <2>2. caller' \notin {"stop", "join", "destroyed"} =>
          caller \notin {"stop", "join", "destroyed"}
    BY <1>3 DEF AddEnds, Dispatch, Dispatching, Push, PushRefused, DropOldest,
                PushAgain, Destroy, Join
  <2> QED
    BY <2>1, <2>2 DEF RunningInv
<1>4. ASSUME NEW d \in Ds, Loop(d) \/ SinkSubmit(d) PROVE RunningInv'
  <2>1. worker[d] # "none"
    BY <1>4 DEF Loop, CheckRunning, Pop, PopNothing, Drain, Exit, SinkSubmit, WorkerAt
  <2>2. UNCHANGED <<added, caller, running>> /\ \A e \in Ds \ {d} : worker'[e] = worker[e]
    BY <1>4, WorkerFrame
  <2> QED
    BY <2>1, <2>2 DEF RunningInv
<1>5. CASE UNCHANGED vars
  BY <1>5 DEF vars, RunningInv
<1> QED
  BY <1>1, <1>2, <1>3, <1>4, <1>5 DEF Next, Caller

(* The downstreams the caller dispatches to have workers that run. *)
LEMMA CallerRuns ==
  ASSUME TypeOK, CallerInv, RunningInv, WorkerInv, caller \in {"push", "drop", "again"}
  PROVE  /\ at \in Ds
         /\ running[at]
         /\ worker[at] \notin {"drain", "drain_submit", "exited"}
BY DispatcherAssumption DEF TypeOK, CallerInv, RunningInv, WorkerInv, Ds

(* A worker that ended was told to, and found its queue empty; nothing is put
   into it afterwards. *)
LEMMA WorkerStep ==
  TypeOK /\ CallerInv /\ RunningInv /\ WorkerInv /\ FreshInv /\ [Next]_vars => WorkerInv'
<1> SUFFICES ASSUME TypeOK, CallerInv, RunningInv, WorkerInv, FreshInv, [Next]_vars
             PROVE  WorkerInv'
  OBVIOUS
<1>1. CASE AddDownstream
  BY <1>1, DispatcherAssumption DEF AddDownstream, FreshInv, WorkerInv, RunningInv, TypeOK, Ds
<1>2. CASE Stop
  BY <1>2 DEF Stop, WorkerInv, TypeOK
<1>3. CASE Push \/ PushRefused \/ DropOldest \/ PushAgain
  <2>1. /\ UNCHANGED <<item, worker, running>>
        /\ caller \in {"push", "drop", "again"}
    BY <1>3 DEF Push, PushRefused, DropOldest, PushAgain
  <2>2. \A d \in Ds \ {at} : queue'[d] = queue[d]
    BY <1>3, Zenon DEF TypeOK, Push, PushRefused, DropOldest, PushAgain, Put
  <2> QED
    BY <2>1, <2>2, CallerRuns DEF WorkerInv
<1>4. CASE AddEnds \/ Dispatch \/ Destroy \/ Join
  BY <1>4 DEF AddEnds, Dispatch, Destroy, Join, WorkerInv
<1>5. ASSUME NEW d \in Ds, Loop(d) \/ SinkSubmit(d) PROVE WorkerInv'
  <2>1. /\ UNCHANGED running
        /\ \A e \in Ds \ {d} : /\ worker'[e] = worker[e]
                               /\ queue'[e] = queue[e]
                               /\ item'[e] = item[e]
    BY <1>5, WorkerFrame
  <2>2. /\ item'[d] # 0 <=> worker'[d] \in {"submit", "drain_submit"}
        /\ worker'[d] \in {"drain", "drain_submit", "exited"} => ~running[d]
        /\ worker'[d] = "exited" => queue'[d] = << >>
    <3>1. CASE CheckRunning(d) BY <3>1 DEF CheckRunning, WorkerAt, WorkerInv, TypeOK
    <3>2. ASSUME Take(d) PROVE item'[d] # 0
      <4>1. Head(queue[d]) \in 1..MaxMessages
        BY <3>2, QueueOperations DEF Take
      <4>2. item'[d] = Head(queue[d])
        BY <3>2, Zenon DEF Take, TypeOK
      <4> QED BY <4>1, <4>2
    <3>3. CASE Pop(d) BY <3>2, <3>3 DEF Pop, WorkerAt, WorkerInv, TypeOK
    <3>4. CASE PopNothing(d) BY <3>4 DEF PopNothing, WorkerAt, WorkerInv, TypeOK
    <3>5. CASE Drain(d) BY <3>2, <3>5 DEF Drain, WorkerAt, WorkerInv, TypeOK
    <3>6. CASE Exit(d) BY <3>6 DEF Exit, WorkerAt, WorkerInv, TypeOK
    <3>7. CASE SinkSubmit(d)
      <4>1. /\ item' = [item EXCEPT ![d] = 0]
            /\ \/ worker[d] = "submit" /\ worker' = [worker EXCEPT ![d] = "check"]
               \/ worker[d] = "drain_submit" /\ worker' = [worker EXCEPT ![d] = "drain"]
        BY <3>7, Zenon DEF SinkSubmit, WorkerAt
      <4> QED
        BY <4>1 DEF WorkerInv, TypeOK
    <3> QED
      BY <1>5, <3>1, <3>3, <3>4, <3>5, <3>6, <3>7 DEF Loop
  <2> QED
    BY <2>1, <2>2 DEF WorkerInv
<1>6. CASE UNCHANGED vars
  BY <1>6 DEF vars, WorkerInv
<1> QED
  BY <1>1, <1>2, <1>3, <1>4, <1>5, <1>6 DEF Next, Caller, Dispatching

(* Nothing is dispatched before all are added. *)
LEMMA FreshStep == TypeOK /\ WorkerInv /\ FreshInv /\ [Next]_vars => FreshInv'
<1> SUFFICES ASSUME TypeOK, WorkerInv, FreshInv, [Next]_vars, caller' = "add"
             PROVE  FreshInv'
  BY DEF FreshInv
<1>1. CASE AddDownstream BY <1>1 DEF AddDownstream, FreshInv
<1>2. CASE AddEnds \/ Dispatch \/ Dispatching \/ Destroy \/ Stop \/ Join
  BY <1>2 DEF AddEnds, Dispatch, Dispatching, Push, PushRefused, DropOldest, PushAgain,
              Destroy, Stop, Join, Advance
<1>3. ASSUME NEW d \in Ds, Loop(d) \/ SinkSubmit(d) PROVE FreshInv'
  <2>1. UNCHANGED <<caller, sent, dropped>>
    BY <1>3, WorkerFrame
  <2>2. item[d] = 0 /\ queue[d] = << >>
    BY <2>1 DEF FreshInv
  <2>3. UNCHANGED <<queue, item, received>>
    BY <1>3, <2>2, Zenon DEF Loop, CheckRunning, Pop, PopNothing, Drain, Exit, Take,
                         SinkSubmit, WorkerAt, WorkerInv
  <2> QED
    BY <2>1, <2>3 DEF FreshInv
<1>4. CASE UNCHANGED vars
  BY <1>4 DEF vars, FreshInv
<1> QED
  BY <1>1, <1>2, <1>3, <1>4 DEF Next, Caller

(* The destructor leaves a downstream when its worker has ended, and none that
   ended works again. *)
LEMMA DestroyStep == TypeOK /\ CallerInv /\ DestroyInv /\ [Next]_vars => DestroyInv'
<1> SUFFICES ASSUME TypeOK, CallerInv, DestroyInv, [Next]_vars PROVE DestroyInv'
  OBVIOUS
<1>0. added \in Nat /\ at \in Nat
  BY DispatcherAssumption DEF TypeOK
<1>1. CASE AddDownstream \/ AddEnds \/ Dispatch \/ Dispatching
  <2>1. caller' \notin {"stop", "join", "destroyed"}
    BY <1>1 DEF AddDownstream, AddEnds, Dispatch, Dispatching, Push, PushRefused,
                DropOldest, PushAgain, Advance
  <2> QED
    BY <2>1 DEF DestroyInv
<1>2. CASE Destroy
  BY <1>2 DEF Destroy, DestroyInv, CallerInv
<1>3. CASE Stop
  BY <1>3 DEF Stop, DestroyInv
<1>4. CASE Join
  <2>1. \A d \in 1..at : worker'[d] = "exited"
    BY <1>0, <1>4 DEF Join, DestroyInv
  <2>2. at \in 1..added
    BY <1>4 DEF Join, CallerInv
  <2> QED
    BY <1>0, <1>4, <2>1, <2>2 DEF Join, DestroyInv
<1>5. ASSUME NEW d \in Ds, Loop(d) \/ SinkSubmit(d) PROVE DestroyInv'
  <2>1. /\ UNCHANGED <<added, caller, at>>
        /\ \A e \in Ds \ {d} : worker'[e] = worker[e]
    BY <1>5, WorkerFrame
  <2>2. worker[d] # "exited"
    BY <1>5 DEF Loop, CheckRunning, Pop, PopNothing, Drain, Exit, SinkSubmit, WorkerAt
  <2>3. caller \in {"stop", "join"} => 1..(at - 1) \subseteq Ds
    BY <1>0, DispatcherAssumption DEF TypeOK, CallerInv, Ds
  <2>4. 1..added \subseteq Ds
    BY <1>0, DispatcherAssumption DEF TypeOK, Ds
  <2> QED
    BY <2>1, <2>2, <2>3, <2>4 DEF DestroyInv
<1>6. CASE UNCHANGED vars
  BY <1>6 DEF vars, DestroyInv
<1> QED
  BY <1>1, <1>2, <1>3, <1>4, <1>5, <1>6 DEF Next, Caller

-----------------------------------------------------------------------------
(* Where the messages are, of one downstream: in order in its pipeline, or
   dropped, the first n of them and none twice. *)
Places(pipeline, lost, n) ==
  /\ Ascending(pipeline)
  /\ Range(pipeline) \intersect lost = {}
  /\ Range(pipeline) \union lost = 1..n

(* Accounted says this of every downstream that was added. *)
LEMMA AccountedPlaces ==
  Accounted <=> \A d \in 1..added : Places(Pipeline(d), dropped[d], Reached(d))
BY Zenon DEF Accounted, Places, Ascending

(* The next message goes to the end. *)
LEMMA PlacesAppend ==
  ASSUME NEW p \in Seq(Nat), NEW lost, NEW n \in Nat \ {0}, Places(p, lost, n - 1)
  PROVE  Places(p \o <<n>>, lost, n)
<1>1. <<n>> \in Seq(Nat) /\ Range(<<n>>) = {n} /\ Ascending(<<n>>)
  BY NumbersAppend DEF Ascending
<1>2. Range(p) \union lost = 1..(n - 1) /\ Range(p) \intersect lost = {} /\ Ascending(p)
  BY DEF Places
<1>3. Range(p \o <<n>>) = Range(p) \union {n}
  <2>1. Range(p \o <<n>>) = Range(p) \union Range(<<n>>)
    BY <1>1, NumbersConcat
  <2> QED
    BY <1>1, <2>1
<1>4. \A x \in Range(p), y \in Range(<<n>>) : x < y
  BY <1>1, <1>2
<1>5. Ascending(p \o <<n>>)
  BY <1>1, <1>2, <1>4, AscendingConcat
<1>6. Range(p \o <<n>>) \intersect lost = {}
  BY <1>2, <1>3
<1>7. Range(p \o <<n>>) \union lost = 1..n
  <2>1. 1..n = (1..(n - 1)) \union {n}
    OBVIOUS
  <2> QED BY <1>2, <1>3, <2>1
<1> QED
  BY <1>5, <1>6, <1>7 DEF Places

(* A message that is dropped is lost, and older than those behind it. *)
LEMMA PlacesDrop ==
  ASSUME NEW s \in Seq(Nat), NEW x \in Nat, NEW t \in Seq(Nat), NEW lost, NEW n,
         Places(s \o (<<x>> \o t), lost, n)
  PROVE  /\ Places(s \o t, lost \union {x}, n)
         /\ \A y \in Range(t) : x < y
<1>1. Ascending(s \o (<<x>> \o t))
  BY DEF Places
<1>2. /\ Ascending(s \o t)
      /\ Range(s \o (<<x>> \o t)) = {x} \union Range(s \o t)
      /\ x \notin Range(s \o t)
      /\ \A y \in Range(t) : x < y
  BY <1>1, AscendingWithout
<1> QED
  BY <1>2 DEF Places

-----------------------------------------------------------------------------
(* The pipeline is a sequence of numbers, and its parts are. *)
LEMMA PipelineParts ==
  ASSUME TypeOK, NEW d \in Ds
  PROVE  /\ received[d] \in Seq(Nat) /\ Held(d) \in Seq(Nat) /\ queue[d] \in Seq(Nat)
         /\ received[d] \o Held(d) \in Seq(Nat)
         /\ Pipeline(d) = (received[d] \o Held(d)) \o queue[d]
         /\ Pipeline(d) \in Seq(Nat)
<1>1. 1..MaxMessages \subseteq Nat
  OBVIOUS
<1>2. received[d] \in Seq(Nat) /\ queue[d] \in Seq(Nat)
  BY <1>1, QueueOperations, SeqMonotonic
<1>3. Held(d) \in Seq(Nat)
  BY DispatcherAssumption DEF TypeOK, Held
<1>4. received[d] \o Held(d) \in Seq(Nat)
  BY <1>2, <1>3, ConcatProperties
<1>5. (received[d] \o Held(d)) \o queue[d] \in Seq(Nat)
  BY <1>2, <1>4, ConcatProperties
<1> QED
  BY <1>2, <1>3, <1>4, <1>5 DEF Pipeline

(* A message the worker takes stays where it is in the pipeline. *)
LEMMA TakeKeeps ==
  ASSUME TypeOK, NEW d \in Ds, Take(d), item[d] = 0
  PROVE  Pipeline(d)' = Pipeline(d)
<1>1. /\ received'[d] = received[d]
      /\ queue[d] # << >>
      /\ queue'[d] = Tail(queue[d])
      /\ item'[d] = Head(queue[d])
  BY Zenon DEF Take, TypeOK
<1>2. /\ Head(queue[d]) \in 1..MaxMessages
      /\ Tail(queue[d]) \in Seq(1..MaxMessages)
      /\ queue[d] \in Seq(1..MaxMessages)
      /\ received[d] \in Seq(1..MaxMessages)
  BY <1>1, QueueOperations
<1>3. queue[d] = <<Head(queue[d])>> \o Tail(queue[d])
  BY <1>1, <1>2, RangeOfTail
<1>4. Held(d) = << >> /\ Held(d)' = <<Head(queue[d])>>
  BY <1>1, <1>2 DEF Held
<1> DEFINE h == <<Head(queue[d])>>
<1> DEFINE t == Tail(queue[d])
<1>5. h \in Seq(Nat) /\ t \in Seq(Nat) /\ received[d] \in Seq(Nat)
  <2>1. Head(queue[d]) \in Nat /\ 1..MaxMessages \subseteq Nat
    BY <1>2
  <2>2. t \in Seq(Nat)
    BY <1>2, <2>1, SeqMonotonic
  <2>3. received[d] \in Seq(Nat)
    BY PipelineParts
  <2> QED
    BY <2>1, <2>2, <2>3, NumbersAppend
<1>6. (received[d] \o h) \o t = received[d] \o (h \o t)
  <2> HIDE DEF h, t
  <2> QED
    BY <1>5, NumbersAssociate
<1>7. received[d] \o << >> = received[d]
  BY <1>2, ConcatEmptySeq
<1>8. Pipeline(d)' = (received[d] \o <<Head(queue[d])>>) \o Tail(queue[d])
  BY <1>1, <1>4, Zenon DEF Pipeline
<1>9. Pipeline(d) = received[d] \o queue[d]
  BY <1>4, <1>7, Zenon DEF Pipeline
<1> QED
  BY <1>3, <1>6, <1>8, <1>9, Zenon

(* A message the sink is given as well. *)
LEMMA SubmitKeeps ==
  ASSUME TypeOK, WorkerInv, NEW d \in Ds, SinkSubmit(d)
  PROVE  Pipeline(d)' = Pipeline(d)
<1>1. /\ received'[d] = Append(received[d], item[d])
      /\ queue'[d] = queue[d]
      /\ item'[d] = 0
      /\ item[d] # 0
  BY Zenon DEF SinkSubmit, TypeOK, WorkerAt, WorkerInv
<1>2. item[d] \in 1..MaxMessages /\ received[d] \in Seq(1..MaxMessages)
  BY <1>1, DispatcherAssumption DEF TypeOK
<1>3. Append(received[d], item[d]) = received[d] \o <<item[d]>>
  BY <1>2, AppendIsConcat
<1>4. received[d] \o <<item[d]>> \in Seq(1..MaxMessages)
  <2>1. Append(received[d], item[d]) \in Seq(1..MaxMessages)
    BY <1>2, AppendProperties
  <2> QED BY <1>3, <2>1
<1>5. (received[d] \o <<item[d]>>) \o << >> = received[d] \o <<item[d]>>
  BY <1>4, ConcatEmptySeq
<1>6. Held(d) = <<item[d]>> /\ Held(d)' = << >>
  BY <1>1 DEF Held
<1> QED
  BY <1>1, <1>3, <1>5, <1>6, Zenon DEF Pipeline

(* A message that is put into a queue is at the end of its pipeline. *)
LEMMA PutAppends ==
  ASSUME TypeOK, NEW d \in Ds, Put(d), sent > 0, UNCHANGED <<item, received>>
  PROVE  /\ Pipeline(d)' = Pipeline(d) \o <<sent>>
         /\ Range(queue'[d]) = Range(queue[d]) \union {sent}
         /\ \A e \in Ds \ {d} : queue'[e] = queue[e] /\ Pipeline(e)' = Pipeline(e)
<1>1. /\ queue'[d] = Append(queue[d], sent)
      /\ \A e \in Ds \ {d} : queue'[e] = queue[e]
  BY Zenon DEF Put, TypeOK
<1>2. sent \in Nat /\ <<sent>> \in Seq(Nat)
  BY DEF TypeOK
<1>3. queue[d] \in Seq(Nat) /\ received[d] \o Held(d) \in Seq(Nat)
      /\ Pipeline(d) = (received[d] \o Held(d)) \o queue[d]
  BY PipelineParts
<1>4. Append(queue[d], sent) = queue[d] \o <<sent>>
  BY <1>2, <1>3, AppendIsConcat
<1> DEFINE front == received[d] \o Held(d)
<1> DEFINE new == <<sent>>
<1>5. front \o (queue[d] \o new) = (front \o queue[d]) \o new
  <2>1. front \in Seq(Nat) /\ new \in Seq(Nat)
    BY <1>2, <1>3
  <2> HIDE DEF front, new
  <2> QED
    BY <1>3, <2>1, NumbersAssociate
<1>6. \A e \in Ds : Held(e)' = Held(e) /\ received'[e] = received[e]
  BY DEF Held
<1>7. Pipeline(d)' = (received[d] \o Held(d)) \o (queue[d] \o <<sent>>)
  BY <1>1, <1>4, <1>6, Zenon DEF Pipeline
<1>8. Range(Append(queue[d], sent)) = Range(queue[d]) \union {sent}
  <2>1. sent \in Nat
    BY <1>2
  <2> HIDE DEF front, new
  <2> QED
    BY <1>3, <2>1, NumbersAppend
<1>9. \A e \in Ds \ {d} : Pipeline(e)' = Pipeline(e)
  BY <1>1, <1>6, Zenon DEF Pipeline
<1> QED
  BY <1>1, <1>3, <1>5, <1>7, <1>8, <1>9, Zenon

(* Where the caller is when it dispatches. *)
LEMMA CallerPlace ==
  ASSUME TypeOK, CallerInv, caller \in {"push", "drop", "again"}
  PROVE  /\ at \in Ds /\ at \in 1..added /\ 1..added \subseteq Ds /\ added \in Nat
         /\ sent > 0 /\ sent \in Nat
         /\ Reached(at) = sent - 1
BY DispatcherAssumption DEF CallerInv, TypeOK, Ds, Reached

(* The next message comes to at, and the loop goes on to the next downstream. *)
LEMMA PushAccounts ==
  ASSUME IInv, caller \in {"push", "again"}, Put(at),
         UNCHANGED <<added, sent, item, received, dropped>>,
         IF at < added THEN at' = at + 1 /\ caller' = "push"
                       ELSE at' = 1 /\ caller' = "idle"
  PROVE  Accounted' /\ DropsOldest'
<1>0. TypeOK /\ CallerInv
  BY DEF IInv
<1>1. PICK d \in Ds : d = at
  BY <1>0, CallerPlace
<1>2. /\ d \in 1..added /\ sent > 0 /\ sent \in Nat /\ added \in Nat
      /\ 1..added \subseteq Ds
      /\ Reached(d) = sent - 1
  BY <1>0, <1>1, CallerPlace
<1>3. /\ Pipeline(d)' = Pipeline(d) \o <<sent>>
      /\ Range(queue'[d]) = Range(queue[d]) \union {sent}
      /\ \A e \in Ds \ {d} : queue'[e] = queue[e] /\ Pipeline(e)' = Pipeline(e)
  <2>1. Put(d)
    BY <1>1
  <2> QED
    BY <1>0, <1>2, <2>1, PutAppends
<1>4. \A e \in 1..added : Reached(e)' = IF e <= d THEN sent ELSE Reached(e)
  BY <1>1, <1>2 DEF Reached
<1>5. Places(Pipeline(d), dropped[d], sent - 1)
  <2>1. Places(Pipeline(d), dropped[d], Reached(d))
    BY <1>2, AccountedPlaces DEF IInv
  <2> QED
    BY <1>2, <2>1
<1>6. Places(Pipeline(d) \o <<sent>>, dropped[d], sent)
  <2>1. Pipeline(d) \in Seq(Nat)
    BY <1>0, PipelineParts
  <2> QED
    BY <1>2, <1>5, <2>1, PlacesAppend
<1>7. \A e \in 1..added : Places(Pipeline(e)', dropped'[e], Reached(e)')
  <2> SUFFICES ASSUME NEW e \in 1..added PROVE Places(Pipeline(e)', dropped'[e], Reached(e)')
    OBVIOUS
  <2>1. CASE e = d
    <3>1. Reached(d)' = sent
      BY <1>2, <1>4
    <3> QED
      BY <1>3, <1>6, <2>1, <3>1
  <2>2. CASE e # d
    <3>1. Places(Pipeline(e), dropped[e], Reached(e))
      BY AccountedPlaces DEF IInv
    <3>2. Reached(e)' = Reached(e)
      <4>1. Reached(e) = IF e < d THEN sent ELSE sent - 1
        BY <1>1, <1>2, <2>2 DEF Reached
      <4> QED
        BY <1>2, <1>4, <2>2, <4>1
    <3> QED
      BY <1>2, <1>3, <2>2, <3>1, <3>2
  <2> QED BY <2>1, <2>2
<1>8. Accounted'
  BY <1>7, Zenon DEF Accounted, Places, Ascending
<1>9. DropsOldest'
  <2> SUFFICES ASSUME NEW e \in Ds, NEW i \in DOMAIN queue'[e], NEW m \in dropped[e]
               PROVE  m < queue'[e][i]
    BY DEF DropsOldest
  <2>1. CASE e = d
    <3>1. m < sent
      BY <1>2, <1>5, <2>1 DEF Places
    <3>2. \A x \in Range(queue[d]) : m < x
      BY <2>1, Zenon DEF IInv, DropsOldest, Range
    <3>3. queue'[e][i] \in Range(queue'[d])
      BY <2>1, Zenon DEF Range
    <3> QED
      BY <1>3, <3>1, <3>2, <3>3
  <2>2. CASE e # d
    BY <1>3, <2>2 DEF IInv, DropsOldest
  <2> QED BY <2>1, <2>2
<1> QED
  BY <1>8, <1>9

(* The oldest message of a full queue is lost, and no other. *)
LEMMA DropAccounts ==
  ASSUME IInv, DropOldest
  PROVE  Accounted' /\ DropsOldest'
<1>0. TypeOK /\ CallerInv /\ caller = "drop" /\ caller' = "again"
  BY DEF IInv, DropOldest
<1>1. /\ TypeOK /\ at \in Ds /\ at \in 1..added /\ 1..added \subseteq Ds
      /\ UNCHANGED <<added, at, sent, item, received>>
      /\ \A e : Reached(e)' = Reached(e)
      /\ \A e : Held(e)' = Held(e)
  <2>1. UNCHANGED <<added, at, sent, item, received>>
    BY DEF DropOldest
  <2>2. at \in 1..added /\ 1..added \subseteq Ds
    BY <1>0, DispatcherAssumption DEF CallerInv, TypeOK, Ds
  <2> QED
    BY <1>0, <2>1, <2>2 DEF Reached, Held
<1>2. CASE queue[at] = << >>
  <2>1. UNCHANGED <<queue, dropped>>
    BY <1>2 DEF DropOldest
  <2>2. \A e : Pipeline(e)' = Pipeline(e)
    BY <1>1, <2>1, Zenon DEF Pipeline
  <2>3. Accounted'
    BY <1>1, <2>1, <2>2, Zenon DEF IInv, Accounted
  <2>4. DropsOldest'
    BY <2>1 DEF IInv, DropsOldest
  <2> QED BY <2>3, <2>4
<1>3. CASE queue[at] # << >>
  <2> DEFINE s == received[at] \o Held(at)
  <2> DEFINE x == Head(queue[at])
  <2> DEFINE t == Tail(queue[at])
  <2>1. /\ queue'[at] = t
        /\ dropped'[at] = dropped[at] \union {x}
        /\ \A e \in Ds \ {at} : queue'[e] = queue[e] /\ dropped'[e] = dropped[e]
    BY <1>1, <1>3, Zenon DEF DropOldest, TypeOK
  <2>2. /\ s \in Seq(Nat) /\ x \in Nat /\ t \in Seq(Nat)
        /\ queue[at] = <<x>> \o t
        /\ Range(queue[at]) = {x} \union Range(t)
        /\ Pipeline(at) = s \o queue[at]
    BY <1>1, <1>3, PipelineParts, RangeOfTail, HeadTailProperties
  <2>3. Pipeline(at)' = s \o t
    BY <1>1, <2>1, Zenon DEF Pipeline
  <2>4. \A e \in Ds \ {at} : Pipeline(e)' = Pipeline(e)
    BY <1>1, <2>1, Zenon DEF Pipeline
  <2> HIDE DEF s, x, t
  <2>5. Places(s \o (<<x>> \o t), dropped[at], Reached(at))
    <3>1. Places(Pipeline(at), dropped[at], Reached(at))
      BY <1>1, AccountedPlaces DEF IInv
    <3> QED BY <2>2, <3>1, Zenon
  <2>6. /\ Places(s \o t, dropped[at] \union {x}, Reached(at))
        /\ \A y \in Range(t) : x < y
    BY <2>2, <2>5, PlacesDrop
  <2>7. \A e \in 1..added : Places(Pipeline(e)', dropped'[e], Reached(e)')
    <3> SUFFICES ASSUME NEW e \in 1..added
                 PROVE  Places(Pipeline(e)', dropped'[e], Reached(e)')
      OBVIOUS
    <3>1. CASE e = at
      BY <1>1, <2>1, <2>3, <2>6, <3>1
    <3>2. CASE e # at
      <4>1. Places(Pipeline(e), dropped[e], Reached(e))
        BY AccountedPlaces DEF IInv
      <4> QED
        BY <1>1, <2>1, <2>4, <3>2, <4>1
    <3> QED BY <3>1, <3>2
  <2>8. Accounted'
    BY <1>1, <2>7, Zenon DEF Accounted, Places, Ascending
  <2>9. DropsOldest'
    <3> SUFFICES ASSUME NEW e \in Ds, NEW i \in DOMAIN queue'[e], NEW m \in dropped'[e]
                 PROVE  m < queue'[e][i]
      BY DEF DropsOldest
    <3>1. CASE e = at
      <4>1. queue'[e][i] \in Range(t)
        BY <2>1, <3>1, Zenon DEF Range
      <4>2. \A y \in Range(queue[at]) : \A n \in dropped[at] : n < y
        BY <1>1, Zenon DEF IInv, DropsOldest, Range
      <4> QED
        BY <2>1, <2>2, <2>6, <3>1, <4>1, <4>2
    <3>2. CASE e # at
      BY <2>1, <3>2 DEF IInv, DropsOldest
    <3> QED BY <3>1, <3>2
  <2> QED BY <2>8, <2>9
<1> QED
  BY <1>2, <1>3
(* What a worker and its sink do moves no message out of its pipeline. *)
LEMMA WorkerAccounts ==
  ASSUME IInv, NEW d \in Ds, Loop(d) \/ SinkSubmit(d)
  PROVE  Accounted' /\ DropsOldest'
<1>1. TypeOK /\ WorkerInv /\ RunningInv
  BY DEF IInv
<1>2. /\ UNCHANGED <<added, caller, at, sent, dropped>>
      /\ \A e \in Ds \ {d} : /\ queue'[e] = queue[e]
                             /\ item'[e] = item[e]
                             /\ received'[e] = received[e]
  BY <1>1, WorkerFrame
<1>3. /\ Pipeline(d)' = Pipeline(d)
      /\ queue'[d] = queue[d] \/ Take(d)
  <2>1. CASE Pop(d) \/ Drain(d)
    <3>1. Take(d) /\ item[d] = 0
      BY <1>1, <2>1 DEF Pop, Drain, WorkerAt, WorkerInv
    <3> QED
      BY <1>1, <3>1, TakeKeeps
  <2>2. CASE SinkSubmit(d)
    <3>1. UNCHANGED queue
      BY <2>2, Zenon DEF SinkSubmit
    <3> QED
      BY <1>1, <2>2, <3>1, SubmitKeeps
  <2>3. CASE CheckRunning(d) \/ PopNothing(d) \/ Exit(d)
    <3>1. UNCHANGED <<queue, item, received>>
      BY <2>3, Zenon DEF CheckRunning, PopNothing, Exit
    <3> QED
      BY <3>1 DEF Pipeline, Held
  <2> QED
    BY <2>1, <2>2, <2>3 DEF Loop
<1>4. \A e \in Ds : Pipeline(e)' = Pipeline(e) /\ Reached(e)' = Reached(e)
  BY <1>2, <1>3, Zenon DEF Pipeline, Held, Reached
<1>5. 1..added \subseteq Ds
  BY <1>1, DispatcherAssumption DEF TypeOK, Ds
<1>6. Accounted'
  BY <1>2, <1>4, <1>5, Zenon DEF IInv, Accounted
<1>7. DropsOldest'
  <2>1. \A e \in Ds : Range(queue'[e]) \subseteq Range(queue[e])
    <3> SUFFICES ASSUME NEW e \in Ds PROVE Range(queue'[e]) \subseteq Range(queue[e])
      OBVIOUS
    <3>1. CASE queue'[e] = queue[e]
      BY <3>1
    <3>2. CASE e = d /\ Take(d)
      <4>1. queue[d] # << >> /\ queue'[d] = Tail(queue[d])
        BY <1>1, <3>2, Zenon DEF Take, TypeOK
      <4>2. queue[d] \in Seq(Nat)
        BY <1>1, PipelineParts
      <4>3. Range(queue[d]) = {Head(queue[d])} \union Range(Tail(queue[d]))
        BY <4>1, <4>2, RangeOfTail
      <4> QED
        BY <3>2, <4>1, <4>3
    <3> QED
      BY <1>2, <1>3, <3>1, <3>2
  <2>2. \A e \in Ds : \A m \in dropped[e], x \in Range(queue[e]) : m < x
    BY Zenon DEF IInv, DropsOldest, Range
  <2>3. \A e \in Ds : \A i \in DOMAIN queue'[e] : queue'[e][i] \in Range(queue'[e])
    BY Zenon DEF Range
  <2> QED
    BY <1>2, <2>1, <2>2, <2>3, Zenon DEF DropsOldest
<1> QED
  BY <1>6, <1>7

(* Each message is accounted for, and what was dropped is older than what is
   queued, after every step. *)
LEMMA AccountedStep == IInv /\ [Next]_vars => Accounted' /\ DropsOldest'
<1> SUFFICES ASSUME IInv, [Next]_vars PROVE Accounted' /\ DropsOldest'
  OBVIOUS
<1>0. TypeOK /\ CallerInv /\ FreshInv /\ RoomInv
  BY DEF IInv
<1>1. ASSUME UNCHANGED <<added, queue, item, received, dropped>>,
             \A d \in 1..added : Reached(d)' = Reached(d)
      PROVE  Accounted' /\ DropsOldest'
  <2>1. \A d : Pipeline(d)' = Pipeline(d)
    BY <1>1 DEF Pipeline, Held
  <2>2. Accounted'
    BY <1>1, <2>1, Zenon DEF IInv, Accounted
  <2>3. DropsOldest'
    BY <1>1 DEF IInv, DropsOldest
  <2> QED
    BY <2>2, <2>3
<1>2. CASE AddDownstream
  <2>1. /\ UNCHANGED <<caller, sent, queue, item, received, dropped>>
        /\ caller = "add" /\ sent = 0 /\ added' \in Nat /\ 1..added' \subseteq Ds
    BY <1>0, <1>2, DispatcherAssumption DEF AddDownstream, FreshInv, TypeOK, Ds
  <2>2. \A d \in Ds : /\ received[d] = << >> /\ Held(d) = << >> /\ queue[d] = << >>
                      /\ dropped[d] = {} /\ Reached(d)' = 0 /\ Pipeline(d)' = Pipeline(d)
    BY <1>0, <2>1 DEF FreshInv, Held, Reached, Pipeline
  <2>3. \A d \in Ds : Pipeline(d) = << >>
    <3>1. (<< >> \o << >>) \o << >> = << >>
      OBVIOUS
    <3> QED
      BY <2>2, <3>1, Zenon DEF Pipeline
  <2>4. Places(<< >>, {}, 0)
    BY DEF Places, Ascending, Range
  <2>5. \A d \in 1..added' : Places(Pipeline(d)', dropped'[d], Reached(d)')
    BY <2>1, <2>2, <2>3, <2>4
  <2>6. Accounted'
    BY <2>5, Zenon DEF Accounted, Places, Ascending
  <2>7. DropsOldest'
    BY <2>1 DEF IInv, DropsOldest
  <2> QED
    BY <2>6, <2>7
<1>3. CASE Dispatch
  <2>1. /\ UNCHANGED <<added, queue, item, received, dropped>>
        /\ \A d \in 1..added : Reached(d)' = Reached(d)
    BY <1>0, <1>3 DEF Dispatch, Reached, CallerInv, TypeOK
  <2> QED
    BY <1>1, <2>1
<1>4. CASE AddEnds \/ PushRefused \/ Destroy \/ Stop \/ Join
  <2>1. UNCHANGED <<added, queue, item, received, dropped, sent>>
    BY <1>4 DEF AddEnds, PushRefused, Destroy, Stop, Join
  <2>2. \A d : Reached(d)' = Reached(d)
    BY <1>4 DEF AddEnds, PushRefused, Destroy, Stop, Join, Reached
  <2> QED
    BY <1>1, <2>1, <2>2
<1>5. CASE Push
  <2>1. /\ caller \in {"push", "again"} /\ Put(at)
        /\ UNCHANGED <<added, sent, item, received, dropped>>
        /\ IF at < added THEN at' = at + 1 /\ caller' = "push"
                         ELSE at' = 1 /\ caller' = "idle"
    BY <1>5 DEF Push, Advance
  <2> QED
    BY <2>1, PushAccounts
<1>6. CASE DropOldest
  BY <1>6, DropAccounts
<1>7. CASE PushAgain
  <2>1. /\ caller \in {"push", "again"} /\ Put(at)
        /\ UNCHANGED <<added, sent, item, received, dropped>>
        /\ IF at < added THEN at' = at + 1 /\ caller' = "push"
                         ELSE at' = 1 /\ caller' = "idle"
    BY <1>0, <1>7 DEF PushAgain, RoomInv
  <2> QED
    BY <2>1, PushAccounts
<1>8. ASSUME NEW d \in Ds, Loop(d) \/ SinkSubmit(d) PROVE Accounted' /\ DropsOldest'
  BY <1>8, WorkerAccounts
<1>9. CASE UNCHANGED vars
  <2>1. \A d : Reached(d)' = Reached(d)
    BY <1>9 DEF vars, Reached
  <2> QED
    BY <1>1, <1>9, <2>1 DEF vars
<1> QED
  BY <1>2, <1>3, <1>4, <1>5, <1>6, <1>7, <1>8, <1>9 DEF Next, Caller, Dispatching

-----------------------------------------------------------------------------
(* No step leaves the invariant. *)
LEMMA InvStep == IInv /\ [Next]_vars => IInv'
<1> SUFFICES ASSUME IInv, [Next]_vars PROVE IInv'
  OBVIOUS
<1>1. TypeOK /\ CallerInv /\ RoomInv /\ WorkerInv /\ RunningInv /\ FreshInv /\ DestroyInv
  BY DEF IInv
<1>2. TypeOK' /\ CallerInv' /\ RoomInv' /\ WorkerInv' /\ RunningInv' /\ FreshInv' /\ DestroyInv'
  BY <1>1, TypeStep, CallerStep, RoomStep, WorkerStep, RunningStep, FreshStep,
     DestroyStep
<1>3. Accounted' /\ DropsOldest'
  BY AccountedStep
<1> QED
  BY <1>2, <1>3 DEF IInv

(* A worker gives its sink one of the messages that were sent, younger than all
   that the sink was given before. *)
LEMMA SubmitsInOrder ==
  ASSUME IInv, NEW d \in Ds, SinkSubmit(d)
  PROVE  /\ item[d] \in 1..sent
         /\ Range(received[d]) \subseteq 1..sent
         /\ \A m \in Range(received[d]) : m < item[d]
         /\ Range(received'[d]) = Range(received[d]) \union {item[d]}
         /\ \A e \in Ds \ {d} : received'[e] = received[e]
         /\ UNCHANGED sent
<1>1. TypeOK /\ CallerInv /\ WorkerInv /\ RunningInv
  BY DEF IInv
<1>2. worker[d] \in {"submit", "drain_submit"}
  BY DEF SinkSubmit, WorkerAt
<1>3. d \in 1..added /\ item[d] \in Nat /\ item[d] # 0 /\ sent \in Nat
  BY <1>1, <1>2, DispatcherAssumption DEF WorkerInv, RunningInv, TypeOK, Ds
<1>4. Held(d) = <<item[d]>>
  BY <1>3 DEF Held
<1>5. /\ received[d] \in Seq(Nat) /\ Held(d) \in Seq(Nat) /\ queue[d] \in Seq(Nat)
      /\ received[d] \o Held(d) \in Seq(Nat)
      /\ Pipeline(d) = (received[d] \o Held(d)) \o queue[d]
  BY <1>1, PipelineParts
<1>6. Places((received[d] \o Held(d)) \o queue[d], dropped[d], Reached(d))
  BY <1>3, <1>5, AccountedPlaces DEF IInv
<1>7. /\ Ascending(received[d] \o Held(d))
      /\ Range(received[d] \o Held(d)) \subseteq Range((received[d] \o Held(d)) \o queue[d])
  BY <1>5, <1>6, AscendingConcat, NumbersConcat DEF Places
<1>8. Range(Held(d)) = {item[d]}
        /\ Range(received[d] \o Held(d)) = Range(received[d]) \union Range(Held(d))
  BY <1>3, <1>4, <1>5, NumbersAppend, NumbersConcat
<1>9. \A m \in Range(received[d]) : m < item[d]
  BY <1>5, <1>7, <1>8, AscendingConcat
<1>10. 1..Reached(d) \subseteq 1..sent
  BY <1>3 DEF Reached
<1>11. Range(received[d]) \union {item[d]} \subseteq 1..sent
  BY <1>6, <1>7, <1>8, <1>10 DEF Places
<1>12. received'[d] = Append(received[d], item[d])
  BY <1>1, Zenon DEF SinkSubmit, TypeOK
<1>13. Range(received'[d]) = Range(received[d]) \union {item[d]}
  BY <1>3, <1>5, <1>12, NumbersAppend
<1> QED
  BY <1>1, <1>9, <1>11, <1>13, WorkerFrame

(* What a downstream was given is in its sink, with its worker, queued or
   dropped, and only one of these. *)
LEMMA MessagesApart ==
  ASSUME IInv, NEW d \in 1..added
  PROVE  /\ Range(received[d]) \union Range(Held(d)) \union Range(queue[d]) \union dropped[d]
              = 1..Reached(d)
         /\ Range(received[d]) \intersect Range(Held(d)) = {}
         /\ (Range(received[d]) \union Range(Held(d))) \intersect Range(queue[d]) = {}
         /\ (Range(received[d]) \union Range(Held(d)) \union Range(queue[d]))
              \intersect dropped[d] = {}
<1>1. TypeOK /\ d \in Ds
  BY DispatcherAssumption DEF IInv, TypeOK, Ds
<1>2. /\ received[d] \in Seq(Nat) /\ Held(d) \in Seq(Nat) /\ queue[d] \in Seq(Nat)
      /\ received[d] \o Held(d) \in Seq(Nat)
      /\ Pipeline(d) = (received[d] \o Held(d)) \o queue[d]
  BY <1>1, PipelineParts
<1>3. Places((received[d] \o Held(d)) \o queue[d], dropped[d], Reached(d))
  BY <1>2, AccountedPlaces DEF IInv
<1>4. /\ Range(received[d] \o Held(d)) = Range(received[d]) \union Range(Held(d))
      /\ Range((received[d] \o Held(d)) \o queue[d])
           = Range(received[d] \o Held(d)) \union Range(queue[d])
  BY <1>2, NumbersConcat
<1>5. /\ Ascending(received[d] \o Held(d))
      /\ \A x \in Range(received[d] \o Held(d)), y \in Range(queue[d]) : x < y
  BY <1>2, <1>3, AscendingConcat DEF Places
<1>6. \A x \in Range(received[d]), y \in Range(Held(d)) : x < y
  BY <1>2, <1>5, AscendingConcat
<1>7. Range(received[d] \o Held(d)) \subseteq Nat
  BY <1>2, RangeOfSeq
<1> QED
  BY <1>3, <1>4, <1>5, <1>6, <1>7 DEF Places

(* IInv holds in every state, for any number of downstreams and messages and
   queues of any length. *)
THEOREM Invariance == Spec => []IInv
<1>1. Init => IInv
  BY InitInv
<1>2. IInv /\ [Next]_vars => IInv'
  BY InvStep
<1> QED
  BY <1>1, <1>2, PTL DEF Spec

(* No variable leaves its range. *)
THEOREM Typing == Spec => []TypeOK
<1>1. IInv => TypeOK
  BY DEF IInv
<1> QED
  BY <1>1, Invariance, PTL

(* Every message a downstream was given is in its sink, on its way there in
   order, or was dropped from its full queue (Dispatcher.cpp:19-44, 77-81). *)
THEOREM MessagesAccounted == Spec => []Accounted
<1>1. IInv => Accounted
  BY DEF IInv
<1> QED
  BY <1>1, Invariance, PTL

(* What was dropped is older than all that is still queued
   (Dispatcher.cpp:19-25). *)
THEOREM DropsAreOldest == Spec => []DropsOldest
<1>1. IInv => DropsOldest
  BY DEF IInv
<1> QED
  BY <1>1, Invariance, PTL

(* A worker that ended has handed everything to its sink
   (Dispatcher.cpp:14-17, 40-43). *)
THEOREM StoppedAreDrained == Spec => []StopDrains
<1>1. IInv => StopDrains
  <2> SUFFICES ASSUME IInv, NEW d \in Ds, worker[d] = "exited"
               PROVE  Pipeline(d) = received[d]
    BY DEF StopDrains
  <2>1. Held(d) = << >> /\ queue[d] = << >>
    BY DEF IInv, WorkerInv, Held
  <2>2. received[d] \in Seq(Nat)
    BY PipelineParts DEF IInv
  <2>3. (received[d] \o << >>) \o << >> = received[d]
    BY <2>2, ConcatEmptySeq
  <2> QED
    BY <2>1, <2>3, Zenon DEF Pipeline
<1> QED
  BY <1>1, Invariance, PTL
=============================================================================
