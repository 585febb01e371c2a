------------------------- MODULE SubscriptionManager -------------------------
(***************************************************************************)
(* The subscription control plane of momo_feed: the run() loop of          *)
(* SubscriptionManager, which polls the subscription file and sends        *)
(* subscribe and unsubscribe requests, against the thread that delivers    *)
(* the session's connection events and against whoever edits the file.     *)
(* One action per access to state that another thread can change: the      *)
(* atomics connected_ and force_resubscribe_, the file's mtime, its        *)
(* content, and each request on the session.                               *)
(*                                                                         *)
(* Outside the repository, and modelled from how it is used: the file, and *)
(* the quote server, whose subscriptions end with the connection.  The     *)
(* session has no on_disconnected callback (main.cpp:89-115), so a lost    *)
(* connection is not seen by the manager; requests on it return serial 0.  *)
(***************************************************************************)
EXTENDS Subscription

CONSTANTS
  Files,        (* the states a readable subscription file can stand for     *)
  Unreadable,   (* content the loader rejects                                *)
  Missing,      (* no file                                                   *)
  Times,        (* modification times; bounds the edits, each has its own    *)
  MaxConnects,  (* bound: connections established                            *)
  MaxRejects    (* bound: requests the server rejects                        *)

ASSUME FilesAssumption ==
  /\ Files \subseteq SubState
  /\ Unreadable \notin Files
  /\ Missing \notin Files
ASSUME BoundsAssumption == MaxConnects \in Nat /\ MaxRejects \in Nat

VARIABLES
  (* the quote server and the thread that delivers connection events *)
  up,           (* a connection is established                               *)
  serverSubs,   (* the pairs it pushes on this connection                    *)
  connects,     (* connections so far                                        *)
  rejects,      (* requests rejected so far                                  *)
  callback,     (* inside on_connected: between its two stores               *)
  (* the subscription file *)
  file, mtime, usedTimes,
  (* atomics of SubscriptionManager *)
  connected,    (* connected_                                                *)
  force,        (* force_resubscribe_                                        *)
  (* the run() thread *)
  pc,           (* where run() stands                                        *)
  isConnected,  (* local connected                                           *)
  wantForce,    (* local want_force                                          *)
  readTime,     (* local mtime of load_if_changed                            *)
  lastTime,     (* last_mtime_                                               *)
  current, hasCurrent, pending, hasPending,
  full,         (* apply_pending runs do_full_resubscribe, not execute_diff  *)
  todo,         (* requests still to send, in phases                         *)
  (* history *)
  lossy,        (* the server rejected a request on this connection          *)
  raced         (* a connection was announced after apply_pending took the
                   flag and before run() cleared it                          *)

session == <<up, serverSubs, connects, rejects, callback>>
disk == <<file, mtime, usedTimes>>
atomics == <<connected, force>>
cycle == <<isConnected, wantForce, readTime>>
state == <<lastTime, current, hasCurrent, pending, hasPending>>
sending == <<full, todo>>
history == <<lossy, raced>>

vars == <<session, disk, atomics, pc, cycle, state, sending, history>>

Contents == Files \union {Unreadable, Missing}

Init ==
  /\ up = FALSE /\ serverSubs = {} /\ connects = 0 /\ rejects = 0
  /\ callback = "none"
  /\ file \in Contents
  /\ mtime \in Times
  /\ usedTimes = {mtime}
  /\ connected = FALSE
  /\ force = FALSE
  /\ pc = "connected"
  /\ isConnected = FALSE /\ wantForce = FALSE /\ readTime = mtime
  /\ lastTime = mtime  (* not looked at before hasCurrent *)
  /\ current = EmptyState /\ hasCurrent = FALSE
  /\ pending = EmptyState /\ hasPending = FALSE
  /\ full = FALSE /\ todo = << >>
  /\ lossy = FALSE /\ raced = FALSE

-----------------------------------------------------------------------------
(* The session's thread and the world outside *)

(* OnInitConnect with no error: on_connected stores connected_ first. *)
Connect ==
  /\ ~up
  /\ callback = "none"
  /\ connects < MaxConnects
  /\ up' = TRUE
  /\ serverSubs' = {}
  /\ connects' = connects + 1
  /\ connected' = TRUE
  /\ callback' = "on_connected"
  /\ lossy' = FALSE
  /\ raced' = FALSE
  /\ UNCHANGED <<rejects, disk, force, pc, cycle, state, sending>>

(* ... and then force_resubscribe_. *)
SetForce ==
  /\ callback = "on_connected"
  /\ force' = TRUE
  /\ callback' = "none"
  /\ raced' = (wantForce /\ pc \in {"send", "commit", "clear"})
  /\ UNCHANGED <<up, serverSubs, connects, rejects, disk, connected, pc, cycle,
                 state, sending, lossy>>

(* OnInitConnect with an error. *)
ConnectFails ==
  /\ ~up
  /\ callback = "none"
  /\ connects < MaxConnects
  /\ connected' = FALSE
  /\ UNCHANGED <<session, disk, force, pc, cycle, state, sending, history>>

(* OnDisConnect tells the session only. *)
Disconnect ==
  /\ up
  /\ up' = FALSE
  /\ serverSubs' = {}
  /\ UNCHANGED <<connects, rejects, callback, disk, atomics, pc, cycle, state,
                 sending, history>>

(* Somebody replaces the file; its new time need not be a later one. *)
EditFile ==
  /\ \E content \in Contents \ {file} : file' = content
  /\ mtime' \in Times \ usedTimes
  /\ usedTimes' = usedTimes \union {mtime'}
  /\ UNCHANGED <<session, atomics, pc, cycle, state, sending, history>>

-----------------------------------------------------------------------------
(* One turn of run()'s control plane *)

ReadConnected ==
  /\ pc = "connected"
  /\ isConnected' = connected
  /\ pc' = "force"
  /\ UNCHANGED <<session, disk, atomics, wantForce, readTime, state, sending,
                 history>>

ReadForce ==
  /\ pc = "force"
  /\ wantForce' = force
  /\ pc' = "poll"
  /\ UNCHANGED <<session, disk, atomics, isConnected, readTime, state, sending,
                 history>>

(* The locals of a turn end with it. *)
NextTurn ==
  /\ pc' = "connected"
  /\ isConnected' = FALSE
  /\ wantForce' = FALSE
  /\ readTime' = lastTime

(* should_check_file: the refresh interval is over, or not. *)
Due(wantPoll) ==
  /\ pc = "poll"
  /\ IF isConnected /\ (wantForce \/ wantPoll)
     THEN pc' = "mtime" /\ UNCHANGED cycle
     ELSE NextTurn
  /\ UNCHANGED <<session, disk, atomics, state, sending, history>>

(* load_if_changed returned false or an error: a forced cycle falls back on
   the state in force, if there is one. *)
NotLoaded ==
  LET fallback == wantForce /\ hasCurrent IN
  /\ hasPending' = fallback
  /\ pending' = IF fallback THEN current ELSE pending
  /\ pc' = IF fallback THEN "apply" ELSE "clear"

(* Mutant of SameTime: only a later time counts as a change. *)
NotLater == hasCurrent /\ mtime <= lastTime

SameTime == hasCurrent /\ mtime = lastTime

(* load_if_changed: the time is read before the content. *)
ReadMtime ==
  /\ pc = "mtime"
  /\ file # Missing
  /\ ~SameTime
  /\ readTime' = mtime
  /\ pc' = "load"
  /\ UNCHANGED <<session, disk, atomics, isConnected, wantForce, state, sending,
                 history>>

SameMtime ==
  /\ pc = "mtime"
  /\ file # Missing
  /\ SameTime
  /\ NotLoaded
  /\ UNCHANGED <<session, disk, atomics, cycle, lastTime, current, hasCurrent,
                 sending, history>>

LoadFails ==
  /\ \/ pc = "mtime" /\ file = Missing
     \/ pc = "load" /\ file \notin Files
  /\ NotLoaded
  /\ UNCHANGED <<session, disk, atomics, cycle, lastTime, current, hasCurrent,
                 sending, history>>

LoadSame ==
  /\ pc = "load"
  /\ file \in Files
  /\ hasCurrent /\ StEqual(current, file)
  /\ lastTime' = readTime
  /\ NotLoaded
  /\ UNCHANGED <<session, disk, atomics, cycle, current, hasCurrent, sending,
                 history>>

LoadChanged ==
  /\ pc = "load"
  /\ file \in Files
  /\ ~(hasCurrent /\ StEqual(current, file))
  /\ lastTime' = readTime
  /\ pending' = file
  /\ hasPending' = TRUE
  /\ pc' = "apply"
  /\ UNCHANGED <<session, disk, atomics, cycle, current, hasCurrent, sending,
                 history>>

Requests(op, items) == {[op |-> op, item |-> i] : i \in items}

(* do_full_resubscribe: drop what is in force, then ask for the target. *)
FullResubscribe(target) ==
  <<Requests("unsub", IF hasCurrent THEN StateItems(current) ELSE {}),
    Requests("sub", StateItems(target))>>

(* execute_diff *)
ExecuteDiff(old, new) ==
  LET d == DiffState(old, new) IN
  <<Requests("unsub", d.remove_security), Requests("unsub", d.del_subtypes),
    Requests("sub", d.add_subtypes), Requests("sub", d.add_security)>>

(* Mutant of TakeForce: a reconnect is served with the difference. *)
TakeForceAsDiff ==
  /\ pc = "apply"
  /\ force' = FALSE
  /\ full' = ~hasCurrent
  /\ todo' = IF full' THEN FullResubscribe(pending)
                      ELSE ExecuteDiff(current, pending)
  /\ pc' = "send"
  /\ UNCHANGED <<session, disk, connected, cycle, state, history>>

(* apply_pending takes the flag and decides what to send. *)
TakeForce ==
  /\ pc = "apply"
  /\ force' = FALSE
  /\ full' = (force \/ ~hasCurrent)
  /\ todo' = IF full' THEN FullResubscribe(pending)
                      ELSE ExecuteDiff(current, pending)
  /\ pc' = "send"
  /\ UNCHANGED <<session, disk, connected, cycle, state, history>>

(* The next phase starts when the one before is empty. *)
NextPhase ==
  /\ pc = "send"
  /\ todo # << >>
  /\ Head(todo) = {}
  /\ todo' = Tail(todo)
  /\ UNCHANGED <<session, disk, atomics, pc, cycle, state, full, history>>

(* call_subscribe and call_unsubscribe: whatever becomes of the request, the
   loop goes on to the next one.  The map is unordered. *)
Send(request) ==
  /\ pc = "send"
  /\ todo # << >>
  /\ request \in Head(todo)
  /\ todo' = <<Head(todo) \ {request}>> \o Tail(todo)
  /\ UNCHANGED <<up, connects, callback, disk, atomics, pc, cycle, state, full,
                 raced>>

Served(request) ==
  /\ up
  /\ Send(request)
  /\ serverSubs' = IF request.op = "sub"
                   THEN serverSubs \union Pairs({request.item})
                   ELSE serverSubs \ Pairs({request.item})
  /\ UNCHANGED <<rejects, lossy>>

(* The server's reply is an error, which on_sub_reply only logs. *)
Rejected(request) ==
  /\ up
  /\ rejects < MaxRejects
  /\ Send(request)
  /\ rejects' = rejects + 1
  /\ lossy' = TRUE
  /\ UNCHANGED serverSubs

(* No connection: the request is not sent and the error is logged. *)
NotSent(request) ==
  /\ ~up
  /\ Send(request)
  /\ UNCHANGED <<serverSubs, rejects, lossy>>

(* Mutant of Commit: what was applied stays pending. *)
CommitStaysPending ==
  /\ pc = "send"
  /\ todo = << >>
  /\ current' = pending
  /\ hasCurrent' = TRUE
  /\ full' = FALSE
  /\ pc' = "clear"
  /\ UNCHANGED <<session, disk, atomics, cycle, lastTime, pending, hasPending,
                 todo, history>>

Commit ==
  /\ pc = "send"
  /\ todo = << >>
  /\ current' = pending
  /\ hasCurrent' = TRUE
  /\ hasPending' = FALSE
  /\ full' = FALSE
  /\ pc' = "clear"
  /\ UNCHANGED <<session, disk, atomics, cycle, lastTime, pending, todo, history>>

ClearForce ==
  /\ pc = "clear"
  /\ force' = IF wantForce /\ hasCurrent THEN FALSE ELSE force
  /\ NextTurn
  /\ UNCHANGED <<session, disk, connected, state, sending, history>>

-----------------------------------------------------------------------------
SendNext ==
  /\ todo # << >>
  /\ \E request \in Head(todo) :
       Served(request) \/ Rejected(request) \/ NotSent(request)

Environment ==
  \/ Connect
  \/ SetForce
  \/ ConnectFails
  \/ Disconnect
  \/ EditFile

Run ==
  \/ ReadConnected
  \/ ReadForce
  \/ Due(TRUE)
  \/ Due(FALSE)
  \/ ReadMtime
  \/ SameMtime
  \/ LoadFails
  \/ LoadSame
  \/ LoadChanged
  \/ TakeForce
  \/ NextPhase
  \/ SendNext
  \/ Commit
  \/ ClearForce

Next == Environment \/ Run

(* The run() thread never stops by itself; the refresh interval ends again
   and again while it loops; on_connected returns. *)
Fairness ==
  /\ WF_vars(Run)
  /\ SF_vars(Due(TRUE))
  /\ WF_vars(SetForce)

Spec == Init /\ [][Next]_vars /\ Fairness

-----------------------------------------------------------------------------
(* Every variable stays within its range; nothing is pending between two
   cycles; each phase of requests is of one kind. *)
TypeOK ==
  /\ up \in BOOLEAN
  /\ serverSubs \subseteq Securities \X SubTypes
  /\ connects \in 0..MaxConnects
  /\ rejects \in 0..MaxRejects
  /\ callback \in {"none", "on_connected"}
  /\ file \in Contents
  /\ {mtime, readTime, lastTime} \subseteq Times
  /\ usedTimes \subseteq Times
  /\ {connected, force, isConnected, wantForce, full, lossy, raced} \subseteq BOOLEAN
  /\ pc \in {"connected", "force", "poll", "mtime", "load", "apply", "send", "clear"}
  /\ {current, pending} \subseteq SubState
  /\ hasCurrent \in BOOLEAN
  /\ hasPending <=> pc \in {"apply", "send"}

(* run() is between two cycles, a connection is up and announced, and no
   resubscription is asked for. *)
Settled == pc = "connected" /\ up /\ callback = "none" /\ ~force /\ hasCurrent

(* Then the server pushes exactly what the state in force asks for, provided
   it rejected nothing (replies are only logged, SubscriptionManager.cpp:60-66)
   and the connection was not announced inside the window between the two
   places that reset the flag (SubscriptionManager.cpp:288 and 208). *)
SyncedUnlessRaced ==
  Settled /\ ~lossy /\ ~raced => serverSubs = Subscribed(current)

(* SubscriptionManager.cpp:203: the flag is only cleared after a connected
   cycle was attempted for it, so that a settled manager has subscribed on
   the connection it has. *)
Synced ==
  Settled /\ ~lossy => serverSubs = Subscribed(current)

(* Applying a change as a diff never interrupts a push that the old and the
   new configuration both ask for (SubscriptionManager.cpp:320-355). *)
DiffKeepsPushes ==
  [][pc = "send" /\ ~full /\ up /\ up' =>
       serverSubs \intersect Subscribed(current) \intersect Subscribed(pending)
         \subseteq serverSubs']_vars

(* A readable file that stays is in force in the end, however many unreadable
   or older versions came before it and whenever it was replaced: the poll
   compares times for equality and reads the time before the content
   (SubscriptionManager.cpp:240-278). *)
FileIsApplied ==
  \A f \in Files :
    file = f /\ connected ~> file # f \/ ~connected \/ (hasCurrent /\ current = f)
=============================================================================
