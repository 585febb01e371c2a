---------------------------- MODULE MCDispatcher ----------------------------
(* Two downstreams with room for two messages each, and four messages: both
   queues overflow, and any set of sinks stalls. *)
EXTENDS Dispatcher
=============================================================================
