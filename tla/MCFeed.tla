------------------------------- MODULE MCFeed -------------------------------
(* At most one sink.  An inbox of one place and batches of two, a sink queue
   of one place and a producer that holds one message: all of them overflow
   with four envelopes.  Files: three that start, one of them without a sink,
   and the rest with one thing wrong each. *)
EXTENDS Feed

MCRedpanda == [brokers |-> "b", client_id |-> Absent, compression |-> "lz4", acks |-> "all"]

MCEntry == [name |-> "a", type |-> "redpanda", redpanda |-> MCRedpanda]

MCDemo == [name |-> "d", type |-> "demo_log", redpanda |-> Absent]

MCGood ==
  [readable |-> TRUE, scalar |-> FALSE,
   logger |-> [level |-> "Info", also_console |-> Absent, path |-> Absent, file |-> "f",
               queue_size |-> Absent, worker_threads |-> 1, flush_on |-> Absent,
               overflow |-> Absent],
   futu |-> [opend_ip |-> "ip", opend_port |-> 65535],
   subscriptions |-> [path |-> "s"],
   subscriptionmanager |-> [refresh_ms |-> 1, capacity |-> Absent, overflow |-> Absent,
                            first_push |-> Absent],
   downstreams |-> <<MCDemo, MCEntry>>]

MCStarting ==
  {MCGood, [MCGood EXCEPT !.downstreams = <<MCDemo>>],
   [MCGood EXCEPT !.subscriptionmanager.overflow = "block", !.downstreams = <<MCEntry>>,
                  !.logger.path = "p", !.logger.file = Malformed]}

MCFaulty ==
  {[MCGood EXCEPT !.readable = FALSE], [MCGood EXCEPT !.scalar = TRUE],
   [MCGood EXCEPT !.logger = Absent], [MCGood EXCEPT !.futu = Absent],
   [MCGood EXCEPT !.subscriptions = Absent],
   [MCGood EXCEPT !.subscriptionmanager = Absent],
   [MCGood EXCEPT !.downstreams = Absent]}
  \union {[MCGood EXCEPT !.logger[key] = Malformed] : key \in DOMAIN MCGood.logger \ {"path"}}
  \union {[MCGood EXCEPT !.logger.path = Malformed, !.logger.file = "f"]}
  \union {[MCGood EXCEPT !.logger.worker_threads = 0], [MCGood EXCEPT !.logger.file = "unwritable"]}
  \union {[MCGood EXCEPT !.futu.opend_port = port] : port \in {Absent, Malformed, 0, 65536}}
  \union {[MCGood EXCEPT !.futu.opend_ip = Absent],
          [MCGood EXCEPT !.subscriptions.path = Malformed],
          [MCGood EXCEPT !.subscriptionmanager.refresh_ms = 0],
          [MCGood EXCEPT !.subscriptionmanager.refresh_ms = Malformed],
          [MCGood EXCEPT !.subscriptionmanager.overflow = "drop_newest"],
          [MCGood EXCEPT !.subscriptionmanager.capacity = Malformed],
          [MCGood EXCEPT !.subscriptionmanager.first_push = Malformed]}
  \union {[MCGood EXCEPT !.downstreams = <<MCEntry, bad>>] :
            bad \in {Scalar, [MCDemo EXCEPT !.name = Absent],
                     [MCDemo EXCEPT !.type = "file"],
                     [MCEntry EXCEPT !.redpanda = Absent],
                     [MCEntry EXCEPT !.redpanda.brokers = Absent],
                     [MCEntry EXCEPT !.redpanda.compression = Malformed],
                     [MCEntry EXCEPT !.redpanda.brokers = ""],
                     [MCEntry EXCEPT !.redpanda.acks = "unknown"]}}
  \union {[MCGood EXCEPT !.downstreams = <<[MCDemo EXCEPT !.type = Malformed], Scalar>>]}

MCConfigs == MCStarting \union MCFaulty
=============================================================================
