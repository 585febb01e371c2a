----------------------------- MODULE AppConfig -----------------------------
(***************************************************************************)
(* config/ConfigLoader: what becomes of the configuration file of          *)
(* momo_feed, and what the sinks make of their part of it.                 *)
(*                                                                         *)
(* A file is a record: whether it is readable YAML, whether its root is a  *)
(* bare scalar, the four sections, and the list of downstreams.  A section *)
(* is Absent, also when it is no map, or a record of values; a value is    *)
(* Absent, Malformed when it is no scalar or does not convert, or itself.  *)
(* A downstream is Scalar when it is one, or a record of its name, its     *)
(* type and its redpanda section.  Texts that are only passed on, and the  *)
(* wording of errors, are left out.                                        *)
(***************************************************************************)
EXTENDS Integers, Sequences

CONSTANTS Absent, Malformed, Scalar

(* The marks are none of the texts that are looked at. *)
ASSUME MarksAssumption ==
  /\ Absent # Malformed
  /\ {Absent, Malformed} \intersect {"block", "drop_oldest", "unwritable"} = {}

HasKeys(n, keys) == n # Absent => DOMAIN n = keys

(* A value for every key that is looked up, in each section there is. *)
IsFile(file) ==
  /\ HasKeys(file.logger, {"level", "also_console", "path", "file", "queue_size",
                           "worker_threads", "flush_on", "overflow"})
  /\ HasKeys(file.futu, {"opend_ip", "opend_port"})
  /\ HasKeys(file.subscriptions, {"path"})
  /\ HasKeys(file.subscriptionmanager, {"refresh_ms", "capacity", "overflow", "first_push"})
  /\ file.futu # Absent => file.futu.opend_port \in Int \union {Absent, Malformed}
  /\ file.downstreams # Absent =>
       LET entries == {file.downstreams[i] : i \in DOMAIN file.downstreams} IN
       /\ file.downstreams \in Seq(entries)
       /\ \A d \in entries \ {Scalar} :
            HasKeys(d.redpanda, {"brokers", "client_id", "compression", "acks"})

(* require_scalar_as and optional_scalar_as *)
Required(value) == value \notin {Absent, Malformed}
Optional(value) == value # Malformed

(* parse_overflow, for an optional value *)
IsOverflow(value) == value \in {Absent, "block", "drop_oldest"}

LoggerLoads(n) ==
  /\ n # Absent
  /\ \A key \in {"level", "also_console", "queue_size", "worker_threads", "flush_on"} :
       Optional(n[key])
  /\ Optional(IF n.path = Absent THEN n.file ELSE n.path)
  /\ IsOverflow(n.overflow)

MaxPort == 65535

FutuLoads(n) ==
  /\ n # Absent
  /\ Required(n.opend_ip)
  /\ Required(n.opend_port) /\ n.opend_port > 0 /\ n.opend_port <= MaxPort

SubscriptionsLoad(n) == n # Absent /\ Required(n.path)

ManagerLoads(n) ==
  /\ n # Absent
  /\ Required(n.refresh_ms) /\ n.refresh_ms > 0
  /\ Optional(n.capacity) /\ Optional(n.first_push)
  /\ IsOverflow(n.overflow)

RedpandaLoads(r) ==
  /\ r # Absent
  /\ Required(r.brokers)
  /\ Optional(r.client_id) /\ Optional(r.compression) /\ Optional(r.acks)

(* Mutant of DownstreamLoads: a name is not asked for. *)
DownstreamLoadsUnnamed(d) ==
  /\ Required(d.type)
  /\ d.type = "demo_log" \/ (d.type = "redpanda" /\ RedpandaLoads(d.redpanda))

DownstreamLoads(d) ==
  /\ Required(d.name) /\ Required(d.type)
  /\ d.type = "demo_log" \/ (d.type = "redpanda" /\ RedpandaLoads(d.redpanda))

(* The first downstream that cannot be used decides; a key looked up in a
   scalar makes yaml-cpp throw. *)
DownstreamsOutcome(list) ==
  LET bad == {i \in DOMAIN list : list[i] = Scalar \/ ~DownstreamLoads(list[i])}
      first == CHOOSE i \in bad : \A j \in bad : i <= j
  IN IF bad = {} THEN "loaded"
     ELSE IF list[first] = Scalar THEN "exception" ELSE "error"

(* Only LoadFile and the conversions are inside a try. *)
ConfigOutcome(file) ==
  IF ~file.readable THEN "error"
  ELSE IF file.scalar THEN "exception"
  ELSE IF /\ LoggerLoads(file.logger) /\ FutuLoads(file.futu)
          /\ SubscriptionsLoad(file.subscriptions)
          /\ ManagerLoads(file.subscriptionmanager)
          /\ file.downstreams # Absent
       THEN DownstreamsOutcome(file.downstreams)
       ELSE "error"

(* SubscriptionManagerCfg::overflow *)
Policy(file) ==
  IF file.subscriptionmanager.overflow = "block" THEN "Block" ELSE "DropOldest"

(* logger::init throws: spdlog makes no pool of 0 threads.  External: the file
   may be one that cannot be opened. *)
LoggerThrows(n) ==
  n.worker_threads = 0 \/ "unwritable" = IF n.path = Absent THEN n.file ELSE n.path

(* RedPandaSink's constructor throws: no brokers, or acks that librdkafka does
   not take.  client_id and compression are not passed on to it. *)
SinkRefuses(d) == d.redpanda.brokers = "" \/ d.redpanda.acks = "unknown"
=============================================================================
