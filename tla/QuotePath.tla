------------------------------ MODULE QuotePath ------------------------------
(***************************************************************************)
(* From the subscription file to the tables in q: SubscriptionReload, and  *)
(* pushes of what is subscribed, each through the push handlers, the topic *)
(* and the decoder (QuoteCodec).  The queues, threads and the broker in    *)
(* between, which may lose or delay an envelope and change nothing in it,  *)
(* are Feed and KfkpbClient.                                               *)
(*                                                                         *)
(* External: the API, which pushes what is subscribed.                     *)
(***************************************************************************)
EXTENDS SubscriptionReload, QuoteCodec

CONSTANT PushesOf(_, _)  (* the pushes there may be for a security and a subtype *)

(* The subtypes are the six that subtype_bit gives a bit to. *)
ASSUME SubTypesAssumption == SubTypes \subseteq DOMAIN TopicOf

(* What the API may push: any number of quotes with any of their fields
   missing.  Basic quotes have a security each, all others that of the push. *)
ApiFields ==
  {"priceSpread", "highPrice", "openPrice", "lowPrice", "curPrice", "closePrice",
   "lastClosePrice", "price", "volume", "turnover", "turnoverRate", "amplitude", "pe",
   "changeRate", "orederCount", "dir", "updateTime", "time", "recvTime", "timestamp"}

Quote ==
  [n : Nat, security : Securities, side : {"ask", "bid"}, fields : SUBSET ApiFields,
   malformed : SUBSET ApiFields]

PushRecord(type) ==
  {p \in [type : {type}, security : Securities, failed : BOOLEAN, hasS2C : BOOLEAN,
          quotes : Seq(Quote)] :
     type # "BasicQot" => \A i \in DOMAIN p.quotes : p.quotes[i].security = p.security}

ASSUME PushesAssumption ==
  \A s \in Securities, t \in SubTypes : PushesOf(s, t) \subseteq PushRecord(t)

VARIABLES
  pushed,    (* history: the last push, << >> before the first           *)
  received   (* what q was handed for it                                  *)

pathVars == <<vars, pushed, received>>

PathInit == Init /\ pushed = << >> /\ received = << >>

Change ==
  /\ Next
  /\ pushed = << >>
  /\ UNCHANGED <<pushed, received>>

(* OnPush_Update... calls the handler of its type.  Bound: a push is the last
   step, as it changes nothing but what q is handed, and follows a reload that
   found nothing new, as all that matters to it is the state in force. *)
Push ==
  /\ ~ended
  /\ pushed = << >> /\ previous = current
  /\ \E pair \in Subscribed(current) : \E p \in PushesOf(pair[1], pair[2]) :
       pushed' = <<p>> /\ received' = Received(p)
  /\ UNCHANGED vars

PathNext == Change \/ Push

PathSpec == PathInit /\ [][PathNext]_pathVars

-----------------------------------------------------------------------------
(* What each column means: the field of the API it is named for, and the type
   of that field (schema.hpp, and its comments where the names differ). *)
Float(field) == <<"float", field>>
Long(field) == <<"long", field>>
Integer(field) == <<"int", field>>
Time(field) == <<"timestamp", field>>

FieldOf ==
  [BasicQot |->
     [spread |-> Float("priceSpread"), high |-> Float("highPrice"),
      open |-> Float("openPrice"), low |-> Float("lowPrice"), cur |-> Float("curPrice"),
      lastclose |-> Float("lastClosePrice"), volume |-> Long("volume"),
      amount |-> Float("turnover"), turnoverrate |-> Float("turnoverRate"),
      amplitude |-> Float("amplitude"), updtime |-> Time("updateTime")],
   OrderBook |->
     [price |-> Float("price"), volume |-> Long("volume"),
      ordercount |-> Integer("orederCount")],
   Ticker |->
     [direction |-> Integer("dir"), price |-> Float("price"), volume |-> Long("volume"),
      amount |-> Float("turnover"), msgTime |-> Time("time"), recvTime |-> Time("recvTime")],
   KL_1Min |->
     [high |-> Float("highPrice"), open |-> Float("openPrice"), low |-> Float("lowPrice"),
      close |-> Float("closePrice"), lastclose |-> Float("lastClosePrice"),
      volume |-> Long("volume"), amount |-> Float("turnover"),
      turnoverrate |-> Float("turnoverRate"), pe |-> Float("pe"),
      changerate |-> Float("changeRate"), recvtime |-> Time("time"),
      tstime |-> Time("timestamp")]]

(* The columns that are no field: the security as the file writes it, when the
   push was received, and in an order book the list and the rank in it. *)
Derived(quotes, i) ==
  LET q == quotes[i]
      Ahead == {j \in 1..(i - 1) : quotes[j].side = q.side}
  IN [sym |-> <<"symbol", <<MarketOf[q.security], q.security>>>>,
      time |-> <<"timestamp", <<"received">>>>,
      side |-> <<"symbol", <<q.side>>>>,
      level |-> <<"int", <<Cardinality(Ahead)>>>>]

(* The cell of a column for quote i of those that share an envelope. *)
Meant(type, name, quotes, i) ==
  LET field == FieldOf[type][name] IN
  IF name \in DOMAIN FieldOf[type]
  THEN <<field[1], Value(quotes[i], field[2])>>
  ELSE Derived(quotes, i)[name]

(* The quotes that share the i-th envelope of a push. *)
Together(p, i) == IF p.type = "BasicQot" THEN <<p.quotes[i]>> ELSE p.quotes

(* Where the code is known to differ: a kline's turnover is never stored
   (decoders.cpp:317), and Shanghai and Shenzhen go by the names of the API's
   constants. *)
Differs(type, name, q, cell) ==
  \/ type = "KL_1Min" /\ name = "amount" /\ cell = <<"float", Default>>
  \/ /\ name = "sym" /\ MarketOf[q.security] \in {"SH", "SZ"}
     /\ cell[2][2] = q.security

(* Every cell q is handed is what the API pushed in the field its column is
   named for, of the quote its row stands for, in the order of the push and
   with the security as the file writes it; a field the push does not have
   gives the default.  Members, names and emit calls are three lists that
   agree by position only (decoders.cpp:57-335, qipc.cpp:50-176). *)
ColumnsAreFields ==
  \A i \in DOMAIN received :
    LET event == received[i]
        quotes == Together(pushed[1], i)
    IN /\ Len(event.table.columns) = Len(event.table.names)
       /\ \A c \in DOMAIN event.table.columns : \A r \in DOMAIN event.table.columns[c] :
            LET name == event.table.names[c]
                cell == event.table.columns[c][r]
            IN \/ cell = Meant(event.type, name, quotes, r)
               \/ Differs(event.type, name, quotes[r], cell)

(* A push comes out whole or is reported: of the types that can be consumed, q
   gets a row for each quote of an envelope, in one table, or no table at all
   and an error under the key of its security; one quote with a time that
   cannot be parsed takes those of its envelope with it and no others.  Except
   a basic quote push without quotes, which leaves nothing
   (SubscriptionManager.cpp:68-165, decoders.cpp:33-81, kfkpb_core.cpp:363-387). *)
WholePushOrError ==
  \A p \in {pushed[i] : i \in DOMAIN pushed} :
    IF p.type \in {"RT", "Broker"} \/ (p.type = "BasicQot" /\ p.quotes = << >>)
    THEN received = << >>
    ELSE
      /\ DOMAIN received = IF p.type = "BasicQot" THEN DOMAIN p.quotes ELSE {1}
      /\ \A i \in DOMAIN received :
           LET quotes == Together(p, i)
               good == /\ ~p.failed /\ p.hasS2C /\ quotes # << >>
                       /\ \A j \in DOMAIN quotes : quotes[j].malformed = {}
               table == received[i].table
           IN /\ received[i].type = p.type
              /\ p.hasS2C =>
                   received[i].key = Symbol(IF p.type = "BasicQot" THEN quotes[1].security
                                            ELSE p.security)
              /\ table # NoTable <=> good
              /\ \A c \in DOMAIN table.columns : Len(table.columns[c]) = Len(quotes)
=============================================================================
