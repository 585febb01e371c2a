----------------------------- MODULE QuoteCodec -----------------------------
(***************************************************************************)
(* A push of the API on its way to a table in q: the push handlers of      *)
(* SubscriptionManager.cpp, the topics' types (kfkpb.cpp), the decoders    *)
(* (decoders.cpp, parse_helpers.hpp, schema.hpp) and the serialisation     *)
(* (qipc.cpp, qcodec.hpp).                                                 *)
(*                                                                         *)
(* A push is a record                                                      *)
(*   type, security   what it is about                                     *)
(*   failed           its retType is not 0                                 *)
(*   hasS2C           it has a body                                        *)
(*   quotes           its list; for an order book the asks, then the bids  *)
(* and a quote is a record                                                 *)
(*   n                its number, which stands for all its values          *)
(*   security, side   whose it is; in an order book, in which list         *)
(*   fields           the optional fields it has                           *)
(*   malformed        those of them with a time that cannot be parsed      *)
(* The bytes of protobuf and of kdb+ IPC are left out; that columns go by  *)
(* position and time strings may throw is not.                             *)
(***************************************************************************)
EXTENDS Subscription

CONSTANT MarketOf  (* the market of a security, as it is written in the file *)

Markets == {"HK", "US", "SH", "SZ"}

ASSUME MarketAssumption == MarketOf \in [Securities -> Markets]

-----------------------------------------------------------------------------
(* Push handlers *)

(* parse_market, and market_prefix of what it gives: the middle of the name
   of the API's constant. *)
MarketPrefix == [HK |-> "HK", US |-> "US", SH |-> "CNSH", SZ |-> "CNSZ"]

(* make_key and build_symbol_from_security *)
Symbol(s) == <<MarketPrefix[MarketOf[s]], s>>
NoSymbol == << >>

TopicOf ==
  [BasicQot |-> "futu.basicqot.pb", OrderBook |-> "futu.orderbook.pb",
   Ticker |-> "futu.ticker.pb", KL_1Min |-> "futu.kl1min.pb",
   RT |-> "futu.rt.pb", Broker |-> "futu.broker.pb"]

(* Mutant of Envelopes: basic quotes go in one envelope as well. *)
EnvelopeOfAll(p) == <<[topic |-> TopicOf[p.type], key |-> Symbol(p.security), payload |-> p]>>

(* A basic quote push is split into one envelope for each quote; any other is
   one envelope, of a key that names no security when the body is missing.
   None of the handlers looks at retType. *)
Envelopes(p) ==
  IF p.type = "BasicQot"
  THEN [i \in DOMAIN p.quotes |->
          [topic |-> TopicOf[p.type], key |-> Symbol(p.quotes[i].security),
           payload |-> [p EXCEPT !.quotes = <<p.quotes[i]>>]]]
  ELSE <<[topic |-> TopicOf[p.type],
          key |-> IF p.hasS2C THEN Symbol(p.security) ELSE NoSymbol,
          payload |-> p]>>

(* infer_type_from_topic *)
TypeOfTopic ==
  [topic \in {TopicOf[t] : t \in DOMAIN TopicOf} |->
     CASE topic = "futu.basicqot.pb" -> "BasicQot"
       [] topic = "futu.orderbook.pb" -> "OrderBook"
       [] topic = "futu.ticker.pb" -> "Ticker"
       [] topic = "futu.kl1min.pb" -> "KL_1Min"
       [] OTHER -> "Unknown"]

(* parse_topics refuses a list with a topic of unknown type. *)
Consumable == {topic \in DOMAIN TypeOfTopic : TypeOfTopic[topic] # "Unknown"}

-----------------------------------------------------------------------------
(* Serialisation: from rows to a table; names and columns go by position only *)

NoTable == [names |-> << >>, columns |-> << >>]

Column(kind, member) == [kind |-> kind, member |-> member]
Sym(member) == Column("symbol", member)
Ts(member) == Column("timestamp", member)
F64(member) == Column("float", member)
I64(member) == Column("long", member)
I32(member) == Column("int", member)

(* A cell is a value in the type of its column. *)
Table(names, columns, rows) ==
  [names |-> names,
   columns |-> [c \in DOMAIN columns |->
                  [r \in DOMAIN rows |-> <<columns[c].kind, rows[r][columns[c].member]>>]]]

SerializeBasicQuote(rows) ==
  Table(<<"sym", "time", "spread", "high", "open", "low", "cur", "lastclose",
          "volume", "amount", "turnoverrate", "amplitude", "updtime">>,
        <<Sym("symbol"), Ts("time"), F64("priceSpread"), F64("highPrice"),
          F64("openPrice"), F64("lowPrice"), F64("curPrice"), F64("lastClosePrice"),
          I64("volume"), F64("amount"), F64("turnoverRate"), F64("amplitude"),
          Ts("updateTime")>>, rows)

(* Mutant of SerializeOrderBook: two of the emit calls are swapped. *)
SerializeOrderBookSwapped(rows) ==
  Table(<<"sym", "time", "side", "level", "price", "volume", "ordercount">>,
        <<Sym("symbol"), Ts("time"), Sym("side"), I32("orderCount"), F64("price"),
          I64("volume"), I32("rank")>>, rows)

SerializeOrderBook(rows) ==
  Table(<<"sym", "time", "side", "level", "price", "volume", "ordercount">>,
        <<Sym("symbol"), Ts("time"), Sym("side"), I32("rank"), F64("price"),
          I64("volume"), I32("orderCount")>>, rows)

SerializeTicker(rows) ==
  Table(<<"sym", "time", "direction", "price", "volume", "amount", "msgTime",
          "recvTime">>,
        <<Sym("symbol"), Ts("time"), I32("direction"), F64("price"), I64("volume"),
          F64("amount"), Ts("msgTime"), Ts("recvTime")>>, rows)

SerializeKL1Min(rows) ==
  Table(<<"sym", "time", "high", "open", "low", "close", "lastclose", "volume",
          "amount", "turnoverrate", "pe", "changerate", "recvtime", "tstime">>,
        <<Sym("symbol"), Ts("time"), F64("highPrice"), F64("openPrice"),
          F64("lowPrice"), F64("closePrice"), F64("lastClosePrice"), I64("volume"),
          F64("amount"), F64("turnoverRate"), F64("pe"), F64("changeRate"),
          Ts("recvTime"), Ts("timestamp")>>, rows)

-----------------------------------------------------------------------------
(* Decoders: from protobuf to rows, and from these to a table *)

(* Where they do not give up: when a time throws they do, whatever the other
   quotes say. *)
Decodes(type, p) ==
  /\ p.type = type
  /\ ~p.failed /\ p.hasS2C
  /\ p.quotes # << >>
  /\ \A i \in DOMAIN p.quotes : p.quotes[i].malformed = {}

(* What row{} leaves in a member. *)
Default == << >>

Value(q, field) == IF field \in q.fields THEN <<q.n, field>> ELSE Default

(* The rows, given the field that each member is set from. *)
Rows(p, from) ==
  [i \in DOMAIN p.quotes |->
     [member \in DOMAIN from \union {"symbol", "time"} |->
        CASE member = "symbol" -> Symbol(p.quotes[i].security)
          [] member = "time" -> <<"received">>
          [] OTHER -> Value(p.quotes[i], from[member])]]

Same(names) == [name \in names |-> name]

DecodeBasicQuote(p) ==
  LET from == [Same({"priceSpread", "highPrice", "openPrice", "lowPrice", "curPrice",
                     "lastClosePrice", "volume", "amount", "turnoverRate",
                     "amplitude", "updateTime"})
                 EXCEPT !["amount"] = "turnover"]
  IN IF Decodes("BasicQot", p) THEN SerializeBasicQuote(Rows(p, from)) ELSE NoTable

(* The asks and then the bids, each ranked from 0 in its own list. *)
DecodeOrderBook(p) ==
  LET from == [Same({"price", "volume", "orderCount"})
                 EXCEPT !["orderCount"] = "orederCount"]
      Before(i) == {j \in 1..(i - 1) : p.quotes[j].side = p.quotes[i].side}
      Ranked(i, row) ==
        [member \in DOMAIN row \union {"side", "rank"} |->
           CASE member = "side" -> <<p.quotes[i].side>>
             [] member = "rank" -> <<Cardinality(Before(i))>>
             [] OTHER -> row[member]]
  IN IF Decodes("OrderBook", p)
     THEN SerializeOrderBook([i \in DOMAIN p.quotes |-> Ranked(i, Rows(p, from)[i])])
     ELSE NoTable

DecodeTicker(p) ==
  LET from == [Same({"direction", "price", "volume", "amount", "msgTime", "recvTime"})
                 EXCEPT !["direction"] = "dir", !["amount"] = "turnover",
                        !["msgTime"] = "time"]
  IN IF Decodes("Ticker", p) THEN SerializeTicker(Rows(p, from)) ELSE NoTable

(* A turnover stores the volume again: no field is kept in amount. *)
DecodeKL1Min(p) ==
  LET from == [Same({"highPrice", "openPrice", "lowPrice", "closePrice",
                     "lastClosePrice", "volume", "amount", "turnoverRate", "pe",
                     "changeRate", "recvTime", "timestamp"})
                 EXCEPT !["recvTime"] = "time", !["amount"] = "none"]
  IN IF Decodes("KL_1Min", p) THEN SerializeKL1Min(Rows(p, from)) ELSE NoTable

(* decodeLoop with DecoderRegistry::get, and the bytes the adapter hands to
   consumecb: none for an error, whose message stays behind. *)
Decode(envelope) ==
  LET type == TypeOfTopic[envelope.topic]
      p == envelope.payload
  IN [type |-> type, key |-> envelope.key,
      table |-> CASE type = "BasicQot" -> DecodeBasicQuote(p)
                  [] type = "OrderBook" -> DecodeOrderBook(p)
                  [] type = "Ticker" -> DecodeTicker(p)
                  [] type = "KL_1Min" -> DecodeKL1Min(p)]

(* What q is handed for a push, in order. *)
Received(p) ==
  LET envelopes == Envelopes(p) IN
  [i \in {j \in DOMAIN envelopes : envelopes[j].topic \in Consumable} |->
     Decode(envelopes[i])]
=============================================================================
