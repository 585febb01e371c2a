------------------------ MODULE MCSubscriptionReload ------------------------
(* All files of up to two items over two securities: items with no subtypes
   key, with an empty list and with one subtype, repeated securities, defaults
   of all six subtypes or none, and one thing or more that is wrong; loaded
   one after another in every order.  After any of them a push: whole, failed,
   without a body, empty, with fields missing, with a time that is none. *)
EXTENDS QuotePath

CONSTANTS s1, s2

MCSubTypes == {"BasicQot", "OrderBook", "Ticker", "KL_1Min", "RT", "Broker"}

MCMarketOf == [s \in Securities |-> IF s = s1 THEN "HK" ELSE "SH"]

MCItems == [symbol : {s1, s2}, subtypes : {{}, {"BasicQot"}, {"KL_1Min"}, Absent}]
             \union [symbol : {Malformed, NotMap}, subtypes : {Absent}]
             \union [symbol : {s1}, subtypes : {Malformed}]

MCLists == UNION {[1..n -> MCItems] : n \in 0..2} \union {Malformed}

MCFiles ==
  [readable : {TRUE}, version : {"number"}, defaults : {Absent, MCSubTypes},
   securities : MCLists]
    \union [readable : BOOLEAN, version : {"other", "number"}, defaults : {Malformed},
            securities : {<< >>}]

(* The fields of the API that the columns are named for. *)
MCFields(t) ==
  CASE t = "BasicQot" -> {"priceSpread", "highPrice", "openPrice", "lowPrice", "curPrice",
                          "lastClosePrice", "volume", "turnover", "turnoverRate",
                          "amplitude", "updateTime"}
    [] t = "OrderBook" -> {"price", "volume", "orederCount"}
    [] t = "Ticker" -> {"dir", "price", "volume", "turnover", "time", "recvTime"}
    [] t = "KL_1Min" -> {"highPrice", "openPrice", "lowPrice", "closePrice",
                         "lastClosePrice", "volume", "turnover", "turnoverRate", "pe",
                         "changeRate", "time", "timestamp"}
    [] OTHER -> {}

MCTimes == {"updateTime", "time", "recvTime", "timestamp"}

(* Quotes of s, and in basic quotes also of the other security. *)
MCQuotes(s, t, sides, fields, malformed) ==
  [n \in DOMAIN sides |->
     [n |-> n, security |-> IF t = "BasicQot" /\ n = 2 THEN s2 ELSE s, side |-> sides[n],
      fields |-> fields[n], malformed |-> malformed[n]]]

MCPushesOf(s, t) ==
  LET all == MCFields(t)
      bad == IF all \intersect MCTimes = {} THEN {}
             ELSE {CHOOSE f \in all \intersect MCTimes : TRUE}
      Of(failed, hasS2C, quotes) ==
        [type |-> t, security |-> s, failed |-> failed, hasS2C |-> hasS2C,
         quotes |-> quotes]
      Three(fields, malformed) ==
        MCQuotes(s, t, <<"ask", "ask", "bid">>, <<all, fields, all>>, <<{}, malformed, {}>>)
  IN {Of(TRUE, FALSE, << >>), Of(FALSE, FALSE, << >>), Of(FALSE, TRUE, << >>),
      Of(TRUE, TRUE, Three(all, {})), Of(FALSE, TRUE, Three(all, {})),
      Of(FALSE, TRUE, Three({}, {})), Of(FALSE, TRUE, Three(all, bad)),
      Of(FALSE, TRUE, MCQuotes(s, t, <<"bid">>, <<all \ MCTimes>>, <<{}>>))}
=============================================================================
