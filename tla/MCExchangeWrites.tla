-------------------------- MODULE MCExchangeWrites --------------------------
(* Instances of ExchangeWrites for TLC.                                    *)
EXTENDS ExchangeWrites, TLC

(* An order of a perpetual market and one of a spot market.                *)
SymbolsOfTwo == [o1 |-> "BTC", o2 |-> "SPOT"]

(* One request of each kind that the exchange treats differently; "every   *)
(* symbol" meets the spot order, half of a position may be nothing.        *)
OneOfEach ==
  {[NoRequest EXCEPT !.op = "placeAttached"]}
    \union {[NoRequest EXCEPT !.op = o, !.oid = "o1"] :
              o \in {"modify", "cancel"}}
    \union {[NoRequest EXCEPT !.op = "cancelAll", !.symbol = s] :
              s \in {"BTC", Every}}
    \union {[NoRequest EXCEPT !.op = "close", !.percent = p] : p \in Percents}

(* Long or short; a close leaves it flat or smaller.                       *)
LongOrShort == {-1, 2}

(* Writes differ in nothing but their identity.                            *)
CallSymmetry == Permutations(Calls)
=============================================================================
