------------------------------- MODULE Ingress -------------------------------
(***************************************************************************)
(* The way of a write through the router (backend/internal/http): the rate *)
(* limiter, the origin check, the validation, the client's wire orders.    *)
(* Whether trading is armed is the matter of NetworkGate, what becomes of  *)
(* a posted action that of ExchangeWrites.                                 *)
(*                                                                         *)
(* A behaviour sends one write, over and over, from several addresses:     *)
(* writes share nothing here but the limiter.                              *)
(***************************************************************************)
EXTENDS OrderRules

CONSTANTS
  Addresses,  (* remote addresses                                          *)
  Loopback,   (* those of this host                                        *)
  LocalOnly,  (* whether the server listens on a loopback address          *)
  Burst,      (* what a visitor may send at once (server.go:98)            *)
  Rate,       (* what he may send more per unit of time                    *)
  Cases,      (* the writes and the markets they are for                   *)
  MaxTime     (* bound of the time                                         *)

ASSUME IngressAssumption ==
  /\ Loopback \subseteq Addresses
  /\ LocalOnly \in BOOLEAN
  /\ Burst \in Nat /\ Rate \in Nat /\ MaxTime \in Nat

ASSUME CasesAssumption == Cases \subseteq Requests

(* The exchange marks no market below the smallest price it trades at; a   *)
(* market without a mark has none or zero.                                 *)
ASSUME MarkAssumption ==
  \A c \in Cases : \A mark \in c.market.mark :
    mark.coef > 0 => AtLeastATick(mark, c.market.precision)

VARIABLES
  case,     (* the write and its market                                    *)
  now,      (* time                                                        *)
  visitors, (* Limiter.visitors: who has a bucket                          *)
  tokens,   (* what is left in it                                          *)
  admitted, (* history: requests the limiter let pass                      *)
  outcome,  (* of the last request                                         *)
  posted    (* the wire orders it sent                                     *)

vars == <<case, now, visitors, tokens, admitted, outcome, posted>>

Origins == {"own", "equivalent", "other", "none"}
Outcomes == {"none", "limited", "forbidden", "invalid", "failed", "posted"}

Init ==
  /\ case \in Cases
  /\ now = 0
  /\ visitors = {}
  /\ tokens = [a \in Addresses |-> 0]
  /\ admitted = [a \in Addresses |-> 0]
  /\ outcome = "none" /\ posted = {}

(* Mutant: every request gets a new bucket.                                *)
AlwaysFull(a) == Burst

(* getVisitor: the first request of an address finds a full bucket.        *)
Bucket(a) == IF a \in visitors THEN tokens[a] ELSE Burst

(* SecurityMiddleware on a request that changes state.                     *)
Allowed(a, origin) ==
  /\ origin = "own" \/ (LocalOnly /\ origin = "equivalent")
  /\ LocalOnly => a \in Loopback

Answer(o, wires) == outcome' = o /\ posted' = wires

(* Mutant: a price that could not be computed is not noticed.              *)
HandleUnchecked ==
  IF ~Valid(case.write, case.market) THEN Answer("invalid", {})
  ELSE Answer("posted", Wires(case.write, case.market))

(* Without an order to send, the client has failed before it posted; a tie *)
(* in the rounding leaves a choice of prices.                              *)
Handle ==
  LET wires == Wires(case.write, case.market) IN
  IF ~Valid(case.write, case.market) THEN Answer("invalid", {})
  ELSE IF wires = {} THEN Answer("failed", {})
  ELSE Answer("posted", wires)

(* A request arrives.  The limiter counts it before its origin is checked. *)
(* getVisitor looks up and inserts under the mutex, Allow has a lock of    *)
(* its own; a bucket that was found can only be used up by other requests  *)
(* of its address before Allow, which then refuses: as if this one came    *)
(* later.                                                                  *)
Arrive(a, origin) ==
  /\ visitors' = visitors \union {a}
  /\ IF Bucket(a) = 0
     THEN /\ tokens' = [tokens EXCEPT ![a] = 0]
          /\ UNCHANGED admitted
          /\ Answer("limited", {})
     ELSE /\ tokens' = [tokens EXCEPT ![a] = Bucket(a) - 1]
          /\ admitted' = [admitted EXCEPT ![a] = @ + 1]
          /\ IF Allowed(a, origin) THEN Handle ELSE Answer("forbidden", {})
  /\ UNCHANGED <<case, now>>

Smaller(a, b) == IF a < b THEN a ELSE b

Tick ==
  /\ now < MaxTime
  /\ now' = now + 1
  /\ tokens' = [a \in Addresses |->
                 IF a \in visitors THEN Smaller(Burst, tokens[a] + Rate)
                 ELSE tokens[a]]
  /\ UNCHANGED <<case, visitors, admitted, outcome, posted>>

Next == Tick \/ \E a \in Addresses, origin \in Origins : Arrive(a, origin)

Spec == Init /\ [][Next]_vars
-----------------------------------------------------------------------------
WireOrders == [isBuy : BOOLEAN, size : Decimals, price : Decimals,
               reference : SUBSET Decimals, trigger : SUBSET Decimals]

(* Every variable has its type.                                            *)
TypeOK ==
  /\ case \in Requests
  /\ now \in 0..MaxTime
  /\ visitors \subseteq Addresses
  /\ tokens \in [Addresses -> 0..Burst]
  /\ admitted \in [Addresses -> Nat]
  /\ outcome \in Outcomes
  /\ posted \subseteq WireOrders
  /\ posted # {} <=> outcome = "posted"

(* An address is never served more than a burst and what the rate allows   *)
(* since, and another one's requests do not count (limiter.go:34-66).      *)
BudgetKept == \A a \in Addresses : admitted[a] <= Burst + Rate * now

(* What the handlers accept is what the exchange trades: every price that  *)
(* goes out has five significant digits and the market's decimals, every   *)
(* size the market's, whether it was given or computed by the client       *)
(* (server.go:1030-1098, client_trading.go:440-517).  The limit price of a *)
(* close is the exception: nothing checks it.                              *)
PostedIsTradable ==
  \A w \in posted :
    /\ TradableSize(w.size, case.market.precision)
    /\ \/ case.write.op = "close" /\ case.write.kind = "limit"
       \/ TradablePrice(w.price, case.market.precision)
    /\ \A t \in w.trigger : TradablePrice(t, case.market.precision)

(* From a reference price the exchange trades at, a market order buys at   *)
(* that price or above and sells at it or below, in spite of both          *)
(* roundings, and never gives away more than the largest slippage and the  *)
(* rounding of it (client_trading.go:440-473).                             *)
MarketOrdersCross ==
  \A w \in posted : \A r \in w.reference :
    TradablePrice(r, case.market.precision) =>
      /\ IF w.isBuy THEN AtMost(r, w.price) ELSE AtMost(w.price, r)
      /\ LET worst == AggressivePrices(r, w.isBuy, MaxSlippage,
                                       case.market.precision)
         IN  \E p \in worst : IF w.isBuy THEN AtMost(w.price, p)
                              ELSE AtMost(p, w.price)

(* A close is on the other side, for the largest size the exchange trades  *)
(* that is no more than the share of the position that was asked for       *)
(* (client_trading.go:276-317, 494-517).                                   *)
CloseFitsPosition ==
  case.write.op = "close" => \A w \in posted :
    LET held == case.market.held
        share == [coef |-> held.coef * case.write.percent,
                  places |-> held.places + 2]
        unit == Ten[case.market.precision - w.size.places]
        next == [coef |-> w.size.coef * unit + 1,
                 places |-> case.market.precision]
    IN  /\ AtMost(w.size, share) /\ ~AtMost(next, share)
        /\ w.isBuy # case.market.long
=============================================================================
