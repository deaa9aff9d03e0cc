----------------------------- MODULE OrderRules -----------------------------
(***************************************************************************)
(* What the backend accepts as a write and turns into orders of the wire:  *)
(* the validation of the handlers (backend/internal/http/server.go,        *)
(* internal/validation) and the prices and sizes the signing client        *)
(* computes (internal/exchange/client_trading.go).                         *)
(*                                                                         *)
(* A decimal is what is written: [coef |-> 150, places |-> 2] is "1.50".   *)
(* Strings that are no decimal are refused where they are read and are     *)
(* left out.  An optional field is a set of at most one value.  Slippage   *)
(* is in hundredths of a percent.                                          *)
(***************************************************************************)
EXTENDS Integers, FiniteSetsExt

Decimals == [coef : Nat, places : Nat]

Sides == {"buy", "sell", "Buy"}   (* "Buy" for any other spelling          *)
IsBuy(side) == side \in {"buy", "Buy"}
Limits == {"limit", "stopLimit", "takeProfitLimit"}
Triggers == {"stopMarket", "stopLimit", "takeProfitMarket", "takeProfitLimit"}
Kinds == {"market"} \union Limits \union Triggers
Percents == {25, 50, 75, 100}
DefaultSlippage == 50
MaxSlippage == 500
-----------------------------------------------------------------------------
(* The writes as they are read, and what they need to know of the market   *)
(* and of the position in it.                                              *)
AttachedOrders == [trigger : Decimals, limit : SUBSET Decimals]
OrderWrites ==
  [op : {"order"}, kind : Kinds, side : Sides, size : Decimals,
   price : SUBSET Decimals, trigger : SUBSET Decimals,
   triggerLimit : SUBSET Decimals, slippage : SUBSET Int,
   attached : SUBSET AttachedOrders]
ModifyWrites ==
  [op : {"modify"}, side : Sides, size : Decimals, price : SUBSET Decimals]
CloseWrites ==
  [op : {"close"}, kind : {"market", "limit"}, percent : Int,
   price : SUBSET Decimals, slippage : SUBSET Int]
Writes == OrderWrites \union ModifyWrites \union CloseWrites
Markets == [mark : SUBSET Decimals, precision : Nat, held : Decimals,
            long : BOOLEAN]
Requests == [write : Writes, market : Markets]
-----------------------------------------------------------------------------
Ten[n \in Nat] == IF n = 0 THEN 1 ELSE 10 * Ten[n - 1]

(* How many digits, none of them a zero in front, and how many of the last *)
(* ones are zeros, of most of them.                                        *)
NumDigits[n \in Nat] == IF n = 0 THEN 0 ELSE 1 + NumDigits[n \div 10]
ZerosAtEnd(n, most) == Max({e \in 0..most : n % Ten[e] = 0})

(* trimFixedDecimal: no zeros at the end of a fraction.                    *)
Trim(d) ==
  LET zeros == ZerosAtEnd(d.coef, d.places) IN
  [coef |-> d.coef \div Ten[zeros], places |-> d.places - zeros]

(* ValidateScale counts the digits that are written.                       *)
ScaleFits(d, precision) == d.places <= precision

(* Decimals a price may have.                                              *)
MaxDecimals(precision) == IF precision > 6 THEN 0 ELSE 6 - precision

(* Mutant: the digits are not counted.                                     *)
PriceOfAnyLength(d, precision) == Trim(d).places <= MaxDecimals(precision)

(* validateHyperliquidPrice counts neither zeros at the end nor zeros      *)
(* before the first digit.                                                 *)
PriceFits(d, precision) ==
  /\ Trim(d).places <= MaxDecimals(precision)
  /\ NumDigits[d.coef] - ZerosAtEnd(d.coef, NumDigits[d.coef]) <= 5
-----------------------------------------------------------------------------
(* The multiples of unit, counted in units, that n may be rounded to: the  *)
(* code rounds in floating point, so a tie may go either way.              *)
Nearest(n, unit) ==
  {n \div unit + up : up \in {u \in {0, 1} :
     IF u = 0 THEN 2 * (n % unit) <= unit ELSE 2 * (n % unit) >= unit}}

(* Mutant: rounded to the decimals only.                                   *)
NoRounding(n) == {n}

(* FormatFloat with five significant digits.                               *)
FiveDigits(n) ==
  LET unit == Ten[IF NumDigits[n] > 5 THEN NumDigits[n] - 5 ELSE 0] IN
  {unit * q : q \in Nearest(n, unit)}

(* The last rounding, to the decimals of the market.                       *)
ToDecimals(n, places, decimals) ==
  IF places <= decimals THEN {Trim([coef |-> n, places |-> places])}
  ELSE {Trim([coef |-> q, places |-> decimals]) :
          q \in Nearest(n, Ten[places - decimals])}

(* Mutant: the sides swapped.                                              *)
FactorSwapped(isBuy, slippage) ==
  IF isBuy THEN 10000 - slippage ELSE 10000 + slippage

(* Ten thousand times the factor on the reference price.                   *)
Factor(isBuy, slippage) ==
  IF isBuy THEN 10000 + slippage ELSE 10000 - slippage

(* aggressivePrice: none from a reference that is not positive.            *)
AggressivePrices(reference, isBuy, slippage, precision) ==
  IF reference.coef = 0 THEN {}
  ELSE UNION {ToDecimals(n, reference.places + 4, MaxDecimals(precision)) :
         n \in FiveDigits(reference.coef * Factor(isBuy, slippage))}

(* Mutant: the fraction is rounded up.                                     *)
UnitsRoundedUp(held, percent, precision) ==
  (held.coef * percent * Ten[precision] + 100 * Ten[held.places] - 1)
    \div (100 * Ten[held.places])

(* percentageOfDecimal, in units of the market's size.                     *)
Units(held, percent, precision) ==
  (held.coef * percent * Ten[precision]) \div (100 * Ten[held.places])
-----------------------------------------------------------------------------
(* What the client asks of a price that is computed.                       *)
SlippageOf(slippage) == IF slippage = {} THEN {DefaultSlippage} ELSE slippage

Aggressive(references, isBuy, slippage, precision) ==
  UNION {{[price |-> p, reference |-> {r}] :
            p \in AggressivePrices(r, isBuy, s, precision)} :
         r \in references, s \in SlippageOf(slippage)}

Given(prices) == {[price |-> Trim(p), reference |-> {}] : p \in prices}

FirstOf(a, b) == IF a = {} THEN b ELSE a

(* The prices an order may go out with; none when one cannot be computed.  *)
ParentPrices(r, market) ==
  CASE r.kind = "market" ->
         Aggressive(market.mark, IsBuy(r.side), r.slippage, market.precision)
    [] r.kind = "limit" -> Given(r.price)
    [] r.kind \in {"stopMarket", "takeProfitMarket"} ->
         Aggressive(r.trigger, IsBuy(r.side), r.slippage, market.precision)
    [] OTHER -> Given(FirstOf(r.triggerLimit, r.price))

ChildPrices(r, child, market) ==
  IF child.limit # {} THEN Given(child.limit)
  ELSE Aggressive({child.trigger}, ~IsBuy(r.side), r.slippage,
                  market.precision)

Wire(isBuy, size, priced, trigger) ==
  [isBuy |-> isBuy, size |-> Trim(size), price |-> priced.price,
   reference |-> priced.reference, trigger |-> trigger]

(* PlaceOrder: the orders of one batch; none of a side that is not spelled *)
(* as the wire does, and none without a reference price.                   *)
OrderWires(r, market) ==
  IF r.side = "Buy" \/ ParentPrices(r, market) = {} THEN {}
  ELSE {Wire(IsBuy(r.side), r.size, p,
             IF r.kind \in Triggers THEN r.trigger ELSE {}) :
          p \in ParentPrices(r, market)}
         \union UNION {{Wire(~IsBuy(r.side), r.size, p, {child.trigger}) :
                          p \in ChildPrices(r, child, market)} :
                       child \in r.attached}

(* ModifyOrder.                                                            *)
ModifyWires(r) ==
  IF r.side = "Buy" THEN {}
  ELSE {Wire(IsBuy(r.side), r.size, p, {}) : p \in Given(r.price)}

(* ClosePosition; a limit price goes out as it was given.                  *)
CloseWires(r, market) ==
  LET units == Units(market.held, r.percent, market.precision) IN
  IF units = 0 THEN {}
  ELSE {Wire(~market.long, [coef |-> units, places |-> market.precision], p,
             {}) :
          p \in IF r.kind = "limit" THEN Given(r.price)
                ELSE Aggressive(market.mark, ~market.long, r.slippage,
                                market.precision)}

Wires(r, market) ==
  CASE r.op = "order" -> OrderWires(r, market)
    [] r.op = "modify" -> ModifyWires(r)
    [] r.op = "close" -> CloseWires(r, market)
-----------------------------------------------------------------------------
Positive(ds) == \A d \in ds : d.coef > 0
SlippageValid(slippage) == \A s \in slippage : 0 < s /\ s <= MaxSlippage

(* validateOrderRequest.                                                   *)
OrderValid(r) ==
  /\ r.size.coef > 0
  /\ r.kind = "limit" => r.price # {}
  /\ r.kind \in Triggers => r.trigger # {}
  /\ r.kind \in {"stopLimit", "takeProfitLimit"}
       => r.triggerLimit # {} \/ r.price # {}
  /\ Positive(r.price \union r.trigger \union r.triggerLimit)
  /\ SlippageValid(r.slippage)
  /\ r.attached # {} => r.kind \in {"limit", "market"}
  /\ \A child \in r.attached : Positive({child.trigger} \union child.limit)

(* validateOrderRequestPrecision.                                          *)
OrderPrecise(r, precision) ==
  /\ ScaleFits(r.size, precision)
  /\ \A p \in r.price \union r.trigger \union r.triggerLimit :
       PriceFits(p, precision)
  /\ \A child \in r.attached : \A p \in {child.trigger} \union child.limit :
       PriceFits(p, precision)

(* validateModifyOrderRequest and its precision.                           *)
ModifyValid(r, precision) ==
  /\ r.size.coef > 0 /\ r.price # {} /\ Positive(r.price)
  /\ ScaleFits(r.size, precision)
  /\ \A p \in r.price : PriceFits(p, precision)

(* validateCloseRequest.                                                   *)
CloseValid(r) ==
  /\ r.percent \in Percents
  /\ r.kind = "limit" => r.price # {}
  /\ Positive(r.price)
  /\ SlippageValid(r.slippage)

Valid(r, market) ==
  CASE r.op = "order" -> OrderValid(r) /\ OrderPrecise(r, market.precision)
    [] r.op = "modify" -> ModifyValid(r, market.precision)
    [] r.op = "close" -> CloseValid(r)
-----------------------------------------------------------------------------
(* What the exchange trades: a price of five significant digits and of the *)
(* decimals of the market, a size of the market's.                         *)
OnGrid(d, decimals) ==
  \E e \in 0..d.places : d.coef % Ten[e] = 0 /\ d.places - e <= decimals

TradablePrice(d, precision) ==
  /\ d.coef > 0
  /\ OnGrid(d, MaxDecimals(precision))
  /\ \E e \in 0..NumDigits[d.coef] :
       d.coef % Ten[e] = 0 /\ d.coef \div Ten[e] < 100000

TradableSize(d, precision) == d.coef > 0 /\ OnGrid(d, precision)

(* At least the smallest price of the market.                              *)
AtLeastATick(d, precision) ==
  LET decimals == MaxDecimals(precision) IN
  d.places > decimals => Ten[d.places - decimals] <= d.coef

(* a <= b, both at the larger number of decimals.                          *)
AtMost(a, b) ==
  LET up(d, places) ==
        IF places > d.places THEN d.coef * Ten[places - d.places] ELSE d.coef
  IN  up(a, b.places) <= up(b, a.places)
=============================================================================
