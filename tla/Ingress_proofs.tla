--------------------------- MODULE Ingress_proofs ---------------------------
(***************************************************************************)
(* Proofs about Ingress for any addresses, rate, burst, writes and         *)
(* markets.                                                                *)
(*                                                                         *)
(* The budget: what an address has left and what it was admitted are       *)
(* together never more than its budget (Spent), because a bucket is filled *)
(* once when the address is first seen and then by the rate alone.         *)
(*                                                                         *)
(* The orders: what is posted is always the wire orders of a valid write   *)
(* (Sent), and every wire order of a valid write is good (WiresGood), by   *)
(* the theorems of OrderRules_proofs on the prices that are computed and   *)
(* by what the validation asks of those that are given.                    *)
(***************************************************************************)
EXTENDS Ingress, OrderRules_proofs

(* What the limiter counts with.                                           *)
Counts ==
  /\ now \in Nat
  /\ visitors \subseteq Addresses
  /\ tokens \in [Addresses -> Nat]
  /\ admitted \in [Addresses -> Nat]

(* A stranger was admitted nothing yet.                                    *)
Spent ==
  \A a \in Addresses :
    IF a \in visitors THEN tokens[a] + admitted[a] <= Burst + Rate * now
    ELSE admitted[a] = 0

BInv == Counts /\ Spent

LEMMA ArriveStep ==
  ASSUME BInv, NEW a \in Addresses, NEW origin \in Origins, Arrive(a, origin)
  PROVE  BInv'
  <1> USE IngressAssumption DEF BInv, Counts, Spent
  <1>1. Rate * now \in Nat
    OBVIOUS
  <1>2. Bucket(a) \in Nat /\ Bucket(a) + admitted[a] <= Burst + Rate * now
    BY <1>1 DEF Bucket
  <1>3. visitors' = visitors \union {a} /\ now' = now
    BY DEF Arrive
  <1>4. CASE Bucket(a) = 0
    <2>1. tokens' = [tokens EXCEPT ![a] = 0] /\ admitted' = admitted
      BY <1>4 DEF Arrive
    <2> QED
      BY <1>1, <1>2, <1>3, <1>4, <2>1
  <1>5. CASE Bucket(a) # 0
    <2>1. /\ tokens' = [tokens EXCEPT ![a] = Bucket(a) - 1]
          /\ admitted' = [admitted EXCEPT ![a] = @ + 1]
      BY <1>5 DEF Arrive
    <2> QED
      BY <1>1, <1>2, <1>3, <1>5, <2>1
  <1> QED
    BY <1>4, <1>5

LEMMA TickStep == BInv /\ Tick => BInv'
  <1> SUFFICES ASSUME BInv, Tick PROVE BInv'
    OBVIOUS
  <1> USE IngressAssumption DEF BInv, Counts, Spent
  <1>1. /\ Rate * now \in Nat
        /\ Rate * (now + 1) = Rate * now + Rate
    OBVIOUS
  <1>2. /\ now' = now + 1 /\ visitors' = visitors /\ admitted' = admitted
        /\ tokens' = [a \in Addresses |->
             IF a \in visitors THEN Smaller(Burst, tokens[a] + Rate)
             ELSE tokens[a]]
    BY DEF Tick
  <1>3. ASSUME NEW a \in Addresses
        PROVE  /\ Smaller(Burst, tokens[a] + Rate) \in Nat
               /\ Smaller(Burst, tokens[a] + Rate) <= tokens[a] + Rate
    BY DEF Smaller
  <1>4. Rate * now' = Rate * now + Rate
    BY <1>1, <1>2
  <1>5. Counts'
    BY <1>2, <1>3
  <1>6. Spent'
    BY <1>1, <1>2, <1>3, <1>4
  <1> QED
    BY <1>5, <1>6

(* No address gets more than its budget, whatever the others send          *)
(* (limiter.go:34-66).                                                     *)
THEOREM Budget == Spec => []BudgetKept
  <1>1. Init => BInv
    BY IngressAssumption DEF Init, BInv, Counts, Spent
  <1>2. BInv /\ [Next]_vars => BInv'
    <2>1. BInv /\ UNCHANGED vars => BInv'
      BY DEF BInv, Counts, Spent, vars
    <2> QED
      BY <2>1, ArriveStep, TickStep DEF Next
  <1>3. BInv => BudgetKept
    <2>1. BInv => Rate * now \in Nat
      BY IngressAssumption DEF BInv, Counts
    <2> QED
      BY <2>1, IngressAssumption DEF BInv, Counts, Spent, BudgetKept
  <1> QED
    BY <1>1, <1>2, <1>3, PTL DEF Spec
-----------------------------------------------------------------------------
(* A price with what it was computed from, if it was.                      *)
Comes(x, b, P) ==
  /\ x.price \in Decimals /\ x.reference \subseteq Decimals
  /\ \A r \in x.reference : \E s : /\ SlippageFits(s)
                                   /\ x.price \in AggressivePrices(r, b, s, P)

LEMMA GivenComes ==
  ASSUME NEW prices \in SUBSET Decimals, NEW b, NEW P,
         NEW x \in Given(prices)
  PROVE  Comes(x, b, P) /\ \E p \in prices : x.price = Trim(p)
  <1>1. PICK p \in prices : x = [price |-> Trim(p), reference |-> {}]
    BY DEF Given
  <1>2. x.price = Trim(p) /\ x.reference = {} /\ p \in Decimals
    BY <1>1
  <1>3. Trim(p) \in Decimals
    BY <1>2, TrimFacts
  <1> QED
    BY <1>2, <1>3 DEF Comes

LEMMA GivenTradable ==
  ASSUME NEW prices \in SUBSET Decimals, NEW b, NEW P \in Nat,
         NEW x \in Given(prices), Positive(prices),
         \A p \in prices : PriceFits(p, P)
  PROVE  TradablePrice(x.price, P)
  <1>1. PICK p \in prices : x.price = Trim(p)
    BY GivenComes
  <1>2. p \in Decimals /\ p.coef > 0 /\ PriceFits(p, P)
    BY DEF Positive
  <1> QED
    BY <1>1, <1>2, FitsTradable, TrimTradable

LEMMA SlippageOfFits ==
  ASSUME NEW slippage \in SUBSET Int, SlippageValid(slippage),
         NEW s \in SlippageOf(slippage)
  PROVE  SlippageFits(s)
  <1>1. CASE slippage = {}
    <2>1. s = 50
      BY <1>1 DEF SlippageOf, DefaultSlippage
    <2> QED
      BY <2>1 DEF SlippageFits, MaxSlippage
  <1>2. CASE slippage # {}
    BY <1>2 DEF SlippageOf, SlippageValid, SlippageFits
  <1> QED
    BY <1>1, <1>2

LEMMA AggressiveComes ==
  ASSUME NEW references \in SUBSET Decimals, NEW b \in BOOLEAN,
         NEW slippage \in SUBSET Int, SlippageValid(slippage), NEW P \in Nat,
         \A r \in references : r.coef > 0 => AtLeastATick(r, P),
         NEW x \in Aggressive(references, b, slippage, P)
  PROVE  Comes(x, b, P) /\ TradablePrice(x.price, P)
  <1>1. PICK r \in references, s \in SlippageOf(slippage) :
          \E p \in AggressivePrices(r, b, s, P) :
            x = [price |-> p, reference |-> {r}]
    BY DEF Aggressive
  <1>2. x.price \in AggressivePrices(r, b, s, P) /\ x.reference = {r}
    BY <1>1
  <1>3. r \in Decimals /\ SlippageFits(s)
    BY SlippageOfFits
  <1>4. r.coef \in Nat \ {0}
    BY <1>2, <1>3, AggressiveFrom
  <1>5. AtLeastATick(r, P)
    BY <1>4
  <1>6. x.price \in Decimals /\ TradablePrice(x.price, P)
    BY <1>2, <1>3, <1>5, AggressiveTradable
  <1>7. Comes(x, b, P)
    BY <1>2, <1>3, <1>6 DEF Comes
  <1> QED
    BY <1>6, <1>7

(* What Wire makes of a size that fits and a price.                        *)
LEMMA WireFacts ==
  ASSUME NEW b \in BOOLEAN, NEW P \in Nat,
         NEW size \in Decimals, size.coef > 0, size.places <= P,
         NEW x, Comes(x, b, P), NEW trigger \in SUBSET Decimals
  PROVE  LET w == Wire(b, size, x, trigger)
         IN  /\ w \in WireOrders /\ Comes(w, w.isBuy, P)
             /\ TradableSize(w.size, P)
             /\ w.isBuy = b /\ w.price = x.price /\ w.trigger = trigger
             /\ w.size = Trim(size)
  <1> DEFINE w == Wire(b, size, x, trigger)
             t == Trim(size)
  <1>1. w = [isBuy |-> b, size |-> t, price |-> x.price,
             reference |-> x.reference, trigger |-> trigger]
    BY DEF Wire
  <1>2. t \in Decimals
    BY TrimFacts
  <1>3. PICK z \in 0..size.places :
          t.places = size.places - z /\ size.coef = t.coef * Ten[z]
    BY TrimFacts
  <1> HIDE DEF t, w
  <1>4. /\ size.places \in Nat /\ t.coef \in Nat /\ t.places \in Nat
        /\ z \in Nat /\ Ten[z] \in Nat
    BY <1>2, DecimalFacts, TenType
  <1>5. t.places <= P /\ t.coef > 0
    BY <1>3, <1>4
  <1>6. TradableSize(t, P)
    BY <1>2, <1>5, WholeGrid DEF TradableSize
  <1>7. /\ w.isBuy = b /\ w.size = t /\ w.price = x.price
        /\ w.reference = x.reference /\ w.trigger = trigger
    BY <1>1
  <1>8. w \in WireOrders
    BY <1>1, <1>2 DEF WireOrders, Comes
  <1>9. Comes(w, w.isBuy, P)
    BY <1>7 DEF Comes
  <1> QED
    BY <1>6, <1>7, <1>8, <1>9 DEF w, t
-----------------------------------------------------------------------------
Marked(m) ==
  \A mark \in m.mark : mark.coef > 0 => AtLeastATick(mark, m.precision)

LEMMA MarketFacts ==
  ASSUME NEW m \in Markets
  PROVE  /\ m.mark \in SUBSET Decimals /\ m.precision \in Nat
         /\ m.held \in Decimals /\ m.long \in BOOLEAN
  BY DEF Markets

LEMMA OrderFacts ==
  ASSUME NEW r \in OrderWrites
  PROVE  /\ r.op = "order" /\ r.kind \in Kinds /\ r.side \in Sides
         /\ r.size \in Decimals /\ r.price \in SUBSET Decimals
         /\ r.trigger \in SUBSET Decimals
         /\ r.triggerLimit \in SUBSET Decimals
         /\ r.slippage \in SUBSET Int
         /\ r.attached \in SUBSET AttachedOrders
         /\ IsBuy(r.side) \in BOOLEAN /\ (~IsBuy(r.side)) \in BOOLEAN
  <1>1. IsBuy(r.side) \in BOOLEAN /\ (~IsBuy(r.side)) \in BOOLEAN
    BY DEF IsBuy
  <1> QED
    BY <1>1 DEF OrderWrites

(* A price of the request is what the validation asks of it.               *)
LEMMA OrderGiven ==
  ASSUME NEW r \in OrderWrites, NEW P \in Nat, OrderValid(r),
         OrderPrecise(r, P),
         NEW prices \in SUBSET (r.price \union r.trigger
                                  \union r.triggerLimit)
  PROVE  /\ prices \in SUBSET Decimals /\ Positive(prices)
         /\ \A p \in prices : PriceFits(p, P)
         /\ \A p \in prices : AtLeastATick(p, P) /\ TradablePrice(p, P)
  <1>1. prices \in SUBSET Decimals
    BY OrderFacts
  <1>2. Positive(prices) /\ \A p \in prices : PriceFits(p, P)
    BY DEF OrderValid, OrderPrecise, Positive
  <1>3. \A p \in prices : AtLeastATick(p, P) /\ TradablePrice(p, P)
    BY <1>1, <1>2, FitsTradable DEF Positive
  <1> QED
    BY <1>1, <1>2, <1>3

LEMMA ParentGood ==
  ASSUME NEW r \in OrderWrites, NEW m \in Markets, Marked(m), OrderValid(r),
         OrderPrecise(r, m.precision), NEW x \in ParentPrices(r, m)
  PROVE  /\ Comes(x, IsBuy(r.side), m.precision)
         /\ TradablePrice(x.price, m.precision)
  <1> DEFINE P == m.precision
             b == IsBuy(r.side)
  <1>1. P \in Nat /\ m.mark \in SUBSET Decimals
    BY MarketFacts
  <1>2. b \in BOOLEAN /\ r.slippage \in SUBSET Int /\ r.kind \in Kinds
    BY OrderFacts
  <1>3. SlippageValid(r.slippage)
    BY DEF OrderValid
  <1>4. CASE r.kind = "market"
    <2>1. x \in Aggressive(m.mark, b, r.slippage, P)
      BY <1>4 DEF ParentPrices
    <2> HIDE DEF P, b
    <2> QED
      BY <1>1, <1>2, <1>3, <2>1, AggressiveComes DEF Marked, P, b
  <1>5. ASSUME r.kind \in {"stopMarket", "takeProfitMarket"}
        PROVE  Comes(x, b, P) /\ TradablePrice(x.price, P)
    <2>1. x \in Aggressive(r.trigger, b, r.slippage, P)
      BY <1>5 DEF ParentPrices
    <2>2. r.trigger \in SUBSET Decimals
          /\ \A p \in r.trigger : AtLeastATick(p, P)
      BY <1>1, OrderGiven
    <2> HIDE DEF P, b
    <2> QED
      BY <1>1, <1>2, <1>3, <2>1, <2>2, AggressiveComes
  <1>6. ASSUME r.kind \notin {"market", "stopMarket", "takeProfitMarket"}
        PROVE  Comes(x, b, P) /\ TradablePrice(x.price, P)
    <2>1. PICK prices \in {r.price, r.triggerLimit} : x \in Given(prices)
      BY <1>6 DEF ParentPrices, FirstOf
    <2>2. /\ prices \in SUBSET Decimals /\ Positive(prices)
          /\ \A p \in prices : PriceFits(p, P)
      <3>1. prices \in SUBSET (r.price \union r.trigger \union r.triggerLimit)
        BY <2>1
      <3> QED
        BY <1>1, <3>1, OrderGiven
    <2> HIDE DEF P, b
    <2> QED
      BY <1>1, <2>1, <2>2, GivenComes, GivenTradable
  <1> QED
    BY <1>4, <1>5, <1>6

LEMMA ChildGood ==
  ASSUME NEW r \in OrderWrites, NEW m \in Markets, OrderValid(r),
         OrderPrecise(r, m.precision), NEW child \in r.attached,
         NEW x \in ChildPrices(r, child, m)
  PROVE  /\ Comes(x, ~IsBuy(r.side), m.precision)
         /\ TradablePrice(x.price, m.precision)
         /\ child.trigger \in Decimals
         /\ TradablePrice(child.trigger, m.precision)
  <1> DEFINE P == m.precision
             b == ~IsBuy(r.side)
             given == {child.trigger} \union child.limit
  <1>1. P \in Nat
    BY MarketFacts
  <1>2. b \in BOOLEAN /\ r.slippage \in SUBSET Int
    BY OrderFacts
  <1>3. SlippageValid(r.slippage)
    BY DEF OrderValid
  <1>4. child.trigger \in Decimals /\ child.limit \in SUBSET Decimals
    BY OrderFacts DEF AttachedOrders
  <1>5. Positive(given) /\ \A p \in given : PriceFits(p, P)
    BY DEF OrderValid, OrderPrecise
  <1>6. \A p \in given : AtLeastATick(p, P) /\ TradablePrice(p, P)
    BY <1>1, <1>4, <1>5, FitsTradable DEF Positive
  <1>7. CASE child.limit # {}
    <2>1. x \in Given(child.limit)
      BY <1>7 DEF ChildPrices
    <2>2. Positive(child.limit) /\ \A p \in child.limit : PriceFits(p, P)
      BY <1>5 DEF Positive
    <2> HIDE DEF P, b
    <2>3. Comes(x, b, P) /\ TradablePrice(x.price, P)
      BY <1>1, <1>4, <2>1, <2>2, GivenComes, GivenTradable
    <2> QED
      BY <1>4, <1>6, <2>3 DEF P, b
  <1>8. CASE child.limit = {}
    <2>1. x \in Aggressive({child.trigger}, b, r.slippage, P)
      BY <1>8 DEF ChildPrices
    <2>2. {child.trigger} \in SUBSET Decimals
          /\ \A p \in {child.trigger} : AtLeastATick(p, P)
      BY <1>4, <1>6
    <2> HIDE DEF P, b
    <2>3. Comes(x, b, P) /\ TradablePrice(x.price, P)
      BY <1>1, <1>2, <1>3, <2>1, <2>2, AggressiveComes
    <2> QED
      BY <1>4, <1>6, <2>3 DEF P, b
  <1> QED
    BY <1>7, <1>8
-----------------------------------------------------------------------------
(* A wire order the exchange takes, with a price that was given or was     *)
(* computed for its side; the limit price of a close is not looked at.     *)
Good(w, r, m) ==
  /\ w \in WireOrders /\ Comes(w, w.isBuy, m.precision)
  /\ TradableSize(w.size, m.precision)
  /\ \/ r.op = "close" /\ r.kind = "limit"
     \/ TradablePrice(w.price, m.precision)
  /\ \A t \in w.trigger : TradablePrice(t, m.precision)

LEMMA SizeFits ==
  ASSUME NEW size \in Decimals, NEW P \in Nat, ScaleFits(size, P)
  PROVE  size.places <= P
  BY DEF ScaleFits

LEMMA GoodWire ==
  ASSUME NEW r, NEW m \in Markets, NEW b \in BOOLEAN,
         NEW size \in Decimals, size.coef > 0, size.places <= m.precision,
         NEW x, Comes(x, b, m.precision),
         (r.op = "close" /\ r.kind = "limit")
           \/ TradablePrice(x.price, m.precision),
         NEW trigger \in SUBSET Decimals,
         \A t \in trigger : TradablePrice(t, m.precision)
  PROVE  Good(Wire(b, size, x, trigger), r, m)
  <1> DEFINE w == Wire(b, size, x, trigger)
             P == m.precision
  <1>1. P \in Nat
    BY MarketFacts
  <1>2. /\ w \in WireOrders /\ Comes(w, w.isBuy, P)
        /\ TradableSize(w.size, P)
        /\ w.price = x.price /\ w.trigger = trigger
    BY <1>1, WireFacts
  <1> HIDE DEF w, P
  <1> QED
    BY <1>2 DEF Good, w, P

LEMMA OrderWiresGood ==
  ASSUME NEW r \in OrderWrites, NEW m \in Markets, Marked(m), OrderValid(r),
         OrderPrecise(r, m.precision), NEW w \in OrderWires(r, m)
  PROVE  Good(w, r, m)
  <1> DEFINE P == m.precision
             b == IsBuy(r.side)
             c == ~IsBuy(r.side)
             trigger == IF r.kind \in Triggers THEN r.trigger ELSE {}
  <1>1. P \in Nat
    BY MarketFacts
  <1>2. b \in BOOLEAN /\ c \in BOOLEAN /\ r.size \in Decimals
    BY OrderFacts
  <1>3. r.size.coef > 0 /\ r.size.places <= P
    BY <1>1, <1>2, SizeFits DEF OrderValid, OrderPrecise
  <1>4. /\ trigger \in SUBSET Decimals
        /\ \A t \in trigger : TradablePrice(t, P)
    <2>1. trigger \in SUBSET (r.price \union r.trigger \union r.triggerLimit)
      OBVIOUS
    <2> HIDE DEF trigger
    <2> QED
      BY <1>1, <2>1, OrderGiven
  <1>5. w \in {Wire(b, r.size, x, trigger) : x \in ParentPrices(r, m)}
        \/ \E child \in r.attached : \E x \in ChildPrices(r, child, m) :
             w = Wire(c, r.size, x, {child.trigger})
    BY SMTT(60) DEF OrderWires
  <1> HIDE DEF trigger
  <1>6. CASE w \in {Wire(b, r.size, x, trigger) : x \in ParentPrices(r, m)}
    <2>1. PICK x \in ParentPrices(r, m) : w = Wire(b, r.size, x, trigger)
      BY <1>6
    <2>2. Comes(x, b, P) /\ TradablePrice(x.price, P)
      BY ParentGood
    <2> HIDE DEF b
    <2> QED
      BY <1>2, <1>3, <1>4, <2>1, <2>2, GoodWire
  <1>7. ASSUME NEW child \in r.attached, NEW x \in ChildPrices(r, child, m),
               w = Wire(c, r.size, x, {child.trigger})
        PROVE  Good(w, r, m)
    <2>1. /\ Comes(x, c, P) /\ TradablePrice(x.price, P)
          /\ child.trigger \in Decimals /\ TradablePrice(child.trigger, P)
      BY ChildGood
    <2>2. /\ {child.trigger} \in SUBSET Decimals
          /\ \A t \in {child.trigger} : TradablePrice(t, P)
      BY <2>1
    <2> HIDE DEF c
    <2> QED
      BY <1>2, <1>3, <1>7, <2>1, <2>2, GoodWire
  <1> QED
    BY <1>5, <1>6, <1>7

LEMMA ModifyWiresGood ==
  ASSUME NEW r \in ModifyWrites, NEW m \in Markets,
         ModifyValid(r, m.precision), NEW w \in ModifyWires(r)
  PROVE  Good(w, r, m)
  <1> DEFINE P == m.precision
             b == IsBuy(r.side)
  <1>1. P \in Nat
    BY MarketFacts
  <1>2. b \in BOOLEAN
    BY DEF IsBuy
  <1>3. r.size \in Decimals /\ r.price \in SUBSET Decimals
    BY DEF ModifyWrites
  <1>4. /\ r.size.coef > 0 /\ ScaleFits(r.size, P)
        /\ Positive(r.price) /\ \A p \in r.price : PriceFits(p, P)
    BY DEF ModifyValid
  <1>5. PICK x \in Given(r.price) : w = Wire(b, r.size, x, {})
    BY DEF ModifyWires
  <1> HIDE DEF P, b
  <1>6. Comes(x, b, P) /\ TradablePrice(x.price, P)
    BY <1>1, <1>3, <1>4, GivenComes, GivenTradable
  <1>7. r.size.places <= P
    BY <1>1, <1>3, <1>4, SizeFits
  <1>8. {} \in SUBSET Decimals /\ \A t \in {} : TradablePrice(t, P)
    OBVIOUS
  <1> QED
    BY <1>2, <1>3, <1>4, <1>5, <1>6, <1>7, <1>8, GoodWire DEF P

LEMMA CloseFacts ==
  ASSUME NEW r \in CloseWrites
  PROVE  /\ r.op = "close" /\ r.kind \in {"market", "limit"}
         /\ r.percent \in Int /\ r.price \in SUBSET Decimals
         /\ r.slippage \in SUBSET Int
  BY DEF CloseWrites

LEMMA UnitsType ==
  ASSUME NEW r \in CloseWrites, NEW m \in Markets, CloseValid(r)
  PROVE  /\ r.percent \in Nat /\ m.held.coef \in Nat /\ m.held.places \in Nat
         /\ m.held.coef * r.percent \in Nat
         /\ (m.held.coef * r.percent) * Ten[m.precision] \in Nat
         /\ 100 * Ten[m.held.places] \in Nat \ {0}
         /\ Units(m.held, r.percent, m.precision) \in Nat
  <1>1. r.percent \in Nat
    BY DEF CloseValid, Percents
  <1>2. m.held \in Decimals /\ m.precision \in Nat
    BY MarketFacts
  <1>3. m.held.coef \in Nat /\ m.held.places \in Nat
        /\ Ten[m.held.places] \in Nat \ {0} /\ Ten[m.precision] \in Nat
    BY <1>2, DecimalFacts, TenType
  <1>4. m.held.coef * r.percent \in Nat /\ 100 * Ten[m.held.places] \in Nat
        /\ 100 * Ten[m.held.places] # 0
    BY <1>1, <1>3
  <1>5. (m.held.coef * r.percent) * Ten[m.precision] \in Nat
    BY <1>3, <1>4, Product
  <1> DEFINE a == (m.held.coef * r.percent) * Ten[m.precision]
             u == 100 * Ten[m.held.places]
  <1>6. Units(m.held, r.percent, m.precision) = a \div u
    BY DEF Units
  <1>7. a \in Nat /\ u \in Nat \ {0}
    BY <1>4, <1>5
  <1>8. a \div u \in Nat
    <2> HIDE DEF a, u
    <2> QED
      BY <1>7, Division
  <1> QED
    BY <1>1, <1>3, <1>4, <1>5, <1>6, <1>8

LEMMA CloseWiresGood ==
  ASSUME NEW r \in CloseWrites, NEW m \in Markets, Marked(m), CloseValid(r),
         NEW w \in CloseWires(r, m)
  PROVE  /\ Good(w, r, m)
         /\ w.isBuy = ~m.long
         /\ w.size = Trim(Dec(Units(m.held, r.percent, m.precision),
                              m.precision))
  <1> DEFINE P == m.precision
             b == ~m.long
             units == Units(m.held, r.percent, P)
             size == Dec(units, P)
  <1>1. P \in Nat /\ m.mark \in SUBSET Decimals /\ b \in BOOLEAN
    BY MarketFacts
  <1>2. units \in Nat
    BY UnitsType
  <1>3. PICK x \in IF r.kind = "limit" THEN Given(r.price)
                   ELSE Aggressive(m.mark, b, r.slippage, P) :
          units # 0 /\ w = Wire(b, size, x, {})
    BY DEF CloseWires, Dec
  <1> HIDE DEF units, b, P
  <1>4. size \in Decimals /\ size.coef > 0 /\ size.places <= P
    BY <1>1, <1>2, <1>3, DecFacts
  <1>5. /\ Comes(x, b, P)
        /\ r.kind = "limit" \/ TradablePrice(x.price, P)
    <2>1. CASE r.kind = "limit"
      <3>1. x \in Given(r.price)
        BY <1>3, <2>1
      <3> QED
        BY <2>1, <3>1, CloseFacts, GivenComes
    <2>2. CASE r.kind # "limit"
      <3>1. x \in Aggressive(m.mark, b, r.slippage, P)
        BY <1>3, <2>2
      <3>2. SlippageValid(r.slippage) /\ r.slippage \in SUBSET Int
        BY CloseFacts DEF CloseValid
      <3>3. \A mark \in m.mark : mark.coef > 0 => AtLeastATick(mark, P)
        BY DEF Marked, P
      <3> QED
        BY <1>1, <3>1, <3>2, <3>3, AggressiveComes
    <2> QED
      BY <2>1, <2>2
  <1>6. {} \in SUBSET Decimals /\ \A t \in {} : TradablePrice(t, P)
    OBVIOUS
  <1>7. (r.op = "close" /\ r.kind = "limit") \/ TradablePrice(x.price, P)
    BY <1>5, CloseFacts
  <1> HIDE DEF size
  <1>8. Good(w, r, m)
    BY <1>1, <1>3, <1>4, <1>5, <1>6, <1>7, GoodWire DEF P
  <1>9. w.isBuy = b /\ w.size = Trim(size)
    BY <1>1, <1>3, <1>4, <1>5, <1>6, WireFacts
  <1> QED
    BY <1>8, <1>9 DEF size, b, units, P
-----------------------------------------------------------------------------
LEMMA WiresOf ==
  ASSUME NEW r \in Writes, NEW m \in Markets
  PROVE  \/ /\ r \in OrderWrites /\ r.op = "order"
            /\ Wires(r, m) = OrderWires(r, m)
            /\ Valid(r, m) <=> OrderValid(r) /\ OrderPrecise(r, m.precision)
         \/ /\ r \in ModifyWrites /\ r.op = "modify"
            /\ Wires(r, m) = ModifyWires(r)
            /\ Valid(r, m) <=> ModifyValid(r, m.precision)
         \/ /\ r \in CloseWrites /\ r.op = "close"
            /\ Wires(r, m) = CloseWires(r, m)
            /\ Valid(r, m) <=> CloseValid(r)
  <1>1. CASE r \in OrderWrites
    <2>1. r.op = "order"
      BY <1>1, OrderFacts
    <2> QED
      BY <1>1, <2>1 DEF Wires, Valid
  <1>2. CASE r \in ModifyWrites
    <2>1. r.op = "modify"
      BY <1>2 DEF ModifyWrites
    <2> QED
      BY <1>2, <2>1 DEF Wires, Valid
  <1>3. CASE r \in CloseWrites
    <2>1. r.op = "close"
      BY <1>3, CloseFacts
    <2> QED
      BY <1>3, <2>1 DEF Wires, Valid
  <1> QED
    BY <1>1, <1>2, <1>3 DEF Writes

LEMMA WiresGood ==
  ASSUME NEW r \in Writes, NEW m \in Markets, Marked(m), Valid(r, m),
         NEW w \in Wires(r, m)
  PROVE  /\ Good(w, r, m)
         /\ r.op = "close" => /\ r \in CloseWrites /\ CloseValid(r)
                              /\ w \in CloseWires(r, m)
  <1>1. CASE /\ r \in OrderWrites /\ r.op = "order"
             /\ Wires(r, m) = OrderWires(r, m)
             /\ Valid(r, m) <=> OrderValid(r) /\ OrderPrecise(r, m.precision)
    BY <1>1, OrderWiresGood
  <1>2. CASE /\ r \in ModifyWrites /\ r.op = "modify"
             /\ Wires(r, m) = ModifyWires(r)
             /\ Valid(r, m) <=> ModifyValid(r, m.precision)
    BY <1>2, ModifyWiresGood
  <1>3. CASE /\ r \in CloseWrites /\ r.op = "close"
             /\ Wires(r, m) = CloseWires(r, m)
             /\ Valid(r, m) <=> CloseValid(r)
    BY <1>3, CloseWiresGood
  <1> QED
    BY <1>1, <1>2, <1>3, WiresOf

(* The size of a close is the share of the position, rounded down.         *)
LEMMA CloseShare ==
  ASSUME NEW r \in CloseWrites, NEW m \in Markets, Marked(m), CloseValid(r),
         NEW w \in CloseWires(r, m)
  PROVE  LET share == [coef |-> m.held.coef * r.percent,
                       places |-> m.held.places + 2]
             unit == Ten[m.precision - w.size.places]
             next == [coef |-> w.size.coef * unit + 1,
                      places |-> m.precision]
         IN  AtMost(w.size, share) /\ ~AtMost(next, share)
  <1> DEFINE P == m.precision
             c == m.held.coef * r.percent
             h == m.held.places
             units == Units(m.held, r.percent, P)
             share == Dec(c, h + 2)
             a == c * Ten[P]
             u == 100 * Ten[h]
             unit == Ten[P - w.size.places]
             next == Dec(w.size.coef * unit + 1, P)
  <1>1. /\ P \in Nat /\ c \in Nat /\ h \in Nat /\ units \in Nat
        /\ a \in Nat /\ u \in Nat \ {0}
    BY MarketFacts, UnitsType
  <1>2. units = a \div u
    BY DEF Units
  <1>3. w.size = Trim(Dec(units, P))
    BY CloseWiresGood
  <1> HIDE DEF a, c, units, P, h, u, unit, next
  <1>4. Dec(units, P) \in Decimals /\ share \in Decimals
        /\ h + 2 \in Nat /\ units + 1 \in Nat
    BY <1>1, DecFacts
  <1>5. Ten[h + 2] = u
    <2>1. Ten[h + 2] = Ten[h] * Ten[2] /\ Ten[h] \in Nat
      BY <1>1, TenSum, TenType
    <2> QED
      BY <2>1, TenFirst DEF u
  <1>6. units * u <= a /\ a < (units + 1) * u
    <2>1. a = (a \div u) * u + (a % u) /\ a % u \in 0..(u - 1)
      BY <1>1, Division
    <2>2. units * u \in Nat /\ (units + 1) * u = units * u + u
      BY <1>1
    <2> QED
      BY <1>1, <1>2, <2>1, <2>2
  <1>7. Leq(Dec(units, P), share)
    BY <1>1, <1>4, <1>5, <1>6, DecFacts DEF Leq, a
  <1>8. ~Leq(Dec(units + 1, P), share)
    <2>1. ~((units + 1) * u <= a)
      <3>1. (units + 1) * u \in Nat
        BY <1>1
      <3> QED
        BY <1>1, <1>6, <3>1
    <2> QED
      BY <1>1, <1>4, <1>5, <2>1, DecFacts DEF Leq, a
  <1>9. w.size \in Decimals /\ Leq(w.size, Dec(units, P))
    BY <1>3, <1>4, TrimFacts, TrimLeq
  <1>10. next = Dec(units + 1, P)
    <2>1. PICK z \in 0..P : w.size.places = P - z
                            /\ units = w.size.coef * Ten[z]
      BY <1>1, <1>3, <1>4, TrimFacts, DecFacts
    <2>2. P - w.size.places = z
      BY <1>1, <2>1
    <2> QED
      BY <2>1, <2>2 DEF next, unit
  <1>11. AtMost(w.size, share)
    BY <1>4, <1>7, <1>9, LeqTransitive, AtMostLeq
  <1>12. ~AtMost(next, share)
    BY <1>1, <1>4, <1>8, <1>10, AtMostLeq, DecFacts
  <1> QED
    BY <1>11, <1>12 DEF Dec, P, c, h, unit, next
-----------------------------------------------------------------------------
(* What was posted are the wire orders of a valid write.                   *)
Sent ==
  posted # {} => /\ Valid(case.write, case.market)
                 /\ posted = Wires(case.write, case.market)

IInv == TypeOK /\ case \in Cases /\ Sent

LEMMA CaseFacts ==
  ASSUME NEW c \in Cases
  PROVE  /\ c \in Requests /\ c.write \in Writes /\ c.market \in Markets
         /\ Marked(c.market)
  <1>1. c \in Requests
    BY CasesAssumption
  <1>2. Marked(c.market)
    BY MarkAssumption DEF Marked
  <1> QED
    BY <1>1, <1>2 DEF Requests

LEMMA SentGood ==
  ASSUME IInv, NEW w \in posted
  PROVE  /\ Good(w, case.write, case.market)
         /\ case.market \in Markets
         /\ case.write.op = "close" =>
              /\ case.write \in CloseWrites /\ CloseValid(case.write)
              /\ w \in CloseWires(case.write, case.market)
              /\ Marked(case.market)
  <1>1. /\ case.write \in Writes /\ case.market \in Markets
        /\ Marked(case.market)
    BY CaseFacts DEF IInv
  <1>2. Valid(case.write, case.market)
        /\ w \in Wires(case.write, case.market)
    BY DEF IInv, Sent
  <1> QED
    BY <1>1, <1>2, WiresGood

LEMMA InitIInv == Init => IInv
  <1> SUFFICES ASSUME Init PROVE IInv
    OBVIOUS
  <1> USE IngressAssumption
  <1>1. case \in Requests /\ case \in Cases
    BY CaseFacts DEF Init
  <1>2. /\ now \in 0..MaxTime /\ visitors \subseteq Addresses
        /\ tokens \in [Addresses -> 0..Burst]
        /\ admitted \in [Addresses -> Nat]
    BY DEF Init
  <1>3. outcome = "none" /\ posted = {}
    BY DEF Init
  <1> QED
    BY <1>1, <1>2, <1>3 DEF IInv, TypeOK, Sent, Outcomes

(* What the variables of the answer are after a request.                   *)
Answered ==
  /\ outcome \in Outcomes /\ posted \subseteq WireOrders
  /\ posted # {} <=> outcome = "posted"
  /\ Sent

LEMMA AnswerNothing ==
  ASSUME NEW o \in {"limited", "forbidden", "invalid", "failed"},
         Answer(o, {})
  PROVE  Answered'
  BY DEF Answer, Answered, Outcomes, Sent

LEMMA HandleStep ==
  ASSUME case \in Cases, case' = case, Handle
  PROVE  Answered'
  <1> DEFINE wires == Wires(case.write, case.market)
  <1>1. CASE ~Valid(case.write, case.market)
    <2>1. Answer("invalid", {})
      BY <1>1 DEF Handle
    <2> QED
      BY <2>1, AnswerNothing
  <1>2. CASE Valid(case.write, case.market) /\ wires = {}
    <2>1. Answer("failed", {})
      BY <1>2 DEF Handle
    <2> QED
      BY <2>1, AnswerNothing
  <1>3. CASE Valid(case.write, case.market) /\ wires # {}
    <2>1. outcome' = "posted" /\ posted' = wires
      BY <1>3 DEF Handle, Answer
    <2>2. \A w \in wires : w \in WireOrders
      BY <1>3, CaseFacts, WiresGood DEF Good
    <2>3. Sent'
      BY <1>3, <2>1 DEF Sent
    <2> HIDE DEF wires
    <2> QED
      BY <1>3, <2>1, <2>2, <2>3 DEF Answered, Outcomes
  <1> QED
    BY <1>1, <1>2, <1>3

LEMMA ArriveIInv ==
  ASSUME IInv, NEW a \in Addresses, NEW origin \in Origins, Arrive(a, origin)
  PROVE  IInv'
  <1> USE IngressAssumption
  <1>1. /\ case \in Requests /\ now \in 0..MaxTime
        /\ visitors \subseteq Addresses /\ tokens \in [Addresses -> 0..Burst]
        /\ admitted \in [Addresses -> Nat] /\ case \in Cases
    BY DEF IInv, TypeOK
  <1>2. case' = case /\ now' = now /\ visitors' = visitors \union {a}
    BY DEF Arrive
  <1>3. Bucket(a) \in 0..Burst
    BY <1>1 DEF Bucket
  <1>4. CASE Bucket(a) = 0
    <2>1. /\ tokens' = [tokens EXCEPT ![a] = 0] /\ admitted' = admitted
          /\ Answer("limited", {})
      BY <1>4 DEF Arrive
    <2>2. Answered'
      BY <2>1, AnswerNothing
    <2>3. tokens' \in [Addresses -> 0..Burst]
      BY <1>1, <2>1
    <2> QED
      BY <1>1, <1>2, <2>1, <2>2, <2>3 DEF IInv, TypeOK, Answered
  <1>5. CASE Bucket(a) # 0
    <2>1. /\ tokens' = [tokens EXCEPT ![a] = Bucket(a) - 1]
          /\ admitted' = [admitted EXCEPT ![a] = @ + 1]
          /\ Handle \/ Answer("forbidden", {})
      BY <1>5 DEF Arrive
    <2>2. Answered'
      BY <1>1, <1>2, <2>1, AnswerNothing, HandleStep
    <2>3. tokens' \in [Addresses -> 0..Burst]
          /\ admitted' \in [Addresses -> Nat]
      <3>1. Bucket(a) - 1 \in 0..Burst
        BY <1>3, <1>5
      <3> QED
        BY <1>1, <2>1, <3>1
    <2> QED
      BY <1>1, <1>2, <2>1, <2>2, <2>3 DEF IInv, TypeOK, Answered
  <1> QED
    BY <1>4, <1>5

LEMMA TickIInv ==
  ASSUME IInv, Tick
  PROVE  IInv'
  <1> USE IngressAssumption
  <1>1. /\ case \in Requests /\ now \in 0..MaxTime
        /\ visitors \subseteq Addresses /\ tokens \in [Addresses -> 0..Burst]
        /\ admitted \in [Addresses -> Nat] /\ case \in Cases
    BY DEF IInv, TypeOK
  <1>2. /\ now < MaxTime /\ now' = now + 1
        /\ tokens' = [a \in Addresses |->
             IF a \in visitors THEN Smaller(Burst, tokens[a] + Rate)
             ELSE tokens[a]]
        /\ UNCHANGED <<case, visitors, admitted, outcome, posted>>
    BY DEF Tick
  <1>3. now' \in 0..MaxTime
    BY <1>1, <1>2
  <1>4. tokens' \in [Addresses -> 0..Burst]
    <2>1. \A a \in Addresses : Smaller(Burst, tokens[a] + Rate) \in 0..Burst
      BY <1>1 DEF Smaller
    <2> QED
      BY <1>1, <1>2, <2>1
  <1>5. Sent'
    BY <1>2 DEF IInv, Sent
  <1> QED
    BY <1>1, <1>2, <1>3, <1>4, <1>5 DEF IInv, TypeOK

LEMMA NextIInv == IInv /\ [Next]_vars => IInv'
  <1>1. IInv /\ UNCHANGED vars => IInv'
    BY DEF IInv, TypeOK, Sent, vars
  <1> QED
    BY <1>1, ArriveIInv, TickIInv DEF Next

(* The limiter's counters keep their ranges, and every order that leaves   *)
(* has a side, a size and a price that are of their types, which are those *)
(* of a write that was posted.                                             *)
THEOREM TypeCorrect == Spec => []TypeOK
  <1>1. IInv => TypeOK
    BY DEF IInv
  <1> QED
    BY <1>1, InitIInv, NextIInv, PTL DEF Spec

(* What the handlers accept is what the exchange trades, for every decimal *)
(* and every market (server.go:1030-1098, client_trading.go:440-517).      *)
THEOREM Tradable == Spec => []PostedIsTradable
  <1>1. IInv => PostedIsTradable
    BY SentGood DEF PostedIsTradable, Good
  <1> QED
    BY <1>1, InitIInv, NextIInv, PTL DEF Spec

(* A market order from a price the exchange trades at crosses it, and      *)
(* gives away no more than the largest slippage, for every price and every *)
(* number of decimals (client_trading.go:440-473).                         *)
THEOREM Crosses == Spec => []MarketOrdersCross
  <1>1. IInv => MarketOrdersCross
    <2> SUFFICES ASSUME IInv, NEW w \in posted, NEW r \in w.reference,
                        TradablePrice(r, case.market.precision)
                 PROVE  /\ IF w.isBuy THEN AtMost(r, w.price)
                           ELSE AtMost(w.price, r)
                        /\ \E p \in AggressivePrices(r, w.isBuy, MaxSlippage,
                                                     case.market.precision) :
                             IF w.isBuy THEN AtMost(w.price, p)
                             ELSE AtMost(p, w.price)
      BY DEF MarketOrdersCross
    <2> DEFINE P == case.market.precision
               b == w.isBuy
    <2>1. /\ w \in WireOrders /\ Comes(w, b, P) /\ P \in Nat
      BY SentGood, MarketFacts DEF Good
    <2>2. b \in BOOLEAN
      BY <2>1 DEF WireOrders
    <2> HIDE DEF P, b
    <2>3. r \in Decimals /\ w.price \in Decimals
      BY <2>1 DEF Comes
    <2>4. PICK s : SlippageFits(s) /\ w.price \in AggressivePrices(r, b, s, P)
      BY <2>1 DEF Comes
    <2>5. IF b THEN Leq(r, w.price) ELSE Leq(w.price, r)
      BY <2>1, <2>2, <2>3, <2>4, AggressiveCrosses DEF P
    <2>6. PICK p \in AggressivePrices(r, b, MaxSlippage, P) :
            p \in Decimals /\ IF b THEN Leq(w.price, p) ELSE Leq(p, w.price)
      BY <2>1, <2>2, <2>3, <2>4, AggressiveLimited
    <2>7. IF b THEN AtMost(r, w.price) ELSE AtMost(w.price, r)
      BY <2>3, <2>5, AtMostLeq
    <2>8. IF b THEN AtMost(w.price, p) ELSE AtMost(p, w.price)
      BY <2>3, <2>6, AtMostLeq
    <2> QED
      BY <2>6, <2>7, <2>8 DEF b, P
  <1> QED
    BY <1>1, InitIInv, NextIInv, PTL DEF Spec

(* A close is for the largest size the exchange trades within the share of *)
(* the position, on the other side, for every position and every market    *)
(* (client_trading.go:276-317, 494-517).                                   *)
THEOREM CloseFits == Spec => []CloseFitsPosition
  <1>1. IInv => CloseFitsPosition
    <2> SUFFICES ASSUME IInv, case.write.op = "close", NEW w \in posted
                 PROVE  LET held == case.market.held
                            share == [coef |-> held.coef * case.write.percent,
                                      places |-> held.places + 2]
                            unit == Ten[case.market.precision
                                          - w.size.places]
                            next == [coef |-> w.size.coef * unit + 1,
                                     places |-> case.market.precision]
                        IN  /\ AtMost(w.size, share) /\ ~AtMost(next, share)
                            /\ w.isBuy # case.market.long
      BY DEF CloseFitsPosition
    <2> DEFINE r == case.write
               m == case.market
    <2>1. /\ r \in CloseWrites /\ CloseValid(r) /\ w \in CloseWires(r, m)
          /\ m \in Markets /\ Marked(m)
      BY SentGood
    <2>2. w.isBuy = ~m.long /\ m.long \in BOOLEAN
      BY <2>1, CloseWiresGood, MarketFacts
    <2>3. w.isBuy # m.long
      BY <2>2
    <2> QED
      BY <2>1, <2>3, CloseShare
  <1> QED
    BY <1>1, InitIInv, NextIInv, PTL DEF Spec
=============================================================================
