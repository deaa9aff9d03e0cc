----------------------------- MODULE MCIngress -----------------------------
(* An instance of Ingress for TLC: decimals around every limit of the      *)
(* rules, on markets of few and of many decimals.                          *)
EXTENDS Ingress

Dec(coef, places) == [coef |-> coef, places |-> places]
Decs(coefs, places) == {Dec(c, p) : c \in coefs, p \in places}
Optional(ds) == {{}} \union {{d} : d \in ds}

One == Dec(1, 0)
Market(mark, precision) ==
  [mark |-> mark, precision |-> precision, held |-> One, long |-> TRUE]

Order == [op |-> "order", kind |-> "limit", side |-> "buy", size |-> One,
          price |-> {}, trigger |-> {}, triggerLimit |-> {}, slippage |-> {},
          attached |-> {}]
Modify == [op |-> "modify", side |-> "sell", size |-> One, price |-> {One}]
Close == [op |-> "close", kind |-> "market", percent |-> 50, price |-> {},
          slippage |-> {}]

Slippages == {{}, {1}, {37}, {500}, {501}}
Precisions == {0, 2, 5, 7}

(* Prices as they are written, with zeros in front and at the end, of four *)
(* to seven digits, and of every number of decimals around the limits.     *)
Prices == Decs({0, 1, 90, 12345, 99999, 123450, 123456, 1000000}, 0..7)
Sizes == Decs({0, 1, 15, 150}, {0, 1, 2, 3})

LimitOrders ==
  {[write |-> [Order EXCEPT !.price = p], market |-> Market({}, n)] :
     p \in Optional(Prices), n \in Precisions}
SizedWrites ==
  {[write |-> [w EXCEPT !.size = z, !.price = {One}],
    market |-> Market({}, n)] :
     w \in {Order, Modify}, z \in Sizes, n \in {0, 1, 2}}
Modifies ==
  {[write |-> [Modify EXCEPT !.price = {p}, !.side = y],
    market |-> Market({}, n)] :
     p \in Prices, n \in {0, 5}, y \in {"sell", "Buy"}}

(* References at the grid and off it, none below the smallest price, and   *)
(* none at all.                                                            *)
Marks(precision) ==
  {d \in Decs({0, 1, 15, 4567, 10000, 12343, 12345, 99995, 99999}, 0..4) :
     AtLeastATick(d, precision)}
MarketOrders ==
  UNION {{[write |-> [Order EXCEPT !.kind = "market", !.side = y,
                                   !.slippage = s],
           market |-> Market(m, n)] :
            y \in Sides, s \in Slippages, m \in Optional(Marks(n))} :
         n \in Precisions}
TriggerOrders ==
  UNION {{[write |-> [Order EXCEPT !.kind = k, !.side = y, !.trigger = t,
                        !.triggerLimit = l, !.price = p, !.slippage = {s}],
           market |-> Market({}, n)] :
            k \in Triggers, y \in {"buy", "sell"}, t \in Optional(Marks(n)),
            l \in Optional({Dec(12345, 2)}), p \in Optional({Dec(123456, 3)}),
            s \in {1, 500}} : n \in {5}}
Children ==
  UNION {{[write |-> [Order EXCEPT !.kind = k, !.side = y, !.price = {One},
                        !.attached = {[trigger |-> t, limit |-> l]}],
           market |-> Market({One}, n)] :
            k \in {"limit", "market", "stopMarket"}, y \in {"buy", "sell"},
            t \in Marks(n), l \in Optional({One, Dec(123456, 1)})} :
         n \in {2, 5}}

Closes ==
  UNION {{[write |-> [Close EXCEPT !.percent = c, !.kind = k, !.price = p],
           market |-> [Market({Dec(12345, 2)}, n) EXCEPT !.held = h,
                                                         !.long = g]] :
            c \in Percents \union {10}, k \in {"limit", "market"},
            p \in Optional({Dec(123456, 3)}), g \in BOOLEAN,
            h \in {d \in Decs({1, 3, 15, 101}, 0..3) : d.places <= n}} :
         n \in {0, 1, 3}}

AllCases == LimitOrders \union SizedWrites \union Modifies
              \union MarketOrders \union TriggerOrders \union Children
              \union Closes
=============================================================================
