----------------------------- MODULE EntryRules -----------------------------
(* What a buy must pass besides the strategy: the money limits it is sized     *)
(* by (risk.Manager), the concentration caps of the book (PortfolioGuard) and  *)
(* the size that risk leaves of the headroom.  Pure operators over             *)
(*                                                                             *)
(*   book = [cash, equity, invested, spent : Int, value : [symbol -> Int]],    *)
(*     value marked to market, a symbol with none is not held                  *)
(*   limits = [order, position, invested, daily, reserve, count, slots]        *)
(*     0 = off; slots is min_positions                                         *)
(*   costs = [adverse, fee : percent, fixed : Int]                             *)
(*   caps = [on : BOOLEAN, class, sector : [symbol -> label],                  *)
(*           share : [label -> percent], slots : [label -> Nat],               *)
(*           sectorValue, sectorCount, alike : Nat, perClass : BOOLEAN,        *)
(*           pairs : set of sets of symbols that move together]                *)
(*                                                                             *)
(* share and slots name only the classes the configuration does.               *)
EXTENDS ExitRules

HeldIn(book) == {s \in DOMAIN book.value : book.value[s] > 0}

ValueOver(book, symbols) == SumOver([s \in symbols |-> book.value[s]])

----------------------------------------------------------------------------
(* PortfolioGuard *)

\* the share of the book one class may reach, judged against total equity
ClassAllows(caps, book, s, add) ==
  LET class == caps.class[s]
      alike == {h \in HeldIn(book) : caps.class[h] = class}
  IN  class \in DOMAIN caps.share /\ book.equity > 0 =>
        (ValueOver(book, alike) + add) * Hundred <= caps.share[class] * book.equity

SectorAllows(caps, book, s, add) ==
  LET alike == {h \in HeldIn(book) : caps.sector[h] = caps.sector[s]
                                     /\ (caps.perClass => caps.class[h] = caps.class[s])}
  IN  caps.sector[s] /= "none" =>
        /\ caps.sectorValue > 0 => ValueOver(book, alike) + add <= caps.sectorValue
        /\ caps.sectorCount > 0 => Cardinality(alike) < caps.sectorCount

CorrelationAllows(caps, book, s) ==
  caps.alike > 0 => Cardinality({h \in HeldIn(book) \ {s} : {h, s} \in caps.pairs}) < caps.alike

\* A held symbol may be added to past the sector and correlation caps, never
\* past the share of its class.
GuardAllows(caps, book, s, add) ==
  caps.on => /\ ClassAllows(caps, book, s, add)
             /\ s \notin HeldIn(book) => /\ SectorAllows(caps, book, s, add)
                                       /\ CorrelationAllows(caps, book, s)

\* slots left for the classes the configuration does not name
UnnamedSlots(caps, minPositions) == Larger(0, minPositions - SumOver(caps.slots))

\* One position's share of what the named budgets leave: -1 when nothing
\* splits it.
LeftoverSlot(caps, investable, minPositions) ==
  LET unbudgeted == DOMAIN caps.slots \ DOMAIN caps.share
      divisor == UnnamedSlots(caps, minPositions) + SumOver([c \in unbudgeted |-> caps.slots[c]])
      left == Larger(0, Hundred - SumOver(caps.share))
  IN  IF divisor = 0 THEN -1 ELSE (left * investable) \div (Hundred * divisor)

\* The most one position of this class may be worth, -1 when nothing says so.
MaxPositionValue(caps, s, investable, minPositions) ==
  LET class == caps.class[s]
      n == IF class \in DOMAIN caps.slots THEN caps.slots[class] ELSE UnnamedSlots(caps, minPositions)
  IN  IF investable <= 0 THEN -1
      ELSE IF ~caps.on \/ DOMAIN caps.slots = {}
           THEN IF minPositions <= 1 THEN -1 ELSE investable \div minPositions
      ELSE IF n = 0 THEN -1
      ELSE IF class \in DOMAIN caps.share
           THEN IF n = 1 THEN -1 ELSE (caps.share[class] * investable) \div (Hundred * n)
      ELSE LeftoverSlot(caps, investable, minPositions)

----------------------------------------------------------------------------
(* risk.Manager *)

\* what the book can deploy: equity less the reserve, at most the invested cap
InvestableBase(limits, book) ==
  LET free == book.equity - limits.reserve
  IN  IF limits.invested > 0 THEN Smaller(free, limits.invested) ELSE free

\* the price a cash limit has to reckon with: fee, half the spread, slippage
EffectivePrice(costs, price) == Plus(price, costs.adverse + costs.fee) + 1

\* mutant: a cash limit is turned into shares at the bare price
BareCapRules(limits, costs, caps, book, s, price) ==
  {[left |-> limits.order, price |-> price] : x \in {limits.order} \ {0}}
  \cup {[left |-> book.cash - limits.reserve, price |-> price]}

\* Every money limit in force for a buy of s: what is left under it, and the
\* price that turns it into shares.
BuyCapRules(limits, costs, caps, book, s, price) ==
  LET cash == EffectivePrice(costs, price)
      rule(on, left, at) == IF on THEN {[left |-> left, price |-> at]} ELSE {}
  IN  rule(limits.order > 0, limits.order, price)
      \cup rule(limits.position > 0, limits.position - book.value[s], price)
      \cup {[left |-> slot - book.value[s], price |-> price] :
              slot \in {MaxPositionValue(caps, s, InvestableBase(limits, book), limits.slots)} \ {-1}}
      \cup rule(limits.invested > 0, limits.invested - book.invested, price)
      \cup rule(limits.daily > 0, limits.daily - book.spent - costs.fixed, cash)
      \cup rule(TRUE, book.cash - limits.reserve - costs.fixed, cash)

\* Shares of an order that every limit leaves room for, 0 when one refuses it.
Authorized(limits, costs, caps, book, s, qty, price) ==
  LET rules == BuyCapRules(limits, costs, caps, book, s, price)
      room == Min({r.left \div r.price : r \in rules} \cup {qty})
      full == limits.count > 0 /\ s \notin HeldIn(book) /\ Cardinality(HeldIn(book)) >= limits.count
  IN  IF full \/ (\E r \in rules : r.left <= 0) THEN 0 ELSE Larger(0, room)

\* The headroom as notional: the least of the shares, at the order's price.
Headroom(limits, costs, caps, book, s, price) ==
  Larger(0, Min({(r.left * price) \div r.price : r \in BuyCapRules(limits, costs, caps, book, s, price)}))

\* what risk leaves of the headroom where the stop in force is wider than the
\* percentage stop
ScaledTo(width, cfg, price, base) ==
  IF ~cfg.on \/ cfg.stop = 0 \/ width <= 0 \/ width >= price THEN base
  ELSE Smaller(base, (base * cfg.stop * price) \div (Hundred * width))

RiskScaled(cfg, price, atr, base) == ScaledTo(price - StopLevel(cfg, price, atr), cfg, price, base)

\* at most the configured size, and nothing at all below the least
Sized(size, notional) ==
  LET capped == IF size.most > 0 THEN Smaller(notional, size.most) ELSE notional
  IN  IF capped < size.least THEN 0 ELSE capped

\* The notional a buy should aim for; 0 refuses it.
SizeBuy(limits, costs, caps, book, s, price, cfg, size, atr) ==
  IF price <= 0 \/ (cfg.on /\ ATROutOfRange(cfg, price, atr)) THEN 0
  ELSE Sized(size, RiskScaled(cfg, price, atr, Headroom(limits, costs, caps, book, s, price)))
=============================================================================
