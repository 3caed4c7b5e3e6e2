------------------------------ MODULE Backtest ------------------------------
(***************************************************************************)
(* Backtester.Run: a strategy replayed over the bars of a few symbols      *)
(* through the same exit rules, money limits, concentration caps and       *)
(* protections the live engine uses.  Every bar is lived through in the    *)
(* order a session is: the open fills what the last close decided, the     *)
(* bar's low may reach a scale-in step, its low and high the exits, and    *)
(* the close asks the strategy and queues its answer for the next open.    *)
(* Within each of those passes the symbols are taken in sorted order.      *)
(*                                                                         *)
(* What the bars hold and what the strategy answers is any of the values   *)
(* the setting allows.  Shares are whole; commission is flat; conviction   *)
(* scaling is off (the whole size is taken).                               *)
(***************************************************************************)
EXTENDS EntryRules, Protections, BacktestReport

CONSTANTS
    Order,          \* the symbols, sorted
    Settings,       \* the configurations replayed
    BarsPerDay      \* bars in a calendar day

Traded == Range(Order)

VARIABLES
    setting,    \* the configuration, fixed for a run
    phase,      \* "next", "open", "add", "exit", "close", or "done"
    todo,       \* symbols the phase has still to take
    i,          \* index of the bar being replayed
    bar,        \* this bar, per symbol
    atr,        \* the true range as of the last close, per symbol
    prices,     \* the price a fill happens at, and the mark
    cash, pos,  \* the simulated broker: positions as quantity and cost
    trail,      \* peak since entry and floor, per symbol
    trip,       \* the trip under way, per symbol
    added,      \* the add of this bar: [at, bar]
    signal,     \* the last raw answer of the strategy
    streak,     \* how often it came in a row
    pending,    \* orders decided, filled at the next open
    spent,      \* spent today: [day, sum]
    guard,      \* the protection manager
    equity,     \* the curve
    tranches, trips,  \* results per sale, and per closed position
    fill        \* the last fill, for the properties

book  == <<cash, pos, prices, trail, trip, spent, guard, tranches, trips, fill>>
btvars == <<setting, phase, todo, i, bar, atr, added, signal, streak, pending, equity, book>>

(* What a replay may be asked: no figure of a configuration is negative    *)
(* (config.Validate), a run begins with some cash (validateFlags); and its *)
(* bars are bars, which the code takes on trust: positive prices, the open *)
(* and the close within the range.                                         *)
LimitsFit(l) == {l.order, l.position, l.invested, l.daily, l.reserve, l.count, l.slots} \subseteq Nat

CostsFit(c) == {c.adverse, c.fee, c.fixed} \subseteq Nat

CapsFit(c) ==
    /\ c.share \in [DOMAIN c.share -> Nat] /\ IsFiniteSet(DOMAIN c.share)
    /\ c.slots \in [DOMAIN c.slots -> Nat] /\ IsFiniteSet(DOMAIN c.slots)

ExitsFit(e) ==
    /\ {e.stop, e.take, e.trail, e.tight, e.offset, e.atrStop, e.atrTrail, e.maxHold} \subseteq Nat
    /\ e.roi \subseteq Nat \X Nat /\ IsFiniteSet(e.roi)
    /\ SortedRungs(e.ladder) \in Seq([profit : Nat, sell : Nat])

SoundBars ==
    {b \in [open : Nat, high : Nat, low : Nat, close : Nat, atr : Nat] :
        b.low > 0 /\ b.open \in b.low .. b.high /\ b.close \in b.low .. b.high}

SettingFits(c) ==
    /\ LimitsFit(c.limits) /\ CostsFit(c.costs) /\ CapsFit(c.caps) /\ ExitsFit(c.exits)
    /\ {c.scaleIn.step, c.scaleIn.size, c.size.most, c.size.least} \subseteq Nat
    /\ c.cash \in Nat \ {0}
    /\ \A s \in Traded : \A b \in c.bars[s] : b \in SoundBars

BacktestAssumption ==
    /\ Order \in Seq(Traded) /\ IsInjective(Order)
    /\ BarsPerDay \in Nat \ {0}
    /\ \A c \in Settings : SettingFits(c)

NoTrip == [since |-> -1, orig |-> 0, taken |-> 0, adds |-> 0, fees |-> 0,
           pnl |-> 0, basis |-> 0, qty |-> 0, proceeds |-> 0, stopped |-> FALSE, rungs |-> <<>>]
NoFill == [s |-> "none", side |-> "none", how |-> "none", bar |-> -1, at |-> 0, equity |-> 0]
NoBar  == [open |-> 0, high |-> 0, low |-> 0, close |-> 0, atr |-> 0]

Init ==
    /\ setting \in Settings
    /\ phase = "next" /\ todo = <<>> /\ i = -1
    /\ bar = [s \in Traded |-> NoBar]
    /\ atr = [s \in Traded |-> 0] /\ prices = [s \in Traded |-> 0]
    /\ cash = setting.cash
    /\ pos = [s \in Traded |-> [qty |-> 0, cost |-> 0]]
    /\ trail = [s \in Traded |-> [peak |-> 0, floor |-> 0]]
    /\ trip = [s \in Traded |-> NoTrip]
    /\ added = [s \in Traded |-> [bar |-> -1, at |-> 0]]
    /\ signal = [s \in Traded |-> "hold"]
    /\ streak = [s \in Traded |-> [act |-> "none", n |-> 0]]
    /\ pending = [s \in Traded |-> <<>>]
    /\ spent = [day |-> 0, sum |-> 0]
    /\ guard = FreshGuard(Traded)
    /\ equity = <<>> /\ tranches = <<>> /\ trips = <<>>
    /\ fill = NoFill

-----------------------------------------------------------------------------
(* The book *)

Held(s) == pos[s].qty > 0
Avg(s) == pos[s].cost \div pos[s].qty

Today == i \div BarsPerDay

\* the account at these marks
BookAt(marks) ==
    LET value == [s \in Traded |-> pos[s].qty * marks[s]]
    IN  [cash |-> cash, equity |-> cash + SumOver(value), invested |-> SumOver(value), value |-> value,
         spent |-> IF spent.day = Today THEN spent.sum ELSE 0]

Book == BookAt(prices)

\* shares a buy of n at this price gets, after the limits and the account
Bought(s, n, at) ==
    LET most == Authorized(setting.limits, setting.costs, setting.caps, Book, s, n, at)
        outlay == most * Plus(at, setting.costs.adverse) + setting.costs.fixed
    IN  IF outlay > cash THEN 0 ELSE most

\* A buy of n shares at the price `at`, which the simulated broker fills
\* across the spread.  An add re-bases the trail and counts as an add.
Buy(s, n, at, how) ==
    LET px == Plus(at, setting.costs.adverse)
        was == pos[s]
        cost == was.cost + n * px
    IN  /\ cash' = cash - n * px - setting.costs.fixed
        /\ pos' = [pos EXCEPT ![s] = [qty |-> was.qty + n, cost |-> cost]]
        /\ prices' = [prices EXCEPT ![s] = at]
        /\ spent' = [day |-> Today, sum |-> Book.spent + n * px + setting.costs.fixed]
        /\ trail' = IF was.qty = 0 THEN trail
                    ELSE [trail EXCEPT ![s] =
                            RebaseOnAdd(setting.exits, Avg(s), Larger(trail[s].peak, Avg(s)), trail[s].floor,
                                        atr[s], cost \div (was.qty + n), px)]
        /\ trip' = [trip EXCEPT ![s] =
                      [trip[s] EXCEPT !.since = IF @ = -1 THEN i ELSE @,
                                      !.orig = Larger(@, was.qty + n),
                                      !.fees = @ + setting.costs.fixed,
                                      !.adds = IF was.qty > 0 THEN @ + 1 ELSE @]]
        /\ fill' = [s |-> s, side |-> "buy", how |-> how, bar |-> i, at |-> at,
                    equity |-> Book.equity]
        /\ UNCHANGED <<guard, tranches, trips>>

\* The sale's share of the commission paid for the entry.
EntryShare(s, n) == (trip[s].fees * n) \div pos[s].qty

\* the rungs a scale-out to this one sells
RungsUpTo(s, rung) == [k \in 1 .. (IF rung = 0 THEN 0 ELSE rung - trip[s].taken) |-> trip[s].taken + k]

\* mutant: a fill that takes several rungs is counted as one
OneRung(s, rung) == trip[s].taken + 1

\* how many rungs are taken after it
NextTaken(s, rung) == rung

\* A sale of n shares at `at`: one tranche, and the end of the trip when
\* nothing is left.  The protections judge the tranche and the whole trip.
Sell(s, n, at, kind, rung, peak) ==
    LET px == Plus(at, -setting.costs.adverse)
        basis == (pos[s].cost * n) \div pos[s].qty
        fees == EntryShare(s, n)
        net == n * px - basis - setting.costs.fixed - fees
        whole == [trip[s] EXCEPT !.fees = @ - fees, !.pnl = @ + net, !.basis = @ + basis,
                                 !.qty = @ + n, !.proceeds = @ + n * px,
                                 !.stopped = @ \/ kind \in {"stop-loss", "trailing-stop"},
                                 !.rungs = @ \o RungsUpTo(s, rung),
                                 !.taken = IF rung = 0 THEN @ ELSE NextTaken(s, rung)]
        told == ObservedClose(guard, setting.protections, net)
        ended == n = pos[s].qty
    IN  /\ cash' = cash + n * px - setting.costs.fixed
        /\ pos' = [pos EXCEPT ![s] = [qty |-> @.qty - n, cost |-> @.cost - basis]]
        /\ prices' = [prices EXCEPT ![s] = at]
        /\ tranches' = Append(tranches, [s |-> s, pnl |-> net, kind |-> kind, held |-> i - trip[s].since])
        /\ fill' = [s |-> s, side |-> "sell", how |-> kind, bar |-> i, at |-> at,
                    equity |-> Book.equity]
        /\ UNCHANGED spent
        /\ IF ended
           THEN /\ guard' = ClosedTrip(told, setting.protections, s, whole.pnl, whole.stopped, i)
                /\ trips' = Append(trips, [s |-> s, pnl |-> whole.pnl, kind |-> kind, qty |-> whole.qty,
                                           proceeds |-> whole.proceeds, basis |-> whole.basis,
                                           held |-> i - trip[s].since, rungs |-> whole.rungs])
                /\ trip' = [trip EXCEPT ![s] = NoTrip]
                /\ trail' = [trail EXCEPT ![s] = [peak |-> 0, floor |-> 0]]
           ELSE /\ guard' = told
                /\ trip' = [trip EXCEPT ![s] = whole]
                /\ trail' = [trail EXCEPT ![s].peak = peak]
                /\ UNCHANGED trips

-----------------------------------------------------------------------------
(* The bar *)

Turn(p, s) == phase = p /\ todo /= <<>> /\ s = Head(todo) /\ todo' = Tail(todo)

Enter(p) == phase' = p /\ todo' = Order

\* the next bar: every symbol marked at its open
NextBar ==
    /\ phase = "next"
    /\ i' = i + 1
    /\ bar' \in [Traded -> UNION {setting.bars[s] : s \in Traded}]
    /\ \A s \in Traded : bar'[s] \in setting.bars[s]
    /\ atr' = [s \in Traded |-> bar[s].atr]
    /\ prices' = [s \in Traded |-> bar'[s].open]
    /\ Enter("open")
    /\ UNCHANGED <<setting, added, signal, streak, pending, equity, cash, pos, trail, trip, spent, guard,
                   tranches, trips, fill>>

\* a pass over the symbols is done
PassEnds ==
    /\ todo = <<>>
    /\ \/ phase = "open" /\ Enter("add")
       \/ phase = "add" /\ Enter("exit")
       \/ phase = "exit" /\ Enter("close")
    /\ UNCHANGED <<setting, i, bar, atr, added, signal, streak, pending, equity, book>>

still == <<setting, phase, i, bar, atr, equity>>

\* A queued buy is judged again at the open, against the book every earlier
\* fill of this bar has left.
FillAllowed(s) ==
    /\ setting.pyramiding \/ ~Held(s)
    /\ GuardAllows(setting.caps, Book, s, pending[s][1].notional)
    /\ EntryAllowed(guard, setting.protections, s, i)

\* 1. the open fills what was queued
FillQueued(s) ==
    /\ Turn("open", s)
    /\ pending' = [pending EXCEPT ![s] = <<>>]
    /\ UNCHANGED <<still, added, signal, streak>>
    /\ IF pending[s] = <<>> THEN UNCHANGED book
       ELSE IF pending[s][1].side = "sell"
       THEN IF Held(s) THEN Sell(s, pos[s].qty, prices[s], "strategy", 0, 0) ELSE UNCHANGED book
       ELSE LET n == Bought(s, pending[s][1].notional \div prices[s], prices[s])
            IN  IF FillAllowed(s) /\ n > 0 THEN Buy(s, n, prices[s], "open") ELSE UNCHANGED book

Age(s) == IF trip[s].since = -1 THEN 0 ELSE i - trip[s].since

\* the levels in force for a position, from the bars before this one
LevelsOf(s) ==
    WithTrailFloor(Compute(setting.exits, Avg(s), Larger(trail[s].peak, Avg(s)), atr[s], Age(s)),
                   setting.exits, trail[s].floor)

\* where a resting order fills when the bar opens beyond it
GapAdjusted(open, level, down) ==
    IF (down /\ open <= level) \/ (~down /\ open >= level) THEN open ELSE level

\* 2a. the low reaches the next scale-in step before any level below it
AddDue(s) ==
    LET step == setting.scaleIn
        threshold == Plus(Avg(s), -step.step)
        levels == LevelsOf(s)
    IN  /\ step.on /\ Held(s) /\ trip[s].adds < step.most
        /\ bar[s].low <= threshold
        /\ setting.exits.on => /\ Triggered(levels, bar[s].open) = "none"
                               /\ threshold > Larger(levels.stop, levels.trail)
        /\ step.signal => signal[s] = "buy"
        /\ EntryAllowed(guard, setting.protections, s, i)

AddFill(s) == GapAdjusted(bar[s].open, Plus(Avg(s), -setting.scaleIn.step), TRUE)

AddSize(s) ==
    (SizeBuy(setting.limits, setting.costs, setting.caps, Book, s, AddFill(s), setting.exits,
             setting.size, atr[s]) * setting.scaleIn.size) \div Hundred

\* the step's price stands as the symbol's once an add was tried there
AddTried(s) == AddDue(s) /\ AddSize(s) > 0 /\ GuardAllows(setting.caps, Book, s, AddSize(s))

ScaleIn(s) ==
    /\ Turn("add", s)
    /\ UNCHANGED <<still, signal, streak, pending>>
    /\ LET at == AddFill(s)
           n == Bought(s, AddSize(s) \div at, at)
       IN  IF ~AddTried(s) THEN UNCHANGED <<book, added>>
           ELSE IF n > 0 THEN Buy(s, n, at, "add") /\ added' = [added EXCEPT ![s] = [bar |-> i, at |-> at]]
           ELSE /\ prices' = [prices EXCEPT ![s] = at]
                /\ UNCHANGED <<cash, pos, trail, trip, spent, guard, tranches, trips, fill, added>>

AddedNow(s) == added[s].bar = i

\* mutant: a bar is judged whole, also what came before the add
WholeBar(s) == bar[s]

\* The bar the exits are judged by: after an add only the add's own price,
\* the low and the close are known to have come.
Judged(s) ==
    IF AddedNow(s)
    THEN [bar[s] EXCEPT !.open = added[s].at, !.high = Larger(added[s].at, bar[s].close)]
    ELSE bar[s]

\* The exit inside a bar: a due time barrier at the open; the higher of the
\* downside levels reached; the target.
ExitFill(seen, levels) ==
    LET trailHit == levels.trail > 0 /\ seen.low <= levels.trail
        stopHit == levels.stop > 0 /\ seen.low <= levels.stop
    IN  CASE levels.due -> [at |-> seen.open, kind |-> Triggered(levels, seen.open)]
          [] trailHit /\ (stopHit => levels.trail >= levels.stop) /\ ~levels.due ->
               [at |-> GapAdjusted(seen.open, levels.trail, TRUE), kind |-> "trailing-stop"]
          [] stopHit /\ ~(trailHit /\ levels.trail >= levels.stop) /\ ~levels.due ->
               [at |-> GapAdjusted(seen.open, levels.stop, TRUE), kind |-> "stop-loss"]
          [] levels.target > 0 /\ seen.high >= levels.target /\ ~stopHit /\ ~trailHit /\ ~levels.due ->
               [at |-> GapAdjusted(seen.open, levels.target, FALSE), kind |-> levels.rule]
          [] OTHER -> [at |-> 0, kind |-> "none"]

\* 2. the exits; then, if none fired, the peak and the scale-out ladder
Exit(s) ==
    LET out == ExitFill(Judged(s), LevelsOf(s))
        part == NextPartial(setting.exits, Judged(s).high, Avg(s), trip[s].taken)
        n == Tranche(Larger(trip[s].orig, pos[s].qty), part.pct, pos[s].qty)
        level == GapAdjusted(Judged(s).open, Plus(Avg(s), RungProfitPct(setting.exits, part.rung)), FALSE)
        peak == Max({trail[s].peak, Avg(s), IF AddedNow(s) THEN bar[s].close ELSE bar[s].high})
    IN  /\ Turn("exit", s)
        /\ UNCHANGED <<still, added, signal, streak, pending>>
        /\ IF ~setting.exits.on \/ ~Held(s) THEN UNCHANGED book
           ELSE IF out.kind /= "none" THEN Sell(s, pos[s].qty, out.at, out.kind, 0, 0)
           ELSE IF part.rung = 0 \/ n = 0
           THEN /\ trail' = [trail EXCEPT ![s].peak = peak]
                /\ UNCHANGED <<cash, pos, prices, trip, spent, guard, tranches, trips, fill>>
           ELSE Sell(s, n, level, "take-profit", part.rung, peak)

-----------------------------------------------------------------------------
\* the run of equal answers, and whether it is long enough to act on
Confirmed(s, act, run) ==
    act = "hold" \/ run >= IF act = "sell" THEN setting.confirmSell ELSE setting.confirmBuy

\* what the answer queues for the next open, marked at this close
Decided(s, act) ==
    LET marks == [prices EXCEPT ![s] = bar[s].close]
        size == SizeBuy(setting.limits, setting.costs, setting.caps, BookAt(marks), s, bar[s].close,
                        setting.exits, setting.size, bar[s].atr)
    IN  CASE act = "hold" -> <<>>
          [] act = "buy" /\ (setting.pyramiding \/ ~Held(s)) /\ size > 0
               /\ EntryAllowed(guard, setting.protections, s, i)
               /\ GuardAllows(setting.caps, BookAt(marks), s, size) ->
               <<[side |-> "buy", notional |-> size]>>
          [] act = "sell" /\ Held(s) /\ Age(s) >= setting.keep -> <<[side |-> "sell", notional |-> 0]>>
          [] OTHER -> pending[s]

\* 3. the close: ask the strategy, and queue its answer once confirmed
Ask(s) ==
    /\ Turn("close", s)
    /\ prices' = [prices EXCEPT ![s] = bar[s].close]
    /\ \E act \in setting.answers[s] :
         LET run == IF streak[s].act = act THEN Smaller(streak[s].n + 1, 2) ELSE 1
         IN  /\ signal' = [signal EXCEPT ![s] = act]
             /\ streak' = [streak EXCEPT ![s] = [act |-> act, n |-> run]]
             /\ pending' = IF Confirmed(s, act, run) THEN [pending EXCEPT ![s] = Decided(s, act)] ELSE pending
    /\ UNCHANGED <<still, added, cash, pos, trail, trip, spent, guard, tranches, trips, fill>>

\* the bar is over: one more point of the curve, which the protections see
BarEnds ==
    /\ phase = "close" /\ todo = <<>>
    /\ equity' = Append(equity, Book.equity)
    /\ guard' = ObservedEquity(guard, setting.protections, Book.equity, Today)
    /\ phase' = IF i + 1 < setting.length THEN "next" ELSE "done"
    /\ UNCHANGED <<setting, todo, i, bar, atr, added, signal, streak, pending, cash, pos, prices, trail,
                   trip, spent, tranches, trips, fill>>

Next ==
    \/ NextBar \/ PassEnds \/ BarEnds
    \/ \E s \in Traded : FillQueued(s) \/ ScaleIn(s) \/ Exit(s) \/ Ask(s)

Spec == Init /\ [][Next]_btvars

-----------------------------------------------------------------------------
(* Every fill is at a price its bar traded at, and a sale on the bar of an *)
(* add at one that is known to have come after the add: the replay books   *)
(* no profit the market did not offer (gapAdjusted, judged).               *)
FillsWereTraded ==
    LET b == bar[fill.s]
        late == added[fill.s].bar = i /\ fill.side = "sell" /\ fill.how /= "strategy"
    IN  phase \in {"open", "add", "exit"} /\ fill.s /= "none" /\ fill.bar = i =>
          /\ fill.at \in b.low .. b.high
          /\ late => fill.at <= Larger(added[fill.s].at, b.close)

(* The cash is what the run began with, less what the open positions cost, *)
(* plus every sale's net result: each commission is charged once, however  *)
(* many sales share a position (entryCommission).                          *)
BooksBalance ==
    cash = setting.cash + Pnl(tranches)
           - SumOver([s \in Traded |-> pos[s].cost + trip[s].fees])

(* The breakdowns say the same: the trips of the symbols and the sales of  *)
(* the exits add up to the result, and the periods, compounded, reproduce  *)
(* the whole run with no bar left out between them.                        *)
ReportsAddUp ==
    phase = "done" =>
      LET flat == \A s \in Traded : ~Held(s)
          periods == PeriodReturns(equity, setting.cash, BarsPerDay)
          symbols == BySymbol(trips)
          kinds == ByExitKind(tranches)
          worst == MaxDrawdown(equity)
      IN  /\ SumOver([s \in DOMAIN symbols |-> symbols[s].pnl]) + SumOver([s \in Traded |-> trip[s].pnl])
              = SumOver([k \in DOMAIN kinds |-> kinds[k].pnl])
          /\ flat => equity[Len(equity)] - setting.cash = Pnl(trips)
          /\ ProfitAndLoss(trips).gross - ProfitAndLoss(trips).loss = Pnl(trips)
          /\ trips /= <<>> =>
                LET hold == HoldStats(trips)
                IN  /\ hold.won + hold.lost = hold.total
                    /\ SumOver([s \in DOMAIN symbols |-> symbols[s].held]) = hold.total
                    /\ hold.least <= hold.median /\ hold.median <= hold.most
                    /\ hold.most <= Len(equity)
          /\ \A p \in periods : \/ p.from = 1 /\ p.startEq = setting.cash
                                \/ \E q \in periods : q.to = p.from - 1 /\ q.endEq = p.startEq
          /\ periods /= {} => \E p \in periods : p.to = Len(equity)
          /\ \A m, n \in DOMAIN equity : m <= n /\ equity[m] > 0 /\ equity[n] >= 0 =>
                (equity[m] - equity[n]) * worst.peak <= (worst.peak - worst.at) * equity[m]

(* No rung of the scale-out ladder is sold twice in one trip, and the rungs *)
(* are taken in their order, also when one bar jumps several of them        *)
(* (partialFill's next count).                                              *)
RungsSoldOnce ==
    \A t \in Range(trips) \cup {trip[s] : s \in Traded} : \A k \in DOMAIN t.rungs : t.rungs[k] = k

TrailOf(s) ==
    IF Held(s) THEN WithTrailFloor([trail |-> TrailLevel(setting.exits, Avg(s), Larger(trail[s].peak, Avg(s)),
                                                        atr[s])], setting.exits, trail[s].floor).trail ELSE 0

(* While its settings stand, the trailing level of a position never falls:  *)
(* not with a new bar, not when part of it is sold, not when an add moves   *)
(* the average cost (exits.RebaseOnAdd).                                    *)
TrailNeverFalls ==
    [][\A s \in Traded : Held(s) /\ pos'[s].qty > 0 /\ trip'[s].since = trip[s].since
          /\ atr'[s] <= atr[s] => TrailOf(s)' >= TrailOf(s)]_btvars

BuyFollowsTheRules ==
    fill' /= fill /\ fill'.side = "buy" =>
      LET s == fill'.s
          class == setting.caps.class[s]
          alike == {h \in Traded : setting.caps.class[h] = class}
      IN  /\ ~guard.halted \/ ~setting.protections.on
          /\ cash' >= setting.limits.reserve
          /\ setting.caps.on /\ class \in DOMAIN setting.caps.share =>
                SumOver([h \in alike |-> pos'[h].qty * prices'[h]]) * Hundred
                  <= setting.caps.share[class] * fill'.equity

(* What a buy may never do, whatever was decided a bar before: come once    *)
(* the protections have halted the run, take the cash below its reserve, or *)
(* carry its asset class past its share of the book (the second look at the *)
(* fill).                                                                   *)
BuysKeepTheRules == [][BuyFollowsTheRules]_btvars
=============================================================================
