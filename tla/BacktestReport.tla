--------------------------- MODULE BacktestReport ---------------------------
(* What a replay reports about itself: the equity curve by period, its        *)
(* drawdown, and the closed trips by symbol and the sales by exit.  Pure      *)
(* operators over the curve (a sequence of equities, one per bar) and         *)
(* sequences of results [s, pnl, kind, held, ...].                            *)
EXTENDS ExitRules

\* a column of some of the results, added up
SumOf(results, which, field) == SumOver([k \in which |-> results[k][field]])

Pnl(results) == SumOf(results, DOMAIN results, "pnl")

Winners(results) == {k \in DOMAIN results : results[k].pnl >= 0}
Losers(results) == DOMAIN results \ Winners(results)

\* The curve by calendar period of `length` bars: each opens where the one
\* before it closed, the first at the starting cash.
PeriodReturns(equity, startCash, length) ==
  LET period(k) == (k - 1) \div length
      firsts == {k \in DOMAIN equity : k = 1 \/ period(k) /= period(k - 1)}
      lasts == {k \in DOMAIN equity : k = Len(equity) \/ period(k) /= period(k + 1)}
      begin(k) == Max({f \in firsts : f <= k})
      before(k) == IF begin(k) > 1 THEN equity[begin(k) - 1]
                   ELSE IF startCash > 0 THEN startCash ELSE equity[begin(k)]
  IN  IF Len(equity) < 2 THEN {}
      ELSE {[from |-> begin(k), to |-> k, startEq |-> before(k), endEq |-> equity[k]] : k \in lasts}

\* the deepest fall from a peak: the fall and the peak it fell from
MaxDrawdown(equity) ==
  LET falls == {[peak |-> Max({equity[k] : k \in 1 .. n}), at |-> equity[n]] : n \in DOMAIN equity}
      deeper(a, b) == (a.peak - a.at) * b.peak >= (b.peak - b.at) * a.peak
      real == {f \in falls : f.peak > 0}
  IN  IF real = {} THEN [peak |-> 1, at |-> 1] ELSE CHOOSE f \in real : \A g \in real : deeper(f, g)

\* one group of results: its count, its wins and its profit
Tally(results, which) ==
  [trades |-> Cardinality(which), wins |-> Cardinality(which \cap Winners(results)),
   pnl |-> SumOf(results, which, "pnl"), held |-> SumOf(results, which, "held")]

\* a tally for every label of the column
By(results, column) ==
  [label \in {results[k][column] : k \in DOMAIN results} |->
     Tally(results, {k \in DOMAIN results : results[k][column] = label})]

BySymbol(trips) == By(trips, "s")
ByExitKind(sales) == By(sales, "kind")

\* gross profit and gross loss of the closed trips
ProfitAndLoss(trips) ==
  [gross |-> SumOf(trips, Winners(trips), "pnl"), loss |-> -SumOf(trips, Losers(trips), "pnl")]

\* the n-th shortest holding
Nth(trips, n) ==
  LET shorter(v) == {k \in DOMAIN trips : trips[k].held < v}
  IN  CHOOSE v \in {trips[k].held : k \in DOMAIN trips} :
        Cardinality(shorter(v)) < n /\ n <= Cardinality(shorter(v + 1))

\* how long positions were held: least, median, most, and the sums of winners
\* and of losers
HoldStats(trips) ==
  [trades |-> Len(trips), least |-> Nth(trips, 1), median |-> Nth(trips, (Len(trips) \div 2) + 1),
   most |-> Nth(trips, Len(trips)),
   total |-> SumOf(trips, DOMAIN trips, "held"),
   won |-> SumOf(trips, Winners(trips), "held"), lost |-> SumOf(trips, Losers(trips), "held")]
=============================================================================
