---------------------------- MODULE Protections ----------------------------
(* The protection manager as the backtest drives it: on the simulated clock,  *)
(* with no one to resume it.  Pure operators from one state of the manager to  *)
(* the next:                                                                   *)
(*                                                                             *)
(*   guard = [halted : BOOLEAN, peak, dayEquity, day, realized, realizedPeak,  *)
(*            locked : [symbol -> time], stopOuts : [symbol -> Seq(time)],     *)
(*            closes : [symbol -> Seq([at, pnl])]]                             *)
(*   cfg = [on : BOOLEAN, drawdown, dailyLoss, giveBack : percent (0 = off),   *)
(*          cooldown, stopTrades, stopLookback, stopLock,                      *)
(*          lowTrades, lowLookback, lowLock, lowMin]                           *)
EXTENDS Integers, Sequences, Sums

FreshGuard(symbols) ==
  [halted |-> FALSE, peak |-> 0, dayEquity |-> 0, day |-> -1, realized |-> 0, realizedPeak |-> 0,
   locked |-> [s \in symbols |-> 0], stopOuts |-> [s \in symbols |-> <<>>], closes |-> [s \in symbols |-> <<>>]]

\* entries only: nothing here ever gates an exit
EntryAllowed(guard, cfg, s, now) == cfg.on => ~guard.halted /\ guard.locked[s] <= now

LockUntil(guard, s, t) == [guard EXCEPT !.locked[s] = IF t > @ THEN t ELSE @]

\* Recent(q, from) : the entries of q later than from
Recent(q, from, At(_)) == SelectSeq(q, LAMBDA e : At(e) > from)

\* A symbol whose recent closes have not made money is locked and judged anew.
CheckLowProfit(guard, cfg, s, pnl, now) ==
  LET kept == Append(Recent(guard.closes[s], now - cfg.lowLookback, LAMBDA c : c.at), [at |-> now, pnl |-> pnl])
      total == SumOver([k \in DOMAIN kept |-> kept[k].pnl])
  IN  IF cfg.lowTrades = 0 \/ cfg.lowLookback = 0 THEN guard
      ELSE IF Len(kept) < cfg.lowTrades \/ total > cfg.lowMin THEN [guard EXCEPT !.closes[s] = kept]
      ELSE LockUntil([guard EXCEPT !.closes[s] = <<>>], s, now + cfg.lowLock)

\* A losing stop-out counts; enough of them lock the symbol.
CheckStopOuts(guard, cfg, s, now) ==
  LET kept == Append(Recent(guard.stopOuts[s], now - cfg.stopLookback, LAMBDA t : t), now)
  IN  IF cfg.stopTrades = 0 \/ cfg.stopLookback = 0 THEN guard
      ELSE IF Len(kept) < cfg.stopTrades THEN [guard EXCEPT !.stopOuts[s] = kept]
      ELSE LockUntil([guard EXCEPT !.stopOuts[s] = <<>>], s, now + cfg.stopLock)

\* One closed trip: its net result, and whether a stop ended it.
ClosedTrip(guard, cfg, s, pnl, stopped, now) ==
  LET cooled == IF pnl < 0 /\ cfg.cooldown > 0 THEN LockUntil(guard, s, now + cfg.cooldown) ELSE guard
      judged == CheckLowProfit(cooled, cfg, s, pnl, now)
  IN  IF ~cfg.on THEN guard
      ELSE IF stopped /\ pnl < 0 THEN CheckStopOuts(judged, cfg, s, now)
      ELSE judged

\* loss is at least pct percent of base
LostAtLeast(loss, base, pct) == pct > 0 /\ base > 0 /\ loss * 100 >= pct * base

\* One reading of the equity: the peaks follow it whatever else holds, then
\* the drawdown from the peak and the loss since the day began may halt.
ObservedEquity(guard, cfg, equity, day) ==
  LET tracked == [guard EXCEPT !.day = day,
                               !.dayEquity = IF guard.day /= day THEN equity ELSE @,
                               !.peak = IF equity > @ THEN equity ELSE @]
      breach == \/ LostAtLeast(tracked.peak - equity, tracked.peak, cfg.drawdown)
                \/ LostAtLeast(tracked.dayEquity - equity, tracked.dayEquity, cfg.dailyLoss)
  IN  IF equity <= 0 THEN guard ELSE [tracked EXCEPT !.halted = @ \/ (cfg.on /\ breach)]

\* One realised result: the running sum may not fall too far from its best,
\* measured against the peak of the equity.
ObservedClose(guard, cfg, pnl) ==
  LET sum == guard.realized + pnl
      best == IF sum > guard.realizedPeak THEN sum ELSE guard.realizedPeak
      breach == LostAtLeast(best - sum, guard.peak, cfg.giveBack)
  IN  [guard EXCEPT !.realized = sum, !.realizedPeak = best, !.halted = @ \/ (cfg.on /\ breach)]
=============================================================================
