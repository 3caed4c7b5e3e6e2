----------------------------- MODULE ExitRules -----------------------------
(* The protective exit levels of a position: package exits, the one rule     *)
(* engine the live bot and the backtester share.  Pure operators over         *)
(*                                                                            *)
(*   cfg = [stop, take, trail, tight, offset : percent (0 = off),             *)
(*          onlyAfter : BOOLEAN, atrStop, atrTrail : multiples (0 = off),     *)
(*          roi : set of <<age, percent>>, ladder : sequence of               *)
(*          [profit, sell : percent], maxHold : age (0 = off)]                *)
(*                                                                            *)
(* Prices are integers, percentages are of Hundred; a level is rounded down   *)
(* to the price grid.                                                         *)
EXTENDS Integers, Sequences, FiniteSets, FiniteSetsExt, TLC, Sums

Hundred == 100

Larger(a, b) == IF a >= b THEN a ELSE b
Smaller(a, b) == IF a <= b THEN a ELSE b

\* price moved by pct percent of itself
Plus(price, pct) == (price * (Hundred + pct)) \div Hundred

\* gain of price over entry is at least pct percent
GainAtLeast(price, entry, pct) == price * Hundred >= entry * (Hundred + pct)

TrailConfigured(cfg) == cfg.trail > 0 \/ cfg.tight > 0 \/ cfg.atrTrail > 0

ATROutOfRange(cfg, entry, atr) == cfg.atrStop > 0 /\ atr > 0 /\ entry <= cfg.atrStop * atr

\* level widened to anchor - mult * atr where that is lower; a level that has
\* only the range to go by and none left above zero sits at one percent.
WiderATRLevel(level, anchor, mult, atr) ==
  LET ranged == anchor - mult * atr
  IN  IF mult = 0 \/ atr = 0 THEN level
      ELSE IF ranged > 0 /\ (level = 0 \/ ranged < level) THEN ranged
      ELSE IF ranged <= 0 /\ level = 0 THEN Plus(anchor, 1 - Hundred)
      ELSE level

StopLevel(cfg, entry, atr) ==
  WiderATRLevel(IF cfg.stop > 0 THEN Plus(entry, -cfg.stop) ELSE 0, entry, cfg.atrStop, atr)

\* The stage of the trail: whether it is armed, and its distance.
TrailStage(cfg, entry, peak) ==
  LET past == cfg.offset > 0 /\ GainAtLeast(peak, entry, cfg.offset)
  IN  [armed |-> past \/ ~cfg.onlyAfter \/ cfg.offset = 0,
       pct |-> IF past /\ cfg.tight > 0 THEN cfg.tight ELSE cfg.trail]

TrailLevel(cfg, entry, peak, atr) ==
  LET stage == TrailStage(cfg, entry, peak)
  IN  IF peak <= entry \/ ~stage.armed THEN 0
      ELSE WiderATRLevel(IF stage.pct > 0 THEN Plus(peak, -stage.pct) ELSE 0,
                         peak, cfg.atrTrail, atr)

\* The step of the ROI ladder in force at this age, <<>> before the first.
RoiThreshold(roi, held) ==
  LET past == {s \in roi : s[1] <= held}
  IN  IF past = {} THEN <<>> ELSE CHOOSE s \in past : \A t \in past : t[1] <= s[1]

TargetLevel(cfg, entry, held) ==
  LET step == RoiThreshold(cfg.roi, held)
      fixed == IF cfg.take > 0 THEN Plus(entry, cfg.take) ELSE 0
  IN  IF step /= <<>> /\ (fixed = 0 \/ Plus(entry, step[2]) < fixed)
      THEN [price |-> Plus(entry, step[2]), rule |-> "roi"]
      ELSE [price |-> fixed, rule |-> "take-profit"]

Compute(cfg, entry, peak, atr, held) ==
  LET target == TargetLevel(cfg, entry, held)
      due == cfg.maxHold > 0 /\ held >= cfg.maxHold
  IN  IF entry <= 0 THEN [stop |-> 0, trail |-> 0, target |-> 0, rule |-> "take-profit", due |-> due]
      ELSE [stop |-> StopLevel(cfg, entry, atr),
            trail |-> TrailLevel(cfg, entry, Larger(peak, entry), atr),
            target |-> target.price, rule |-> target.rule, due |-> due]

WithTrailFloor(levels, cfg, floor) ==
  IF TrailConfigured(cfg) /\ floor > levels.trail THEN [levels EXCEPT !.trail = floor] ELSE levels

\* The settings a trail depends on; a floor set under others has lapsed.
TrailKey(cfg) == <<cfg.trail, cfg.tight, cfg.offset, cfg.onlyAfter, cfg.atrTrail>>

FloorFor(cfg, floor, key) == IF key /= TrailKey(cfg) THEN 0 ELSE floor

\* mutant: an add keeps no floor under the trail
ForgetFloor(cfg, oldEntry, peak, floor, atr, newEntry, addPrice) ==
  [peak |-> Larger(newEntry, addPrice), floor |-> floor]

\* What an add leaves behind: the peak re-based to where the position stands,
\* and the trail in force just before as a floor.
RebaseOnAdd(cfg, oldEntry, peak, floor, atr, newEntry, addPrice) ==
  [peak |-> Larger(newEntry, addPrice),
   floor |-> Larger(floor, WithTrailFloor(Compute(cfg, oldEntry, peak, atr, 0), cfg, floor).trail)]

\* The rule a live price breaches, "none" otherwise: the downside first, the
\* higher of its levels first, the time barrier last.
Triggered(levels, price) ==
  CASE levels.trail > levels.stop /\ price <= levels.trail -> "trailing-stop"
    [] levels.stop > 0 /\ price <= levels.stop -> "stop-loss"
    [] levels.trail > 0 /\ price <= levels.trail -> "trailing-stop"
    [] levels.target > 0 /\ price >= levels.target -> levels.rule
    [] levels.due -> "max-hold"
    [] OTHER -> "none"

\* The usable rungs in ascending profit order.
SortedRungs(ladder) ==
  SortSeq(SelectSeq(ladder, LAMBDA r : r.profit > 0 /\ r.sell > 0),
          LAMBDA a, b : a.profit < b.profit)

\* The scale-out due at this price: every rung reached since the last one
\* taken goes in one sale.  rung 0 means none is due.
NextPartial(cfg, price, entry, taken) ==
  LET rungs == SortedRungs(cfg.ladder)
      reached == {i \in (taken + 1) .. Len(rungs) : GainAtLeast(price, entry, rungs[i].profit)}
  IN  IF reached = {} THEN [rung |-> 0, pct |-> 0]
      ELSE [rung |-> Max(reached),
            pct |-> Smaller(Hundred, SumOver([i \in reached |-> rungs[i].sell]))]

RungProfitPct(cfg, i) == SortedRungs(cfg.ladder)[i].profit

\* The quantity a scale-out sells of what is held, never leaving a crumb.
Tranche(orig, pct, held) == Smaller((orig * pct) \div Hundred, held)
=============================================================================
