------------------------------ MODULE MCReplays ------------------------------
(* Instances of Replays: the settings a replay runs under, the live        *)
(* positions, the searches, the screening passes, the strategies.          *)
EXTENDS Replays, TLC

Symbols == <<"a", "b">>
Each(x, y) == ("a" :> x) @@ ("b" :> y)
Bar(o, h, l, c, a) == [open |-> o, high |-> h, low |-> l, close |-> c, atr |-> a]

(* The exits: a ladder of two rungs written in the wrong order, a trail    *)
(* that tightens in profit, a stop.                                        *)
Exits == [on |-> TRUE, stop |-> 10, take |-> 0, trail |-> 6, tight |-> 3, offset |-> 5, onlyAfter |-> FALSE,
          atrStop |-> 0, atrTrail |-> 0, roi |-> {}, maxHold |-> 0,
          ladder |-> <<[profit |-> 8, sell |-> 25], [profit |-> 3, sell |-> 25]>>]

-----------------------------------------------------------------------------
(* Replays                                                                 *)

Unprotected == [on |-> FALSE, drawdown |-> 0, dailyLoss |-> 0, giveBack |-> 0, cooldown |-> 0,
                stopTrades |-> 0, stopLookback |-> 0, stopLock |-> 0,
                lowTrades |-> 0, lowLookback |-> 0, lowLock |-> 0, lowMin |-> 0]
Protected == [Unprotected EXCEPT !.on = TRUE, !.drawdown = 5, !.dailyLoss = 4, !.giveBack = 3, !.cooldown = 1,
                                 !.stopTrades = 1, !.stopLookback = 3, !.stopLock = 2,
                                 !.lowTrades = 2, !.lowLookback = 4, !.lowLock = 2]
Unlimited == [order |-> 4000, position |-> 0, invested |-> 0, daily |-> 0, reserve |-> 0, count |-> 0, slots |-> 0]
Uncapped == [on |-> FALSE, class |-> [s \in {"a", "b"} |-> "stock"], sector |-> [s \in {"a", "b"} |-> "tech"],
             share |-> <<>>, slots |-> <<>>, sectorValue |-> 0, sectorCount |-> 0,
             alike |-> 0, perClass |-> FALSE, pairs |-> {}]

Flat == Bar(1000, 1010, 990, 1000, 20)
Swings == {Flat, Bar(1010, 1060, 1000, 1050, 30), Bar(1080, 1100, 1070, 1090, 30),
           Bar(990, 1040, 940, 950, 40), Bar(900, 910, 860, 880, 60)}

Plain == [length |-> 4, exits |-> Exits, limits |-> Unlimited, costs |-> [adverse |-> 1, fee |-> 0, fixed |-> 20],
          caps |-> Uncapped, protections |-> Unprotected, size |-> [most |-> 0, least |-> 500],
          confirmBuy |-> 1, confirmSell |-> 1, keep |-> 0, pyramiding |-> FALSE,
          scaleIn |-> [on |-> TRUE, most |-> 2, step |-> 4, size |-> 50, signal |-> FALSE], cash |-> 10000,
          bars |-> Each(Swings, {Flat}), answers |-> Each({"buy", "hold"}, {"hold"})]
Rich == [Plain EXCEPT !.exits.ladder = <<>>, !.exits.take = 7, !.exits.roi = {<<0, 9>>, <<2, 4>>},
                      !.exits.maxHold = 3, !.exits.atrStop = 1, !.exits.atrTrail = 2,
                      !.pyramiding = TRUE, !.protections = Protected, !.confirmBuy = 2, !.keep = 2,
                      !.answers = Each({"buy", "sell"}, {"hold"})]
Shared == [Plain EXCEPT !.length = 3, !.answers = Each({"buy", "sell"}, {"buy", "hold"}),
                        !.bars = Each({Flat, Bar(950, 960, 900, 930, 20)}, {Flat, Bar(1080, 1100, 1070, 1090, 30)}),
                        !.caps.on = TRUE, !.caps.share = "stock" :> 60,
                        !.protections = [Unprotected EXCEPT !.on = TRUE, !.drawdown = 3]]
Slotted == [Shared EXCEPT !.limits = [order |-> 4000, position |-> 5000, invested |-> 8500, daily |-> 9000,
                                      reserve |-> 1000, count |-> 2, slots |-> 2],
                          !.caps.share = <<>>, !.caps.slots = "stock" :> 2, !.caps.sectorCount = 2,
                          !.caps.alike = 2, !.caps.pairs = {{"a", "b"}}, !.costs.fee = 1]
AllSettings == {Plain, Rich, Shared, Slotted}

-----------------------------------------------------------------------------
(* Live positions                                                          *)

Held == [exits |-> {Exits}, scaleIn |-> [on |-> FALSE, most |-> 0, step |-> 0, lot |-> 0],
         ticks |-> {940, 1000, 1040, 1090}, entries |-> 2, edits |-> 0, restarts |-> 1,
         crashes |-> FALSE, lot |-> 8, atr |-> 0]
Edited == [Held EXCEPT !.exits = {Exits, [Exits EXCEPT !.trail = 8, !.onlyAfter = TRUE]}, !.edits = 1,
                       !.restarts = 0, !.ticks = {940, 1000, 1090}]
Averaged == [Held EXCEPT !.scaleIn = [on |-> TRUE, most |-> 1, step |-> 4, lot |-> 4],
                         !.entries = 1, !.ticks = {900, 950, 1000, 1090}]
AllPositions == {Held, Edited, Averaged}

-----------------------------------------------------------------------------
(* Searches                                                                *)

Result(s, c, r, e, w) == [score |-> s, closed |-> c, ret |-> r, exp |-> e, win |-> w]
Results == {Result(1, 5, 1, 1, 60), Result(2, 5, 1, 2, 90), Result(3, 5, -1, 3, 90)}
Thin    == Results \cup {Result(3, 2, 2, 3, 90)}       \* one of too few trades
Value(f, v) == [field |-> f, value |-> v]
Running == [det |-> "d1", period |-> "p", sell |-> "same", gate |-> FALSE, deploy |-> "x", behave |-> "x", on |-> TRUE]
Record(t, w, e) == [trades |-> t, wins |-> w, exp |-> e]

Tuned == [by |-> "autotune", live |-> Running, outcomes |-> Results, generations |-> 1, size |-> 2,
          grid |-> [det |-> {"d1", "d2"}, period |-> {"p", "q"}, deploy |-> {"x"}, unsearchable |-> {"ml"}],
          refine |-> <<Value("sell", "s"), Value("gate", TRUE)>>,
          minTrades |-> 3, floor |-> 0, real |-> {}, recent |-> {}, bars |-> 9, folds |-> 2]
OwnDetector == [Tuned EXCEPT !.live.det = "own", !.real = {Record(4, 2, 1)}, !.recent = {Record(1, 1, 2)}]
Learner  == [Tuned EXCEPT !.live.det = "ml"]
Screened == [Tuned EXCEPT !.live.on = FALSE, !.by = "probe", !.outcomes = Thin]
Printed  == [Tuned EXCEPT !.by = "cli", !.outcomes = Thin, !.grid.deploy = {"x", "y"},
                          !.refine = <<Value("sell", "s"), Value("behave", "y")>>]
Walked   == [Tuned EXCEPT !.by = "walk", !.outcomes = Thin, !.grid.det = {"d1"}]
Longer == [Tuned EXCEPT !.generations = 2]
AllSearches == {Longer, OwnDetector, Learner, Screened, Printed, Walked, [Walked EXCEPT !.bars = 5]}
-----------------------------------------------------------------------------
(* Screening passes, over the symbols 1 to 4                               *)

Leg(t, e, s) == [trades |-> t, exp |-> e, score |-> s]
Unprobed == [on |-> FALSE, limit |-> 2, minTrades |-> 4, minExp |-> 1,
             backtests |-> {Leg(-1, 0, 0)}, searches |-> {Leg(-1, 0, 0)}]
ProbesBoth == [Unprobed EXCEPT !.on = TRUE,
                  !.backtests = {Leg(-1, 0, 0), Leg(3, 2, 5), Leg(4, 0, 5), Leg(5, 2, 3)},
                  !.searches  = {Leg(-1, 0, 0), Leg(3, 2, 9), Leg(4, 1, 1), Leg(6, 0, 2)}]
Cap(m, s) == [most |-> m, perSector |-> s]

OneClass == [universe |-> {1, 2, 3, 4}, profiles |-> {}, own |-> <<>>, suggests |-> {}, suggestAll |-> FALSE,
             starter |-> "etf" :> {3, 4}, current |-> {1, 2}, held |-> {1}, pinned |-> {4},
             keepHeld |-> TRUE, keepManual |-> FALSE, classes |-> <<"etf", "stock">>,
             class |-> <<"stock", "stock", "stock", "stock">>, sector |-> <<"tech", "tech", "health", "tech">>,
             caps |-> ("stock" :> Cap(2, 2)) @@ ("etf" :> Cap(1, 2)), perClassSectors |-> FALSE,
             ranks |-> {0, 1, 2}, probe |-> Unprobed]
TwoClasses == [OneClass EXCEPT !.universe = {}, !.profiles = {"stock", "etf"}, !.own = "stock" :> {1, 2},
                               !.suggests = {"etf"}, !.class = <<"stock", "stock", "etf", "etf">>,
                               !.sector = <<"tech", "none", "tech", "tech">>, !.keepHeld = FALSE, !.keepManual = TRUE,
                               !.pinned = {2, 5}, !.caps = ("stock" :> Cap(0, 2)) @@ ("etf" :> Cap(2, 2))]
AllPasses == {OneClass, [OneClass EXCEPT !.universe = {}, !.keepHeld = FALSE], TwoClasses,
              [TwoClasses EXCEPT !.perClassSectors = TRUE, !.suggestAll = TRUE],
              [OneClass EXCEPT !.probe = ProbesBoth, !.pinned = {}, !.ranks = {1, 2}, !.held = {4}]}
-----------------------------------------------------------------------------
(* Strategies                                                              *)

Alone == [multiple |-> 0, mode |-> "gate", detectors |-> <<>>]
Simple == [buy |-> <<"rsi", "trend">>, sell |-> <<>>, mode |-> "", sellMode |-> "", min |-> 4, minSell |-> -1,
           needs |-> [rsi |-> 1, trend |-> 2, ai |-> 1], symbolic |-> {"ai"}, strengths |-> {2, 6}, weights |-> <<>>,
           trendGate |-> FALSE, sellTrend |-> FALSE, deny |-> FALSE, higher |-> Alone, lengths |-> {3, 4}]
Split == [Simple EXCEPT !.buy = <<"rsi">>, !.sell = <<"ai">>, !.minSell = 2,
                        !.trendGate = TRUE, !.sellTrend = TRUE, !.deny = TRUE]
Trendy == [Simple EXCEPT !.buy = <<"rsi", "typo">>, !.sell = <<"trend", "ai">>, !.sellMode = "weighted",
                         !.weights = [ai |-> -1], !.trendGate = TRUE]
Coarser == [Simple EXCEPT !.buy = <<"typo">>, !.sell = <<"ai">>, !.mode = "unanimous", !.lengths = {3, 9, 10},
                          !.higher = [multiple |-> 2, mode |-> "gate", detectors |-> <<"trend", "ai">>]]
Voiced  == [Coarser EXCEPT !.buy = <<>>, !.higher.mode = "vote", !.higher.detectors = <<>>]
Weighed == [Simple EXCEPT !.buy = <<"rsi", "trend", "ai">>, !.mode = "weighted", !.weights = [rsi |-> 0, trend |-> 2]]
AllStrategies == {Simple, Split, Trendy, Coarser, Voiced, Weighed}
=============================================================================
