-------------------------------- MODULE Signals --------------------------------
(***************************************************************************)
(* One evaluation of a strategy (internal/strategy/strategy.go,            *)
(* higher_timeframe.go): detectors vote, each side's votes are merged by   *)
(* its own mode, and the first candidate side through every gate acts.     *)
(* What a detector makes of the bars is a choice; strengths are integers,  *)
(* Full of them the 1.0 of the code, and an average stays a fraction.      *)
(***************************************************************************)
EXTENDS Integers, Sequences, FiniteSets, FiniteSetsExt, Sums

CONSTANTS
    Strategies,     \* the settings of a strategy; "needs" gives each registered detector its warmup
    Full            \* full strength

VARIABLES
    strategy,       \* Combined: what New built from the settings; fixed
    bars,           \* how many bars the evaluation is given; fixed
    reads,          \* detector -> its action and strength
    htf,            \* what the higher timeframe says, if it is ready
    trend,          \* what the trend filters say, of a buy and of a sell
    denied,         \* the short-term checks speak against a buy
    signal          \* the answer
vars == <<strategy, bars, reads, htf, trend, denied, signal>>

(* The detectors are listed by name, one called rsi always being there to  *)
(* fall back to; periods, strengths and weights are numbers.               *)
SettingsFit(cfg) ==
    /\ {cfg.buy, cfg.sell, cfg.higher.detectors} \subseteq Seq(STRING)
    /\ cfg.needs \in [DOMAIN cfg.needs -> Nat] /\ "rsi" \in DOMAIN cfg.needs
    /\ cfg.higher.multiple \in Int
    /\ cfg.strengths \subseteq Nat /\ cfg.weights \in [DOMAIN cfg.weights -> Int] /\ cfg.lengths \subseteq Nat

SignalsAssumption == \A cfg \in Strategies : SettingsFit(cfg)

Mirror(a) == CASE a = "buy" -> "sell" [] a = "sell" -> "buy" [] OTHER -> "hold"
Undecided == [action |-> "hold", strength |-> 0]
NoSignal  == [action |-> "hold", num |-> 0, den |-> 1]
Waiting   == [action |-> "none", num |-> 0, den |-> 1]

-----------------------------------------------------------------------------
(* What New builds                                                         *)

(* The detectors a list names, by their place in it: a name no detector is *)
(* registered under is dropped.                                            *)
Built(cfg, names) == RestrictValues(names, LAMBDA d : d \in DOMAIN cfg.needs)

Longest(cfg, dets) == Max({0} \cup {cfg.needs[d] : d \in dets})

NormalizeCombine(mode, default) == IF mode \in {"majority", "unanimous", "weighted"} THEN mode ELSE default

Either(first, second) == IF first = <<>> THEN second ELSE first

(* The bars of its own the higher timeframe waits for; 0 if there is none. *)
HigherWarmup(cfg) ==
    IF cfg.higher.multiple < 2 THEN 0
    ELSE Longest(cfg, Range(Built(cfg, Either(cfg.higher.detectors, <<"trend">>))))

(* The bars before the first signal: the longest a detector needs, or what *)
(* the higher timeframe needs before it can say anything.                  *)
WarmupBars(cfg, dets) ==
    LET ready == IF HigherWarmup(cfg) = 0 THEN 0 ELSE (HigherWarmup(cfg) + 2) * cfg.higher.multiple
        base  == Longest(cfg, dets)
    IN (IF ready > base THEN ready ELSE base) + 2

New(cfg) ==
    LET buyers  == Either(Built(cfg, Either(cfg.buy, <<"ema_cross", "rsi", "macd">>)), <<"rsi">>)
        sellers == Either(Built(cfg, cfg.sell), buyers)
        mode    == NormalizeCombine(cfg.mode, "majority")
    IN [voters |-> [buy |-> buyers, sell |-> sellers],
        modes  |-> [buy |-> mode, sell |-> NormalizeCombine(cfg.sellMode, mode)],
        least  |-> [buy |-> cfg.min, sell |-> IF cfg.minSell >= 0 THEN cfg.minSell ELSE cfg.min],
        warmup |-> WarmupBars(cfg, Range(buyers) \cup Range(sellers)),
        higher |-> [mode |-> IF HigherWarmup(cfg) = 0 THEN "off" ELSE IF cfg.higher.mode = "vote" THEN "vote" ELSE "gate",
                    warmup |-> HigherWarmup(cfg), voters |-> Built(cfg, Either(cfg.higher.detectors, <<"trend">>))],
        cfg    |-> cfg]

-----------------------------------------------------------------------------
(* The tally                                                               *)

(* A zero or negative weight mutes a strength and leaves the vote.         *)
Weight(d) ==
    IF d \notin DOMAIN strategy.cfg.weights THEN 1
    ELSE IF strategy.cfg.weights[d] < 0 THEN 0 ELSE strategy.cfg.weights[d]

(* The votes for each action, and their weighted strengths.                *)
Tallied(dets, read, weight(_)) ==
    LET by(a) == {k \in DOMAIN dets : read[dets[k]].action = a}
    IN [n   |-> [a \in {"buy", "sell"} |-> Cardinality(by(a))],
        str |-> [a \in {"buy", "sell"} |-> SumOver([k \in by(a) |-> read[dets[k]].strength * weight(dets[k])])]]

WithVote(t, read) ==
    IF read.action = "hold" THEN t
    ELSE [t EXCEPT !.n[read.action] = @ + 1, !.str[read.action] = @ + read.strength]

(* It speaks once it has bars enough of its own.                           *)
HigherReady ==
    strategy.higher.mode # "off" /\ bars \div strategy.cfg.higher.multiple >= strategy.higher.warmup

(* The higher timeframe's opinion: the bars grouped from the newest back,  *)
(* a plain majority of its own detectors, unweighted, in which what votes  *)
(* by symbol abstains.  Its average is rounded down here.                  *)
HigherVote(coarse, symbolic) ==
    LET heard == [d \in DOMAIN coarse |-> IF d \in symbolic THEN Undecided ELSE coarse[d]]
        t == Tallied(strategy.higher.voters, heard, LAMBDA d : 1)
        says(a) == [ok |-> TRUE, action |-> a, strength |-> t.str[a] \div t.n[a]]
    IN CASE ~HigherReady -> [ok |-> FALSE, action |-> "hold", strength |-> 0]
         [] HigherReady /\ t.n.buy > t.n.sell -> says("buy")
         [] HigherReady /\ t.n.sell > t.n.buy -> says("sell")
         [] OTHER -> [ok |-> TRUE, action |-> "hold", strength |-> 0]

(* What a side is decided on; a higher timeframe in vote mode is one more  *)
(* vote, for entries and for exits.                                        *)
Tally(side, read) ==
    LET t == Tallied(strategy.voters[side], read, Weight)
    IN IF htf.ok /\ strategy.higher.mode = "vote" THEN WithVote(t, htf) ELSE t

(* Whether a side wins under its mode, and with which strength: the        *)
(* average over its own voters.                                            *)
SideQualifies(mode, n, other, str, otherStr) ==
    LET den == IF n > 1 THEN n ELSE 1
    IN CASE mode = "unanimous" -> [ok |-> n > 0 /\ other = 0, num |-> str, den |-> den]
         [] mode = "weighted"  -> [ok |-> str > otherStr, num |-> str - otherStr, den |-> den]
         [] OTHER              -> [ok |-> n > other, num |-> str, den |-> den]

Standing(side, t) ==
    SideQualifies(strategy.modes[side], t.n[side], t.n[Mirror(side)], t.str[side], t.str[Mirror(side)])

-----------------------------------------------------------------------------
(* The gates                                                               *)

Opposes(dir, side) == dir # "hold" /\ dir = Mirror(side)

(* The trend's word for a side: its vote where it is among the side's      *)
(* voters, as both are one reading; a sell may have a filter of its own.   *)
TrendVote(side, read) ==
    IF side = "sell" /\ strategy.cfg.sellTrend THEN trend.sell
    ELSE IF "trend" \in Range(strategy.voters[side]) THEN read["trend"].action ELSE trend.buy

DirectionalVeto(side, read) ==
    \/ htf.ok /\ strategy.higher.mode = "gate" /\ Opposes(htf.action, side)
    \/ strategy.cfg.trendGate /\ Opposes(TrendVote(side, read), side)

CandidateFails(side, standing, read) ==
    LET clamped == IF standing.num > Full * standing.den THEN Full * standing.den ELSE standing.num
    IN \/ DirectionalVeto(side, read)
       \/ side = "buy" /\ strategy.cfg.deny /\ denied
       \/ clamped < strategy.least[side] * standing.den

Weaker(s, t) == s.num * t.den < t.num * s.den

(* The sides that qualify, the stronger first and a sell on a tie.         *)
Candidates(side) ==
    CASE ~side["buy"].ok /\ ~side["sell"].ok -> <<>>
      [] side["buy"].ok /\ ~side["sell"].ok -> <<"buy">>
      [] ~side["buy"].ok /\ side["sell"].ok -> <<"sell">>
      [] OTHER -> IF Weaker(side["sell"], side["buy"]) THEN <<"buy", "sell">> ELSE <<"sell", "buy">>

Sides(read) == [s \in {"buy", "sell"} |-> Standing(s, Tally(s, read))]

(* The candidates through every gate.                                      *)
Through(side, read) ==
    {k \in DOMAIN Candidates(side) : ~CandidateFails(Candidates(side)[k], side[Candidates(side)[k]], read)}

(* The first of them acts.                                                 *)
Decide(read) ==
    LET side == Sides(read)
        through == Through(side, read)
        acting == Candidates(side)[Min(through)]
    IN IF bars < strategy.warmup \/ through = {} THEN NoSignal
       ELSE [action |-> acting, num |-> side[acting].num, den |-> side[acting].den]

-----------------------------------------------------------------------------
Readings == {Undecided} \cup [action : {"buy", "sell"}, strength : strategy.cfg.strengths]
Directions(on) == IF on THEN {"buy", "sell", "hold"} ELSE {"hold"}
Voting == Range(strategy.voters.buy) \cup Range(strategy.voters.sell)

Combineds == {New(cfg) : cfg \in Strategies}

Init ==
    /\ strategy \in Combineds /\ bars \in strategy.cfg.lengths
    /\ reads = <<>> /\ htf = [ok |-> FALSE, action |-> "hold", strength |-> 0]
    /\ trend = [buy |-> "hold", sell |-> "hold"] /\ denied = FALSE
    /\ signal = Waiting

(* The detectors, the filters and the checks say what they will of the     *)
(* bars; a trend detector and the trend filter are one reading.            *)
Read ==
    /\ reads = <<>>
    /\ reads' \in [Voting -> Readings]
    /\ \E c \in [Range(strategy.higher.voters) -> IF strategy.higher.mode = "off" THEN {Undecided} ELSE Readings] :
           htf' = HigherVote(c, strategy.cfg.symbolic)
    /\ trend' \in [buy : Directions(strategy.cfg.trendGate), sell : Directions(strategy.cfg.sellTrend)]
    /\ "trend" \in Voting /\ strategy.cfg.trendGate => trend'.buy = reads'["trend"].action
    /\ denied' \in IF strategy.cfg.deny THEN BOOLEAN ELSE {FALSE}
    /\ UNCHANGED <<strategy, bars, signal>>

Evaluate ==
    /\ reads # <<>> /\ signal = Waiting
    /\ signal' = Decide(reads)
    /\ UNCHANGED <<strategy, bars, reads, htf, trend, denied>>

Next == Read \/ Evaluate
Spec == Init /\ [][Next]_vars

-----------------------------------------------------------------------------
(* Properties                                                              *)

Answered == signal # Waiting

(* A side that wins its vote and is through every gate acts, unless the    *)
(* other is too and is stronger (or, a sell, as strong): a side that a     *)
(* gate stops never takes the other down with it.                          *)
TheBestSideActs ==
    Answered /\ bars >= strategy.warmup =>
        LET side == Sides(reads)
            could == {s \in {"buy", "sell"} : side[s].ok /\ ~CandidateFails(s, side[s], reads)}
        IN signal.action =
              CASE could = {} -> "hold"
                [] could = {"buy"} -> "buy"
                [] could = {"sell"} -> "sell"
                [] OTHER -> IF Weaker(side["sell"], side["buy"]) THEN "buy" ELSE "sell"

(* A strategy with a higher timeframe acts only once that has an opinion,  *)
(* and what it says is heard by entries and exits alike: nothing goes      *)
(* against it where it gates, and where it votes nothing is unanimous      *)
(* against it.                                                             *)
HigherIsHeard ==
    Answered /\ signal.action # "hold" /\ strategy.higher.mode # "off" =>
        /\ htf.ok
        /\ Opposes(htf.action, signal.action) =>
              strategy.higher.mode = "vote" /\ strategy.modes[signal.action] # "unanimous"

(* How strongly a muted detector votes changes no decision.                *)
MutedStaysMute ==
    Answered => \A d \in DOMAIN strategy.cfg.weights \cap Voting : strategy.cfg.weights[d] <= 0 =>
        \A r \in Readings :
            r.action = reads[d].action => Decide([reads EXCEPT ![d] = r]) = signal

SignalsKeepTheRules == TheBestSideActs /\ HigherIsHeard /\ MutedStaysMute
=============================================================================
