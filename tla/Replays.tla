------------------------------- MODULE Replays -------------------------------
(***************************************************************************)
(* The exit rules where they are used: by the backtester over bars, by the *)
(* live engine over ticks; the strategy both ask for a signal; the search  *)
(* that judges configurations by such replays, and the screener's pass     *)
(* that judges instruments by them.                                        *)
(* They share rules and no state; one is under way at a time and the       *)
(* others keep still.                                                      *)
(***************************************************************************)
EXTENDS Integers, Sequences

CONSTANTS
    Order, Settings, BarsPerDay,    \* of Backtest
    Positions, Jump,                \* of LivePosition
    Searches,                       \* of Search
    Passes,                         \* of Screening
    Strategies, Full                \* of Signals

VARIABLES
    part,
    replay, phase, todo, barNo, bar, atr, added, signal, streak, pending, equity,
    cash, pos, prices, trail, trip, spent, guard, tranches, trips, fill,
    position, exits, price, record, peak, disk, step, rung, unknown, refused, chances, judged, sold, addedAt,
    setup, stage, measured, seen, trials, gen, evals, elite, best, axis, expired, stopped, cancelled,
    answer, folds,
    pass, cheap, probed, picks,
    strategy, bars, reads, htf, trend, denied, advice

btvars == <<replay, phase, todo, barNo, bar, atr, added, signal, streak, pending, equity,
            cash, pos, prices, trail, trip, spent, guard, tranches, trips, fill>>
lvars == <<position, exits, price, record, peak, disk, step, rung, unknown, refused, chances, judged, sold, addedAt>>
svars == <<setup, stage, measured, seen, trials, gen, evals, elite, best, axis, expired, stopped, cancelled, answer, folds>>
pvars == <<pass, cheap, probed, picks>>
gvars == <<strategy, bars, reads, htf, trend, denied, advice>>
parts == <<part, btvars, lvars, svars, pvars, gvars>>

B == INSTANCE Backtest WITH setting <- replay, i <- barNo
L == INSTANCE LivePosition WITH setup <- position, cfg <- exits, pos <- record, left <- chances, Setups <- Positions
S == INSTANCE Search WITH Setups <- Searches
P == INSTANCE Screening
G == INSTANCE Signals WITH signal <- advice

ASSUME ReplaysAssumption ==
    S!SearchAssumption /\ B!BacktestAssumption /\ L!LivePositionAssumption /\ P!ScreeningAssumption
    /\ G!SignalsAssumption

Still(p, value, values) == part = p \/ value = CHOOSE v \in values : TRUE

ReplaysInit ==
    /\ part \in {"replay", "live", "search", "screen", "signal"}
    /\ B!Init /\ L!Init /\ S!Init /\ P!Init /\ G!Init
    /\ Still("replay", replay, Settings) /\ Still("live", position, Positions) /\ Still("search", setup, Searches)
    /\ Still("screen", pass, Passes) /\ Still("signal", strategy, G!Combineds) /\ Still("signal", bars, strategy.cfg.lengths)
    /\ Still("live", exits, position.exits)

ReplaysNext ==
    \/ part = "replay" /\ B!Next /\ UNCHANGED <<part, lvars, svars, pvars, gvars>>
    \/ part = "live"   /\ L!Next /\ UNCHANGED <<part, btvars, svars, pvars, gvars>>
    \/ part = "search" /\ S!Next /\ UNCHANGED <<part, btvars, lvars, pvars, gvars>>
    \/ part = "screen" /\ P!Next /\ UNCHANGED <<part, btvars, lvars, svars, gvars>>
    \/ part = "signal" /\ G!Next /\ UNCHANGED <<part, btvars, lvars, svars, pvars>>

ReplaysSpec == ReplaysInit /\ [][ReplaysNext]_parts

-----------------------------------------------------------------------------
(* A replay does not flatter: every simulated fill is at a price its bar   *)
(* traded at, in the order the bar is known to have traded; the cash is    *)
(* what the sales' results say, each commission charged once; and the      *)
(* report's breakdowns add up to the same result.                          *)
ReplayIsHonest == B!FillsWereTraded /\ B!BooksBalance /\ B!ReportsAddUp

(* No rung of the scale-out ladder is sold twice from one position: not in *)
(* a bar that jumps several, not when the broker does not tell what became *)
(* of one, not across a restart.                                           *)
RungsSoldOnce == B!RungsSoldOnce /\ L!RungsSoldOnce

(* While the settings stand the trail of a position never falls, in a      *)
(* replay or live: not with an add, not with a scale-out, not with a       *)
(* restart.                                                                *)
TrailNeverFalls == B!TrailNeverFalls /\ L!TrailNeverFalls

(* A simulated buy never comes once the protections have halted the run,   *)
(* never takes the cash below its reserve nor a class past its share; and  *)
(* the signal it comes from is the stronger side of those through every    *)
(* gate, heeds the higher timeframe and is not moved by a muted detector.  *)
BuysKeepTheRules == B!BuysKeepTheRules /\ []G!SignalsKeepTheRules

(* Neither does a search: what autotune proposes reproduces what was       *)
(* measured -- the live configuration with the override applied is one     *)
(* that was replayed, with the numbers it was judged by; no trial that     *)
(* beats the answer and clears the return floor is left unused; and no bar *)
(* that chose a walk-forward winner scores it.                             *)
SearchIsHonest == S!SearchIsHonest

(* Nor a screening pass: it picks no symbol a filter refused or a trusted  *)
(* replay measured as a loser, keeps each class and sector within its cap, *)
(* held positions included, leaves nothing better out, and lets what was   *)
(* measured outrank what was not.                                          *)
PicksAreHonest == P!PicksAreHonest
=============================================================================
