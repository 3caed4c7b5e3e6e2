------------------------------- MODULE Screening -------------------------------
(***************************************************************************)
(* One pass of the screener (internal/screener/screener.go, probe.go):     *)
(* every symbol of the pool is judged by the filters, the best survivors   *)
(* of each class are probed by a backtest and a search                     *)
(* (internal/autotune/screenprobe.go), and each class keeps its best under *)
(* its own cap and a sector budget that starts at what is held.            *)
(***************************************************************************)
EXTENDS Integers, Sequences, FiniteSets

CONSTANT Passes     \* the configurations and inputs of a pass

VARIABLES
    pass,       \* the one under way; fixed
    cheap,      \* symbol -> the rank the filters gave it, 0 if one refused it
    probed,     \* symbol -> what its two probe legs measured
    picks       \* Result.Selected, once the pass is done
vars == <<pass, cheap, probed, picks>>

(* Symbols and numbers are integers; each symbol of a pool has a class that *)
(* is walked, once, under caps of its own.                                  *)
ScreeningAssumption == \A p \in Passes :
    LET symbols == p.universe \cup p.current \cup (UNION {p.own[c] : c \in DOMAIN p.own})
                                            \cup (UNION {p.starter[c] : c \in DOMAIN p.starter})
    IN  /\ symbols \subseteq Int /\ p.ranks \subseteq Int
        /\ \A r \in p.probe.backtests \cup p.probe.searches : r.trades \in Int /\ r.exp \in Int /\ r.score \in Int
        /\ p.probe.minTrades \in Int
        /\ \A k, m \in DOMAIN p.classes : p.classes[k] = p.classes[m] => k = m
        /\ DOMAIN p.classes \subseteq Int
        /\ \A s \in symbols : \E k \in DOMAIN p.classes : p.class[s] = p.classes[k]
        /\ \A c \in DOMAIN p.caps : p.caps[c].most \in Int /\ p.caps[c].perSector \in Int
        /\ \A s \in symbols : p.class[s] \in DOMAIN p.caps

Nothing == [trades |-> -1, exp |-> 0, score |-> 0]      \* a leg that could not measure
Open == {0}                                             \* not selected yet: 0 is no symbol

-----------------------------------------------------------------------------
(* The pool                                                                *)

(* The classes a pool is assembled for: those configured, and with the     *)
(* shared switch on or nothing configured every one with a starter pool.   *)
SeedableClasses ==
    IF ~pass.suggestAll /\ pass.profiles # {} THEN pass.profiles
    ELSE pass.profiles \cup DOMAIN pass.starter

ClassPool(c) ==
    IF c \in DOMAIN pass.own THEN pass.own[c]
    ELSE IF c \in pass.suggests /\ c \in DOMAIN pass.starter THEN pass.starter[c] ELSE {}

Pool ==
    LET configured == pass.universe \cup UNION {ClassPool(c) : c \in SeedableClasses}
    IN IF configured = {} THEN pass.current ELSE configured

Protected(s) == (s \in pass.held /\ pass.keepHeld) \/ (s \in pass.pinned /\ pass.keepManual)

Judged == DOMAIN cheap

(* Those that are ranked: a protected symbol is tracked whatever happens   *)
(* and takes part in no ranking.                                           *)
Survivors(c) == {s \in Judged : cheap[s] > 0 /\ ~Protected(s) /\ pass.class[s] = c}

-----------------------------------------------------------------------------
(* The probe                                                               *)

CheaplyAhead(s, t) == cheap[s] > cheap[t] \/ (cheap[s] = cheap[t] /\ s < t)

(* The best of each class, up to the limit.                                *)
Probable == {s \in Judged : LET peers == Survivors(pass.class[s])
                            IN s \in peers /\ Cardinality({t \in peers : CheaplyAhead(t, s)}) < pass.probe.limit}

(* Mutant: the search is held to its own, lower floor.                     *)
SearchFloorOwn == 3

(* The search is held to the screener's floor of closed trades, so a       *)
(* winner that would be ignored leaves the backtest's number standing.     *)
SearchFloor == IF pass.probe.minTrades > 3 THEN pass.probe.minTrades ELSE 3

Searched(s) == probed[s].search.trades >= SearchFloor
Measured(s) == IF Searched(s) THEN probed[s].search ELSE probed[s].backtest
Trusted(s)  == s \in DOMAIN probed /\ Measured(s).trades >= pass.probe.minTrades
Loser(s)    == Trusted(s) /\ Measured(s).exp < pass.probe.minExp

(* Searched candidates first, those with only a backtest next, the rest on *)
(* the filters' rank: the three scales have nothing in common.             *)
Tier(s) == IF ~Trusted(s) THEN 0 ELSE IF Searched(s) THEN 2 ELSE 1
Rank(s) == IF Trusted(s) THEN Measured(s).score ELSE cheap[s]

Ahead(s, t) ==
    \/ Tier(s) > Tier(t)
    \/ Tier(s) = Tier(t) /\ (Rank(s) > Rank(t) \/ (Rank(s) = Rank(t) /\ s < t))

-----------------------------------------------------------------------------
(* The selection                                                           *)

Key(s) == IF pass.perClassSectors THEN <<pass.class[s], pass.sector[s]>> ELSE <<pass.sector[s]>>
Capped(s) == pass.caps[pass.class[s]].perSector > 0 /\ pass.sector[s] # "none" /\ s \notin pass.held

(* What the held symbols of the pool spend of each sector before any pick. *)
HeldIn(key) == Cardinality({s \in Judged \cap pass.held : pass.sector[s] # "none" /\ Key(s) = key})
SpentIn(taken, key) == HeldIn(key) + Cardinality({s \in taken : Capped(s) /\ Key(s) = key})

(* Those the walk comes to, classes in their order and the best first.     *)
Candidates == {s \in Judged : s \in Survivors(pass.class[s]) /\ ~Loser(s)}

ClassBefore(c, d) == \E k, m \in DOMAIN pass.classes : k < m /\ pass.classes[k] = c /\ pass.classes[m] = d

Earlier(s, t) == \/ ClassBefore(pass.class[s], pass.class[t])
                 \/ pass.class[s] = pass.class[t] /\ Ahead(s, t)

(* A full class takes no more, a full sector only skips the candidate.     *)
HasRoom(s, taken) ==
    LET cap == pass.caps[pass.class[s]]
    IN  /\ cap.most > 0 => Cardinality({t \in taken : pass.class[t] = pass.class[s]}) < cap.most
        /\ Capped(s) => SpentIn(taken, Key(s)) < cap.perSector

(* The walk takes every candidate that those taken before leave room.      *)
RankAndCap(taken) ==
    \A s \in Candidates : s \in taken <=> HasRoom(s, {t \in taken : Earlier(t, s)})

-----------------------------------------------------------------------------
Init ==
    /\ pass \in Passes
    /\ cheap = <<>> /\ probed = <<>> /\ picks = Open

(* Screen, symbol by symbol: the filters refuse it or rank it.             *)
Judge ==
    \E s \in Pool \ Judged, rank \in pass.ranks :
        /\ \A t \in Pool \ Judged : s <= t
        /\ cheap' = [t \in Judged \cup {s} |-> IF t = s THEN rank ELSE cheap[t]]
        /\ UNCHANGED <<pass, probed, picks>>

(* Probe one candidate: either leg may be off, have too few bars or not    *)
(* fire, and the search may find its slot taken.                           *)
Probe ==
    /\ Judged = Pool /\ pass.probe.on
    /\ \E s \in Probable \ DOMAIN probed, b \in pass.probe.backtests, r \in pass.probe.searches :
          /\ \A t \in Probable \ DOMAIN probed : s <= t
          /\ probed' = [t \in DOMAIN probed \cup {s} |->
                          IF t = s THEN [backtest |-> b, search |-> r] ELSE probed[t]]
    /\ UNCHANGED <<pass, cheap, picks>>

Select ==
    /\ picks = Open /\ Judged = Pool /\ (pass.probe.on => Probable \subseteq DOMAIN probed)
    /\ \E taken \in SUBSET Candidates :
          /\ RankAndCap(taken)
          /\ picks' = taken \cup (IF pass.keepHeld THEN pass.held ELSE {})
                           \cup (IF pass.keepManual THEN pass.pinned ELSE {})
    /\ UNCHANGED <<pass, cheap, probed>>

Next == Judge \/ Probe \/ Select

-----------------------------------------------------------------------------
Done == picks # Open
Found == {s \in picks : s \in Judged /\ ~Protected(s)}
Kept == {s \in pass.held : pass.keepHeld} \cup {s \in pass.pinned : pass.keepManual}

(* What is picked was found good: it passed the filters and was not        *)
(* measured as a loser by the number trusted most; what is held or was     *)
(* chosen by hand is never dropped; and with no universe configured a pass *)
(* only ever takes symbols away.                                           *)
PicksAreSound ==
    Done =>
        /\ Kept \subseteq picks
        /\ \A s \in Found : cheap[s] > 0 /\ ~Loser(s)
        /\ picks \subseteq Pool \cup Kept

(* A class never gets more discoveries than its cap, and no sector more    *)
(* than its own, the held positions counted with them as the portfolio     *)
(* guard will count them.                                                  *)
CapsAreKept ==
    Done =>
        /\ \A c \in DOMAIN pass.caps :
              pass.caps[c].most > 0 => Cardinality({s \in Found : pass.class[s] = c}) <= pass.caps[c].most
        /\ \A s \in {t \in Found : Capped(t)} :
              LET sharing == {t \in Judged : /\ t \in pass.held \/ (t \in Found /\ Capped(t))
                                             /\ pass.sector[t] = pass.sector[s]
                                             /\ pass.perClassSectors => pass.class[t] = pass.class[s]}
              IN \/ Cardinality(sharing) <= pass.caps[pass.class[s]].perSector
                 \/ \E t \in sharing : pass.caps[pass.class[t]].perSector # pass.caps[pass.class[s]].perSector

(* Nothing better is left out: a good candidate that was not picked finds  *)
(* its class full of better ones, or its sector full of the held, of       *)
(* better ones and of earlier classes.                                     *)
TheBestArePicked ==
    Done => \A s \in Judged \ picks :
        (cheap[s] > 0 /\ ~Loser(s)) =>
            LET better == {t \in Found : pass.class[t] = pass.class[s] /\ Ahead(t, s)}
                rivals == {t \in Judged : /\ t \in pass.held \/ t \in better \/
                                             (t \in Found /\ pass.class[t] # pass.class[s])
                                          /\ pass.sector[t] = pass.sector[s]}
                cap == pass.caps[pass.class[s]]
            IN \/ cap.most > 0 /\ Cardinality(better) >= cap.most
               \/ Capped(s) /\ Cardinality(rivals) >= cap.perSector

(* A candidate one of whose measurements the screener trusts is judged by  *)
(* a measurement, whatever the other leg did: it is refused or it ranks    *)
(* above every candidate that was not measured.                            *)
MeasuredIsUsed ==
    \A s \in DOMAIN probed :
        (probed[s].backtest.trades >= pass.probe.minTrades \/ probed[s].search.trades >= SearchFloor)
            => Trusted(s) /\ \A t \in Judged : (cheap[t] > 0 /\ t \notin DOMAIN probed) => Ahead(s, t)

PicksAreHonest == PicksAreSound /\ CapsAreKept /\ TheBestArePicked /\ MeasuredIsUsed
=============================================================================
