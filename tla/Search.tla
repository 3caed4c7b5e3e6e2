-------------------------------- MODULE Search --------------------------------
(***************************************************************************)
(* The search for a better configuration: package backtest's guided, grid  *)
(* and walk-forward searches and its refinement pass, as the optimizer     *)
(* command, the screener's probe and autotune (RunSymbolOptimize) run them *)
(* and as autotune judges what they find.                                  *)
(*                                                                         *)
(* A configuration is a point of a small space: `det` and `period` stand   *)
(* for the strategy fields the search varies, `sell` and `gate` for those  *)
(* the refinement does, `deploy` and `behave` for the deployment and       *)
(* engine settings that no override of a symbol can hold, `on` for whether *)
(* exits are enabled.  What a replay of one says is any outcome, the same  *)
(* every time it is replayed.                                              *)
(***************************************************************************)
EXTENDS Integers, Sequences, FiniteSets, FiniteSetsExt

CONSTANTS
    Setups      \* what is searched for and by whom: see `setup`

VARIABLES
    setup,      \* [by : "autotune", "probe", "cli", "walk"; live : config;
                \*  grid : values per field, outcomes; refine : variants;
                \*  generations, size, minTrades, floor, real, recent, bars, folds]
    stage,      \* "start", "search", "refine", "rescue", "folds", "done"
    measured,   \* what each replayed configuration said
    seen,       \* configurations the search has spent a replay on
    trials,     \* usable results, best first
    gen, evals, \* generation, and replays of it
    elite,      \* the parents of this generation
    best,       \* the incumbent: [cfg, out]
    axis,       \* variants the refinement has tried
    expired, stopped, \* the search's own timeout, the caller's cancellation
    cancelled,  \* what was read of the latter when the search was over
    answer,     \* [improved, fields], <<>> before
    folds       \* the folds walked: [train, test : sets of bars, best]

svars == <<setup, stage, measured, seen, trials, gen, evals, elite, best, axis, expired, stopped, cancelled, answer, folds>>

(* A configuration has these fields; no variant switches the exits off.    *)
ConfigFields == {"det", "period", "sell", "gate", "deploy", "behave", "on"}

SearchAssumption == \A s \in Setups :
    /\ s.by \in {"autotune", "probe", "cli", "walk"}
    /\ s.live = [f \in ConfigFields |-> s.live[f]] /\ s.live.on \in BOOLEAN
    /\ Len(s.refine) \in Nat /\ \A k \in 1..Len(s.refine) : s.refine[k].field \in ConfigFields \ {"on"}
    /\ s.bars \in Nat /\ s.folds \in Nat /\ s.floor \in Int /\ s.minTrades \in Int
    /\ \A out \in s.outcomes : {out.score, out.closed, out.ret, out.win} \subseteq Int

None == <<>>
Auto == setup.by \in {"autotune", "probe"}

Init ==
    /\ setup \in Setups
    /\ stage = "start" /\ measured = None /\ seen = {} /\ trials = None
    /\ gen = 0 /\ evals = 0 /\ elite = None /\ best = None /\ axis = 0
    /\ expired = FALSE /\ stopped = FALSE /\ cancelled = FALSE
    /\ answer = None /\ folds = None

-----------------------------------------------------------------------------
(* A replay says the same every time.                                      *)

Key(c, from, to) == <<c, from, to>>

\* what replaying c on these bars may say, given what is known
Says(c, from, to) ==
    IF Key(c, from, to) \in DOMAIN measured THEN {measured[Key(c, from, to)]} ELSE setup.outcomes

Learn(c, from, to, out) ==
    measured' = [k \in DOMAIN measured \cup {Key(c, from, to)} |-> IF k = Key(c, from, to) THEN out ELSE measured[k]]

Whole(c) == Says(c, 1, setup.bars)

Trial(c, out) == [cfg |-> c, out |-> out]

\* sortTrials: by score, then win rate, then fewer trades; equals keep order
Before(t, u) ==
    \/ t.out.score > u.out.score
    \/ t.out.score = u.out.score /\ t.out.win > u.out.win
    \/ t.out.score = u.out.score /\ t.out.win = u.out.win /\ t.out.closed < u.out.closed

Ranked(ts, t) ==
    LET ahead == {k \in DOMAIN ts : ~Before(t, ts[k])}
        at == Cardinality(ahead)
    IN  SubSeq(ts, 1, at) \o <<t>> \o SubSeq(ts, at + 1, Len(ts))

-----------------------------------------------------------------------------
(* The space: the grid, with what the live configuration runs in it, and   *)
(* with its deployment pinned for a search that could not apply another.   *)

Dets == setup.grid.det \cup {setup.live.det}
Deploys == IF Auto THEN {setup.live.deploy} ELSE setup.grid.deploy

Candidate(d, p, x) == [setup.live EXCEPT !.det = d, !.period = p, !.deploy = x, !.on = TRUE]

Candidates == {Candidate(d, p, x) : d \in Dets, p \in setup.grid.period, x \in Deploys}

\* a child keeps or redraws each field of its parent
Children(parent) ==
    {c \in Candidates : /\ c.det = parent.det \/ c.det \in Dets
                        /\ c.period = parent.period \/ c.period \in setup.grid.period
                        /\ c.deploy = parent.deploy \/ c.deploy \in Deploys}

Elites == SubSeq(trials, 1, Min({Len(trials), Max({setup.size \div 5, 1})}))

\* detectors of the live configuration that no candidate can hold
Unsearchable == setup.live.det \in setup.grid.unsearchable

\* A configuration the search cannot produce is refused before any replay;
\* else the live one is replayed, for the others to beat.
Start ==
    /\ stage = "start" /\ setup.by /= "walk"
    /\ IF Auto /\ Unsearchable
       THEN /\ stage' = "done" /\ answer' = [improved |-> FALSE, fields |-> None]
            /\ UNCHANGED <<measured, best>>
       ELSE /\ stage' = "search" /\ UNCHANGED answer
            /\ IF Auto
               THEN \E out \in Whole(setup.live) :
                      Learn(setup.live, 1, setup.bars, out) /\ best' = Trial(setup.live, out)
               ELSE UNCHANGED <<measured, best>>
    /\ UNCHANGED <<setup, seen, trials, gen, evals, elite, axis, expired, stopped, cancelled, folds>>

Done == expired \/ stopped

\* One candidate: nothing once the time is up, counted but not replayed when
\* it has been seen, ranked when it traded enough.
Eval(c) ==
    /\ evals' = evals + 1
    /\ IF Done \/ c \in seen THEN UNCHANGED <<measured, seen, trials>>
       ELSE /\ seen' = seen \cup {c}
            /\ \E out \in Whole(c) :
                 /\ Learn(c, 1, setup.bars, out)
                 /\ trials' = IF out.closed < setup.minTrades THEN trials ELSE Ranked(trials, Trial(c, out))

Searching == stage = "search" /\ gen < setup.generations /\ evals < setup.size

Sample ==
    /\ Searching /\ elite = None
    /\ \E c \in Candidates : Eval(c)
    /\ UNCHANGED <<setup, stage, gen, elite, best, axis, expired, stopped, cancelled, answer, folds>>

Mutate ==
    /\ Searching /\ elite /= None
    /\ \E parent \in Range(elite) : \E c \in Children(parent.cfg) : Eval(c)
    /\ UNCHANGED <<setup, stage, gen, elite, best, axis, expired, stopped, cancelled, answer, folds>>

Generation ==
    /\ stage = "search" /\ gen < setup.generations /\ evals = setup.size
    /\ gen' = gen + 1 /\ evals' = 0 /\ elite' = Elites
    /\ UNCHANGED <<setup, stage, measured, seen, trials, best, axis, expired, stopped, cancelled, answer, folds>>

Timeout ==
    /\ Auto /\ stage = "search" /\ ~expired /\ expired' = TRUE
    /\ UNCHANGED <<setup, stage, measured, seen, trials, gen, evals, elite, best, axis, stopped, cancelled, answer, folds>>

Interrupt ==
    /\ stage \in {"search", "refine", "folds"} /\ ~stopped /\ stopped' = TRUE
    /\ UNCHANGED <<setup, stage, measured, seen, trials, gen, evals, elite, best, axis, expired, cancelled, answer, folds>>

-----------------------------------------------------------------------------
\* the winner of the search, if it beats what it started from
Winner == IF trials /= None /\ (~Auto \/ trials[1].out.score > best.out.score) THEN trials[1] ELSE best

\* The search is over: its winner is refined, unless the caller has gone.
Searched ==
    /\ stage = "search" /\ gen = setup.generations
    /\ cancelled' = stopped
    /\ IF ~Auto /\ trials = None THEN stage' = "done" /\ UNCHANGED best
       ELSE /\ best' = Winner
            /\ stage' = IF stopped \/ trials = None THEN "rescue" ELSE "refine"
    /\ UNCHANGED <<setup, measured, seen, trials, gen, evals, elite, axis, expired, stopped, answer, folds>>

\* an adopted variant carries its own result
Adopted(c, out) == Trial(c, out)

\* One variant of the incumbent, adopted when it scores higher.  The pass
\* knows neither the timeout nor the interrupt.
Try ==
    /\ stage = "refine" /\ axis < Len(setup.refine)
    /\ axis' = axis + 1
    /\ LET v == setup.refine[axis + 1]
           c == [best.cfg EXCEPT ![v.field] = v.value]
       IN  \E out \in Whole(c) :
             /\ Learn(c, 1, setup.bars, out)
             /\ best' = IF out.closed >= setup.minTrades /\ out.score > best.out.score
                        THEN Adopted(c, out) ELSE best
    /\ UNCHANGED <<setup, stage, seen, trials, gen, evals, elite, expired, stopped, cancelled, answer, folds>>

Refined ==
    /\ stage = "refine" /\ axis = Len(setup.refine) /\ stage' = "rescue"
    /\ UNCHANGED <<setup, measured, seen, trials, gen, evals, elite, best, axis, expired, stopped, cancelled, answer, folds>>

-----------------------------------------------------------------------------
(* What autotune makes of the winner.                                      *)

Base == Trial(setup.live, measured[Key(setup.live, 1, setup.bars)])

\* trials that beat the live configuration and clear the return floor
Clearing == {k \in DOMAIN trials : trials[k].out.score > Base.out.score /\ trials[k].out.ret >= setup.floor}

\* The winner, or, when it loses more than the floor allows, the best of the
\* search that does not.
Settled ==
    IF best.out.ret < setup.floor /\ Clearing /= {} THEN trials[Min(Clearing)] ELSE best

\* A record's win rate is read by the rule of succession.
Outperforms(out, rec) ==
    out.exp > rec.exp /\ out.win * (rec.trades + 2) > (rec.wins + 1) * 100

\* the symbol's record since the last change made for it, if it made money
RecentWin == {rec \in setup.recent : rec.exp > 0}

BeatsBothBaselines(t) ==
    /\ t.out.score > Base.out.score
    /\ t.out.ret >= setup.floor
    /\ \A rec \in RecentWin \cup setup.real : Outperforms(t.out, rec)

\* mutant: the settings the search does not draw are left out of the diff
DrawnOnly(t) == {"det"} \cup {f \in {"period"} : t.cfg[f] /= setup.live[f]}

\* what the override has to name: the detectors, and whatever differs
Fields(t) == {"det"} \cup {f \in {"period", "sell", "gate"} : t.cfg[f] /= setup.live[f]}

Override(t) == [f \in Fields(t) |-> t.cfg[f]]

\* settings the winner depends on that no override can hold
NotOverridable(t) ==
    {f \in {"deploy", "behave"} : t.cfg[f] /= setup.live[f]} \cup {f \in {"on"} : ~setup.live.on}

\* the answer: an improvement, or not
Judge ==
    /\ stage = "rescue" /\ stage' = "done"
    /\ IF Auto
       THEN /\ best' = Settled
            /\ answer' = [improved |-> ~cancelled /\ NotOverridable(Settled) = {} /\ BeatsBothBaselines(Settled),
                          fields |-> Override(Settled)]
       ELSE UNCHANGED <<best, answer>>
    /\ UNCHANGED <<setup, measured, seen, trials, gen, evals, elite, axis, expired, stopped, cancelled, folds>>

-----------------------------------------------------------------------------
(* Walk forward: each fold searches the grid on the past and scores its    *)
(* winner on the segment that follows; the last takes what is left over.   *)

Segment == setup.bars \div (setup.folds + 1)

TrainEnd(k) == k * Segment

\* the segment scored begins where the past searched ends
TestBegin(k) == TrainEnd(k) + 1

TestEnd(k) == IF k = setup.folds THEN setup.bars ELSE (k + 1) * Segment

StartFolds ==
    /\ stage = "start" /\ setup.by = "walk"
    /\ stage' = IF Segment < 2 THEN "done" ELSE "folds"
    /\ UNCHANGED <<setup, measured, seen, trials, gen, evals, elite, best, axis, expired, stopped, cancelled, answer, folds>>

\* a fold's grid search, one combination after the other
Fold ==
    /\ stage = "folds" /\ gen < setup.folds /\ ~stopped
    /\ \E c \in Candidates \ seen : \E out \in Says(c, 1, TrainEnd(gen + 1)) :
         /\ Learn(c, 1, TrainEnd(gen + 1), out)
         /\ seen' = seen \cup {c}
         /\ trials' = IF out.closed < setup.minTrades THEN trials ELSE Ranked(trials, Trial(c, out))
    /\ UNCHANGED <<setup, stage, gen, evals, elite, best, axis, expired, stopped, cancelled, answer, folds>>

\* its winner is scored on the bars that follow
Score ==
    /\ stage = "folds" /\ gen < setup.folds /\ (stopped \/ seen = Candidates) /\ trials /= None
    /\ \E out \in Says(trials[1].cfg, TestBegin(gen + 1), TestEnd(gen + 1)) :
         /\ Learn(trials[1].cfg, TestBegin(gen + 1), TestEnd(gen + 1), out)
         /\ folds' = Append(folds, [train |-> 1 .. TrainEnd(gen + 1), best |-> trials[1], out |-> out,
                                    test |-> (TestBegin(gen + 1)) .. TestEnd(gen + 1), k |-> gen + 1])
    /\ gen' = gen + 1 /\ seen' = {} /\ trials' = None
    /\ UNCHANGED <<setup, stage, evals, elite, best, axis, expired, stopped, cancelled, answer>>

\* a fold without a usable trial is left out
NoTrial ==
    /\ stage = "folds" /\ gen < setup.folds /\ (stopped \/ seen = Candidates) /\ trials = None
    /\ gen' = gen + 1 /\ seen' = {}
    /\ UNCHANGED <<setup, stage, measured, trials, evals, elite, best, axis, expired, stopped, cancelled, answer, folds>>

Walked ==
    /\ stage = "folds" /\ gen = setup.folds /\ stage' = "done"
    /\ UNCHANGED <<setup, measured, seen, trials, gen, evals, elite, best, axis, expired, stopped, cancelled, answer, folds>>

Next ==
    \/ Start \/ Sample \/ Mutate \/ Generation \/ Timeout \/ Interrupt
    \/ Searched \/ Try \/ Refined \/ Judge
    \/ StartFolds \/ Fold \/ Score \/ NoTrial \/ Walked

Spec == Init /\ [][Next]_svars

-----------------------------------------------------------------------------
Improved == answer /= None /\ answer.improved

\* the configuration the symbol runs once the override is applied
Applied == [f \in DOMAIN setup.live |-> IF f \in DOMAIN answer.fields THEN answer.fields[f] ELSE setup.live[f]]

(* What is proposed reproduces what was measured: the live configuration   *)
(* with the override applied is one that was replayed, and the numbers the *)
(* proposal is judged and shown by are the ones that replay gave.          *)
ProposalsReproduce ==
    /\ stage = "done" /\ best /= None => measured[Key(best.cfg, 1, setup.bars)] = best.out
    /\ Improved => Key(Applied, 1, setup.bars) \in DOMAIN measured
                   /\ measured[Key(Applied, 1, setup.bars)] = best.out

(* Nothing better is left unused: the answer scores at least as high as    *)
(* every usable trial, or is the highest of those above the return floor;  *)
(* and only when no trial both beats the live configuration and clears the *)
(* floor does the answer fall below it.                                    *)
NothingBetterUnused ==
    stage = "done" /\ Auto /\ best /= None =>
        LET usable == {k \in DOMAIN trials : trials[k].out.score > Base.out.score}
            clearing == {k \in usable : trials[k].out.ret >= setup.floor}
        IN  /\ \/ \A k \in usable : trials[k].out.score <= best.out.score
               \/ \A k \in clearing : trials[k].out.score <= best.out.score
            /\ best.out.ret < setup.floor => clearing = {}

(* No bar a walk-forward fold is scored on was there to choose its winner, *)
(* no bar is scored twice, and all that follow the first segment are.      *)
FoldsAreUnseen ==
    /\ \A m, n \in DOMAIN folds : /\ folds[m].test /= {} /\ folds[m].train \cap folds[m].test = {}
                                  /\ m /= n => folds[m].test \cap folds[n].test = {}
    /\ Len(folds) = setup.folds /\ folds /= None =>
          UNION {folds[m].test : m \in DOMAIN folds} = (Segment + 1) .. setup.bars

(* What a search says of itself: all three.                                *)
SearchIsHonest == ProposalsReproduce /\ NothingBetterUnused /\ FoldsAreUnseen
=============================================================================
