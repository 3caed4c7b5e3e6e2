--------------------------------- MODULE Labels ---------------------------------
(***************************************************************************)
(* The labels the concentration caps count by (internal/engine/names.go,   *)
(* screenclass.go, settings.go, portfolio_guard.go).  What is written by   *)
(* hand lies over what was learned from a provider; the two are merged     *)
(* under the lock and then installed, outside it, in the engine, in the    *)
(* risk manager and, with the screener's settings, in a new screener.  The *)
(* background resolver, a screening pass and the operator's saves all run  *)
(* that path.  Sectors and asset classes are kept alike; one is modelled.  *)
(***************************************************************************)
EXTENDS Integers, FiniteSets

CONSTANTS
    Symbols,
    Learners,       \* the resolver and the screening pass, as threads
    Meets,          \* settings: whether threads overlap
    MaxEdits        \* bound: the operator's saves

Operator == "operator"
Threads == Learners \cup {Operator}

VARIABLES
    meet,           \* the setting; fixed
    hand,           \* handSectors: symbol -> label, or "none"
    auto,           \* autoSectors
    merged,         \* sectors: what hasSector and AssetClass look up
    guard,          \* the maps of the guard the engine asks
    rmGuard,        \* those of the guard the risk manager sizes by
    screenCfg,      \* the screener's settings, a number per edit
    stored,         \* the saved cache of learned labels
    thread,         \* thread -> where it is, the symbol it learns, what it has read
    asked, edits    \* the screener's settings saved last; ghosts
vars == <<meet, hand, auto, merged, guard, rmGuard, screenCfg, stored, thread, asked, edits>>

LabelsAssumption ==
    /\ Symbols # {} /\ Operator \notin Learners /\ MaxEdits \in Nat
    /\ Meets \subseteq [overlap : BOOLEAN, restarts : BOOLEAN]

Unlabelled == [s \in Symbols |-> "none"]
Idle == [pc |-> "idle", symbol |-> CHOOSE s \in Symbols : TRUE, maps |-> Unlabelled, cfg |-> 0]

Layer(h, a) == [s \in Symbols |-> IF h[s] # "none" THEN h[s] ELSE a[s]]

MayRun(t) == meet.overlap \/ \A u \in Threads \ {t} : thread[u].pc = "idle"
Goto(t, pc) == thread' = [thread EXCEPT ![t].pc = pc]

-----------------------------------------------------------------------------
Init ==
    /\ meet \in Meets
    /\ hand = Unlabelled /\ auto = Unlabelled /\ merged = Unlabelled
    /\ guard = Unlabelled /\ rmGuard = Unlabelled /\ stored = Unlabelled
    /\ screenCfg = 0 /\ asked = 0 /\ edits = 0
    /\ thread = [t \in Threads |-> Idle]

(* resolveNames, or Sector for a candidate: the symbol has no label yet,   *)
(* and one is looked up.                                                   *)
Lookup(t, s) ==
    /\ thread[t].pc = "idle" /\ MayRun(t) /\ merged[s] = "none"
    /\ thread' = [thread EXCEPT ![t] = [Idle EXCEPT !.pc = "learned", !.symbol = s]]
    /\ UNCHANGED <<meet, hand, auto, merged, guard, rmGuard, screenCfg, stored, asked, edits>>

(* setAutoSector: unless it has been labelled meanwhile.                   *)
SetAuto(t) ==
    LET s == thread[t].symbol IN
    /\ thread[t].pc = "learned" /\ MayRun(t)
    /\ IF merged[s] # "none" THEN Goto(t, "idle") /\ UNCHANGED auto
       ELSE Goto(t, "merge") /\ auto' = [auto EXCEPT ![s] = "learned"]
    /\ UNCHANGED <<meet, hand, merged, guard, rmGuard, screenCfg, stored, asked, edits>>

(* SetPortfolioConfig, from the settings form: the hand-written layer is   *)
(* replaced, a label added, changed or removed.                            *)
SetHand(s) ==
    /\ thread[Operator].pc = "idle" /\ MayRun(Operator) /\ edits < MaxEdits /\ edits' = edits + 1
    /\ \E label \in {"none", "by hand"} \ {hand[s]} : hand' = [hand EXCEPT ![s] = label]
    /\ Goto(Operator, "merge")
    /\ UNCHANGED <<meet, auto, merged, guard, rmGuard, screenCfg, stored, asked>>

(* SetScreenerConfig, from its form.                                       *)
EditScreener ==
    /\ thread[Operator].pc = "idle" /\ MayRun(Operator) /\ edits < MaxEdits /\ edits' = edits + 1
    /\ screenCfg' = edits' /\ asked' = edits'
    /\ UNCHANGED <<meet, hand, auto, merged, guard, rmGuard, stored, thread>>

(* rebuildPortfolio.                                                       *)
Merge(t) ==
    /\ thread[t].pc = "merge" /\ MayRun(t)
    /\ merged' = Layer(hand, auto)
    /\ thread' = [thread EXCEPT ![t].pc = "install", ![t].maps = merged']
    /\ UNCHANGED <<meet, hand, auto, guard, rmGuard, screenCfg, stored, asked, edits>>

(* SetPortfolioGuard: the engine's, then the risk manager's.               *)
Install(t) ==
    /\ thread[t].pc = "install" /\ MayRun(t)
    /\ guard' = thread[t].maps /\ Goto(t, "size")
    /\ UNCHANGED <<meet, hand, auto, merged, rmGuard, screenCfg, stored, asked, edits>>

InstallSizing(t) ==
    /\ thread[t].pc = "size" /\ MayRun(t)
    /\ rmGuard' = thread[t].maps
    /\ thread' = [thread EXCEPT ![t].pc = "screener", ![t].cfg = screenCfg]
    /\ UNCHANGED <<meet, hand, auto, merged, guard, screenCfg, stored, asked, edits>>

(* The screener is rebuilt from its settings as they were read.            *)
Rescreen(t) ==
    /\ thread[t].pc = "screener" /\ MayRun(t)
    /\ screenCfg' = thread[t].cfg
    /\ Goto(t, IF t = Operator THEN "idle" ELSE "persist")
    /\ UNCHANGED <<meet, hand, auto, merged, guard, rmGuard, stored, asked, edits>>

(* persistSectors: what was learned and nothing else; the mutant saves     *)
(* what is looked up.                                                      *)
SavedMerged == merged
Saved == auto

Persist(t) ==
    /\ thread[t].pc = "persist" /\ MayRun(t)
    /\ thread' = [thread EXCEPT ![t].pc = "save", ![t].maps = Saved]
    /\ UNCHANGED <<meet, hand, auto, merged, guard, rmGuard, screenCfg, stored, asked, edits>>

SaveSectors(t) ==
    /\ thread[t].pc = "save" /\ MayRun(t)
    /\ stored' = thread[t].maps /\ thread' = [thread EXCEPT ![t] = Idle]
    /\ UNCHANGED <<meet, hand, auto, merged, guard, rmGuard, screenCfg, asked, edits>>

(* A start with the hand-written labels of the config, and under them what *)
(* was saved; whatever was in progress is lost.                            *)
Restart ==
    /\ meet.restarts
    /\ auto' = stored /\ merged' = Layer(hand, stored)
    /\ guard' = merged' /\ rmGuard' = merged'
    /\ thread' = [t \in Threads |-> Idle]
    /\ UNCHANGED <<meet, hand, screenCfg, stored, asked, edits>>

Learner(t) ==
    \/ \E s \in Symbols : Lookup(t, s)
    \/ SetAuto(t) \/ Persist(t) \/ SaveSectors(t)
Rebuild(t) == Merge(t) \/ Install(t) \/ InstallSizing(t) \/ Rescreen(t)

Next ==
    \/ \E t \in Learners : Learner(t)
    \/ \E t \in Threads : Rebuild(t)
    \/ \E s \in Symbols : SetHand(s)
    \/ EditScreener \/ Restart

-----------------------------------------------------------------------------
Quiet == \A t \in Threads : thread[t].pc = "idle"

(* Whoever overlaps: a label written by hand wins, one that is removed     *)
(* gives way to what was learned, and nothing learned is missing, but for  *)
(* as long as someone is about to merge.                                   *)
HandWins == (\A t \in Threads : thread[t].pc # "merge") => merged = Layer(hand, auto)

(* A hand-written label never reaches the cache of learned ones, where it  *)
(* would come back after it was removed.                                   *)
OnlyLearnedIsStored == \A s \in Symbols : stored[s] \in {"none", "learned"} /\ auto[s] \in {"none", "learned"}

(* Where threads take turns, the caps, the sizing and the store end up     *)
(* with the labels that are looked up, through restarts at any step, and   *)
(* no edit of the screener is undone.                                      *)
LabelsSettle ==
    (Quiet /\ ~meet.overlap) =>
        /\ guard = merged /\ rmGuard = merged
        /\ \A s \in Symbols : stored[s] = auto[s]
        /\ screenCfg = asked

LabelsHold == HandWins /\ OnlyLearnedIsStored /\ LabelsSettle
=============================================================================
