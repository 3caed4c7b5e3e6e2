--------------------------- MODULE HaltControlProofs ---------------------------
(***************************************************************************)
(* Proofs about HaltControl, for every limit, equity and number of days;   *)
(* and, in the second part, about the replays and the strategies Replays   *)
(* runs: a replay's buys are stopped by the same protections, on its own   *)
(* clock.  The two share no variable.                                      *)
(***************************************************************************)
EXTENDS HaltControl, Replays, TLAPS, FiniteSetTheorems, SequenceTheorems, WellFoundedInduction

PathStates == [pc : Steps, snap : States, next : Steps]

-----------------------------------------------------------------------------
(* The manager's methods keep a state a state.                             *)
LEMMA FreshTyped == Fresh \in States
BY HaltAssumption DEF Fresh, States

LEMMA AtTyped ==
    ASSUME NEW pc \in Steps
    PROVE  At(pc) \in PathStates
BY FreshTyped DEF At, Steps, PathStates

LEMMA EquityTyped ==
    ASSUME TypeOK
    PROVE  real + phantom \in Nat
BY HaltAssumption DEF TypeOK

LEMMA StateFields ==
    ASSUME TypeOK
    PROVE  /\ prot.halted \in BOOLEAN /\ prot.peak \in Nat /\ prot.dayEquity \in Nat
           /\ prot.day \in Nat /\ prot.realized \in Int /\ prot.realizedPeak \in Int
BY DEF TypeOK, States

LEMMA TrackedTyped ==
    ASSUME TypeOK
    PROVE  Tracked(prot, real + phantom) \in States
<1> DEFINE eq == real + phantom
<1>e. eq \in Nat
  BY EquityTyped
<1>t. today \in Nat /\ prot \in States
  BY DEF TypeOK
<1> HIDE DEF eq
<1>l. Larger(prot.peak, eq) \in Nat
  BY <1>e, StateFields DEF Larger
<1>1. Tracked(prot, eq) \in States
  BY <1>e, <1>t, <1>l DEF Tracked, States
<1>. QED  BY <1>1 DEF eq

LEMMA ObservedTyped ==
    ASSUME TypeOK
    PROVE  Observed(prot, real + phantom) \in States
<1> DEFINE q == Tracked(prot, real + phantom)
           broken == \/ q.halted
                     \/ enabled /\ Breached(q.peak, q.dayEquity, real + phantom)
<1>1. q \in States
  BY TrackedTyped
<1>2. broken \in BOOLEAN
  BY <1>1 DEF States
<1>3. Observed(prot, real + phantom) = [q EXCEPT !.halted = broken]
  BY DEF Observed
<1> HIDE DEF q, broken
<1>. QED  BY <1>1, <1>2, <1>3 DEF States

LEMMA RealizedTyped ==
    ASSUME TypeOK, NEW pnl \in {-1, 1}
    PROVE  Realized(prot, pnl) \in States
<1> DEFINE q == [prot EXCEPT !.realized = @ + pnl,
                             !.realizedPeak = Larger(@, prot.realized + pnl)]
           broken == \/ q.halted
                     \/ /\ enabled /\ RealizedPct > 0 /\ q.peak > 0
                        /\ (q.realizedPeak - q.realized) * 100 >= RealizedPct * q.peak
<1>l. prot.realized + pnl \in Int /\ Larger(prot.realizedPeak, prot.realized + pnl) \in Int
  BY StateFields DEF Larger
<1>1. q \in States
  BY <1>l DEF TypeOK, States
<1>2. broken \in BOOLEAN
  BY <1>1 DEF States
<1>3. Realized(prot, pnl) = [q EXCEPT !.halted = broken]
  BY DEF Realized
<1> HIDE DEF q, broken
<1>. QED  BY <1>1, <1>2, <1>3 DEF States

LEMMA ResumedTyped ==
    ASSUME TypeOK
    PROVE  Resumed(prot, real + phantom) \in States
BY EquityTyped DEF Resumed, TypeOK, States

LEMMA LoweredTyped ==
    ASSUME TypeOK
    PROVE  LowerPeak(prot, phantom) \in States
<1>1. phantom \in Nat
  BY HaltAssumption DEF TypeOK
<1>2. Larger(0, prot.peak - phantom) \in Nat /\ Larger(0, prot.dayEquity - phantom) \in Nat
  BY <1>1, StateFields DEF Larger
<1>. QED  BY <1>2 DEF LowerPeak, TypeOK, States

-----------------------------------------------------------------------------
LEMMA InitTypeOK == Init => TypeOK
BY HaltAssumption, FreshTyped, AtTyped DEF Init, TypeOK, Steps, PathStates

LEMMA FeedingTyped ==
    ASSUME TypeOK, NEW t \in Threads, AfterFeeding(t)
    PROVE  path' \in [Threads -> PathStates]
<1>1. At("check") \in PathStates /\ At("trip") \in PathStates
  BY AtTyped DEF Steps
<1>2. [At("trip") EXCEPT !.next = "export"] \in PathStates
  BY <1>1 DEF PathStates, Steps
<1>. QED  BY <1>1, <1>2 DEF AfterFeeding, TypeOK, PathStates

LEMMA StartTyped ==
    ASSUME TypeOK, NEW state \in States, Start(state)
    PROVE  /\ exists' \in BOOLEAN /\ prot' \in States /\ saved' \in States
           /\ trading' \in BOOLEAN /\ path' \in [Threads -> PathStates]
<1>1. At("idle") \in PathStates
  BY AtTyped DEF Steps
<1>. QED  BY <1>1, FreshTyped DEF Start, TypeOK

LEMMA StepTypeOK ==
    ASSUME TypeOK, [Next]_vars
    PROVE  TypeOK'
<1> USE DEF world, manager, store, history
<1>p. path \in [Threads -> PathStates]
  BY DEF TypeOK, PathStates
<1>i. At("idle") \in PathStates
  BY AtTyped DEF Steps
<1>o. Operator \in Threads /\ Loop \in Threads /\ Closer \in Threads
  BY DEF Threads
<1>n. ASSUME NEW t \in Threads
      PROVE  At(path[t].next) \in PathStates
  BY <1>p, AtTyped DEF PathStates
<1>1. CASE Sync
  BY <1>1, ObservedTyped, <1>o, FeedingTyped DEF Sync, TypeOK, Larger, PathStates
<1>2. ASSUME NEW pnl \in {-1, 1}, Close(pnl)
      PROVE  TypeOK'
  BY <1>2, RealizedTyped, <1>o, FeedingTyped DEF Close, TypeOK, PathStates
<1>3. ASSUME NEW t \in Threads, Trip(t)
      PROVE  TypeOK'
  BY <1>3, <1>n, <1>p DEF Trip, TypeOK, PathStates
<1>4. ASSUME NEW t \in Threads, Export(t)
      PROVE  TypeOK'
  BY <1>4, <1>p DEF Export, TypeOK, PathStates, Steps
<1>5. ASSUME NEW t \in Threads, Check(t)
      PROVE  TypeOK'
  BY <1>5, <1>i, <1>p DEF TypeOK, PathStates, Steps, Check
<1>6. ASSUME NEW t \in Threads, WriteOk(t)
      PROVE  TypeOK'
  BY <1>6, <1>p DEF WriteOk, PathStates, Steps, TypeOK
<1>7. ASSUME NEW t \in Threads, WriteFails(t)
      PROVE  TypeOK'
  BY <1>7, <1>n, <1>p DEF WriteFails, TypeOK, PathStates
<1>8. ASSUME NEW t \in Threads, Remember(t)
      PROVE  TypeOK'
  BY <1>8, <1>p, <1>n DEF Remember, PathStates, TypeOK
<1>9. ASSUME NEW rebase \in BOOLEAN, Resume(rebase)
      PROVE  TypeOK'
  BY <1>9, ResumedTyped, AtTyped, <1>p, <1>o DEF Resume, Steps, PathStates, TypeOK
<1>10. CASE ResumeExport
  BY <1>10, <1>p, <1>o DEF ResumeExport, TypeOK, PathStates, Steps
<1>11. CASE TurnOn
  BY <1>11, <1>i, <1>p, <1>o DEF TurnOn, TypeOK, PathStates
<1>12. ASSUME NEW on \in BOOLEAN, SetTrading(on)
       PROVE  TypeOK'
  BY <1>12 DEF SetTrading, TypeOK
<1>13. ASSUME NEW on \in BOOLEAN, SetConfig(on)
       PROVE  TypeOK'
  <2>1. At("load") \in PathStates
    BY AtTyped DEF Steps
  <2>2. path' \in [Threads -> PathStates] /\ prot' \in States /\ exists' \in BOOLEAN
    BY <1>13, <1>p, <1>o, <2>1, FreshTyped DEF SetConfig, TypeOK
  <2>. QED  BY <1>13, <2>2 DEF SetConfig, TypeOK, PathStates
<1>14. CASE Load
  BY AtTyped, <1>14, <1>p, <1>o DEF Steps, PathStates, TypeOK, Load
<1>15. CASE Import
  BY AtTyped, <1>15, <1>p, <1>o, <1>i DEF Steps, Import, PathStates, TypeOK
<1>16. CASE Forget
  BY AtTyped, <1>16, <1>p, <1>o, LoweredTyped DEF Steps, Forget, TypeOK, PathStates
<1>17. CASE Market \/ Midnight \/ SoldByHand \/ GraceEnds
  BY <1>17, HaltAssumption DEF Market, Midnight, SoldByHand, GraceEnds, TypeOK
<1>18. CASE Shutdown
  BY <1>18, StartTyped DEF Shutdown, TypeOK, Start, PathStates
<1>19. CASE Crash
  BY <1>19, StartTyped DEF Crash, TypeOK, PathStates
<1>20. CASE UNCHANGED vars
  BY <1>20 DEF vars, TypeOK
<1>. QED
  BY <1>1, <1>2, <1>3, <1>4, <1>5, <1>6, <1>7, <1>8, <1>9, <1>10, <1>11, <1>12, <1>13,
     <1>14, <1>15, <1>16, <1>17, <1>18, <1>19, <1>20
  DEF Next, ThreadStep

(* Every variable keeps its shape, whatever fails, crashes or overlaps.    *)
THEOREM TypeCorrect == Spec => []TypeOK
<1>1. TypeOK /\ [Next]_vars => TypeOK'
  BY StepTypeOK
<1>. QED  BY InitTypeOK, <1>1, PTL DEF Spec
-----------------------------------------------------------------------------
(* One thread at a time is in the middle of something, only the operator's *)
(* handlers load and import, and what they import is still in the store.   *)
OneBusy == \A s, t \in Threads : ~Idle(s) /\ ~Idle(t) => s = t

OnlyOperatorLoads ==
    \A t \in Threads :
        /\ path[t].next \notin {"load", "import"}
        /\ path[t].pc \in {"load", "import"} => t = Operator

(* The threads do not meet; saves may fail and the process may be killed.  *)
Apart == "overlap" \notin faults

HaltInv ==
    /\ TypeOK
    /\ OneBusy
    /\ OnlyOperatorLoads
    /\ enabled => exists
    /\ ~exists => AllIdle
    /\ path[Operator].pc = "import" => path[Operator].snap = stored

LEMMA PathTyped ==
    ASSUME TypeOK, NEW t \in Threads
    PROVE  path \in [Threads -> PathStates] /\ path[t] \in PathStates
BY DEF TypeOK, PathStates

LEMMA OthersIdle ==
    ASSUME OneBusy, NEW t \in Threads, ~Idle(t)
    PROVE  \A s \in Threads \ {t} : Idle(s)
BY DEF OneBusy

LEMMA AllQuiet ==
    ASSUME "overlap" \notin faults, Quiet
    PROVE  AllIdle
BY DEF Quiet, AllIdle

(* A thread moves on while the others stand idle.                          *)
LEMMA Moved ==
    ASSUME OnlyOperatorLoads, NEW t \in Threads,
           \A s \in Threads \ {t} : Idle(s) /\ path'[s] = path[s],
           path'[t].next \notin {"load", "import"},
           path'[t].pc \in {"load", "import"} => t = Operator
    PROVE  OneBusy' /\ OnlyOperatorLoads'
<1>1. \A s \in Threads \ {t} : Idle(s)'
  BY DEF Idle
<1>2. OneBusy'
  BY <1>1 DEF OneBusy
<1>3. OnlyOperatorLoads'
  BY DEF OnlyOperatorLoads
<1>. QED  BY <1>2, <1>3

LEMMA AllIdleInv ==
    ASSUME path' = [t \in Threads |-> At("idle")]
    PROVE  OneBusy' /\ OnlyOperatorLoads' /\ AllIdle' /\ path'[Operator].pc = "idle"
BY DEF OneBusy, OnlyOperatorLoads, AllIdle, Idle, At, Threads

LEMMA InitHaltInv == Init => HaltInv
<1>. SUFFICES ASSUME Init PROVE HaltInv
  OBVIOUS
<1>1. TypeOK
  BY InitTypeOK
<1>2. OneBusy /\ OnlyOperatorLoads /\ AllIdle /\ path[Operator].pc = "idle"
  BY DEF Init, OneBusy, OnlyOperatorLoads, AllIdle, Idle, At, Threads
<1>. QED  BY <1>1, <1>2 DEF Init, HaltInv

(* Whoever feeds the manager starts from rest and ends trying to save.     *)
LEMMA FeedingMoves ==
    ASSUME TypeOK, AllIdle, OnlyOperatorLoads, NEW t \in Threads, AfterFeeding(t)
    PROVE  /\ OneBusy' /\ OnlyOperatorLoads'
           /\ path'[Operator].pc \notin {"load", "import"}
<1>1. /\ \A s \in Threads \ {t} : Idle(s) /\ path'[s] = path[s]
      /\ path'[t].pc \in {"trip", "check"} /\ path'[t].next \in {"export", "idle"}
  BY PathTyped DEF AfterFeeding, AllIdle, At
<1>2. OneBusy' /\ OnlyOperatorLoads'
  BY <1>1, Moved
<1>3. path'[Operator].pc \notin {"load", "import"}
  BY <1>1 DEF AllIdle, Idle, Threads
<1>. QED  BY <1>2, <1>3

(* No step that the threads share leads to a load.                         *)
LEMMA ThreadStepKeepsOff ==
    ASSUME TypeOK, OnlyOperatorLoads, NEW t \in Threads, ThreadStep(t)
    PROVE  path'[t].pc \notin {"load", "import"} /\ path'[t].next \notin {"load", "import"}
<1>p. path \in [Threads -> PathStates] /\ path[t] \in PathStates
  BY PathTyped
<1>1. CASE Trip(t) \/ WriteFails(t) \/ Remember(t)
  BY <1>p, <1>1 DEF Trip, WriteFails, Remember, At, OnlyOperatorLoads
<1>2. CASE Export(t) \/ Check(t)
  BY <1>p, <1>2 DEF Export, Check, At
<1>3. CASE WriteOk(t)
  BY <1>p, <1>3 DEF WriteOk, PathStates, OnlyOperatorLoads
<1>. QED  BY <1>1, <1>2, <1>3 DEF ThreadStep

LEMMA StepHaltInv ==
    ASSUME HaltInv, [Next]_vars, Apart
    PROVE  HaltInv'
<1> USE DEF world, manager, store, history
<1>0. /\ TypeOK /\ TypeOK' /\ OneBusy /\ OnlyOperatorLoads /\ (enabled => exists)
      /\ (~exists => AllIdle)
      /\ path[Operator].pc = "import" => path[Operator].snap = stored
  BY StepTypeOK DEF HaltInv
<1>f. "overlap" \notin faults
  BY DEF Apart
<1>o. Operator \in Threads /\ Loop \in Threads /\ Closer \in Threads
  BY DEF Threads
<1>p. path \in [Threads -> PathStates]
  BY <1>0, <1>o, PathTyped
<1>1. CASE Sync
  BY <1>1, <1>f, AllQuiet, <1>0, <1>o, FeedingMoves DEF Sync, HaltInv
<1>2. ASSUME NEW pnl \in {-1, 1}, Close(pnl)
      PROVE  HaltInv'
  BY <1>2, <1>f, AllQuiet, <1>0, <1>o, FeedingMoves DEF Close, HaltInv
<1>3. ASSUME NEW t \in Threads, ThreadStep(t)
      PROVE  HaltInv'
  <2>1. ~Idle(t)
    BY <1>3 DEF ThreadStep, Trip, Export, Check, WriteOk, WriteFails, Remember, Idle
  <2>2. \A s \in Threads \ {t} : Idle(s)
    BY <1>0, <2>1, OthersIdle
  <2>3. UNCHANGED <<exists, enabled>> /\ exists
    BY <1>0, <1>3, <2>1 DEF ThreadStep, Trip, Export, Check, WriteOk, WriteFails, Remember,
       AllIdle
  <2>4. \A s \in Threads \ {t} : path'[s] = path[s]
    BY <1>3, <1>p DEF ThreadStep, Trip, Export, Check, WriteOk, WriteFails, Remember
  <2>6. path'[t].pc \notin {"load", "import"} /\ path'[t].next \notin {"load", "import"}
    BY <1>0, <1>3, ThreadStepKeepsOff
  <2>7. OneBusy' /\ OnlyOperatorLoads'
    BY <1>0, <2>2, <2>4, <2>6, Moved
  <2>8. path'[Operator].pc # "import"
    BY <1>o, <2>2, <2>4, <2>6 DEF Idle
  <2>. QED  BY <1>0, <2>3, <2>7, <2>8 DEF HaltInv
<1>4. ASSUME NEW rebase \in BOOLEAN, Resume(rebase)
      PROVE  HaltInv'
  <2>1. AllIdle /\ exists /\ UNCHANGED <<exists, enabled>>
    BY <1>4, <1>f, AllQuiet DEF Resume
  <2>2. /\ path'[Operator].pc = "resumed" /\ path'[Operator].next \in {"turnOn", "idle"}
        /\ \A s \in Threads \ {Operator} : Idle(s) /\ path'[s] = path[s]
    BY <1>4, <1>o, <1>p, <2>1 DEF Resume, At, AllIdle
  <2>3. OneBusy' /\ OnlyOperatorLoads'
    BY <1>0, <1>o, <2>2, Moved
  <2>. QED  BY <1>0, <2>1, <2>2, <2>3 DEF HaltInv
<1>5. CASE ResumeExport \/ TurnOn \/ Load \/ Import
  <2>1. ~Idle(Operator)
    BY <1>5 DEF ResumeExport, TurnOn, Load, Import, Idle
  <2>2. \A s \in Threads \ {Operator} : Idle(s) /\ path'[s] = path[s]
    BY <1>0, <1>5, <1>o, <1>p, <2>1, OthersIdle DEF ResumeExport, TurnOn, Load, Import
  <2>3. exists /\ UNCHANGED <<exists, enabled>>
    BY <1>0, <1>5, <1>o, <2>1 DEF ResumeExport, TurnOn, Load, Import, AllIdle
  <2>4. /\ path'[Operator].next \in {"idle", path[Operator].next}
        /\ path'[Operator].pc = "import" => path'[Operator].snap = stored'
    <3>1. CASE TurnOn
      BY <1>o, <1>p, <3>1 DEF TurnOn, At
    <3>4. CASE Import
      BY <1>o, <1>p, <3>4 DEF Import, At
    <3>3. CASE ResumeExport
      BY <1>o, <1>p, <3>3 DEF ResumeExport
    <3>2. CASE Load
      BY <1>o, <1>p, <3>2 DEF Load, At
    <3>. QED  BY <1>5, <3>1, <3>2, <3>3, <3>4
  <2>5. OneBusy' /\ OnlyOperatorLoads'
    BY <1>0, <1>o, <2>2, <2>4, Moved DEF OnlyOperatorLoads
  <2>. QED  BY <1>0, <2>3, <2>4, <2>5 DEF HaltInv
<1>6. ASSUME NEW on \in BOOLEAN, SetConfig(on)
      PROVE  HaltInv'
  <2>1. AllIdle
    BY <1>6, <1>f, AllQuiet DEF SetConfig
  <2>2. CASE exists \/ ~on
    BY <1>6, <2>2, <1>0, <2>1 DEF SetConfig, OneBusy, OnlyOperatorLoads, AllIdle, Idle, HaltInv
  <2>3. CASE ~(exists \/ ~on)
    <3>1. /\ exists' /\ path'[Operator].pc = "load" /\ path'[Operator].next = "idle"
          /\ \A s \in Threads \ {Operator} : Idle(s) /\ path'[s] = path[s]
      BY <1>6, <1>o, <1>p, <2>1, <2>3 DEF SetConfig, At, AllIdle
    <3>2. OneBusy' /\ OnlyOperatorLoads'
      BY <1>0, <1>o, <3>1, Moved
    <3>. QED  BY <1>0, <3>1, <3>2 DEF HaltInv
  <2>. QED  BY <2>2, <2>3
<1>7. CASE Forget
  <2>1. AllIdle /\ UNCHANGED <<exists, enabled>>
    BY <1>7, <1>f, AllQuiet DEF Forget
  <2>2. CASE exists
    <3>1. /\ path'[Operator].pc = "force" /\ path'[Operator].next = "idle"
          /\ \A s \in Threads \ {Operator} : Idle(s) /\ path'[s] = path[s]
      BY <1>7, <1>o, <1>p, <2>1, <2>2 DEF Forget, At, AllIdle
    <3>2. OneBusy' /\ OnlyOperatorLoads'
      BY <1>0, <1>o, <3>1, Moved
    <3>. QED  BY <1>0, <2>1, <2>2, <3>1, <3>2 DEF HaltInv
  <2>3. CASE ~exists
    BY <1>7, <2>3, <1>0, <2>1 DEF Forget, HaltInv, OneBusy, OnlyOperatorLoads, AllIdle, Idle
  <2>. QED  BY <2>2, <2>3
<1>8. CASE Shutdown \/ Crash
  <2>1. path' = [t \in Threads |-> At("idle")] /\ exists' = enabled /\ enabled' = enabled
    BY <1>8 DEF Shutdown, Crash, Start
  <2>2. OneBusy' /\ OnlyOperatorLoads' /\ AllIdle' /\ path'[Operator].pc = "idle"
    BY <2>1, AllIdleInv
  <2>. QED  BY <1>0, <2>1, <2>2 DEF HaltInv
<1>9. CASE UNCHANGED <<exists, enabled, stored, path>>
  BY <1>0, <1>9 DEF HaltInv, OneBusy, OnlyOperatorLoads, AllIdle, Idle
<1>10. ASSUME NEW on \in BOOLEAN, SetTrading(on)
       PROVE  HaltInv'
  BY <1>9, <1>10 DEF SetTrading
<1>11. CASE Market \/ Midnight \/ SoldByHand \/ GraceEnds
  BY <1>9, <1>11 DEF Market, Midnight, SoldByHand, GraceEnds
<1>12. CASE UNCHANGED vars
  BY <1>9, <1>12 DEF vars
<1>. QED
  BY <1>1, <1>2, <1>3, <1>4, <1>5, <1>6, <1>7, <1>8, <1>10, <1>11, <1>12
  DEF Next

-----------------------------------------------------------------------------
HaltFalls == HaltStands /\ ~HaltStands'

(* A step that keeps the manager, the store and where the operator is      *)
(* loading keeps the halt.                                                 *)
LEMMA HaltKept ==
    ASSUME exists' = exists, exists,
           path[Operator].pc \notin {"load", "import"},
           path'[Operator].pc \notin {"load", "import"},
           prot.halted => prot'.halted
    PROVE  ~HaltFalls
BY DEF HaltFalls, HaltStands

LEMMA AllIdleOperator ==
    ASSUME AllIdle
    PROVE  path[Operator].pc \notin {"load", "import"}
BY DEF AllIdle, Idle, Threads

LEMMA HaltStep ==
    ASSUME HaltInv, HaltInv', [Next]_vars, Orderly
    PROVE  ~HaltFalls \/ \E rebase \in BOOLEAN : Resume(rebase)
<1> USE DEF world, manager, store, history
<1>0. /\ TypeOK /\ TypeOK' /\ OneBusy /\ OnlyOperatorLoads /\ (enabled => exists)
      /\ (~exists => AllIdle)
      /\ path[Operator].pc = "import" => path[Operator].snap = stored
  BY DEF HaltInv
<1>f. "overlap" \notin faults /\ "saveFails" \notin faults /\ "crash" \notin faults
  BY DEF Orderly
<1>o. Operator \in Threads /\ Loop \in Threads /\ Closer \in Threads
  BY DEF Threads
<1>p. path \in [Threads -> PathStates]
  BY <1>0, <1>o, PathTyped
<1>s. prot \in States
  BY <1>0 DEF TypeOK
<1>1. CASE Sync
  <2>1. AllIdle /\ exists /\ exists' = exists
    BY <1>1, <1>f, AllQuiet DEF Sync
  <2>2. path'[Operator].pc \notin {"load", "import"}
    BY <1>0, <1>1, <1>o, <2>1, FeedingMoves DEF Sync
  <2>3. prot.halted => prot'.halted
    BY <1>0, TrackedTyped, <1>s, <1>1 DEF Tracked, States, Sync, Observed
  <2>. QED  BY <2>1, <2>2, <2>3, AllIdleOperator, HaltKept
<1>2. ASSUME NEW pnl \in {-1, 1}, Close(pnl)
      PROVE  ~HaltFalls
  <2>1. AllIdle /\ exists /\ exists' = exists
    BY <1>2, <1>f, AllQuiet DEF Close
  <2>2. path'[Operator].pc \notin {"load", "import"}
    BY <1>0, <1>2, <1>o, <2>1, FeedingMoves DEF Close
  <2>3. prot.halted => prot'.halted
    BY <1>2, <1>s DEF Close, Realized, States
  <2>. QED  BY <2>1, <2>2, <2>3, AllIdleOperator, HaltKept
<1>3. ASSUME NEW t \in Threads, ThreadStep(t)
      PROVE  ~HaltFalls
  <2>1. ~Idle(t) /\ path[t].pc \notin {"load", "import"}
    BY <1>3 DEF ThreadStep, Trip, Export, Check, WriteOk, WriteFails, Remember, Idle
  <2>2. path[Operator].pc \notin {"load", "import"}
    BY <1>0, <1>o, <2>1, OthersIdle DEF Idle
  <2>3. exists /\ exists' = exists /\ prot' = prot
    BY <1>0, <1>3, <2>1 DEF ThreadStep, Trip, Export, Check, WriteOk, WriteFails, Remember,
       AllIdle
  <2>4. path'[Operator].pc \notin {"load", "import"}
    <3>1. CASE t = Operator
      BY <1>0, <1>3, <3>1, ThreadStepKeepsOff
    <3>2. CASE t # Operator
      BY <1>3, <1>o, <1>p, <3>2, <2>2 DEF ThreadStep, Trip, Export, Check, WriteOk, WriteFails, Remember
    <3>. QED  BY <3>1, <3>2
  <2>. QED  BY <2>2, <2>3, <2>4, HaltKept
<1>4. CASE ResumeExport \/ TurnOn
  <2>1. ~Idle(Operator) /\ path[Operator].pc \notin {"load", "import"}
    BY <1>4 DEF ResumeExport, TurnOn, Idle
  <2>2. exists /\ exists' = exists /\ prot' = prot
    BY <1>0, <1>4, <1>o, <2>1 DEF ResumeExport, TurnOn, AllIdle
  <2>3. path'[Operator].pc \notin {"load", "import"}
    <3>1. CASE ResumeExport
      BY <1>o, <1>p, <3>1 DEF ResumeExport
    <3>2. CASE TurnOn
      BY <1>o, <1>p, <3>2 DEF TurnOn, At
    <3>. QED  BY <1>4, <3>1, <3>2
  <2>. QED  BY <2>1, <2>2, <2>3, HaltKept
<1>5. CASE Load
  BY <1>5, <1>o, <1>p DEF Load, At, HaltFalls, HaltStands
<1>6. CASE Import
  BY <1>0, <1>6 DEF Import, HaltFalls, HaltStands
<1>7. ASSUME NEW on \in BOOLEAN, SetConfig(on)
      PROVE  ~HaltFalls
  <2>1. CASE exists \/ ~on
    BY <1>7, <2>1 DEF SetConfig, HaltFalls, HaltStands
  <2>2. CASE ~(exists \/ ~on)
    BY <1>7, <1>o, <1>p, <2>2 DEF SetConfig, At, HaltFalls, HaltStands
  <2>. QED  BY <2>1, <2>2
<1>8. CASE Forget
  <2>1. AllIdle /\ exists' = exists /\ stored' = stored
    BY <1>8, <1>f, AllQuiet DEF Forget
  <2>2. CASE exists
    <3>1. path'[Operator].pc = "force"
      BY <1>8, <1>o, <1>p, <2>2 DEF Forget, At
    <3>2. prot'.halted = prot.halted
      BY <1>8, <1>s, <2>2 DEF Forget, LowerPeak, States
    <3>. QED  BY <2>1, <2>2, <3>1, <3>2, AllIdleOperator, HaltKept
  <2>3. CASE ~exists
    BY <2>1, <2>3 DEF HaltFalls, HaltStands
  <2>. QED  BY <2>2, <2>3
<1>9. CASE Shutdown
  BY <1>9, <1>f, <1>o, <1>0, AllIdleOperator DEF Shutdown, AllIdle, Start, At, HaltFalls, HaltStands
<1>10. ASSUME UNCHANGED <<exists, prot, stored, path>>
       PROVE  ~HaltFalls
  BY <1>10 DEF HaltFalls, HaltStands
<1>11. ASSUME NEW on \in BOOLEAN, SetTrading(on)
       PROVE  ~HaltFalls
  BY <1>10, <1>11 DEF SetTrading
<1>12. CASE Market \/ Midnight \/ SoldByHand \/ GraceEnds
  BY <1>10, <1>12 DEF Market, Midnight, SoldByHand, GraceEnds
<1>13. CASE UNCHANGED vars
  BY <1>10, <1>13 DEF vars
<1>. QED
  BY <1>1, <1>2, <1>3, <1>4, <1>5, <1>6, <1>7, <1>8, <1>9, <1>11, <1>12, <1>13, <1>f
  DEF Next, Crash

(* The environment of a behaviour is what it starts with.                  *)
LEMMA SettingStays ==
    ASSUME [Next]_vars
    PROVE  setting' = setting
BY DEF Next, vars, Sync, Close, ThreadStep, Trip, Export, Check, WriteOk, WriteFails,
   Remember, Resume, ResumeExport, TurnOn, SetTrading, SetConfig, Load, Import, Forget,
   Market, Midnight, SoldByHand, GraceEnds, Shutdown, Crash

(* What holds of the threads wherever they do not meet.                    *)
ThreadsInv == TypeOK /\ (Apart => HaltInv)

LEMMA InitThreadsInv == Init => ThreadsInv
BY InitTypeOK, InitHaltInv DEF ThreadsInv

LEMMA StepThreadsInv ==
    ASSUME ThreadsInv, [Next]_vars
    PROVE  ThreadsInv'
<1>1. TypeOK'
  BY StepTypeOK DEF ThreadsInv
<1>2. Apart' => Apart
  BY SettingStays DEF Apart, faults
<1>. QED  BY <1>1, <1>2, StepHaltInv DEF ThreadsInv

LEMMA OrderlyApart == Orderly => Apart
BY DEF Orderly, Apart

LEMMA FaultsStay ==
    ASSUME [Next]_vars
    PROVE  faults' = faults /\ (Apart' <=> Apart) /\ (Orderly' <=> Orderly)
BY SettingStays DEF faults, Apart, Orderly

(* Nothing but a resume ends a halt: not a settings edit, not switching    *)
(* the protections off and on, not forgetting a position, not a restart -- *)
(* as long as the threads do not meet, saves succeed and the process is    *)
(* not killed.                                                             *)
THEOREM HaltIsSticky == Spec => HaltEndsOnlyByResume
<1>1. ThreadsInv /\ [Next]_vars => ThreadsInv'
  BY StepThreadsInv
<1>2. ThreadsInv /\ ThreadsInv' /\ [Next]_vars =>
        [Orderly /\ HaltStands /\ ~HaltStands'
           => \E rebase \in BOOLEAN : Resume(rebase)]_vars
  <2>. SUFFICES ASSUME ThreadsInv, ThreadsInv', [Next]_vars, Orderly
                PROVE  ~HaltFalls \/ \E rebase \in BOOLEAN : Resume(rebase)
    BY DEF HaltFalls
  <2>1. HaltInv /\ HaltInv'
    BY FaultsStay, OrderlyApart DEF ThreadsInv
  <2>. QED  BY <2>1, HaltStep
<1>. QED  BY InitThreadsInv, <1>1, <1>2, PTL DEF Spec, HaltEndsOnlyByResume
-----------------------------------------------------------------------------
(* What the engine believes is stored, is: also when saves fail and the    *)
(* process is killed between writing and remembering.                      *)
Told == saved # Fresh => saved = stored

NoneRemembers == \A t \in Threads : path[t].pc # "remember"

NextSteps == {"idle", "export", "check", "turnOn"}

SavedInv ==
    /\ \A t \in Threads : path[t].next \in NextSteps
    /\ \A t \in Threads : path[t].pc = "remember" => path[t].snap = stored
    /\ NoneRemembers => Told

LEMMA InitSavedInv == Init => SavedInv
BY DEF Init, SavedInv, NoneRemembers, Told, At, NextSteps

(* A step that neither writes nor remembers keeps what is believed.        *)
LEMMA ToldStays ==
    ASSUME SavedInv, NEW t \in Threads, \A s \in Threads \ {t} : Idle(s) /\ path'[s] = path[s],
           path[t].pc # "remember", path'[t].pc # "remember",
           path'[t].next \in NextSteps, UNCHANGED store
    PROVE  SavedInv'
BY DEF SavedInv, NoneRemembers, Told, store, Idle

LEMMA StepSavedInv ==
    ASSUME HaltInv, SavedInv, [Next]_vars, Apart
    PROVE  SavedInv'
<1> USE DEF world, manager, history
<1>0. TypeOK /\ OneBusy
  BY DEF HaltInv
<1>f. "overlap" \notin faults
  BY DEF Apart
<1>o. Operator \in Threads /\ Loop \in Threads /\ Closer \in Threads
  BY DEF Threads
<1>p. path \in [Threads -> PathStates]
  BY <1>0, <1>o, PathTyped
<1>q. ASSUME NEW t \in Threads, AllIdle, UNCHANGED store,
             \A s \in Threads \ {t} : path'[s] = path[s],
             path'[t].pc # "remember", path'[t].next \in NextSteps
      PROVE  SavedInv'
  BY <1>q, ToldStays DEF AllIdle, Idle
<1>a. ASSUME NEW t \in Threads, AllIdle, UNCHANGED store, AfterFeeding(t)
      PROVE  SavedInv'
  BY <1>p, <1>a, <1>q DEF AfterFeeding, At, NextSteps
<1>1. CASE Sync
  BY <1>1, <1>a, <1>f, <1>o, AllQuiet DEF Sync
<1>2. ASSUME NEW pnl \in {-1, 1}, Close(pnl)
      PROVE  SavedInv'
  BY <1>2, <1>a, <1>f, <1>o, AllQuiet DEF Close
<1>3. ASSUME NEW t \in Threads, ThreadStep(t)
      PROVE  SavedInv'
  <2>1. /\ ~Idle(t) /\ path[t].next \in NextSteps
        /\ \A s \in Threads \ {t} : path'[s] = path[s]
    BY <1>3, <1>p DEF ThreadStep, Trip, Export, Check, WriteOk, WriteFails, Remember, Idle,
       SavedInv
  <2>2. \A s \in Threads \ {t} : Idle(s)
    BY <1>0, <2>1, OthersIdle
  <2>3. CASE Trip(t) \/ WriteFails(t)
    BY <2>3, <1>p, <2>1, <2>2, ToldStays DEF Trip, WriteFails, store, At, NextSteps
  <2>4. CASE Export(t) \/ Check(t)
    BY <2>4, <1>p, <2>1, <2>2, ToldStays DEF Export, Check, At, NextSteps
  <2>5. CASE WriteOk(t)
    BY <2>5, <1>p, <2>1, <2>2 DEF WriteOk, PathStates, SavedInv, NoneRemembers, Idle
  <2>6. CASE Remember(t)
    BY <2>6, <1>p, <2>1, <2>2 DEF Remember, SavedInv, At, NextSteps, Told, Idle
  <2>. QED  BY <1>3, <2>3, <2>4, <2>5, <2>6 DEF ThreadStep
<1>4. ASSUME NEW rebase \in BOOLEAN, Resume(rebase)
      PROVE  SavedInv'
  BY <1>4, <1>f, AllQuiet, <1>o, <1>p, <1>q DEF Resume, At, NextSteps
<1>5. CASE ResumeExport \/ TurnOn \/ Load \/ Import
  <2>1. ~Idle(Operator) /\ path[Operator].pc # "remember" /\ UNCHANGED store
    BY <1>5 DEF ResumeExport, TurnOn, Load, Import, Idle
  <2>2. \A s \in Threads \ {Operator} : Idle(s) /\ path'[s] = path[s]
    BY <1>0, <1>5, <1>o, <1>p, <2>1, OthersIdle DEF ResumeExport, TurnOn, Load, Import
  <2>3. path'[Operator].pc # "remember" /\ path'[Operator].next \in NextSteps
    <3>1. CASE ResumeExport
      BY <1>o, <1>p, <3>1 DEF ResumeExport, SavedInv
    <3>2. CASE TurnOn
      BY <1>o, <1>p, <3>2 DEF TurnOn, At, NextSteps
    <3>3. CASE Load
      BY <1>o, <1>p, <3>3 DEF Load, At, NextSteps
    <3>4. CASE Import
      BY <1>o, <1>p, <3>4 DEF Import, At, NextSteps
    <3>. QED  BY <1>5, <3>1, <3>2, <3>3, <3>4
  <2>. QED  BY <1>o, <2>1, <2>2, <2>3, ToldStays
<1>6. ASSUME NEW on \in BOOLEAN, SetConfig(on)
      PROVE  SavedInv'
  BY <1>6, <1>f, AllQuiet, <1>o, <1>p, <1>q DEF SetConfig, At, AllIdle, Idle, SavedInv, NextSteps
<1>7. CASE Forget
  BY <1>7, <1>f, AllQuiet, <1>o, <1>p, <1>q DEF Forget, At, AllIdle, Idle, SavedInv, NextSteps
<1>8. CASE Shutdown \/ Crash
  <2>1. path' = [t \in Threads |-> At("idle")] /\ saved' = Fresh
    BY <1>8 DEF Shutdown, Crash, Start
  <2>. QED  BY <2>1 DEF SavedInv, Told, At, NextSteps
<1>9. CASE UNCHANGED <<path, stored, saved>>
  BY <1>9 DEF SavedInv, NoneRemembers, Told
<1>10. ASSUME NEW on \in BOOLEAN, SetTrading(on)
       PROVE  SavedInv'
  BY <1>9, <1>10 DEF SetTrading, store
<1>11. CASE Market \/ Midnight \/ SoldByHand \/ GraceEnds \/ UNCHANGED vars
  BY <1>9, <1>11 DEF Market, Midnight, SoldByHand, GraceEnds, vars, store
<1>. QED
  BY <1>1, <1>2, <1>3, <1>4, <1>5, <1>6, <1>7, <1>8, <1>10, <1>11 DEF Next

-----------------------------------------------------------------------------
(* The store keeps up with the manager.  A check may skip the save only    *)
(* because what it compares with was really saved, and an empty saved      *)
(* state never passes for a manager that has seen a day or an equity.      *)
Matches(p, q) ==
    /\ q.halted = p.halted /\ q.dayEquity = p.dayEquity /\ q.day = p.day
    /\ q.realized = p.realized /\ q.realizedPeak = p.realizedPeak
    /\ q.peak <= p.peak

Dated(p) == p.day > 0 \/ p.dayEquity > 0

Loading == path[Operator].pc \in {"load", "import"}

(* Nothing that thread t still has to do will save the state.              *)
Resting(t) == \/ path[t].pc \in {"idle", "turnOn", "remember"}
              \/ path[t].pc = "trip" /\ path[t].next = "idle"

(* Thread t is on its way after it changed the state.                      *)
Fed(t) == /\ path[t].pc \notin {"idle", "load", "import"}
          /\ ~(path[t].pc = "trip" /\ path[t].next = "idle")

CurrentInv ==
    /\ exists /\ (\A t \in Threads : Resting(t)) => Matches(prot, stored)
    /\ \A t \in Threads : path[t].pc \in {"write", "remember"} => path[t].snap = prot
    /\ \A t \in Threads : path[t].pc = "trip" => path[t].next \in {"export", "idle"}
    /\ \A t \in Threads : Fed(t) => Dated(prot)
    /\ prot.peak > 0 => Dated(prot)
    /\ stored.peak > 0 => Dated(stored)
    /\ ~exists => prot = Fresh
    /\ phantom > 0 => stored.day > 0 /\ (exists /\ ~Loading => prot.day > 0)

LEMMA InitCurrentInv == Init => CurrentInv
BY DEF Init, CurrentInv, Matches, Dated, Resting, Fed, At, Fresh, Loading

(* A thread changed the state and will try to save it.                     *)
LEMMA FeedingKeepsUp ==
    ASSUME TypeOK, CurrentInv, AllIdle, exists, NEW t \in Threads,
           \A s \in Threads \ {t} : path'[s] = path[s],
           \/ path'[t].pc = "trip" /\ path'[t].next = "export"
           \/ path'[t].pc \in {"check", "force", "resumed"},
           UNCHANGED <<stored, exists>>, Dated(prot)',
           phantom' > 0 => phantom > 0 /\ prot'.day > 0
    PROVE  CurrentInv'
<1>1. \A s \in Threads \ {t} : Idle(s) /\ Idle(s)'
  BY DEF AllIdle, Idle
<1>2. ~Resting(t)' /\ path'[t].pc \notin {"write", "remember"}
      /\ (path'[t].pc = "trip" => path'[t].next \in {"export", "idle"})
  BY DEF Resting
<1>3. \A s \in Threads : path'[s].pc \in {"write", "remember"} => path'[s].snap = prot'
  BY <1>1, <1>2 DEF Idle
<1>4. \A s \in Threads : path'[s].pc = "trip" => path'[s].next \in {"export", "idle"}
  BY <1>1, <1>2 DEF Idle
<1>. QED  BY <1>2, <1>3, <1>4 DEF CurrentInv

LEMMA SyncDates ==
    ASSUME TypeOK, Sync
    PROVE  prot'.day > 0
<1>1. prot' = Observed(prot, real + phantom) /\ prot \in States /\ today \in Nat \ {0}
  BY DEF Sync, TypeOK
<1>2. Tracked(prot, real + phantom) \in States
  BY TrackedTyped
<1>3. Tracked(prot, real + phantom).day = today
  BY <1>1 DEF Tracked, States
<1>. QED  BY <1>1, <1>2, <1>3 DEF Observed, States

(* A check that skips the save finds the state in the store.               *)
LEMMA SkipIsCurrent ==
    ASSUME TypeOK, Told, Dated(prot),
           prot = saved \/ ~MaterialChange(prot, saved)
    PROVE  Matches(prot, stored)
<1>t. prot \in States /\ saved \in States /\ stored \in States
  BY DEF TypeOK
<1>1. Matches(prot, saved)
  <2>1. CASE prot = saved
    BY <1>t, <2>1 DEF Matches, States
  <2>2. CASE ~MaterialChange(prot, saved)
    <3>1. [prot EXCEPT !.peak = 0] = [saved EXCEPT !.peak = 0] /\ ~(prot.peak < saved.peak)
      BY <2>2 DEF MaterialChange
    <3> DEFINE p == [prot EXCEPT !.peak = 0]
               q == [saved EXCEPT !.peak = 0]
    <3>2. /\ p.halted = prot.halted /\ p.dayEquity = prot.dayEquity /\ p.day = prot.day
          /\ p.realized = prot.realized /\ p.realizedPeak = prot.realizedPeak
      BY <1>t DEF States
    <3>3. /\ q.halted = saved.halted /\ q.dayEquity = saved.dayEquity /\ q.day = saved.day
          /\ q.realized = saved.realized /\ q.realizedPeak = saved.realizedPeak
      BY <1>t DEF States
    <3>4. saved.peak <= prot.peak
      BY <1>t, <3>1 DEF States
    <3>. QED  BY <3>1, <3>2, <3>3, <3>4 DEF Matches
  <2>. QED  BY <2>1, <2>2
<1>2. saved # Fresh
  BY <1>1, <1>t DEF Matches, Dated, Fresh, States
<1>. QED  BY <1>1, <1>2 DEF Told

LEMMA StepCurrentInv ==
    ASSUME HaltInv, SavedInv, CurrentInv, HaltInv', [Next]_vars, Orderly
    PROVE  CurrentInv'
<1> USE DEF world, manager, store, history
<1>0. TypeOK /\ TypeOK' /\ OneBusy /\ OnlyOperatorLoads /\ (~exists => AllIdle)
  BY DEF HaltInv
<1>f. "overlap" \notin faults /\ "saveFails" \notin faults /\ "crash" \notin faults
  BY DEF Orderly
<1>o. Operator \in Threads /\ Loop \in Threads /\ Closer \in Threads
  BY DEF Threads
<1>p. path \in [Threads -> PathStates]
  BY <1>0, <1>o, PathTyped
<1>s. prot \in States /\ stored \in States /\ phantom \in Nat /\ real \in Nat \ {0}
  BY <1>0, HaltAssumption DEF TypeOK
<1>l. AllIdle => ~Loading
  BY AllIdleOperator DEF Loading
<1>a. ASSUME NEW t \in Threads, AllIdle, exists, AfterFeeding(t), UNCHANGED <<stored, exists, phantom>>,
             Dated(prot)', phantom > 0 => prot'.day > 0
      PROVE  CurrentInv'
  BY <1>p, <1>a, <1>0, FeedingKeepsUp DEF AfterFeeding, At
<1>1. CASE Sync
  <2>1. AllIdle /\ exists /\ UNCHANGED <<stored, exists, phantom>> /\ AfterFeeding(Loop)
    BY <1>1, <1>f, AllQuiet DEF Sync
  <2>2. prot'.day > 0
    BY <1>0, <1>1, SyncDates
  <2>. QED  BY <1>a, <1>o, <2>1, <2>2 DEF Dated
<1>2. ASSUME NEW pnl \in {-1, 1}, Close(pnl)
      PROVE  CurrentInv'
  <2>1. AllIdle /\ exists /\ UNCHANGED <<stored, exists, phantom>> /\ AfterFeeding(Closer)
    BY <1>2, <1>f, AllQuiet DEF Close
  <2>2. prot'.day = prot.day /\ prot'.dayEquity = prot.dayEquity /\ prot.peak > 0
    BY <1>2, <1>s DEF Close, Realized, States
  <2>3. Dated(prot)' /\ (phantom > 0 => prot'.day > 0)
    BY <1>l, <2>1, <2>2 DEF CurrentInv, Dated
  <2>. QED  BY <1>a, <1>o, <2>1, <2>3
<1>3. ASSUME NEW t \in Threads, ThreadStep(t)
      PROVE  CurrentInv'
  <2>1. /\ ~Idle(t) /\ UNCHANGED <<prot, exists, phantom>>
        /\ \A s \in Threads \ {t} : path'[s] = path[s]
    BY <1>3, <1>p DEF ThreadStep, Trip, Export, Check, WriteOk, WriteFails, Remember, Idle
  <2>2. \A s \in Threads \ {t} : Idle(s) /\ Idle(s)' /\ Resting(s) /\ Resting(s)'
    BY <1>0, <2>1, OthersIdle DEF Idle, Resting
  <2>3. exists /\ path[t].pc \notin {"load", "import"} /\ path[t].next \in NextSteps
    BY <1>0, <1>3, <2>1 DEF AllIdle, SavedInv, ThreadStep, Trip, Export, Check, WriteOk,
       WriteFails, Remember
  <2>4. ~Loading
    BY <1>o, <2>2, <2>3 DEF Loading, Idle
  <2>5. ASSUME UNCHANGED stored,
               path'[t].pc \in {"write", "remember"} => path'[t].snap = prot,
               path'[t].pc = "trip" => path'[t].next \in {"export", "idle"},
               Fed(t)' => Dated(prot),
               Resting(t)' => Matches(prot, stored)
        PROVE  CurrentInv'
    BY <2>1, <2>2, <2>5, <2>3, <2>4 DEF Idle, Fed, Dated, CurrentInv, Matches
  <2>6. CASE Trip(t)
    <3>1. path'[t] = At(path[t].next) /\ UNCHANGED stored
      BY <2>6, <1>p DEF Trip
    <3>2. path[t].next \in {"export", "idle"} /\ path[t].pc = "trip"
      BY <2>6 DEF Trip, CurrentInv
    <3>3. path'[t].pc \in {"export", "idle"} /\ path'[t].next = "idle"
      BY <3>1, <3>2 DEF At
    <3>4. Fed(t)' => Dated(prot)
      BY <3>1, <3>2, <3>3 DEF Fed, At, CurrentInv
    <3>5. Resting(t)' => Matches(prot, stored)
      BY <2>2, <2>3, <3>1, <3>2, <3>3 DEF Resting, At, CurrentInv
    <3>. QED  BY <2>5, <3>1, <3>3, <3>4, <3>5
  <2>7. CASE Export(t)
    BY <2>7, <1>p, <2>5 DEF Export, Fed, CurrentInv, Resting
  <2>8. CASE Check(t)
    <3>1. path[t].pc \in {"check", "force"} /\ UNCHANGED stored
      BY <2>8 DEF Check
    <3>2. Dated(prot)
      BY <3>1 DEF Fed, CurrentInv
    <3>3. CASE path' = [path EXCEPT ![t] = [pc |-> "write", snap |-> prot, next |-> "idle"]]
      BY <3>3, <1>p, <2>5, <3>1, <3>2 DEF Resting
    <3>4. CASE /\ prot = saved \/ (path[t].pc = "check" /\ ~MaterialChange(prot, saved))
               /\ path' = [path EXCEPT ![t] = At("idle")]
      <4>1. Told
        BY <2>2, <3>1 DEF SavedInv, NoneRemembers, Idle
      <4>2. Matches(prot, stored)
        BY <1>0, <3>2, <3>4, <4>1, SkipIsCurrent
      <4>3. path'[t].pc = "idle"
        BY <3>4, <1>p DEF At
      <4>. QED  BY <2>5, <3>1, <3>2, <4>2, <4>3
    <3>. QED  BY <2>8, <3>3, <3>4 DEF Check
  <2>9. CASE WriteOk(t)
    <3>1. /\ path[t].pc = "write" /\ path'[t] = [path[t] EXCEPT !.pc = "remember"]
          /\ stored' = path[t].snap
      BY <2>9, <1>p DEF WriteOk
    <3>2. path'[t].pc = "remember" /\ path'[t].snap = prot /\ stored' = prot
      BY <3>1, <1>p DEF PathStates, CurrentInv
    <3>3. Dated(prot) /\ (phantom > 0 => prot.day > 0)
      BY <2>3, <2>4, <3>1 DEF Fed, CurrentInv
    <3>4. Matches(prot, stored)'
      BY <1>s, <2>1, <3>2 DEF Matches, States
    <3>5. \A s \in Threads : path'[s].pc \in {"write", "remember"} => path'[s].snap = prot'
      BY <2>1, <2>2, <3>2 DEF Idle
    <3>6. \A s \in Threads : path'[s].pc = "trip" => path'[s].next \in {"export", "idle"}
      BY <2>2, <3>2 DEF Idle
    <3>. QED  BY <2>1, <2>3, <3>2, <3>3, <3>4, <3>5, <3>6 DEF CurrentInv, Dated
  <2>10. CASE Remember(t)
    BY <2>10, <1>p, <2>2, <2>3, <2>5 DEF Remember, Resting, Fed, CurrentInv, At, NextSteps
  <2>. QED
    BY <1>3, <1>f, <2>6, <2>7, <2>8, <2>9, <2>10 DEF ThreadStep, WriteFails
<1>4. ASSUME NEW rebase \in BOOLEAN, Resume(rebase)
      PROVE  CurrentInv'
  <2>1. AllIdle /\ exists /\ UNCHANGED <<stored, exists, phantom>>
    BY <1>4, <1>f, AllQuiet DEF Resume
  <2>2. /\ path'[Operator].pc = "resumed"
        /\ \A s \in Threads \ {Operator} : path'[s] = path[s]
    BY <1>4, <1>o, <1>p DEF Resume, At
  <2>3. prot'.dayEquity = real + phantom /\ prot'.day = prot.day
    BY <1>4, <1>s DEF Resume, Resumed, States
  <2>4. Dated(prot)' /\ (phantom > 0 => prot'.day > 0)
    BY <1>l, <1>s, <2>1, <2>3 DEF CurrentInv, Dated
  <2>. QED  BY <1>0, <1>o, <2>1, <2>2, <2>4, FeedingKeepsUp
<1>5. CASE ResumeExport \/ TurnOn \/ Load \/ Import
  <2>1. ~Idle(Operator) /\ UNCHANGED <<stored, exists, phantom>>
    BY <1>5 DEF ResumeExport, TurnOn, Load, Import, Idle
  <2>2. \A s \in Threads \ {Operator} :
            Idle(s) /\ path'[s] = path[s] /\ Resting(s) /\ Idle(s)'
    BY <1>0, <1>5, <1>o, <1>p, <2>1, OthersIdle
    DEF ResumeExport, TurnOn, Load, Import, Resting, Idle
  <2>3. exists
    BY <1>0, <1>o, <2>1 DEF AllIdle
  <2>4. CASE ResumeExport
    BY <1>o, <1>p, <2>4, <2>3, <2>2, <2>1 DEF ResumeExport, CurrentInv, Fed, Loading, Idle, Resting, Dated
  <2>5. CASE TurnOn
    <3>1. path[Operator].pc = "turnOn" /\ path'[Operator].pc = "idle" /\ prot' = prot
      BY <1>o, <1>p, <2>5 DEF TurnOn, At
    <3>2. Matches(prot, stored) /\ Dated(prot) /\ (phantom > 0 => prot.day > 0)
      BY <1>o, <2>2, <2>3, <3>1 DEF CurrentInv, Resting, Fed, Loading
    <3>3. /\ \A s \in Threads : path'[s].pc \in {"write", "remember"} => path'[s].snap = prot'
          /\ \A s \in Threads : path'[s].pc = "trip" => path'[s].next \in {"export", "idle"}
      BY <2>2, <3>1 DEF Idle
    <3>. QED  BY <2>1, <2>3, <3>1, <3>2, <3>3 DEF CurrentInv, Dated, Matches
  <2>6. CASE Load
    <3>1. path[Operator].pc = "load" /\ path'[Operator].pc = "import" /\ prot' = prot
      BY <1>o, <1>p, <2>6 DEF Load, At
    <3>2. ~Resting(Operator)' /\ Loading'
      BY <3>1 DEF Resting, Loading
    <3>3. /\ \A s \in Threads : path'[s].pc \in {"write", "remember"} => path'[s].snap = prot'
          /\ \A s \in Threads : path'[s].pc = "trip" => path'[s].next \in {"export", "idle"}
          /\ \A s \in Threads : ~Fed(s)'
      BY <2>2, <3>1 DEF Idle, Fed
    <3>. QED  BY <1>o, <2>1, <2>3, <3>1, <3>2, <3>3 DEF CurrentInv, Dated
  <2>7. CASE Import
    <3>1. prot' = stored
      BY <2>7 DEF Import, HaltInv
    <3>2. path'[Operator] = At(IF prot'.halted THEN "trip" ELSE "idle")
      BY <1>o, <1>p, <2>7 DEF Import
    <3>3. path'[Operator].pc \in {"trip", "idle"} /\ path'[Operator].next = "idle"
      BY <3>2 DEF At
    <3>4. Matches(prot, stored)'
      BY <1>s, <2>1, <3>1 DEF Matches, States
    <3>5. /\ \A s \in Threads : path'[s].pc \in {"write", "remember"} => path'[s].snap = prot'
          /\ \A s \in Threads : path'[s].pc = "trip" => path'[s].next \in {"export", "idle"}
          /\ \A s \in Threads : ~Fed(s)'
      BY <2>2, <3>3 DEF Idle, Fed
    <3>. QED  BY <2>1, <2>3, <3>1, <3>4, <3>5 DEF CurrentInv, Dated
  <2>. QED  BY <1>5, <2>4, <2>5, <2>6, <2>7
<1>b. ASSUME UNCHANGED <<path, prot, stored, exists>>, phantom' \in {0, phantom}
      PROVE  CurrentInv'
  BY <1>b, <1>s DEF CurrentInv, Resting, Fed, Loading, Dated, Matches
<1>6. ASSUME NEW on \in BOOLEAN, SetConfig(on)
      PROVE  CurrentInv'
  <2>1. AllIdle /\ UNCHANGED <<stored, phantom>>
    BY <1>6, <1>f, AllQuiet DEF SetConfig
  <2>2. CASE exists \/ ~on
    BY <1>6, <1>b, <2>1, <2>2 DEF SetConfig
  <2>3. CASE ~(exists \/ ~on)
    <3>1. /\ exists' /\ path'[Operator].pc = "load" /\ prot' = Fresh
          /\ \A s \in Threads \ {Operator} : Idle(s)'
      BY <1>6, <1>o, <1>p, <2>1, <2>3 DEF SetConfig, At, AllIdle, Idle
    <3>2. ~Resting(Operator)' /\ Loading' /\ ~(prot'.peak > 0)
      BY <3>1 DEF Resting, Loading, Fresh
    <3>3. /\ \A s \in Threads : path'[s].pc \in {"write", "remember"} => path'[s].snap = prot'
          /\ \A s \in Threads : path'[s].pc = "trip" => path'[s].next \in {"export", "idle"}
          /\ \A s \in Threads : ~Fed(s)'
      BY <3>1 DEF Idle, Fed
    <3>. QED  BY <1>o, <2>1, <3>1, <3>2, <3>3 DEF CurrentInv, Dated
  <2>. QED  BY <2>2, <2>3
<1>7. CASE Forget
  <2>1. AllIdle /\ UNCHANGED <<stored, exists>> /\ phantom' = 0 /\ phantom > 0
    BY <1>7, <1>f, AllQuiet DEF Forget
  <2>2. CASE exists
    <3>1. /\ path'[Operator].pc = "force" /\ prot' = LowerPeak(prot, phantom)
          /\ \A s \in Threads \ {Operator} : path'[s] = path[s]
      BY <1>7, <1>o, <1>p, <2>2 DEF Forget, At
    <3>2. prot'.day = prot.day
      BY <1>s, <3>1 DEF LowerPeak, States
    <3>3. Dated(prot)'
      BY <1>l, <2>1, <2>2, <3>2 DEF CurrentInv, Dated
    <3>. QED  BY <1>0, <1>o, <2>1, <2>2, <3>1, <3>3, FeedingKeepsUp
  <2>3. CASE ~exists
    BY <1>7, <1>b, <2>1, <2>3 DEF Forget
  <2>. QED  BY <2>2, <2>3
<1>8. CASE Shutdown
  <2>1. AllIdle /\ phantom' = phantom
    BY <1>8 DEF Shutdown, AllIdle
  <2>2. /\ stored' = IF exists THEN prot ELSE stored
        /\ prot' = IF exists' THEN stored' ELSE Fresh
        /\ path' = [t \in Threads |-> At("idle")]
    BY <1>8, <1>f DEF Shutdown, Start
  <2>3. \A t \in Threads : Idle(t)' /\ ~Fed(t)'
    BY <2>2 DEF Idle, At, Fed
  <2>4. stored' \in States
    BY <1>s, <2>2
  <2>5. Matches(stored', stored')
    BY <2>4 DEF Matches, States
  <2>6. exists' => Matches(prot, stored)'
    BY <2>2, <2>5 DEF Matches
  <2>7. ~exists' => prot' = Fresh
    BY <2>2
  <2>8. (stored'.peak > 0 => Dated(stored)') /\ (prot'.peak > 0 => Dated(prot)')
    BY <2>2 DEF CurrentInv, Dated, Fresh
  <2>9. phantom' > 0 => stored'.day > 0 /\ (exists' => prot'.day > 0)
    BY <1>l, <2>1, <2>2 DEF CurrentInv
  <2>. QED  BY <2>3, <2>6, <2>7, <2>8, <2>9 DEF CurrentInv, Idle
<1>9. CASE SoldByHand
  <2>1. AllIdle /\ UNCHANGED <<path, prot, stored, exists>> /\ prot.day > 0
    BY <1>9 DEF SoldByHand, AllIdle
  <2>2. exists
    BY <2>1 DEF CurrentInv, Fresh
  <2>3. Matches(prot, stored)
    BY <2>1, <2>2 DEF CurrentInv, AllIdle, Idle, Resting
  <2>4. stored.day > 0
    BY <2>1, <2>3 DEF Matches
  <2>. QED  BY <2>1, <2>2, <2>4 DEF CurrentInv, Resting, Fed, Loading, Dated, Matches
<1>10. ASSUME NEW on \in BOOLEAN, SetTrading(on)
       PROVE  CurrentInv'
  BY <1>b, <1>10 DEF SetTrading
<1>11. CASE Market \/ Midnight \/ GraceEnds \/ UNCHANGED vars
  BY <1>b, <1>11 DEF Market, Midnight, GraceEnds, vars
<1>. QED
  BY <1>1, <1>2, <1>3, <1>4, <1>5, <1>6, <1>7, <1>8, <1>9, <1>10, <1>11, <1>f
  DEF Next, Crash

(* Between two observations the store holds what was last saved, which the *)
(* engine believes rightly also when saves fail and the process is killed, *)
(* and in orderly running only a peak that rose may be missing from it.    *)
THEOREM StoreFollows == Spec => []StoreKeepsUp
<1> DEFINE Inv == /\ ThreadsInv
                  /\ Apart => SavedInv
                  /\ Orderly => CurrentInv
<1>1. Init => Inv
  BY InitThreadsInv, InitSavedInv, InitCurrentInv
<1>2. Inv /\ [Next]_vars => Inv'
  <2>. SUFFICES ASSUME Inv, [Next]_vars PROVE Inv'
    OBVIOUS
  <2>1. ThreadsInv'
    BY StepThreadsInv
  <2>2. Apart' => SavedInv'
    BY FaultsStay, StepSavedInv DEF ThreadsInv
  <2>3. Orderly' => CurrentInv'
    BY <2>1, FaultsStay, OrderlyApart, StepCurrentInv DEF ThreadsInv
  <2>. QED  BY <2>1, <2>2, <2>3
<1>3. Inv => StoreKeepsUp
  <2>. SUFFICES ASSUME Inv PROVE StoreKeepsUp
    OBVIOUS
  <2>1. StoreIsCurrent
    <3>. SUFFICES ASSUME Orderly, AllIdle, exists
                  PROVE  /\ \A field \in DOMAIN prot \ {"peak"} : stored[field] = prot[field]
                         /\ stored.peak <= prot.peak
      BY DEF StoreIsCurrent
    <3>1. Matches(prot, stored)
      BY DEF CurrentInv, AllIdle, Idle, Resting
    <3>2. prot \in States /\ stored \in States
      BY DEF ThreadsInv, TypeOK
    <3>. QED  BY <3>1, <3>2 DEF Matches, States
  <2>2. SavedIsStored
    BY DEF SavedIsStored, SavedInv, NoneRemembers, Told, Apart
  <2>. QED  BY <2>1, <2>2 DEF StoreKeepsUp
<1>. QED  BY <1>1, <1>2, <1>3, PTL DEF Spec

-----------------------------------------------------------------------------
(* The baselines that are in force -- the manager's, or the store's while  *)
(* there is no manager or it is being restored -- never lie above what the *)
(* account was worth plus what is counted on top of it; with nothing       *)
(* counted on top they are exactly what the account was worth.             *)
InForce == IF exists /\ ~Loading THEN prot ELSE stored

Measured == Orderly /\ ("drift" \notin faults \/ faults \subseteq {"drift"})

Honest(high, dayEquity) ==
    /\ high <= top + phantom /\ dayEquity <= dayStart + phantom
    /\ "drift" \notin faults => phantom = 0 /\ high = top /\ dayEquity = dayStart

HonestInv == Honest(InForce.peak, InForce.dayEquity)

LEMMA InitHonestInv == Init => HonestInv
BY DEF Init, HonestInv, Honest, InForce, Fresh

(* What a sync measures against.                                           *)
LEMMA SyncBaselines ==
    ASSUME TypeOK, Sync
    PROVE  /\ prot'.peak = Larger(prot.peak, real + phantom)
           /\ prot'.dayEquity = IF prot.day # today THEN real + phantom ELSE prot.dayEquity
           /\ prot'.halted = (prot.halted
                \/ (enabled /\ Breached(prot'.peak, prot'.dayEquity, real + phantom)))
<1> DEFINE q == Tracked(prot, real + phantom)
<1>1. prot' = Observed(prot, real + phantom) /\ prot \in States
  BY DEF Sync, TypeOK
<1>2. q \in States
  BY TrackedTyped
<1>3. /\ q.peak = Larger(prot.peak, real + phantom)
      /\ q.dayEquity = IF prot.day # today THEN real + phantom ELSE prot.dayEquity
      /\ q.halted = prot.halted
  BY <1>1 DEF Tracked, States
<1>4. Observed(prot, real + phantom) =
        [q EXCEPT !.halted = q.halted \/ (enabled /\ Breached(q.peak, q.dayEquity, real + phantom))]
  BY DEF Observed
<1> HIDE DEF q
<1>. QED  BY <1>1, <1>2, <1>3, <1>4 DEF States

LEMMA StepHonestInv ==
    ASSUME HaltInv, HaltInv', HonestInv, [Next]_vars, Measured
    PROVE  HonestInv'
<1> USE DEF world, manager, store, history
<1>0. TypeOK /\ TypeOK' /\ OneBusy /\ OnlyOperatorLoads /\ (~exists => AllIdle)
  BY DEF HaltInv
<1>f. /\ "overlap" \notin faults /\ "saveFails" \notin faults /\ "crash" \notin faults
      /\ "drift" \in faults => "expiry" \notin faults /\ "forgetOff" \notin faults
  BY DEF Measured, Orderly
<1>g. faults' = faults
  BY FaultsStay
<1>o. Operator \in Threads /\ Loop \in Threads /\ Closer \in Threads
  BY DEF Threads
<1>p. path \in [Threads -> PathStates]
  BY <1>0, <1>o, PathTyped
<1>s. /\ prot \in States /\ stored \in States /\ phantom \in Nat /\ real \in Nat \ {0}
      /\ top \in Nat /\ dayStart \in Nat
  BY <1>0, HaltAssumption DEF TypeOK
<1>l. AllIdle => ~Loading
  BY AllIdleOperator DEF Loading
<1>k. ASSUME UNCHANGED <<top, dayStart, phantom>>,
             InForce'.peak = InForce.peak, InForce'.dayEquity = InForce.dayEquity
      PROVE  HonestInv'
  BY <1>g, <1>k DEF HonestInv, Honest
<1>1. CASE Sync
  <2>1. /\ AllIdle /\ exists /\ exists' = exists /\ phantom' = phantom
        /\ top' = Larger(top, real)
        /\ dayStart' = IF prot.day # today THEN real ELSE dayStart
    BY <1>1, <1>f, AllQuiet DEF Sync
  <2>2. ~Loading /\ ~Loading'
    BY <1>0, <1>1, <1>l, <1>o, <2>1, FeedingMoves DEF Sync, Loading
  <2>3. InForce = prot /\ InForce' = prot'
    BY <2>1, <2>2 DEF InForce
  <2>4. Honest(prot.peak, prot.dayEquity)
    BY <2>3 DEF HonestInv
  <2>5. prot.peak \in Nat /\ prot.dayEquity \in Nat
    BY <1>s DEF States
  <2>6. prot'.peak <= top' + phantom /\ prot'.dayEquity <= dayStart' + phantom
    BY <1>0, <1>1, <1>s, <2>1, <2>4, <2>5, SyncBaselines DEF Honest, Larger
  <2>7. "drift" \notin faults => phantom = 0 /\ prot'.peak = top' /\ prot'.dayEquity = dayStart'
    BY <1>0, <1>1, <1>s, <2>1, <2>4, <2>5, SyncBaselines DEF Honest, Larger
  <2>. QED  BY <1>g, <2>1, <2>3, <2>6, <2>7 DEF HonestInv, Honest
<1>2. ASSUME NEW pnl \in {-1, 1}, Close(pnl)
      PROVE  HonestInv'
  <2>1. AllIdle /\ exists /\ UNCHANGED <<exists, phantom, top, dayStart>>
    BY <1>2, <1>f, AllQuiet DEF Close
  <2>2. ~Loading /\ ~Loading'
    BY <1>0, <1>2, <1>l, <1>o, <2>1, FeedingMoves DEF Close, Loading
  <2>3. prot'.peak = prot.peak /\ prot'.dayEquity = prot.dayEquity
    BY <1>2, <1>s DEF Close, Realized, States
  <2>. QED  BY <1>k, <2>1, <2>2, <2>3 DEF InForce
<1>3. ASSUME NEW t \in Threads, ThreadStep(t)
      PROVE  HonestInv'
  <2>1. /\ ~Idle(t) /\ UNCHANGED <<prot, exists, phantom, top, dayStart>>
        /\ path[t].pc \notin {"load", "import"}
        /\ \A s \in Threads \ {t} : path'[s] = path[s]
    BY <1>3, <1>p DEF ThreadStep, Trip, Export, Check, WriteOk, WriteFails, Remember, Idle
  <2>2. exists
    BY <1>0, <2>1 DEF AllIdle
  <2>3. ~Loading
    BY <1>0, <1>o, <2>1, OthersIdle DEF Loading, Idle
  <2>4. ~Loading'
    BY <1>0, <1>3, <1>o, <2>1, <2>3, ThreadStepKeepsOff DEF Loading
  <2>. QED  BY <1>k, <2>1, <2>2, <2>3, <2>4 DEF InForce
<1>4. ASSUME NEW rebase \in BOOLEAN, Resume(rebase)
      PROVE  HonestInv'
  <2>1. /\ AllIdle /\ exists /\ UNCHANGED <<exists, phantom>>
        /\ top' = real /\ dayStart' = real
    BY <1>4, <1>f, AllQuiet DEF Resume
  <2>2. ~Loading'
    BY <1>4, <1>o, <1>p DEF Resume, At, Loading
  <2>3. prot'.peak = real + phantom /\ prot'.dayEquity = real + phantom
    BY <1>4, <1>s DEF Resume, Resumed, States
  <2>4. "drift" \notin faults => phantom = 0
    BY DEF HonestInv, Honest
  <2>. QED  BY <1>g, <1>s, <2>1, <2>2, <2>3, <2>4 DEF HonestInv, Honest, InForce
<1>5. CASE ResumeExport \/ TurnOn \/ Load \/ Import
  <2>1. ~Idle(Operator) /\ UNCHANGED <<stored, exists, phantom, top, dayStart>>
    BY <1>5 DEF ResumeExport, TurnOn, Load, Import, Idle
  <2>2. exists
    BY <1>0, <1>o, <2>1 DEF AllIdle
  <2>3. CASE ResumeExport
    BY <1>o, <1>p, <2>3, <1>k, <2>1 DEF ResumeExport, Loading, InForce
  <2>4. CASE TurnOn
    BY <1>o, <1>p, <2>4, <1>k, <2>1 DEF TurnOn, At, Loading, InForce
  <2>5. CASE Load
    BY <1>o, <1>p, <2>5, <1>k, <2>1 DEF Load, At, Loading, InForce
  <2>6. CASE Import
    BY <2>6, <1>o, <1>p, <1>k, <2>1, <2>2 DEF Import, HaltInv, Loading, At, InForce
  <2>. QED  BY <1>5, <2>3, <2>4, <2>5, <2>6
<1>6. ASSUME NEW on \in BOOLEAN, SetConfig(on)
      PROVE  HonestInv'
  <2>1. UNCHANGED <<stored, phantom, top, dayStart>>
    BY <1>6 DEF SetConfig
  <2>2. CASE exists \/ ~on
    BY <1>6, <2>2, <1>k, <2>1 DEF SetConfig, InForce, Loading
  <2>3. CASE ~(exists \/ ~on)
    BY <1>6, <1>o, <1>p, <2>3, <1>k, <2>1 DEF SetConfig, At, Loading, InForce
  <2>. QED  BY <2>2, <2>3
<1>7. CASE Forget
  <2>1. /\ AllIdle /\ UNCHANGED <<stored, exists, top, dayStart>>
        /\ phantom' = 0 /\ phantom > 0 /\ "drift" \in faults /\ exists
    BY <1>7, <1>f, AllQuiet DEF Forget, HonestInv, Honest
  <2>2. prot' = LowerPeak(prot, phantom) /\ path'[Operator].pc = "force"
    BY <1>7, <1>o, <1>p, <2>1 DEF Forget, At
  <2>3. ~Loading /\ ~Loading'
    BY <1>l, <2>1, <2>2 DEF Loading
  <2>4. Honest(prot.peak, prot.dayEquity)
    BY <2>1, <2>3 DEF HonestInv, InForce
  <2>5. /\ prot'.peak = Larger(0, prot.peak - phantom)
        /\ prot'.dayEquity = Larger(0, prot.dayEquity - phantom)
    BY <1>s, <2>2 DEF LowerPeak, States
  <2>6. prot'.peak <= top /\ prot'.dayEquity <= dayStart
    BY <1>s, <2>4, <2>5 DEF Honest, Larger, States
  <2>. QED  BY <1>g, <1>s, <2>1, <2>3, <2>6 DEF HonestInv, Honest, InForce
<1>8. CASE Shutdown
  BY <1>8, <1>f, <1>k, <1>l DEF Shutdown, AllIdle, Start, InForce
<1>9. CASE SoldByHand
  BY <1>9, HaltAssumption, <1>s, <1>g DEF SoldByHand, InForce, Loading, States, HonestInv, Honest
<1>10. CASE GraceEnds
  BY <1>10, <1>f DEF GraceEnds, HonestInv, Honest
<1>11. ASSUME NEW on \in BOOLEAN, SetTrading(on)
       PROVE  HonestInv'
  BY <1>k, <1>11 DEF SetTrading, InForce, Loading
<1>12. CASE Market \/ Midnight \/ UNCHANGED vars
  BY <1>k, <1>12 DEF Market, Midnight, vars, InForce, Loading
<1>. QED
  BY <1>1, <1>2, <1>3, <1>4, <1>5, <1>6, <1>7, <1>8, <1>9, <1>10, <1>11, <1>12, <1>f
  DEF Next, Crash

(* A limit is a share of what the loss is counted from, so a loss counted  *)
(* from a baseline that is too low is a loss counted from the right one.   *)
LEMMA LostFromMore ==
    ASSUME NEW low \in Nat, NEW high \in Nat, NEW extra \in Nat, NEW now \in Nat \ {0},
           NEW pct \in 0..100, low <= high + extra, Lost(low, now + extra, pct)
    PROVE  Lost(high, now, pct)
<1> DEFINE d == high + extra - low
<1>1. d \in Nat /\ low + d = high + extra
  OBVIOUS
<1>2. pct > 0 /\ (low - (now + extra)) * 100 >= pct * low
  BY DEF Lost
<1>3. pct * d <= 100 * d
  BY <1>1
<1>4. pct * (low + d) = pct * low + pct * d
  BY <1>1
<1>5. pct * (high + extra) = pct * high + pct * extra
  OBVIOUS
<1>6. pct * extra >= 0 /\ pct * low >= 0
  OBVIOUS
<1>7. (high - now) * 100 = (low - (now + extra)) * 100 + 100 * d
  OBVIOUS
<1>8. pct * low \in Int /\ pct * d \in Int /\ pct * high \in Int /\ pct * extra \in Int
  BY <1>1
<1> HIDE DEF d
<1>9. (high - now) * 100 >= pct * high
  BY <1>1, <1>2, <1>3, <1>4, <1>5, <1>6, <1>7, <1>8
<1>10. high > 0
  BY <1>2, <1>6, <1>7, <1>1, <1>8
<1>. QED  BY <1>2, <1>9, <1>10 DEF Lost

LEMMA SyncIsFair ==
    ASSUME HaltInv, HonestInv, HonestInv', HaltInv', Measured, Sync
    PROVE  /\ "drift" \notin faults /\ enabled => prot'.halted \/ ~Breached(top', dayStart', real)
           /\ ~FalseHalt
<1>0. TypeOK /\ OnlyOperatorLoads
  BY DEF HaltInv
<1>t. /\ TypeOK' /\ prot \in States /\ prot' \in States
  BY <1>0 DEF TypeOK, HaltInv
<1>s. /\ real \in Nat \ {0} /\ phantom \in Nat /\ top' \in Nat /\ dayStart' \in Nat
      /\ phantom' = phantom /\ faults' = faults
      /\ prot'.peak \in Nat /\ prot'.dayEquity \in Nat
  BY <1>0, <1>t, HaltAssumption DEF TypeOK, Sync, world, faults, States
<1>1. AllIdle /\ exists /\ exists' = exists
  BY AllQuiet DEF Sync, Measured, Orderly
<1>2. ~Loading'
  BY <1>0, <1>1, FeedingMoves DEF Sync, Loading, Threads
<1>3. Honest(prot.peak, prot.dayEquity)'
  BY <1>1, <1>2 DEF HonestInv, InForce
<1>4. prot'.halted = (prot.halted
                \/ (enabled /\ Breached(prot'.peak, prot'.dayEquity, real + phantom)))
  BY <1>0, SyncBaselines
<1>5. ASSUME "drift" \notin faults, enabled, Breached(top', dayStart', real)
      PROVE  prot'.halted
  <2>1. phantom = 0 /\ prot'.peak = top' /\ prot'.dayEquity = dayStart'
    BY <1>3, <1>5, <1>s DEF Honest
  <2>2. real + phantom = real
    BY <1>s, <2>1
  <2>. QED  BY <1>4, <1>5, <2>1, <2>2
<1>6. ASSUME prot'.halted, ~prot.halted
      PROVE  Breached(top', dayStart', real)
  <2>1. Breached(prot'.peak, prot'.dayEquity, real + phantom)
    BY <1>4, <1>6
  <2>2. prot'.peak <= top' + phantom /\ prot'.dayEquity <= dayStart' + phantom
    BY <1>3, <1>s DEF Honest
  <2>3. DrawdownPct \in 0..100 /\ DailyLossPct \in 0..100
    BY HaltAssumption
  <2>4. Lost(prot'.peak, real + phantom, DrawdownPct) => Lost(top', real, DrawdownPct)
    BY <1>s, <2>2, <2>3, LostFromMore
  <2>5. Lost(prot'.dayEquity, real + phantom, DailyLossPct) => Lost(dayStart', real, DailyLossPct)
    BY <1>s, <2>2, <2>3, LostFromMore
  <2>. QED  BY <2>1, <2>4, <2>5 DEF Breached
<1>. QED  BY <1>5, <1>6 DEF FalseHalt

(* No observed loss of a limit goes without a halt, whatever restarts and  *)
(* switches lie between the baseline and it, and nothing halts that was    *)
(* not lost, also when a position sold by hand is forgotten in time.       *)
THEOREM HaltsAreRight == Spec => HaltsExactlyOnLoss
<1> DEFINE Inv == ThreadsInv /\ (Measured => HonestInv)
           Loss == [Orderly /\ "drift" \notin faults /\ Sync /\ enabled
                      => prot'.halted \/ ~Breached(top', dayStart', real)]_vars
           NoFalse == [faults \subseteq {"drift"} => ~FalseHalt]_vars
<1>1. Init => Inv
  BY InitThreadsInv, InitHonestInv
<1>2. Inv /\ [Next]_vars => Inv'
  <2>. SUFFICES ASSUME Inv, [Next]_vars PROVE Inv'
    OBVIOUS
  <2>1. ThreadsInv'
    BY StepThreadsInv
  <2>2. Measured' => Measured
    BY FaultsStay DEF Measured
  <2>3. Measured => Apart /\ Apart'
    BY FaultsStay, OrderlyApart DEF Measured
  <2>. QED  BY <2>1, <2>2, <2>3, StepHonestInv DEF ThreadsInv
<1>3. Inv /\ Inv' /\ [Next]_vars => Loss /\ NoFalse
  <2>. SUFFICES ASSUME Inv, Inv', [Next]_vars PROVE Loss /\ NoFalse
    OBVIOUS
  <2>1. Measured => Measured' /\ Apart /\ Apart'
    BY FaultsStay, OrderlyApart DEF Measured
  <2>2. Orderly /\ "drift" \notin faults => Measured
    BY DEF Measured
  <2>3. faults \subseteq {"drift"} => Measured
    BY DEF Measured, Orderly
  <2>4. ASSUME Measured, Sync
        PROVE  /\ "drift" \notin faults /\ enabled
                    => prot'.halted \/ ~Breached(top', dayStart', real)
               /\ ~FalseHalt
    BY <2>1, <2>4, SyncIsFair DEF ThreadsInv
  <2>5. FalseHalt => Sync
    BY DEF FalseHalt
  <2>. QED  BY <2>2, <2>3, <2>4, <2>5
<1>4. Spec => [][Orderly /\ "drift" \notin faults /\ Sync /\ enabled
                   => prot'.halted \/ ~Breached(top', dayStart', real)]_vars
  BY <1>1, <1>2, <1>3, PTL DEF Spec
<1>5. Spec => [][faults \subseteq {"drift"} => ~FalseHalt]_vars
  BY <1>1, <1>2, <1>3, PTL DEF Spec
<1>. QED  BY <1>4, <1>5 DEF HaltsExactlyOnLoss, LossHalts, HaltsOnlyOnLoss

-----------------------------------------------------------------------------
(* The replays.  Sums over finite sets, and choices from them.             *)

(* Induction, stated with sets: over the naturals, and over a finite set.  *)
LEMMA LeastOf ==
    ASSUME NEW X, X \subseteq Nat, X # {}
    PROVE  \E x \in X : \A y \in X : x <= y
<1>. DEFINE less == {pair \in Nat \X Nat : pair[1] < pair[2]}
<1>1. IsWellFoundedOn(less, Nat)
  BY NatLessThanWellFounded DEF OpToRel
<1>2. \E x \in X : \A y \in X : <<y, x>> \notin less
  <2>. HIDE DEF less
  <2>. QED  BY <1>1, WFMin
<1>3. ASSUME NEW x \in X, NEW y \in X, <<y, x>> \notin less
      PROVE  x <= y
  BY <1>3
<1>. QED  BY <1>2, <1>3

LEMMA NatsFrom ==
    ASSUME NEW X, 0 \in X, \A n \in Nat : n \in X => n + 1 \in X
    PROVE  Nat \subseteq X
<1>. DEFINE Y == {n \in Nat : n \notin X}
<1>1. SUFFICES ASSUME Y # {} PROVE FALSE
  OBVIOUS
<1>2. PICK m \in Y : \A y \in Y : m <= y
  BY <1>1, LeastOf
<1>3. m # 0 /\ m \in Nat /\ m - 1 \in Nat /\ m - 1 \notin Y
  BY <1>2
<1>4. m - 1 \in X /\ (m - 1) + 1 = m
  BY <1>3
<1>. QED  BY <1>2, <1>3, <1>4

LEMMA SetsFrom ==
    ASSUME NEW A, IsFiniteSet(A), NEW X, {} \in X,
           \A T \in SUBSET A : \A x \in A \ T : T \in X => T \cup {x} \in X
    PROVE  A \in X
<1>. DEFINE Y == {n \in Nat : \A T \in SUBSET A : Cardinality(T) = n => T \in X}
<1>1. \A T \in SUBSET A : IsFiniteSet(T) /\ Cardinality(T) \in Nat
  BY FS_Subset, FS_CardinalityType
<1>2. 0 \in Y
  BY <1>1, FS_EmptySet
<1>3. ASSUME NEW n \in Nat, n \in Y PROVE n + 1 \in Y
  <2>1. SUFFICES ASSUME NEW T \in SUBSET A, Cardinality(T) = n + 1 PROVE T \in X
    OBVIOUS
  <2>2. PICK x \in T : TRUE
    BY <1>1, <2>1, FS_EmptySet
  <2>3. Cardinality(T \ {x}) = n
    <3>1. Cardinality(T \ {x}) = Cardinality(T) - 1
      BY <1>1, <2>2, FS_RemoveElement
    <3>. QED  BY <2>1, <3>1
  <2>4. T \ {x} \in X
    BY <1>3, <2>3
  <2>5. T = (T \ {x}) \cup {x}
    BY <2>2
  <2>. QED  BY <2>2, <2>4, <2>5
<1>4. Nat \subseteq Y
  <2>. HIDE DEF Y
  <2>. QED  BY <1>2, <1>3, NatsFrom
<1>. QED  BY <1>1, <1>4

(* The recursion a sum is.                                                 *)
Pick(s) == CHOOSE x \in s : TRUE
SumsUp(g, f, D) == \A s \in D : g[s] = IF s = {} THEN 0 ELSE f[Pick(s)] + g[s \ {Pick(s)}]

LEMMA PickIn ==
    ASSUME NEW s, s # {} PROVE Pick(s) \in s
BY DEF Pick

LEMMA SumExists ==
    ASSUME NEW D, IsFiniteSet(D), NEW f \in [D -> Int]
    PROVE  \E g \in [SUBSET D -> Int] : SumsUp(g, f, SUBSET D)
<1>. DEFINE upTo(n) == {s \in SUBSET D : Cardinality(s) <= n}
            X == {n \in Nat : \E g \in [upTo(n) -> Int] : SumsUp(g, f, upTo(n))}
<1>1. \A s \in SUBSET D : IsFiniteSet(s) /\ Cardinality(s) \in Nat /\ Cardinality(s) <= Cardinality(D)
  BY FS_Subset, FS_CardinalityType
<1>2. 0 \in X
  <2>. DEFINE g == [s \in upTo(0) |-> 0]
  <2>1. \A s \in upTo(0) : s = {}
    BY <1>1, FS_EmptySet
  <2>2. SumsUp(g, f, upTo(0)) /\ g \in [upTo(0) -> Int]
    BY <2>1 DEF SumsUp
  <2>. QED  BY <2>2
<1>3. ASSUME NEW n \in Nat, n \in X PROVE n + 1 \in X
  <2>1. PICK g \in [upTo(n) -> Int] : SumsUp(g, f, upTo(n))
    BY <1>3
  <2>. DEFINE h == [s \in upTo(n + 1) |-> IF s = {} THEN 0 ELSE f[Pick(s)] + g[s \ {Pick(s)}]]
  <2>2. ASSUME NEW s \in upTo(n + 1), s # {}
        PROVE  /\ Pick(s) \in D /\ s \ {Pick(s)} \in upTo(n) /\ s \ {Pick(s)} \in upTo(n + 1)
    BY <2>2, PickIn, <1>1, FS_RemoveElement
  <2>3. h \in [upTo(n + 1) -> Int]
    <3>1. ASSUME NEW s \in upTo(n + 1) PROVE h[s] \in Int
      BY <2>2
    <3>. HIDE DEF upTo
    <3>. QED  BY <3>1
  <2>4. ASSUME NEW s \in upTo(n + 1), s # {} PROVE h[s \ {Pick(s)}] = g[s \ {Pick(s)}]
    <3>. DEFINE t == s \ {Pick(s)}
    <3>1. t \in upTo(n) /\ t \in upTo(n + 1)
      BY <2>2, <2>4
    <3>2. g[t] = IF t = {} THEN 0 ELSE f[Pick(t)] + g[t \ {Pick(t)}]
      BY <2>1, <3>1 DEF SumsUp
    <3>. HIDE DEF t, upTo
    <3>3. h[t] = g[t]
      BY <3>1, <3>2
    <3>. QED  BY <3>3 DEF t
  <2>5. SumsUp(h, f, upTo(n + 1))
    <3>1. ASSUME NEW s \in upTo(n + 1)
          PROVE  h[s] = IF s = {} THEN 0 ELSE f[Pick(s)] + h[s \ {Pick(s)}]
      <4>. HIDE DEF upTo
      <4>. QED  BY <2>4
    <3>. HIDE DEF h, upTo
    <3>. QED  BY <3>1 DEF SumsUp
  <2>. HIDE DEF h, upTo
  <2>6. \E k \in [upTo(n + 1) -> Int] : SumsUp(k, f, upTo(n + 1))
    BY <2>3, <2>5
  <2>. QED  BY <2>6
<1>4. Nat \subseteq X
  <2>. HIDE DEF X
  <2>. QED  BY <1>2, <1>3, NatsFrom
<1>5. PICK g \in [upTo(Cardinality(D)) -> Int] : SumsUp(g, f, upTo(Cardinality(D)))
  BY <1>1, <1>4
<1>6. upTo(Cardinality(D)) = SUBSET D
  BY <1>1
<1>. QED  BY <1>5, <1>6

LEMMA SumsAgree ==
    ASSUME NEW D, IsFiniteSet(D), NEW f, NEW g, NEW h, SumsUp(g, f, SUBSET D), SumsUp(h, f, SUBSET D)
    PROVE  \A s \in SUBSET D : g[s] = h[s]
<1>. DEFINE X == {n \in Nat : \A s \in SUBSET D : Cardinality(s) = n => g[s] = h[s]}
<1>1. \A s \in SUBSET D : IsFiniteSet(s) /\ Cardinality(s) \in Nat
  BY FS_Subset, FS_CardinalityType
<1>2. 0 \in X
  BY <1>1, FS_EmptySet DEF SumsUp
<1>3. ASSUME NEW n \in Nat, n \in X PROVE n + 1 \in X
  <2>1. SUFFICES ASSUME NEW s \in SUBSET D, Cardinality(s) = n + 1 PROVE g[s] = h[s]
    OBVIOUS
  <2>2. s # {} /\ Pick(s) \in s
    BY <1>1, <2>1, FS_EmptySet, PickIn
  <2>3. Cardinality(s \ {Pick(s)}) = n
    BY <1>1, <2>1, <2>2, FS_RemoveElement
  <2>4. g[s \ {Pick(s)}] = h[s \ {Pick(s)}]
    BY <1>3, <2>3
  <2>. QED  BY <2>2, <2>4 DEF SumsUp
<1>4. Nat \subseteq X
  <2>. HIDE DEF X
  <2>. QED  BY <1>2, <1>3, NatsFrom
<1>. QED  BY <1>1, <1>4

(* A sum is what any function that sums up has for the whole domain.       *)
LEMMA SumIs ==
    ASSUME NEW D, IsFiniteSet(D), NEW f \in [D -> Int], NEW g \in [SUBSET D -> Int], SumsUp(g, f, SUBSET D)
    PROVE  B!SumOver(f) = g[D]
<1>. DEFINE Eq(h) == h = [s \in SUBSET D |-> IF s = {} THEN 0 ELSE f[Pick(s)] + h[s \ {Pick(s)}]]
            iter == CHOOSE h : Eq(h)
<1>1. DOMAIN f = D
  OBVIOUS
<1>2. B!SumOver(f) = iter[D]
  BY <1>1 DEF B!SumOver, B!MapThenSumSet, B!MapThenFoldSet, Pick
<1>3. Eq(g)
  <2>. DEFINE k == [s \in SUBSET D |-> IF s = {} THEN 0 ELSE f[Pick(s)] + g[s \ {Pick(s)}]]
  <2>1. \A s \in SUBSET D : g[s] = k[s]
    BY DEF SumsUp
  <2>2. g = k
    <3>. HIDE DEF k
    <3>1. k \in [SUBSET D -> Int] \/ DOMAIN k = SUBSET D
      BY DEF k
    <3>2. k = [s \in SUBSET D |-> k[s]]
      BY DEF k
    <3>. QED  BY <2>1, <3>2
  <2>. QED  BY <2>2
<1>4. Eq(iter)
  <2>. HIDE DEF Eq
  <2>. QED  BY <1>3
<1>5. SumsUp(iter, f, SUBSET D)
  <2>. HIDE DEF iter
  <2>1. \A s \in SUBSET D : iter[s] = IF s = {} THEN 0 ELSE f[Pick(s)] + iter[s \ {Pick(s)}]
    <3>. DEFINE k == [s \in SUBSET D |-> IF s = {} THEN 0 ELSE f[Pick(s)] + iter[s \ {Pick(s)}]]
    <3>1. \A s \in SUBSET D : k[s] = IF s = {} THEN 0 ELSE f[Pick(s)] + iter[s \ {Pick(s)}]
      OBVIOUS
    <3>2. iter = k
      BY <1>4
    <3>. HIDE DEF k
    <3>. QED  BY <3>1, <3>2
  <2>. QED  BY <2>1 DEF SumsUp
<1>. QED
  <2>. HIDE DEF iter
  <2>. QED  BY <1>2, <1>5, SumsAgree

(* The laws of sums.                                                       *)
Only(f, T) == [z \in T |-> f[z]]

PartSums(g, f, D) == SumsUp(g, f, SUBSET D) /\ \A T \in SUBSET D : B!SumOver(Only(f, T)) = g[T]

LEMMA SumParts ==
    ASSUME NEW D, IsFiniteSet(D), NEW f \in [D -> Int]
    PROVE  \E g \in [SUBSET D -> Int] : PartSums(g, f, D)
<1>1. PICK g \in [SUBSET D -> Int] : SumsUp(g, f, SUBSET D)
  BY SumExists
<1>2. ASSUME NEW T \in SUBSET D PROVE B!SumOver(Only(f, T)) = g[T]
  <2>. DEFINE e == Only(f, T)
              h == [s \in SUBSET T |-> g[s]]
  <2>1. IsFiniteSet(T)
    BY FS_Subset
  <2>2. e \in [T -> Int] /\ h \in [SUBSET T -> Int] /\ \A x \in T : e[x] = f[x]
    BY DEF Only
  <2>3. ASSUME NEW s \in SUBSET T
        PROVE  h[s] = IF s = {} THEN 0 ELSE e[Pick(s)] + h[s \ {Pick(s)}]
    <3>1. s # {} => Pick(s) \in T
      BY PickIn
    <3>2. s # {} => e[Pick(s)] = f[Pick(s)]
      BY <2>2, <3>1
    <3>. HIDE DEF e
    <3>. QED  BY <1>1, <3>2 DEF SumsUp
  <2>4. h[T] = g[T]
    OBVIOUS
  <2>. HIDE DEF e, h
  <2>5. SumsUp(h, e, SUBSET T)
    BY <2>3 DEF SumsUp
  <2>6. B!SumOver(e) = h[T]
    BY <2>1, <2>2, <2>5, SumIs
  <2>. QED  BY <2>4, <2>6 DEF e
<1>. QED  BY <1>1, <1>2 DEF PartSums

LEMMA SumInt ==
    ASSUME NEW D, IsFiniteSet(D), NEW f \in [D -> Int]
    PROVE  B!SumOver(f) \in Int
<1>1. PICK g \in [SUBSET D -> Int] : SumsUp(g, f, SUBSET D)
  BY SumExists
<1>2. B!SumOver(f) = g[D]
  BY <1>1, SumIs
<1>. QED  BY <1>2

LEMMA SumNone ==
    ASSUME NEW f \in [{} -> Int]
    PROVE  B!SumOver(f) = 0
<1>1. IsFiniteSet({})
  BY FS_EmptySet
<1>2. PICK g \in [SUBSET {} -> Int] : SumsUp(g, f, SUBSET {})
  BY <1>1, SumExists
<1>3. B!SumOver(f) = g[{}]
  BY <1>1, <1>2, SumIs
<1>. QED  BY <1>2, <1>3 DEF SumsUp

LEMMA SumSplit ==
    ASSUME NEW D, IsFiniteSet(D), NEW f \in [D -> Int], NEW x \in D
    PROVE  B!SumOver(f) = f[x] + B!SumOver(Only(f, D \ {x}))
<1>10. PICK g \in [SUBSET D -> Int] : PartSums(g, f, D)
  BY SumParts
<1>1. SumsUp(g, f, SUBSET D) /\ \A T \in SUBSET D : B!SumOver(Only(f, T)) = g[T]
  BY <1>10 DEF PartSums
<1>. DEFINE X == {n \in Nat : \A T \in SUBSET D : Cardinality(T) = n =>
                                 \A y \in T : g[T] = f[y] + g[T \ {y}]}
<1>2. \A s \in SUBSET D : IsFiniteSet(s) /\ Cardinality(s) \in Nat
  BY FS_Subset, FS_CardinalityType
<1>3. 0 \in X
  BY <1>2, FS_EmptySet
<1>4. ASSUME NEW n \in Nat, n \in X PROVE n + 1 \in X
  <2>1. SUFFICES ASSUME NEW T \in SUBSET D, Cardinality(T) = n + 1, NEW y \in T
                 PROVE  g[T] = f[y] + g[T \ {y}]
    OBVIOUS
  <2>. DEFINE p == Pick(T)
  <2>2. p \in T /\ g[T] = f[p] + g[T \ {p}]
    BY <1>1, PickIn DEF SumsUp
  <2>. HIDE DEF p
  <2>3. CASE p = y
    BY <2>2, <2>3
  <2>4. CASE p # y
    <3>1. \A z \in T : Cardinality(T \ {z}) = n
      <4>1. \A z \in T : Cardinality(T \ {z}) = Cardinality(T) - 1
        BY <1>2, FS_RemoveElement
      <4>. QED  BY <2>1, <4>1
    <3>2. y \in T \ {p} /\ p \in T \ {y}
      BY <2>2, <2>4
    <3>3. g[T \ {p}] = f[y] + g[(T \ {p}) \ {y}]
      BY <1>4, <2>2, <3>1, <3>2
    <3>4. g[T \ {y}] = f[p] + g[(T \ {y}) \ {p}]
      BY <1>4, <3>1, <3>2
    <3>5. (T \ {p}) \ {y} = (T \ {y}) \ {p}
      OBVIOUS
    <3>. DEFINE a == g[(T \ {y}) \ {p}]
    <3>6. a \in Int /\ f[p] \in Int /\ f[y] \in Int
      BY <2>2
    <3>. HIDE DEF a
    <3>7. g[T \ {p}] = f[y] + a /\ g[T \ {y}] = f[p] + a
      BY <3>3, <3>4, <3>5 DEF a
    <3>. QED  BY <2>2, <3>6, <3>7
  <2>. QED  BY <2>3, <2>4
<1>5. Nat \subseteq X
  <2>. HIDE DEF X
  <2>. QED  BY <1>3, <1>4, NatsFrom
<1>6. g[D] = f[x] + g[D \ {x}]
  BY <1>2, <1>5
<1>7. B!SumOver(f) = g[D]
  BY <1>1, SumIs
<1>. QED  BY <1>1, <1>6, <1>7

(* One value changes.                                                      *)
LEMMA SumChange ==
    ASSUME NEW D, IsFiniteSet(D), NEW f \in [D -> Int], NEW h \in [D -> Int], NEW x \in D,
           \A y \in D \ {x} : f[y] = h[y]
    PROVE  B!SumOver(h) = B!SumOver(f) - f[x] + h[x]
<1>. DEFINE e == Only(f, D \ {x})
<1>1. e = Only(h, D \ {x})
  BY DEF Only
<1>2. e \in [D \ {x} -> Int] /\ IsFiniteSet(D \ {x})
  BY FS_RemoveElement DEF Only
<1>3. B!SumOver(f) = f[x] + B!SumOver(e)
  BY SumSplit
<1>4. B!SumOver(h) = h[x] + B!SumOver(e)
  <2>. HIDE DEF e
  <2>. QED  BY <1>1, SumSplit
<1>. HIDE DEF e
<1>5. B!SumOver(e) \in Int
  BY <1>2, SumInt
<1>. QED  BY <1>3, <1>4, <1>5

(* One value is added.                                                     *)
LEMMA SumMore ==
    ASSUME NEW D, IsFiniteSet(D), NEW x, x \notin D, NEW f \in [D -> Int], NEW h \in [D \cup {x} -> Int],
           \A y \in D : f[y] = h[y]
    PROVE  B!SumOver(h) = B!SumOver(f) + h[x]
<1>1. IsFiniteSet(D \cup {x})
  BY FS_AddElement
<1>2. B!SumOver(h) = h[x] + B!SumOver(Only(h, (D \cup {x}) \ {x}))
  BY <1>1, SumSplit
<1>3. (D \cup {x}) \ {x} = D
  OBVIOUS
<1>4. Only(h, (D \cup {x}) \ {x}) = f
  BY <1>3 DEF Only
<1>5. B!SumOver(f) \in Int /\ h[x] \in Int
  BY SumInt
<1>. QED  BY <1>2, <1>4, <1>5

(* What is summed so far grows by one value.                               *)
LEMMA SumGrows ==
    ASSUME NEW D, IsFiniteSet(D), NEW j \in [D -> Int], NEW T \in SUBSET D, NEW x \in D \ T
    PROVE  /\ B!SumOver(Only(j, T \cup {x})) = B!SumOver(Only(j, T)) + j[x]
           /\ B!SumOver(Only(j, T)) \in Int
<1>. DEFINE E == T \cup {x}
            h == Only(j, E)
<1>1. IsFiniteSet(T) /\ IsFiniteSet(E) /\ x \in E
  BY FS_Subset
<1>2. h \in [E -> Int] /\ h[x] = j[x] /\ Only(j, T) \in [T -> Int]
  BY DEF Only
<1>3. Only(h, E \ {x}) = Only(j, T)
  <2>1. E \ {x} = T
    OBVIOUS
  <2>2. \A y \in T : h[y] = j[y]
    BY DEF Only
  <2>. HIDE DEF E, h
  <2>. QED  BY <2>1, <2>2 DEF Only
<1>. HIDE DEF E, h
<1>4. B!SumOver(h) = h[x] + B!SumOver(Only(h, E \ {x}))
  BY <1>1, <1>2, SumSplit
<1>5. B!SumOver(Only(j, T)) \in Int /\ j[x] \in Int
  BY <1>1, <1>2, SumInt
<1>. QED  BY <1>2, <1>3, <1>4, <1>5 DEF E, h

LEMMA SumPlus ==
    ASSUME NEW D, IsFiniteSet(D), NEW f \in [D -> Int], NEW h \in [D -> Int]
    PROVE  B!SumOver([x \in D |-> f[x] + h[x]]) = B!SumOver(f) + B!SumOver(h)
<1>. DEFINE on(k, T) == [x \in T |-> k[x]]
            k == [x \in D |-> f[x] + h[x]]
            X == {T \in SUBSET D : B!SumOver(on(k, T)) = B!SumOver(on(f, T)) + B!SumOver(on(h, T))}
<1>1. k \in [D -> Int] /\ \A x \in D : k[x] = f[x] + h[x]
  OBVIOUS
<1>. HIDE DEF k
<1>2. \A T \in SUBSET D : /\ IsFiniteSet(T)
                          /\ on(k, T) \in [T -> Int] /\ on(f, T) \in [T -> Int] /\ on(h, T) \in [T -> Int]
  BY <1>1, FS_Subset
<1>3. {} \in X
  <2>1. B!SumOver(on(k, {})) = 0 /\ B!SumOver(on(f, {})) = 0 /\ B!SumOver(on(h, {})) = 0
    BY <1>2, SumNone
  <2>. HIDE DEF on
  <2>. QED  BY <2>1
<1>4. ASSUME NEW T \in SUBSET D, NEW x \in D \ T, T \in X PROVE T \cup {x} \in X
  <2>1. ASSUME NEW j \in [D -> Int]
        PROVE  B!SumOver(on(j, T \cup {x})) = B!SumOver(on(j, T)) + j[x] /\ B!SumOver(on(j, T)) \in Int
    <3>1. on(j, T \cup {x}) = Only(j, T \cup {x}) /\ on(j, T) = Only(j, T)
      BY DEF Only
    <3>. HIDE DEF on
    <3>2. x \in D /\ x \notin T
      OBVIOUS
    <3>. QED  BY <2>1, <3>1, <3>2, SumGrows
  <2>2. T \cup {x} \in SUBSET D
    OBVIOUS
  <2>3. f[x] \in Int /\ h[x] \in Int /\ k[x] = f[x] + h[x]
    BY <1>1
  <2>. HIDE DEF on
  <2>4. /\ B!SumOver(on(f, T \cup {x})) = B!SumOver(on(f, T)) + f[x] /\ B!SumOver(on(f, T)) \in Int
        /\ B!SumOver(on(h, T \cup {x})) = B!SumOver(on(h, T)) + h[x] /\ B!SumOver(on(h, T)) \in Int
        /\ B!SumOver(on(k, T \cup {x})) = B!SumOver(on(k, T)) + k[x]
    BY <1>1, <2>1
  <2>5. B!SumOver(on(k, T)) = B!SumOver(on(f, T)) + B!SumOver(on(h, T))
    BY <1>4
  <2>6. B!SumOver(on(k, T \cup {x})) = B!SumOver(on(f, T \cup {x})) + B!SumOver(on(h, T \cup {x}))
    BY <2>3, <2>4, <2>5
  <2>. QED  BY <2>2, <2>6
<1>5. D \in X
  <2>. HIDE DEF X
  <2>. QED  BY <1>3, <1>4, SetsFrom
<1>6. on(k, D) = k /\ on(f, D) = f /\ on(h, D) = h
  BY <1>1
<1>. QED  BY <1>5, <1>6 DEF k

(* What is outside is nothing.                                             *)
LEMMA SumWithin ==
    ASSUME NEW D, IsFiniteSet(D), NEW f \in [D -> Int], NEW T \in SUBSET D, \A x \in D \ T : f[x] = 0
    PROVE  B!SumOver(f) = B!SumOver(Only(f, T))
<1>. DEFINE on(U) == Only(f, U)
            X == {U \in SUBSET (D \ T) : B!SumOver(on(T \cup U)) = B!SumOver(on(T))}
<1>1. \A U \in SUBSET D : IsFiniteSet(U) /\ on(U) \in [U -> Int]
  BY FS_Subset DEF Only
<1>2. {} \in X
  <2>1. T \cup {} = T
    OBVIOUS
  <2>. HIDE DEF on
  <2>. QED  BY <2>1
<1>3. ASSUME NEW U \in SUBSET (D \ T), NEW x \in (D \ T) \ U, U \in X PROVE U \cup {x} \in X
  <2>1. T \cup (U \cup {x}) = (T \cup U) \cup {x} /\ x \notin T \cup U /\ T \cup U \in SUBSET D
    OBVIOUS
  <2>2. on(T \cup U) \in [T \cup U -> Int] /\ on((T \cup U) \cup {x}) \in [(T \cup U) \cup {x} -> Int]
    BY DEF Only
  <2>3. /\ \A y \in T \cup U : on(T \cup U)[y] = on((T \cup U) \cup {x})[y]
        /\ on((T \cup U) \cup {x})[x] = 0
    BY DEF Only
  <2>. HIDE DEF on
  <2>4. /\ B!SumOver(on((T \cup U) \cup {x})) = B!SumOver(on(T \cup U)) + on((T \cup U) \cup {x})[x]
        /\ B!SumOver(on(T \cup U)) \in Int
    BY <1>1, <2>1, <2>2, <2>3, SumMore, SumInt
  <2>5. B!SumOver(on((T \cup U) \cup {x})) = B!SumOver(on(T \cup U))
    BY <2>3, <2>4
  <2>. QED  BY <1>3, <2>1, <2>5
<1>4. D \ T \in X
  <2>1. IsFiniteSet(D \ T)
    BY FS_Subset
  <2>. HIDE DEF X
  <2>. QED  BY <1>2, <1>3, <2>1, SetsFrom
<1>5. T \cup (D \ T) = D /\ on(D) = f
  BY DEF Only
<1>. QED  BY <1>4, <1>5

LEMMA SumNat ==
    ASSUME NEW D, IsFiniteSet(D), NEW f \in [D -> Nat]
    PROVE  B!SumOver(f) \in Nat
<1>. DEFINE on(U) == [x \in U |-> f[x]]
            X == {U \in SUBSET D : B!SumOver(on(U)) \in Nat}
<1>1. \A U \in SUBSET D : IsFiniteSet(U) /\ on(U) \in [U -> Int] /\ f[U] = f[U]
  BY FS_Subset
<1>2. {} \in X
  <2>1. on({}) \in [{} -> Int]
    OBVIOUS
  <2>. HIDE DEF on
  <2>2. B!SumOver(on({})) = 0
    BY <2>1, SumNone
  <2>. QED  BY <2>2
<1>3. ASSUME NEW U \in SUBSET D, NEW x \in D \ U, U \in X PROVE U \cup {x} \in X
  <2>1. /\ on(U \cup {x}) \in [U \cup {x} -> Int] /\ on(U) \in [U -> Int] /\ on(U \cup {x})[x] = f[x]
        /\ \A y \in U : on(U)[y] = on(U \cup {x})[y]
    OBVIOUS
  <2>. HIDE DEF on
  <2>2. B!SumOver(on(U \cup {x})) = B!SumOver(on(U)) + on(U \cup {x})[x]
    BY <1>1, <2>1, SumMore
  <2>. QED  BY <1>3, <2>1, <2>2
<1>4. D \in X
  <2>. HIDE DEF X
  <2>. QED  BY <1>2, <1>3, SetsFrom
<1>5. on(D) = f
  OBVIOUS
<1>. QED  BY <1>4, <1>5

LEMMA SumLess ==
    ASSUME NEW D, IsFiniteSet(D), NEW f \in [D -> Int], NEW h \in [D -> Int], \A x \in D : f[x] <= h[x]
    PROVE  B!SumOver(f) <= B!SumOver(h)
<1>. DEFINE e == [x \in D |-> h[x] - f[x]]
<1>1. e \in [D -> Nat] /\ e \in [D -> Int]
  OBVIOUS
<1>2. [x \in D |-> f[x] + e[x]] = h
  OBVIOUS
<1>. HIDE DEF e
<1>3. B!SumOver(h) = B!SumOver(f) + B!SumOver(e)
  BY <1>1, <1>2, SumPlus
<1>4. B!SumOver(f) \in Int /\ B!SumOver(e) \in Nat
  BY <1>1, SumInt, SumNat
<1>. QED  BY <1>3, <1>4

(* The sums of the groups add up to the sum of all.                        *)
LEMMA SumGroups ==
    ASSUME NEW K, IsFiniteSet(K), NEW D, IsFiniteSet(D), NEW lab \in [K -> D], NEW f \in [K -> Int]
    PROVE  B!SumOver([d \in D |-> B!SumOver([k \in {j \in K : lab[j] = d} |-> f[k]])]) = B!SumOver(f)
<1>. DEFINE of(U, d) == {j \in U : lab[j] = d}
            on(U) == [k \in U |-> f[k]]
            by(U) == [d \in D |-> B!SumOver(on(of(U, d)))]
            X == {U \in SUBSET K : B!SumOver(by(U)) = B!SumOver(on(U))}
<1>1. \A U \in SUBSET K : IsFiniteSet(U) /\ on(U) \in [U -> Int]
  BY FS_Subset
<1>2. \A U \in SUBSET K : by(U) \in [D -> Int]
  <2>1. ASSUME NEW U \in SUBSET K, NEW d \in D PROVE B!SumOver(on(of(U, d))) \in Int
    <3>1. of(U, d) \in SUBSET K
      OBVIOUS
    <3>. HIDE DEF on, of
    <3>. QED  BY <1>1, <3>1, SumInt
  <2>. HIDE DEF on, of
  <2>. QED  BY <2>1
<1>3. {} \in X
  <2>1. \A d \in D : of({}, d) = {}
    OBVIOUS
  <2>2. B!SumOver(on({})) = 0
    BY SumNone
  <2>. HIDE DEF of, on
  <2>3. \A d \in D : by({})[d] = 0
    BY <2>1, <2>2
  <2>4. B!SumOver(by({})) = B!SumOver([d \in {} |-> by({})[d]])
    <3>. DEFINE e == by({})
    <3>1. e \in [D -> Int] /\ (\A d \in D \ {} : e[d] = 0) /\ {} \in SUBSET D
      BY <1>2, <2>3
    <3>. HIDE DEF e
    <3>2. B!SumOver(e) = B!SumOver(Only(e, {}))
      BY <3>1, SumWithin
    <3>. QED  BY <3>2 DEF e, Only
  <2>5. B!SumOver([d \in {} |-> by({})[d]]) = 0
    <3>. HIDE DEF by
    <3>. QED  BY SumNone
  <2>. HIDE DEF by
  <2>. QED  BY <2>2, <2>4, <2>5
<1>4. ASSUME NEW U \in SUBSET K, NEW x \in K \ U, U \in X PROVE U \cup {x} \in X
  <2>. DEFINE V == U \cup {x}
  <2>1. V \in SUBSET K /\ lab[x] \in D /\ f[x] \in Int
    OBVIOUS
  <2>2. \A d \in D \ {lab[x]} : of(V, d) = of(U, d)
    OBVIOUS
  <2>3. of(V, lab[x]) = of(U, lab[x]) \cup {x} /\ x \notin of(U, lab[x]) /\ of(U, lab[x]) \in SUBSET K
    OBVIOUS
  <2>4. ASSUME NEW T \in SUBSET K, x \notin T
        PROVE  B!SumOver(on(T \cup {x})) = B!SumOver(on(T)) + f[x]
    <3>1. on(T \cup {x}) = Only(f, T \cup {x}) /\ on(T) = Only(f, T)
      BY DEF Only
    <3>. HIDE DEF on
    <3>2. x \in K
      OBVIOUS
    <3>. QED  BY <2>4, <3>1, <3>2, SumGrows
  <2>5. B!SumOver(on(V)) = B!SumOver(on(U)) + f[x]
    BY <2>4
  <2>6. by(V)[lab[x]] = by(U)[lab[x]] + f[x]
    <3>. HIDE DEF on, of
    <3>1. B!SumOver(on(of(V, lab[x]))) = B!SumOver(on(of(U, lab[x]))) + f[x]
      BY <2>3, <2>4
    <3>. QED  BY <2>1, <3>1
  <2>7. \A d \in D \ {lab[x]} : by(U)[d] = by(V)[d]
    <3>. HIDE DEF on, of
    <3>. QED  BY <2>2
  <2>. HIDE DEF by, on, of, V
  <2>8. B!SumOver(by(V)) = B!SumOver(by(U)) - by(U)[lab[x]] + by(V)[lab[x]]
    BY <1>2, <2>1, <2>7, SumChange
  <2>9. B!SumOver(by(U)) \in Int /\ by(U)[lab[x]] \in Int
    BY <1>2, <2>1, SumInt
  <2>10. B!SumOver(by(U)) = B!SumOver(on(U))
    BY <1>4
  <2>11. B!SumOver(by(V)) = B!SumOver(on(V))
    BY <2>1, <2>5, <2>6, <2>8, <2>9, <2>10
  <2>. QED  BY <2>1, <2>11 DEF V
<1>5. K \in X
  <2>. HIDE DEF X
  <2>. QED  BY <1>3, <1>4, SetsFrom
<1>6. on(K) = f
  OBVIOUS
<1>. QED  BY <1>5, <1>6

(* A finite set has a first member in every order that is total on it.     *)
LEMMA FirstOf ==
    ASSUME NEW A, IsFiniteSet(A), A # {}, NEW R,
           \A x, y \in A : <<x, y>> \in R \/ <<y, x>> \in R,
           \A x, y, z \in A : <<x, y>> \in R /\ <<y, z>> \in R => <<x, z>> \in R
    PROVE  \E x \in A : \A y \in A : <<x, y>> \in R
<1>. DEFINE X == {T \in SUBSET A : T = {} \/ \E x \in T : \A y \in T : <<x, y>> \in R}
<1>1. {} \in X
  OBVIOUS
<1>2. ASSUME NEW T \in SUBSET A, NEW z \in A \ T, T \in X PROVE T \cup {z} \in X
  <2>1. CASE T = {}
    BY <2>1
  <2>2. CASE T # {}
    <3>1. PICK x \in T : \A y \in T : <<x, y>> \in R
      BY <1>2, <2>2
    <3>2. CASE <<x, z>> \in R
      BY <3>1, <3>2
    <3>3. CASE <<x, z>> \notin R
      BY <3>3, <3>1
    <3>. QED  BY <3>2, <3>3
  <2>. QED  BY <2>1, <2>2
<1>3. A \in X
  <2>. HIDE DEF X
  <2>. QED  BY <1>1, <1>2, SetsFrom
<1>. QED  BY <1>3

LEMMA EndsOf ==
    ASSUME NEW A, IsFiniteSet(A), A # {}, A \subseteq Int
    PROVE  /\ B!Min(A) \in A /\ \A x \in A : B!Min(A) <= x
           /\ B!Max(A) \in A /\ \A x \in A : B!Max(A) >= x
<1>. DEFINE up == {p \in Int \X Int : p[1] <= p[2]}
            down == {p \in Int \X Int : p[1] >= p[2]}
<1>1. \A x, y \in A : (<<x, y>> \in up <=> x <= y) /\ (<<x, y>> \in down <=> x >= y) /\ x \in Int /\ y \in Int
  OBVIOUS
<1>. HIDE DEF up, down
<1>2. \E x \in A : \A y \in A : <<x, y>> \in up
  <2>1. ASSUME NEW x \in A, NEW y \in A PROVE <<x, y>> \in up \/ <<y, x>> \in up
    BY <1>1
  <2>2. ASSUME NEW x \in A, NEW y \in A, NEW z \in A, <<x, y>> \in up, <<y, z>> \in up
        PROVE  <<x, z>> \in up
    BY <1>1, <2>2
  <2>. QED  BY <2>1, <2>2, FirstOf
<1>3. \E x \in A : \A y \in A : <<x, y>> \in down
  <2>1. ASSUME NEW x \in A, NEW y \in A PROVE <<x, y>> \in down \/ <<y, x>> \in down
    BY <1>1
  <2>2. ASSUME NEW x \in A, NEW y \in A, NEW z \in A, <<x, y>> \in down, <<y, z>> \in down
        PROVE  <<x, z>> \in down
    BY <1>1, <2>2
  <2>. QED  BY <2>1, <2>2, FirstOf
<1>4. \E x \in A : \A y \in A : x <= y
  BY <1>1, <1>2
<1>5. \E x \in A : \A y \in A : x >= y
  BY <1>1, <1>3
<1>. QED  BY <1>4, <1>5 DEF B!Min, B!Max

-----------------------------------------------------------------------------
(* The prices the rules speak of are numbers.                              *)

(* A division by something positive.                                       *)
LEMMA Divided ==
    ASSUME NEW a \in Int, NEW d \in Nat \ {0}
    PROVE  /\ a \div d \in Int /\ (a \div d) * d <= a /\ a < (a \div d) * d + d
OBVIOUS

LEMMA NotMore ==
    ASSUME NEW n \in Int, NEW a \in Int, NEW d \in Nat \ {0}, n <= a \div d
    PROVE  n * d <= a
<1>. DEFINE q == a \div d
<1>1. q \in Int /\ q * d <= a
  BY Divided
<1>. HIDE DEF q
<1>2. n <= q
  BY DEF q
<1>3. PICK k \in Nat : q = n + k
  BY <1>1, <1>2
<1>4. q * d = n * d + k * d /\ k * d \in Nat /\ n * d \in Int
  BY <1>3
<1>. QED  BY <1>1, <1>4

LEMMA PlusInt ==
    ASSUME NEW p \in Int, NEW pct \in Int
    PROVE  B!Plus(p, pct) \in Int
<1>1. p * (100 + pct) \in Int
  OBVIOUS
<1>. QED  BY <1>1 DEF B!Plus, B!Hundred

(* A dearer price or a wider margin moves it up.                           *)
LEMMA PlusGrows ==
    ASSUME NEW p \in Nat, NEW few \in Nat, NEW more \in Nat, few <= more
    PROVE  B!Plus(p, few) <= B!Plus(p, more)
<1>. DEFINE a == p * (100 + few)  b == p * (100 + more)
<1>1. a \in Int /\ b \in Int /\ a <= b
  <2>1. PICK k \in Nat : more = few + k
    OBVIOUS
  <2>2. b = a + p * k /\ p * k \in Nat /\ a \in Int
    BY <2>1
  <2>. QED  BY <2>2
<1>. HIDE DEF a, b
<1>2. a \div 100 <= b \div 100
  BY <1>1
<1>. QED  BY <1>2 DEF B!Plus, B!Hundred, a, b

LEMMA PlusNat ==
    ASSUME NEW p \in Nat, NEW pct \in Nat
    PROVE  B!Plus(p, pct) \in Nat
<1>1. p * (100 + pct) \in Nat
  OBVIOUS
<1>. QED  BY <1>1 DEF B!Plus, B!Hundred

LEMMA LargerInt ==
    ASSUME NEW x \in Int, NEW y \in Int
    PROVE  /\ B!Larger(x, y) \in Int /\ B!Larger(x, y) >= x /\ B!Larger(x, y) >= y
           /\ B!Larger(x, y) = x \/ B!Larger(x, y) = y
BY DEF B!Larger

LEMMA SmallerInt ==
    ASSUME NEW x \in Int, NEW y \in Int
    PROVE  /\ B!Smaller(x, y) \in Int /\ B!Smaller(x, y) <= x /\ B!Smaller(x, y) <= y
           /\ B!Smaller(x, y) = x \/ B!Smaller(x, y) = y
BY DEF B!Smaller

LEMMA WiderInt ==
    ASSUME NEW level \in Int, NEW anchor \in Int, NEW mult \in Nat, NEW range \in Nat
    PROVE  B!WiderATRLevel(level, anchor, mult, range) \in Int
<1>1. B!Plus(anchor, 1 - B!Hundred) \in Int
  BY PlusInt DEF B!Hundred
<1>2. mult * range \in Int
  OBVIOUS
<1>. DEFINE far == mult * range
<1>3. far \in Int
  BY <1>2
<1>4. B!WiderATRLevel(level, anchor, mult, range) \in {level, anchor - far, B!Plus(anchor, 1 - B!Hundred)}
  BY DEF B!WiderATRLevel
<1>. HIDE DEF far
<1>. QED  BY <1>1, <1>3, <1>4

LEMMA StopInt ==
    ASSUME NEW cfg, B!ExitsFit(cfg), NEW entry \in Int, NEW range \in Nat
    PROVE  B!StopLevel(cfg, entry, range) \in Int
<1>1. cfg.stop \in Nat /\ cfg.atrStop \in Nat
  BY DEF B!ExitsFit
<1>2. B!Plus(entry, -cfg.stop) \in Int
  <2>1. -cfg.stop \in Int
    BY <1>1
  <2>. QED  BY <2>1, PlusInt
<1>. DEFINE level == IF cfg.stop > 0 THEN B!Plus(entry, -cfg.stop) ELSE 0
<1>3. level \in Int
  BY <1>2
<1>. HIDE DEF level
<1>4. B!WiderATRLevel(level, entry, cfg.atrStop, range) \in Int
  BY <1>1, <1>3, WiderInt
<1>. QED  BY <1>4 DEF B!StopLevel, level

LEMMA TrailInt ==
    ASSUME NEW cfg, B!ExitsFit(cfg), NEW entry \in Int, NEW crest \in Int, NEW range \in Nat
    PROVE  B!TrailLevel(cfg, entry, crest, range) \in Int
<1>1. cfg.trail \in Nat /\ cfg.tight \in Nat /\ cfg.atrTrail \in Nat
  BY DEF B!ExitsFit
<1>. DEFINE pct == B!TrailStage(cfg, entry, crest).pct
<1>2. pct \in Nat
  BY <1>1 DEF B!TrailStage
<1>. HIDE DEF pct
<1>3. B!Plus(crest, -pct) \in Int
  BY <1>2, PlusInt
<1>. DEFINE level == IF pct > 0 THEN B!Plus(crest, -pct) ELSE 0
<1>4. level \in Int
  BY <1>3
<1>. HIDE DEF level
<1>5. B!WiderATRLevel(level, crest, cfg.atrTrail, range) \in Int
  BY <1>1, <1>4, WiderInt
<1>. QED  BY <1>5 DEF B!TrailLevel, level, pct

LEMMA RoiIs ==
    ASSUME NEW roi, roi \subseteq Nat \X Nat, IsFiniteSet(roi), NEW held, B!RoiThreshold(roi, held) # <<>>
    PROVE  B!RoiThreshold(roi, held)[2] \in Nat
<1>. DEFINE past == {s \in roi : s[1] <= held}
            over == {p \in (Nat \X Nat) \X (Nat \X Nat) : p[2][1] <= p[1][1]}
<1>1. past # {} /\ past \subseteq Nat \X Nat /\ IsFiniteSet(past)
  BY FS_Subset DEF B!RoiThreshold
<1>2. B!RoiThreshold(roi, held) = CHOOSE s \in past : \A t \in past : t[1] <= s[1]
  BY <1>1 DEF B!RoiThreshold
<1>3. ASSUME NEW x \in past, NEW y \in past PROVE (<<x, y>> \in over <=> y[1] <= x[1]) /\ x[1] \in Nat /\ y[1] \in Nat
  BY <1>1
<1>. HIDE DEF past, over
<1>4. ASSUME NEW x \in past, NEW y \in past PROVE <<x, y>> \in over \/ <<y, x>> \in over
  BY <1>3
<1>5. ASSUME NEW x \in past, NEW y \in past, NEW z \in past, <<x, y>> \in over, <<y, z>> \in over
      PROVE  <<x, z>> \in over
  BY <1>3, <1>5
<1>6. \E x \in past : \A y \in past : <<x, y>> \in over
  BY <1>1, <1>4, <1>5, FirstOf
<1>7. \E x \in past : \A y \in past : y[1] <= x[1]
  BY <1>3, <1>6
<1>8. B!RoiThreshold(roi, held) \in past
  BY <1>2, <1>7
<1>. QED  BY <1>1, <1>8

LEMMA LevelsInt ==
    ASSUME NEW cfg, B!ExitsFit(cfg), NEW entry \in Int, NEW crest \in Int, NEW range \in Nat, NEW held, NEW floor \in Int
    PROVE  LET levels == B!WithTrailFloor(B!Compute(cfg, entry, crest, range, held), cfg, floor)
           IN  levels.stop \in Int /\ levels.trail \in Int /\ levels.target \in Int
<1>. DEFINE levels == B!Compute(cfg, entry, crest, range, held)
<1>1. B!StopLevel(cfg, entry, range) \in Int
  BY StopInt
<1>2. B!TrailLevel(cfg, entry, B!Larger(crest, entry), range) \in Int
  BY LargerInt, TrailInt
<1>3. B!TargetLevel(cfg, entry, held).price \in Int
  <2>. DEFINE due == B!RoiThreshold(cfg.roi, held)
              fixed == IF cfg.take > 0 THEN B!Plus(entry, cfg.take) ELSE 0
  <2>1. cfg.take \in Nat /\ B!Plus(entry, cfg.take) \in Int
    <3>. DEFINE rate == cfg.take
    <3>1. rate \in Nat /\ rate \in Int
      BY DEF B!ExitsFit
    <3>. HIDE DEF rate, due, fixed
    <3>2. B!Plus(entry, rate) \in Int
      BY <3>1, PlusInt
    <3>. QED  BY <3>1, <3>2 DEF rate
  <2>2. fixed \in Int
    BY <2>1
  <2>3. due # <<>> => B!Plus(entry, due[2]) \in Int
    <3>1. SUFFICES ASSUME due # <<>> PROVE B!Plus(entry, due[2]) \in Int
      OBVIOUS
    <3>2. cfg.roi \subseteq Nat \X Nat /\ IsFiniteSet(cfg.roi)
      BY DEF B!ExitsFit, B!IsFiniteSet, IsFiniteSet
    <3>3. B!RoiThreshold(cfg.roi, held)[2] \in Nat
      BY <3>1, <3>2, RoiIs
    <3>. DEFINE pct == due[2]
    <3>4. pct \in Int
      BY <3>3
    <3>. HIDE DEF pct
    <3>5. B!Plus(entry, pct) \in Int
      BY <3>4, PlusInt
    <3>. QED  BY <3>5 DEF pct
  <2>. HIDE DEF due, fixed
  <2>4. B!TargetLevel(cfg, entry, held).price = IF due # <<>> /\ (fixed = 0 \/ B!Plus(entry, due[2]) < fixed)
                                                THEN B!Plus(entry, due[2]) ELSE fixed
    BY DEF B!TargetLevel, due, fixed
  <2>. QED  BY <2>2, <2>3, <2>4
<1>4. levels.stop \in Int /\ levels.trail \in Int /\ levels.target \in Int
      /\ {"stop", "trail", "target"} \subseteq DOMAIN levels
  BY <1>1, <1>2, <1>3 DEF B!Compute
<1>. HIDE DEF levels
<1>5. /\ B!WithTrailFloor(levels, cfg, floor).stop = levels.stop
      /\ B!WithTrailFloor(levels, cfg, floor).target = levels.target
      /\ B!WithTrailFloor(levels, cfg, floor).trail \in {levels.trail, floor}
  BY <1>4 DEF B!WithTrailFloor
<1>. QED  BY <1>4, <1>5 DEF levels

LEMMA RebasedInt ==
    ASSUME NEW cfg, B!ExitsFit(cfg), NEW entry \in Int, NEW crest \in Int, NEW floor \in Int, NEW range \in Nat,
           NEW avg \in Int, NEW px \in Int
    PROVE  B!RebaseOnAdd(cfg, entry, crest, floor, range, avg, px) \in [peak : Int, floor : Int]
<1>1. B!WithTrailFloor(B!Compute(cfg, entry, crest, range, 0), cfg, floor).trail \in Int
  BY LevelsInt
<1>2. B!Larger(floor, B!WithTrailFloor(B!Compute(cfg, entry, crest, range, 0), cfg, floor).trail) \in Int
  BY <1>1, LargerInt
<1>3. B!Larger(avg, px) \in Int
  BY LargerInt
<1>. QED  BY <1>2, <1>3 DEF B!RebaseOnAdd

-----------------------------------------------------------------------------
(* What the money limits leave.                                            *)

(* A book whose figures are numbers.                                       *)
BookFits(book, s) == {book.cash, book.equity, book.invested, book.spent, book.value[s]} \subseteq Int

LEMMA UnnamedNat ==
    ASSUME NEW caps, B!CapsFit(caps), NEW least \in Nat
    PROVE  B!UnnamedSlots(caps, least) \in Nat
<1>1. caps.slots \in [DOMAIN caps.slots -> Int] /\ IsFiniteSet(DOMAIN caps.slots)
  BY DEF B!CapsFit, B!IsFiniteSet, IsFiniteSet
<1>2. B!SumOver(caps.slots) \in Int
  BY <1>1, SumInt
<1>. QED  BY <1>2, LargerInt DEF B!UnnamedSlots

LEMMA LeftoverInt ==
    ASSUME NEW caps, B!CapsFit(caps), NEW base \in Int, NEW least \in Nat
    PROVE  B!LeftoverSlot(caps, base, least) \in Int
<1>. DEFINE unbudgeted == DOMAIN caps.slots \ DOMAIN caps.share
            budgets == [c \in unbudgeted |-> caps.slots[c]]
            divisor == B!UnnamedSlots(caps, least) + B!SumOver(budgets)
            left == B!Larger(0, B!Hundred - B!SumOver(caps.share))
<1>1. IsFiniteSet(DOMAIN caps.slots) /\ IsFiniteSet(DOMAIN caps.share) /\ caps.share \in [DOMAIN caps.share -> Int]
      /\ caps.slots \in [DOMAIN caps.slots -> Nat]
  BY DEF B!CapsFit, B!IsFiniteSet, IsFiniteSet
<1>2. B!SumOver(budgets) \in Nat
  <2>1. IsFiniteSet(unbudgeted) /\ budgets \in [unbudgeted -> Nat]
    BY <1>1, FS_Subset
  <2>. HIDE DEF unbudgeted, budgets
  <2>. QED  BY <2>1, SumNat
<1>3. B!SumOver(caps.share) \in Int
  BY <1>1, SumInt
<1>. HIDE DEF budgets
<1>4. divisor \in Nat
  BY <1>2, UnnamedNat
<1>5. left \in Int
  BY <1>3, LargerInt DEF B!Hundred
<1>. HIDE DEF divisor, left
<1>6. divisor # 0 => (left * base) \div (100 * divisor) \in Int
  <2>1. SUFFICES ASSUME divisor # 0 PROVE (left * base) \div (100 * divisor) \in Int
    OBVIOUS
  <2>2. left * base \in Int /\ 100 * divisor \in Nat \ {0}
    BY <1>4, <1>5, <2>1
  <2>. QED  BY <2>2, Divided
<1>7. B!LeftoverSlot(caps, base, least) = IF divisor = 0 THEN -1 ELSE (left * base) \div (B!Hundred * divisor)
  BY DEF B!LeftoverSlot, divisor, left, budgets
<1>. QED  BY <1>6, <1>7 DEF B!Hundred

LEMMA SlotInt ==
    ASSUME NEW caps, B!CapsFit(caps), NEW s, NEW base \in Int, NEW least \in Nat
    PROVE  B!MaxPositionValue(caps, s, base, least) \in Int
<1>. DEFINE class == caps.class[s]
            n == IF class \in DOMAIN caps.slots THEN caps.slots[class] ELSE B!UnnamedSlots(caps, least)
<1>1. n \in Nat
  BY UnnamedNat DEF B!CapsFit
<1>2. class \in DOMAIN caps.share => caps.share[class] \in Nat
  BY DEF B!CapsFit
<1>3. B!LeftoverSlot(caps, base, least) \in Int
  BY LeftoverInt
<1>4. least > 1 => base \div least \in Int
  BY Divided
<1>. HIDE DEF class, n
<1>5. class \in DOMAIN caps.share /\ n # 0 => (caps.share[class] * base) \div (100 * n) \in Int
  <2>1. SUFFICES ASSUME class \in DOMAIN caps.share, n # 0
                 PROVE  (caps.share[class] * base) \div (100 * n) \in Int
    OBVIOUS
  <2>2. caps.share[class] * base \in Int /\ 100 * n \in Nat \ {0}
    BY <1>1, <1>2, <2>1
  <2>. QED  BY <2>2, Divided
<1>6. B!MaxPositionValue(caps, s, base, least) \in
        {-1} \cup (IF least > 1 THEN {base \div least} ELSE {})
        \cup (IF class \in DOMAIN caps.share /\ n # 0 THEN {(caps.share[class] * base) \div (100 * n)} ELSE {})
        \cup {B!LeftoverSlot(caps, base, least)}
  BY <1>1 DEF B!MaxPositionValue, class, n, B!Hundred
<1>. QED  BY <1>3, <1>4, <1>5, <1>6

LEMMA BaseInt ==
    ASSUME NEW limits, B!LimitsFit(limits), NEW book, NEW s, BookFits(book, s)
    PROVE  B!InvestableBase(limits, book) \in Int
<1>1. limits.reserve \in Nat /\ limits.invested \in Nat /\ book.equity \in Int
  BY DEF B!LimitsFit, BookFits
<1>. DEFINE free == book.equity - limits.reserve
<1>2. free \in Int
  BY <1>1
<1>. HIDE DEF free
<1>. DEFINE most == limits.invested
<1>3. B!Smaller(free, most) \in Int
  <2>1. most \in Int
    BY <1>1
  <2>. HIDE DEF most
  <2>. QED  BY <1>2, <2>1, SmallerInt
<1>. QED  BY <1>2, <1>3 DEF B!InvestableBase, free

LEMMA EffectiveNat ==
    ASSUME NEW costs, B!CostsFit(costs), NEW p \in Nat
    PROVE  /\ B!EffectivePrice(costs, p) \in Nat \ {0}
           /\ B!Plus(p, costs.adverse) \in Nat /\ B!Plus(p, costs.adverse) <= B!EffectivePrice(costs, p)
<1>1. costs.adverse \in Nat /\ costs.fee \in Nat /\ costs.adverse + costs.fee \in Nat
      /\ costs.adverse <= costs.adverse + costs.fee
  BY DEF B!CostsFit
<1>2. B!Plus(p, costs.adverse + costs.fee) \in Nat /\ B!Plus(p, costs.adverse) \in Nat
  BY <1>1, PlusNat
<1>3. B!Plus(p, costs.adverse) <= B!Plus(p, costs.adverse + costs.fee)
  BY <1>1, PlusGrows
<1>. QED  BY <1>2, <1>3 DEF B!EffectivePrice

CashRule(limits, costs, book, p) ==
    [left |-> book.cash - limits.reserve - costs.fixed, price |-> B!EffectivePrice(costs, p)]

LEMMA RulesFit ==
    ASSUME NEW limits, B!LimitsFit(limits), NEW costs, B!CostsFit(costs), NEW caps, B!CapsFit(caps),
           NEW book, NEW s, BookFits(book, s), NEW p \in Nat \ {0}
    PROVE  LET rules == B!BuyCapRules(limits, costs, caps, book, s, p)
           IN  /\ IsFiniteSet(rules) /\ rules \subseteq [left : Int, price : Nat \ {0}]
               /\ CashRule(limits, costs, book, p) \in rules
<1>. DEFINE eff == B!EffectivePrice(costs, p)
            slot == B!MaxPositionValue(caps, s, B!InvestableBase(limits, book), limits.slots)
            held == book.value[s]
            one(on, left, at) == IF on THEN {[left |-> left, price |-> at]} ELSE {}
            bySlot == {[left |-> q - held, price |-> p] : q \in {slot} \ {-1}}
<1>1. eff \in Nat \ {0}
  BY EffectiveNat
<1>2. limits.slots \in Nat
  BY DEF B!LimitsFit
<1>3. slot \in Int
  BY <1>2, BaseInt, SlotInt
<1>4. /\ limits.order \in Int /\ limits.position \in Int /\ limits.invested \in Int /\ limits.daily \in Int
      /\ limits.reserve \in Int /\ costs.fixed \in Int /\ held \in Int
      /\ book.cash \in Int /\ book.invested \in Int /\ book.spent \in Int
  BY DEF B!LimitsFit, B!CostsFit, BookFits
<1>. HIDE DEF eff, slot, held
<1>5. bySlot = IF slot = -1 THEN {} ELSE {[left |-> slot - held, price |-> p]}
  OBVIOUS
<1>. DEFINE rules == one(limits.order > 0, limits.order, p) \cup one(limits.position > 0, limits.position - held, p)
                     \cup bySlot \cup one(limits.invested > 0, limits.invested - book.invested, p)
                     \cup one(limits.daily > 0, limits.daily - book.spent - costs.fixed, eff)
                     \cup one(TRUE, book.cash - limits.reserve - costs.fixed, eff)
<1>6. B!BuyCapRules(limits, costs, caps, book, s, p) = rules
  BY DEF B!BuyCapRules, eff, slot, held
<1>7. rules \subseteq [left : Int, price : Nat \ {0}]
  <2>1. ASSUME NEW on, NEW left \in Int, NEW at \in Nat \ {0}
        PROVE  one(on, left, at) \subseteq [left : Int, price : Nat \ {0}]
    OBVIOUS
  <2>2. bySlot \subseteq [left : Int, price : Nat \ {0}]
    <3>1. slot - held \in Int
      BY <1>3, <1>4
    <3>. HIDE DEF bySlot
    <3>. QED  BY <1>5, <3>1
  <2>3. /\ limits.position - held \in Int /\ limits.invested - book.invested \in Int
        /\ limits.daily - book.spent - costs.fixed \in Int /\ book.cash - limits.reserve - costs.fixed \in Int
    BY <1>4
  <2>. HIDE DEF one, bySlot
  <2>4. /\ one(limits.order > 0, limits.order, p) \subseteq [left : Int, price : Nat \ {0}]
        /\ one(limits.position > 0, limits.position - held, p) \subseteq [left : Int, price : Nat \ {0}]
        /\ one(limits.invested > 0, limits.invested - book.invested, p) \subseteq [left : Int, price : Nat \ {0}]
        /\ one(limits.daily > 0, limits.daily - book.spent - costs.fixed, eff) \subseteq [left : Int, price : Nat \ {0}]
        /\ one(TRUE, book.cash - limits.reserve - costs.fixed, eff) \subseteq [left : Int, price : Nat \ {0}]
    BY <1>1, <1>4, <2>1, <2>3
  <2>. QED  BY <2>2, <2>4
<1>8. IsFiniteSet(rules)
  <2>1. ASSUME NEW on, NEW left, NEW at PROVE IsFiniteSet(one(on, left, at))
    <3>. DEFINE r == [left |-> left, price |-> at]
    <3>. HIDE DEF r
    <3>1. IsFiniteSet({r}) /\ IsFiniteSet({})
      BY FS_Singleton, FS_EmptySet
    <3>. QED  BY <3>1 DEF r
  <2>2. IsFiniteSet(bySlot)
    <3>. DEFINE r == [left |-> slot - held, price |-> p]
    <3>1. bySlot = {r} \/ bySlot = {}
      BY <1>5
    <3>2. IsFiniteSet({r}) /\ IsFiniteSet({})
      BY FS_Singleton, FS_EmptySet
    <3>. HIDE DEF r, bySlot
    <3>. QED  BY <3>1, <3>2
  <2>. HIDE DEF one, bySlot
  <2>. QED  BY <2>1, <2>2, FS_Union
<1>9. CashRule(limits, costs, book, p) \in rules
  BY DEF CashRule, eff
<1>. HIDE DEF rules
<1>. QED  BY <1>6, <1>7, <1>8, <1>9

(* The values a function has on a finite set.                              *)
LEMMA ImageFinite ==
    ASSUME NEW A, IsFiniteSet(A), NEW f, DOMAIN f = A
    PROVE  IsFiniteSet({f[x] : x \in A})
<1>. DEFINE T == {f[x] : x \in A}
            h == [x \in A |-> f[x]]
<1>1. h \in [A -> T] /\ \A y \in T : \E x \in A : h[x] = y
  OBVIOUS
<1>. HIDE DEF h, T
<1>2. h \in Surjection(A, T)
  BY <1>1 DEF Surjection
<1>3. IsFiniteSet(T)
  BY <1>2, FS_Surjection
<1>. QED  BY <1>3 DEF T

LEMMA LeastRoom ==
    ASSUME NEW rules, IsFiniteSet(rules), rules \subseteq [left : Int, price : Nat \ {0}], NEW qty \in Int
    PROVE  LET rooms == {r.left \div r.price : r \in rules} \cup {qty}
           IN  B!Min(rooms) \in rooms /\ B!Min(rooms) \in Int /\ \A x \in rooms : B!Min(rooms) <= x
<1>. DEFINE room(r) == r.left \div r.price
            each == {room(r) : r \in rules}
            rooms == each \cup {qty}
<1>1. IsFiniteSet(each)
  <2>. DEFINE f == [r \in rules |-> room(r)]
  <2>1. DOMAIN f = rules /\ each = {f[r] : r \in rules}
    OBVIOUS
  <2>. HIDE DEF f, each
  <2>. QED  BY <2>1, ImageFinite
<1>2. \A r \in rules : room(r) \in Int
  <2>1. ASSUME NEW r \in rules PROVE room(r) \in Int
    BY Divided
  <2>. QED  BY <2>1
<1>. HIDE DEF room
<1>3. rooms \subseteq Int /\ rooms # {}
  BY <1>2
<1>4. IsFiniteSet(rooms)
  BY <1>1, FS_AddElement
<1>. HIDE DEF rooms
<1>5. B!Min(rooms) \in rooms /\ \A x \in rooms : B!Min(rooms) <= x
  BY <1>3, <1>4, EndsOf
<1>. QED  BY <1>3, <1>5 DEF rooms, room

(* An order that is let through is no larger than it was, and the money     *)
(* above the reserve pays for it.                                          *)
LEMMA AuthorizedFits ==
    ASSUME NEW limits, B!LimitsFit(limits), NEW costs, B!CostsFit(costs), NEW caps, B!CapsFit(caps),
           NEW book, NEW s, BookFits(book, s), NEW p \in Nat \ {0}, NEW qty \in Int
    PROVE  LET n == B!Authorized(limits, costs, caps, book, s, qty, p)
           IN  /\ n \in Nat
               /\ n > 0 => /\ n <= qty
                          /\ n * B!EffectivePrice(costs, p) <= book.cash - limits.reserve - costs.fixed
<1>. DEFINE rules == B!BuyCapRules(limits, costs, caps, book, s, p)
            rooms == {r.left \div r.price : r \in rules} \cup {qty}
            room == B!Min(rooms)
            n == B!Authorized(limits, costs, caps, book, s, qty, p)
            money == CashRule(limits, costs, book, p)
<1>1. IsFiniteSet(rules) /\ rules \subseteq [left : Int, price : Nat \ {0}] /\ money \in rules
  BY RulesFit
<1>2. n \in {0, B!Larger(0, room)}
  BY DEF B!Authorized
<1>. HIDE DEF rules, n, money
<1>3. room \in Int /\ \A x \in rooms : room <= x
  BY <1>1, LeastRoom
<1>4. room <= qty /\ room <= money.left \div money.price
  BY <1>1, <1>3
<1>. HIDE DEF rooms, room
<1>5. money.left \in Int /\ money.price \in Nat \ {0}
  BY <1>1
<1>6. room * money.price <= money.left
  BY <1>3, <1>4, <1>5, NotMore
<1>7. n \in Nat /\ (n > 0 => n = room)
  BY <1>2, <1>3 DEF B!Larger
<1>8. money.left = book.cash - limits.reserve - costs.fixed /\ money.price = B!EffectivePrice(costs, p)
  BY DEF money, CashRule
<1>9. n > 0 => n <= qty /\ n * money.price <= money.left
  BY <1>4, <1>6, <1>7
<1>. QED  BY <1>7, <1>8, <1>9 DEF n

LEMMA HeadroomNat ==
    ASSUME NEW limits, B!LimitsFit(limits), NEW costs, B!CostsFit(costs), NEW caps, B!CapsFit(caps),
           NEW book, NEW s, BookFits(book, s), NEW p \in Nat \ {0}
    PROVE  B!Headroom(limits, costs, caps, book, s, p) \in Nat
<1>. DEFINE rules == B!BuyCapRules(limits, costs, caps, book, s, p)
            room(r) == (r.left * p) \div r.price
            rooms == {room(r) : r \in rules}
            money == CashRule(limits, costs, book, p)
<1>1. IsFiniteSet(rules) /\ rules \subseteq [left : Int, price : Nat \ {0}] /\ money \in rules
  BY RulesFit
<1>2. B!Headroom(limits, costs, caps, book, s, p) = B!Larger(0, B!Min(rooms))
  BY DEF B!Headroom
<1>. HIDE DEF rules, money
<1>3. ASSUME NEW r \in rules PROVE room(r) \in Int
  BY <1>1, Divided
<1>. HIDE DEF room
<1>4. IsFiniteSet(rooms) /\ rooms \subseteq Int /\ rooms # {}
  <2>. DEFINE f == [r \in rules |-> room(r)]
  <2>1. DOMAIN f = rules /\ rooms = {f[r] : r \in rules} /\ rooms \subseteq Int /\ rooms # {}
    BY <1>1, <1>3
  <2>. HIDE DEF f, rooms
  <2>. QED  BY <1>1, <2>1, ImageFinite
<1>. HIDE DEF rooms
<1>5. B!Min(rooms) \in Int
  BY <1>4, EndsOf
<1>6. B!Larger(0, B!Min(rooms)) \in Nat
  BY <1>5 DEF B!Larger
<1>. QED  BY <1>2, <1>6

LEMMA SizeNat ==
    ASSUME NEW limits, B!LimitsFit(limits), NEW costs, B!CostsFit(costs), NEW caps, B!CapsFit(caps),
           NEW book, NEW s, BookFits(book, s), NEW p \in Nat, NEW cfg, B!ExitsFit(cfg), NEW range \in Nat,
           NEW size, {size.most, size.least} \subseteq Nat
    PROVE  B!SizeBuy(limits, costs, caps, book, s, p, cfg, size, range) \in Nat
<1>. DEFINE base == B!Headroom(limits, costs, caps, book, s, p)
            width == p - B!StopLevel(cfg, p, range)
            scaled == B!RiskScaled(cfg, p, range, base)
<1>1. SUFFICES ASSUME p > 0 PROVE B!Sized(size, scaled) \in Nat
  <2>. HIDE DEF scaled
  <2>. QED  BY DEF B!SizeBuy, scaled
<1>2. base \in Nat
  BY <1>1, HeadroomNat
<1>3. width \in Int
  BY StopInt
<1>4. scaled = B!ScaledTo(width, cfg, p, base)
  BY DEF B!RiskScaled
<1>. HIDE DEF base, width, scaled
<1>5. scaled \in Nat
  <2>1. CASE ~cfg.on \/ cfg.stop = 0 \/ width <= 0 \/ width >= p
    BY <1>2, <1>4, <2>1 DEF B!ScaledTo
  <2>2. CASE ~(~cfg.on \/ cfg.stop = 0 \/ width <= 0 \/ width >= p)
    <3>. DEFINE much == base * cfg.stop * p
    <3>1. cfg.stop \in Nat
      BY DEF B!ExitsFit
    <3>2. much \in Nat /\ 100 * width \in Nat \ {0}
      BY <1>2, <1>3, <2>2, <3>1
    <3>. HIDE DEF much
    <3>3. much \div (100 * width) \in Nat
      BY <3>2
    <3>4. scaled = B!Smaller(base, much \div (100 * width))
      BY <1>4, <2>2 DEF B!ScaledTo, B!Hundred, much
    <3>. QED  BY <1>2, <3>3, <3>4 DEF B!Smaller
  <2>. QED  BY <2>1, <2>2
<1>6. size.most \in Nat /\ size.least \in Nat
  OBVIOUS
<1>. QED  BY <1>5, <1>6 DEF B!Sized, B!Smaller

-----------------------------------------------------------------------------
(* The invariant of a replay.  That the cash balances is not inductive     *)
(* alone: the shares of cost and commission a sale takes from a position   *)
(* must be all of it when the position ends, and the trips must tell of    *)
(* every sale once.  That fills were traded needs what is known of the bar *)
(* and of the marks while the passes walk the symbols.                     *)

TripFits(t) ==
    /\ {"since", "orig", "taken", "fees", "pnl"} \subseteq DOMAIN t
    /\ {t.since, t.orig, t.fees, t.pnl} \subseteq Int /\ t.taken \in Nat

IsSeq(s) == \E V : s \in Seq(V)

ResultsFit(q) == IsSeq(q) /\ \A k \in 1..Len(q) : q[k].pnl \in Int

(* The account: no position without a trip nor a trip without one, and     *)
(* every sale in exactly one trip.                                         *)
AccountFits ==
    /\ cash \in Int /\ spent \in [day : Int, sum : Int]
    /\ pos \in [B!Traded -> [qty : Nat, cost : Int]]
    /\ prices \in [B!Traded -> Nat]
    /\ trail \in [B!Traded -> [peak : Int, floor : Int]]
    /\ trip = [s \in B!Traded |-> trip[s]] /\ \A s \in B!Traded : TripFits(trip[s])
    /\ ResultsFit(tranches) /\ ResultsFit(trips)
    /\ \A k \in 1..Len(trips) : trips[k].held \in 0..barNo
    /\ \A s \in B!Traded : IF pos[s].qty = 0 THEN pos[s].cost = 0 /\ trip[s] = B!NoTrip
                           ELSE trip[s].since \in 0..barNo
    /\ B!BooksBalance
    /\ B!Pnl(trips) + B!SumOver([s \in B!Traded |-> trip[s].pnl]) = B!Pnl(tranches)

Queued(q) == q # <<>> => q[1].notional \in Nat

Distinct(q) == \A j, k \in 1..Len(q) : q[j] = q[k] => j = k

(* The bar: where the pass over the symbols stands, and what is known of   *)
(* the prices so far.                                                      *)
BarFits ==
    /\ replay \in Settings
    /\ barNo \in Int /\ barNo >= -1 /\ (phase # "next" => barNo >= 0)
    /\ todo \in Seq(B!Traded) /\ Distinct(todo)
    /\ atr \in [B!Traded -> Nat]
    /\ bar \in [B!Traded -> [open : Nat, high : Nat, low : Nat, close : Nat, atr : Nat]]
    /\ phase # "next" => \A s \in B!Traded : bar[s] \in B!SoundBars
    /\ phase = "open" => \A s \in B!Traded : prices[s] = bar[s].open
    /\ phase = "add" => \A k \in 1..Len(todo) : prices[todo[k]] = bar[todo[k]].open
    /\ pending = [s \in B!Traded |-> pending[s]] /\ \A s \in B!Traded : Queued(pending[s])
    /\ added \in [B!Traded -> [bar : Int, at : Int]]
    /\ \A s \in B!Traded : /\ added[s].bar <= barNo
                           /\ phase # "next" /\ added[s].bar = barNo => added[s].at \in bar[s].low .. bar[s].high

FillFits ==
    /\ fill.bar \in Int /\ fill.bar <= barNo
    /\ phase \in {"open", "add"} /\ fill.bar = barNo /\ fill.side = "sell" => fill.how = "strategy"
    /\ B!FillsWereTraded

CurveFits ==
    /\ equity \in Seq(Int)
    /\ Len(equity) = IF phase \in {"next", "done"} THEN barNo + 1 ELSE barNo
    /\ phase = "done" => equity[Len(equity)] = B!Book.equity

BookInv == AccountFits /\ BarFits /\ FillFits /\ CurveFits

LEMMA TradedFinite ==
    ASSUME B!BacktestAssumption
    PROVE  IsFiniteSet(B!Traded)
<1>1. Order \in Seq(B!Traded)
  BY DEF B!BacktestAssumption
<1>2. DOMAIN Order = 1..Len(Order) /\ Len(Order) \in Nat
  BY <1>1
<1>3. IsFiniteSet(1..Len(Order))
  BY <1>2, FS_Interval
<1>4. IsFiniteSet({Order[k] : k \in DOMAIN Order})
  BY <1>2, <1>3, ImageFinite
<1>. QED  BY <1>4 DEF B!Traded, B!Range

(* The book at any marks.                                                  *)
LEMMA BookAtFits ==
    ASSUME B!BacktestAssumption, AccountFits, NEW marks \in [B!Traded -> Nat]
    PROVE  LET book == B!BookAt(marks)
               value == [s \in B!Traded |-> pos[s].qty * marks[s]]
           IN  /\ book.value = value /\ value \in [B!Traded -> Nat] /\ B!SumOver(value) \in Nat
               /\ book.cash = cash /\ book.equity = cash + B!SumOver(value)
               /\ \A s \in B!Traded : BookFits(book, s)
<1>. DEFINE value == [s \in B!Traded |-> pos[s].qty * marks[s]]
            book == B!BookAt(marks)
<1>1. value \in [B!Traded -> Nat]
  <2>1. ASSUME NEW s \in B!Traded PROVE pos[s].qty * marks[s] \in Nat
    BY DEF AccountFits
  <2>. QED  BY <2>1
<1>2. /\ book.value = value /\ book.cash = cash /\ book.equity = cash + B!SumOver(value)
      /\ book.invested = B!SumOver(value) /\ book.spent \in {spent.sum, 0}
  BY DEF B!BookAt
<1>. HIDE DEF value, book
<1>3. B!SumOver(value) \in Nat
  BY <1>1, TradedFinite, SumNat
<1>4. cash \in Int /\ spent.sum \in Int
  BY DEF AccountFits
<1>5. \A s \in B!Traded : BookFits(book, s)
  BY <1>1, <1>2, <1>3, <1>4 DEF BookFits
<1>. QED  BY <1>1, <1>2, <1>3, <1>5 DEF value, book

LEMMA SettingIs ==
    ASSUME B!BacktestAssumption, replay \in Settings
    PROVE  /\ B!LimitsFit(replay.limits) /\ B!CostsFit(replay.costs) /\ B!CapsFit(replay.caps) /\ B!ExitsFit(replay.exits)
           /\ {replay.scaleIn.step, replay.scaleIn.size, replay.size.most, replay.size.least} \subseteq Nat
           /\ replay.cash \in Nat \ {0}
           /\ \A s \in B!Traded : replay.bars[s] \subseteq B!SoundBars
BY DEF B!BacktestAssumption, B!SettingFits

LEMMA PricesHaveMargins ==
    ASSUME B!BacktestAssumption, replay \in Settings, NEW at \in Int
    PROVE  /\ B!Plus(at, replay.costs.adverse) \in Int /\ B!Plus(at, -replay.costs.adverse) \in Int
           /\ replay.costs.fixed \in Nat
<1>1. replay.costs.adverse \in Int /\ -replay.costs.adverse \in Int /\ replay.costs.fixed \in Nat
  BY SettingIs DEF B!CostsFit
<1>. HIDE DEF B!CostsFit
<1>. DEFINE up == replay.costs.adverse  down == -replay.costs.adverse
<1>2. up \in Int /\ down \in Int
  BY <1>1
<1>. HIDE DEF up, down
<1>3. B!Plus(at, up) \in Int /\ B!Plus(at, down) \in Int
  BY <1>2, PlusInt
<1>. QED  BY <1>1, <1>3 DEF up, down

(* What a buy gets, it can pay for.                                        *)
LEMMA BoughtFits ==
    ASSUME B!BacktestAssumption, AccountFits, replay \in Settings,
           NEW s \in B!Traded, NEW n \in Int, NEW at \in Nat \ {0}
    PROVE  LET m == B!Bought(s, n, at)
           IN  /\ m \in Nat
               /\ m > 0 => /\ m <= n
                           /\ m * B!Plus(at, replay.costs.adverse) + replay.costs.fixed + replay.limits.reserve <= cash
<1>. DEFINE most == B!Authorized(replay.limits, replay.costs, replay.caps, B!Book, s, n, at)
            m == B!Bought(s, n, at)
            eff == B!EffectivePrice(replay.costs, at)
            px == B!Plus(at, replay.costs.adverse)
<1>1. BookFits(B!Book, s) /\ B!Book.cash = cash
  BY BookAtFits DEF AccountFits, B!Book
<1>2. /\ most \in Nat
      /\ most > 0 => most <= n /\ most * eff <= cash - replay.limits.reserve - replay.costs.fixed
  BY <1>1, SettingIs, AuthorizedFits
<1>3. px \in Nat /\ px <= eff /\ eff \in Nat
  BY SettingIs, EffectiveNat
<1>4. m \in {0, most}
  BY DEF B!Bought
<1>5. replay.limits.reserve \in Nat /\ replay.costs.fixed \in Nat /\ cash \in Int
  BY SettingIs DEF B!LimitsFit, B!CostsFit, AccountFits
<1>. HIDE DEF most, eff, px, m
<1>6. most * px <= most * eff /\ most * px \in Nat /\ most * eff \in Nat
  <2>1. PICK k \in Nat : eff = px + k
    BY <1>3
  <2>2. most * eff = most * px + most * k /\ most * k \in Nat /\ most * px \in Nat
    BY <1>2, <1>3, <2>1
  <2>. QED  BY <2>2
<1>7. most > 0 => most * px + replay.costs.fixed + replay.limits.reserve <= cash
  BY <1>2, <1>5, <1>6
<1>. QED  BY <1>2, <1>4, <1>7 DEF m, px

-----------------------------------------------------------------------------
(* The account, through a buy and through a sale.                          *)

LEMMA PnlInt ==
    ASSUME NEW q, ResultsFit(q)
    PROVE  B!Pnl(q) \in Int /\ Len(q) \in Nat /\ DOMAIN q = 1..Len(q)
<1>1. DOMAIN q = 1..Len(q) /\ Len(q) \in Nat
  BY DEF ResultsFit, IsSeq
<1>. DEFINE f == [k \in DOMAIN q |-> q[k]["pnl"]]
<1>2. f \in [DOMAIN q -> Int]
  BY <1>1 DEF ResultsFit
<1>3. B!Pnl(q) = B!SumOver(f)
  BY DEF B!Pnl, B!SumOf
<1>. HIDE DEF f
<1>4. IsFiniteSet(DOMAIN q)
  BY <1>1, FS_Interval
<1>5. B!SumOver(f) \in Int
  BY <1>2, <1>4, SumInt
<1>. QED  BY <1>1, <1>3, <1>5

LEMMA PnlGrows ==
    ASSUME NEW q, ResultsFit(q), NEW x, x.pnl \in Int
    PROVE  /\ B!Pnl(Append(q, x)) = B!Pnl(q) + x.pnl /\ ResultsFit(Append(q, x))
           /\ Len(Append(q, x)) = Len(q) + 1 /\ Append(q, x)[Len(q) + 1] = x
           /\ \A k \in 1..Len(q) : Append(q, x)[k] = q[k]
<1>. DEFINE more == Append(q, x)
<1>1. PICK V : q \in Seq(V)
  BY DEF ResultsFit, IsSeq
<1>2. q \in Seq(V \cup {x}) /\ x \in V \cup {x}
  BY <1>1
<1>3. /\ more \in Seq(V \cup {x}) /\ Len(more) = Len(q) + 1 /\ Len(q) \in Nat
      /\ \A k \in 1..Len(q) : more[k] = q[k]
      /\ more[Len(q) + 1] = x
  BY <1>2
<1>4. DOMAIN more = 1..Len(q) + 1 /\ DOMAIN q = 1..Len(q) /\ 1..Len(q) + 1 = 1..Len(q) \cup {Len(q) + 1}
  BY <1>1, <1>3
<1>. HIDE DEF more
<1>5. ResultsFit(more)
  BY <1>3 DEF ResultsFit, IsSeq
<1>. DEFINE D == 1..Len(q)
            f == [k \in DOMAIN more |-> more[k]["pnl"]]
            n == Len(q) + 1
<1>6. f \in [DOMAIN more -> Int] /\ f[n] = x.pnl
  BY <1>3, <1>4, <1>5 DEF ResultsFit
<1>7. Only(f, D \cup {n}) = f /\ Only(f, D) = [k \in DOMAIN q |-> q[k]["pnl"]]
  BY <1>3, <1>4 DEF Only
<1>8. B!Pnl(more) = B!SumOver(f) /\ B!Pnl(q) = B!SumOver(Only(f, D))
  BY <1>7 DEF B!Pnl, B!SumOf
<1>9. D \in SUBSET DOMAIN more /\ n \in DOMAIN more \ D /\ IsFiniteSet(DOMAIN more)
  <2>1. IsFiniteSet(1..Len(q) + 1)
    BY <1>3, FS_Interval
  <2>. QED  BY <1>3, <1>4, <2>1
<1>. HIDE DEF f, D, n
<1>10. B!SumOver(Only(f, D \cup {n})) = B!SumOver(Only(f, D)) + f[n]
  BY <1>6, <1>9, SumGrows
<1>11. B!Pnl(more) = B!Pnl(q) + x.pnl
  BY <1>6, <1>7, <1>8, <1>10
<1>. QED  BY <1>3, <1>5, <1>11 DEF more

(* What a trip's figures add up to, when only one of them changes.         *)
LEMMA TripsChange ==
    ASSUME B!BacktestAssumption, AccountFits, NEW s \in B!Traded,
           AccountFits => \A q \in B!Traded : TripFits(trip'[q]) /\ pos'[q].cost \in Int,
           \A q \in B!Traded \ {s} : trip'[q] = trip[q] /\ pos'[q] = pos[q]
    PROVE  /\ B!SumOver([q \in B!Traded |-> pos'[q].cost + trip'[q].fees])
                = B!SumOver([q \in B!Traded |-> pos[q].cost + trip[q].fees])
                  - (pos[s].cost + trip[s].fees) + (pos'[s].cost + trip'[s].fees)
           /\ B!SumOver([q \in B!Traded |-> trip'[q].pnl])
                = B!SumOver([q \in B!Traded |-> trip[q].pnl]) - trip[s].pnl + trip'[s].pnl
           /\ B!SumOver([q \in B!Traded |-> pos[q].cost + trip[q].fees]) \in Int
           /\ B!SumOver([q \in B!Traded |-> trip[q].pnl]) \in Int
<1>. DEFINE f == [q \in B!Traded |-> pos[q].cost + trip[q].fees]
            h == [q \in B!Traded |-> pos'[q].cost + trip'[q].fees]
            a == [q \in B!Traded |-> trip[q].pnl]
            b == [q \in B!Traded |-> trip'[q].pnl]
<1>1. \A q \in B!Traded : /\ pos[q].cost \in Int /\ trip[q].fees \in Int /\ trip[q].pnl \in Int
                          /\ pos'[q].cost \in Int /\ trip'[q].fees \in Int /\ trip'[q].pnl \in Int
  BY DEF AccountFits, TripFits
<1>2. f \in [B!Traded -> Int] /\ h \in [B!Traded -> Int] /\ a \in [B!Traded -> Int] /\ b \in [B!Traded -> Int]
  BY <1>1
<1>3. \A q \in B!Traded \ {s} : f[q] = h[q] /\ a[q] = b[q]
  OBVIOUS
<1>4. /\ f[s] = pos[s].cost + trip[s].fees /\ h[s] = pos'[s].cost + trip'[s].fees
      /\ a[s] = trip[s].pnl /\ b[s] = trip'[s].pnl
  OBVIOUS
<1>. HIDE DEF f, h, a, b
<1>5. B!SumOver(h) = B!SumOver(f) - f[s] + h[s] /\ B!SumOver(f) \in Int
  BY <1>2, <1>3, TradedFinite, SumChange, SumInt
<1>6. B!SumOver(b) = B!SumOver(a) - a[s] + b[s] /\ B!SumOver(a) \in Int
  BY <1>2, <1>3, TradedFinite, SumChange, SumInt
<1>. QED  BY <1>4, <1>5, <1>6 DEF f, h, a, b

LEMMA BuyAccount ==
    ASSUME B!BacktestAssumption, AccountFits, replay \in Settings, UNCHANGED <<replay, barNo>>, barNo \in Nat,
           atr \in [B!Traded -> Nat],
           NEW s \in B!Traded, NEW n \in Nat \ {0}, NEW at \in Nat, NEW how, B!Buy(s, n, at, how)
    PROVE  AccountFits'
<1>. DEFINE px == B!Plus(at, replay.costs.adverse)
            fixed == replay.costs.fixed
            cost == pos[s].cost + n * px
            t == trip'[s]
<1>1. px \in Int /\ fixed \in Nat
  BY PricesHaveMargins
<1>2. /\ cash' = cash - n * px - fixed
      /\ pos' = [pos EXCEPT ![s] = [qty |-> pos[s].qty + n, cost |-> cost]]
      /\ prices' = [prices EXCEPT ![s] = at]
      /\ spent' = [day |-> B!Today, sum |-> B!Book.spent + n * px + fixed]
      /\ trip' = [trip EXCEPT ![s] = t]
      /\ UNCHANGED <<tranches, trips>>
  BY DEF B!Buy, AccountFits
<1>3. /\ trail' = trail \/ \E avg, crest, new, range \in Int : \E r : trail' = [trail EXCEPT ![s] = r] /\ r \in [peak : Int, floor : Int]
  <2>1. CASE pos[s].qty = 0
    BY <2>1 DEF B!Buy
  <2>2. CASE pos[s].qty # 0
    <3>. DEFINE r == B!RebaseOnAdd(replay.exits, B!Avg(s), B!Larger(trail[s].peak, B!Avg(s)), trail[s].floor,
                                   atr[s], cost \div (pos[s].qty + n), px)
    <3>1. trail' = [trail EXCEPT ![s] = r]
      BY <2>2 DEF B!Buy
    <3>2. pos[s].qty \in Nat \ {0} /\ pos[s].cost \in Int /\ trail[s].peak \in Int /\ trail[s].floor \in Int /\ atr[s] \in Nat
      BY <2>2 DEF AccountFits
    <3>3. B!Avg(s) \in Int
      BY <3>2, Divided DEF B!Avg
    <3>4. cost \div (pos[s].qty + n) \in Int
      <4>1. n * px \in Int
        BY <1>1
      <4>2. cost \in Int /\ pos[s].qty + n \in Nat \ {0}
        BY <3>2, <4>1
      <4>. HIDE DEF cost
      <4>. QED  BY <4>2, Divided
    <3>5. B!Larger(trail[s].peak, B!Avg(s)) \in Int
      BY <3>2, <3>3, LargerInt
    <3>. DEFINE crest == B!Larger(trail[s].peak, B!Avg(s))
                new == cost \div (pos[s].qty + n)
                avg == B!Avg(s)
                floor == trail[s].floor
                range == atr[s]
    <3>6. avg \in Int /\ crest \in Int /\ new \in Int /\ floor \in Int /\ range \in Nat /\ r = B!RebaseOnAdd(replay.exits, avg, crest, floor, range, new, px)
      BY <3>2, <3>3, <3>4, <3>5
    <3>7. B!ExitsFit(replay.exits)
      BY SettingIs
    <3>. HIDE DEF r, crest, new, avg, floor, range, px
    <3>8. r \in [peak : Int, floor : Int]
      BY <1>1, <3>6, <3>7, RebasedInt
    <3>. QED  BY <3>1, <3>8
  <2>. QED  BY <2>1, <2>2
<1>4. TripFits(t) /\ t.fees = trip[s].fees + fixed /\ t.pnl = trip[s].pnl
      /\ t.since = IF trip[s].since = -1 THEN barNo ELSE trip[s].since
  <2>1. TripFits(trip[s]) /\ pos[s].qty \in Nat /\ trip = [q \in B!Traded |-> trip[q]]
    BY DEF AccountFits
  <2>2. B!Larger(trip[s].orig, pos[s].qty + n) \in Int
    BY <2>1, LargerInt DEF TripFits
  <2>3. trip' = [trip EXCEPT ![s] = [trip[s] EXCEPT !.since = IF @ = -1 THEN barNo ELSE @,
                                                    !.orig = B!Larger(@, pos[s].qty + n),
                                                    !.fees = @ + replay.costs.fixed,
                                                    !.adds = IF pos[s].qty > 0 THEN @ + 1 ELSE @]]
    BY DEF B!Buy
  <2>4. /\ DOMAIN t = DOMAIN trip[s]
        /\ t.since = IF trip[s].since = -1 THEN barNo ELSE trip[s].since
        /\ t.orig = B!Larger(trip[s].orig, pos[s].qty + n) /\ t.fees = trip[s].fees + fixed
        /\ t.pnl = trip[s].pnl /\ t.taken = trip[s].taken
    <3>. DEFINE o == trip[s]
                u == [o EXCEPT !.since = IF @ = -1 THEN barNo ELSE @,
                               !.orig = B!Larger(@, pos[s].qty + n),
                               !.fees = @ + replay.costs.fixed,
                               !.adds = IF pos[s].qty > 0 THEN @ + 1 ELSE @]
    <3>1. t = u
      BY <2>1, <2>3
    <3>2. {"since", "orig", "taken", "fees", "pnl"} \subseteq DOMAIN o
      BY <2>1 DEF TripFits
    <3>. HIDE DEF o, t
    <3>3. DOMAIN u = DOMAIN o
      OBVIOUS
    <3>4. u.since = IF o.since = -1 THEN barNo ELSE o.since
      BY <3>2
    <3>5. u.orig = B!Larger(o.orig, pos[s].qty + n) 
      BY <3>2
    <3>6. u.fees = o.fees + fixed
      BY <3>2
    <3>7. u.pnl = o.pnl /\ u.taken = o.taken
      BY <3>2
    <3>. QED  BY <3>1, <3>3, <3>4, <3>5, <3>6, <3>7 DEF o
  <2>. QED  BY <1>1, <2>1, <2>2, <2>4 DEF TripFits
<1>5. n * px \in Int /\ cost \in Int /\ cash \in Int
  <2>1. n * px \in Int
    BY <1>1
  <2>2. pos[s].cost \in Int /\ cash \in Int
    BY DEF AccountFits
  <2>. QED  BY <2>1, <2>2
<1>6. B!Book.spent \in Int /\ B!Today \in Int
  <2>1. BookFits(B!Book, s)
    BY BookAtFits DEF AccountFits, B!Book
  <2>2. BarsPerDay \in Nat \ {0}
    BY DEF B!BacktestAssumption
  <2>. QED  BY <2>1, <2>2, Divided DEF BookFits, B!Today
<1>. DEFINE paid == n * px
<1>. HIDE DEF px, fixed, t, cost
<1>7. pos' \in [B!Traded -> [qty : Nat, cost : Int]]
  <2>1. pos[s].qty + n \in Nat
    BY DEF AccountFits
  <2>. QED  BY <1>2, <1>5, <2>1 DEF AccountFits
<1>8. /\ \A q \in B!Traded \ {s} : trip'[q] = trip[q] /\ pos'[q] = pos[q]
      /\ trip'[s] = t /\ pos'[s].cost = cost /\ pos'[s].qty = pos[s].qty + n
      /\ trip' = [q \in B!Traded |-> trip'[q]]
  BY <1>2 DEF AccountFits
<1>9. \A q \in B!Traded : TripFits(trip'[q]) /\ pos'[q].cost \in Int
  BY <1>4, <1>7, <1>8 DEF AccountFits
<1>10. B!BooksBalance'
  <2>1. cash' = replay.cash + B!Pnl(tranches) - B!SumOver([q \in B!Traded |-> pos'[q].cost + trip'[q].fees])
    <3>. DEFINE f == [q \in B!Traded |-> pos[q].cost + trip[q].fees]
                h == [q \in B!Traded |-> pos'[q].cost + trip'[q].fees]
    <3>1. B!SumOver(h) = B!SumOver(f) - (pos[s].cost + trip[s].fees) + (pos'[s].cost + trip'[s].fees) /\ B!SumOver(f) \in Int
      BY <1>8, <1>9, TripsChange
    <3>2. cash = replay.cash + B!Pnl(tranches) - B!SumOver(f)
      BY DEF AccountFits, B!BooksBalance
    <3>3. replay.cash \in Int /\ B!Pnl(tranches) \in Int /\ pos[s].cost \in Int /\ trip[s].fees \in Int
      <4>1. replay.cash \in Int
        BY SettingIs
      <4>2. B!Pnl(tranches) \in Int
        BY PnlInt DEF AccountFits
      <4>. QED  BY <4>1, <4>2 DEF AccountFits, TripFits
    <3>. HIDE DEF f, h
    <3>4. pos'[s].cost = pos[s].cost + paid /\ trip'[s].fees = trip[s].fees + fixed /\ cash' = cash - paid - fixed
      BY <1>2, <1>4, <1>8 DEF cost
    <3>5. paid \in Int
      BY <1>5
    <3>. HIDE DEF paid
    <3>6. cash' = replay.cash + B!Pnl(tranches) - B!SumOver(h)
      BY <1>1, <3>1, <3>2, <3>3, <3>4, <3>5
    <3>. QED  BY <3>6 DEF h
  <2>. QED  BY <1>2, <2>1 DEF B!BooksBalance
<1>11. B!Pnl(trips)' + B!SumOver([q \in B!Traded |-> trip[q].pnl])' = B!Pnl(tranches)'
  <2>. DEFINE f == [q \in B!Traded |-> trip[q].pnl]
              h == [q \in B!Traded |-> trip'[q].pnl]
  <2>1. B!SumOver(h) = B!SumOver(f) - trip[s].pnl + trip'[s].pnl /\ B!SumOver(f) \in Int
    BY <1>8, <1>9, TripsChange
  <2>2. trip'[s].pnl = trip[s].pnl /\ trip[s].pnl \in Int
    BY <1>4, <1>8 DEF AccountFits, TripFits
  <2>3. B!Pnl(trips) + B!SumOver(f) = B!Pnl(tranches)
    BY DEF AccountFits
  <2>. HIDE DEF f, h
  <2>4. B!Pnl(trips) + B!SumOver(h) = B!Pnl(tranches)
    BY <2>1, <2>2, <2>3
  <2>. QED  BY <1>2, <2>4 DEF h
<1>12. \A q \in B!Traded : IF pos'[q].qty = 0 THEN pos'[q].cost = 0 /\ trip'[q] = B!NoTrip
                           ELSE trip'[q].since \in 0..barNo
  <2>1. pos'[s].qty # 0
    BY <1>8 DEF AccountFits
  <2>2. trip[s].since = -1 \/ trip[s].since \in 0..barNo
    BY DEF AccountFits, B!NoTrip
  <2>3. trip'[s].since \in 0..barNo
    BY <1>4, <1>8, <2>2
  <2>. QED  BY <1>8, <2>1, <2>3 DEF AccountFits
<1>13. cash' \in Int /\ spent' \in [day : Int, sum : Int] /\ prices' \in [B!Traded -> Nat]
  <2>1. paid \in Int /\ cash' = cash - paid - fixed /\ spent' = [day |-> B!Today, sum |-> B!Book.spent + paid + fixed]
    BY <1>2, <1>5
  <2>. HIDE DEF paid
  <2>2. cash' \in Int /\ B!Book.spent + paid + fixed \in Int
    BY <1>1, <1>5, <1>6, <2>1
  <2>3. prices' \in [B!Traded -> Nat]
    BY <1>2 DEF AccountFits
  <2>. QED  BY <1>6, <2>1, <2>2, <2>3
<1>14. trail' \in [B!Traded -> [peak : Int, floor : Int]]
  BY <1>3 DEF AccountFits
<1>15. ResultsFit(tranches)' /\ ResultsFit(trips)' /\ (\A k \in 1..Len(trips) : trips[k].held \in 0..barNo)'
  BY <1>2 DEF AccountFits, ResultsFit, IsSeq
<1>. QED  BY <1>7, <1>8, <1>9, <1>10, <1>11, <1>12, <1>13, <1>14, <1>15 DEF AccountFits

(* The whole of something has the whole of its cost.                       *)
LEMMA WholeShare ==
    ASSUME NEW a \in Int, NEW n \in Nat \ {0}
    PROVE  (a * n) \div n = a
<1>. DEFINE b == a * n
            q == b \div n
<1>1. b \in Int
  OBVIOUS
<1>. HIDE DEF b
<1>2. q \in Int /\ q * n <= b /\ b < q * n + n
  BY <1>1, Divided
<1>. HIDE DEF q
<1>3. ASSUME NEW k \in Nat, a = q + 1 + k PROVE FALSE
  BY <1>2, <1>3, <1>1 DEF b
<1>4. ASSUME NEW k \in Nat, q = a + 1 + k PROVE FALSE
  BY <1>4, <1>1, <1>2 DEF b
<1>5. a = q
  <2>1. CASE a > q
    BY <1>2, <2>1, <1>3
  <2>2. CASE q > a
    BY <1>2, <2>2, <1>4
  <2>. QED  BY <1>2, <2>1, <2>2
<1>. QED  BY <1>5 DEF q, b

(* A sale ends the trip or leaves it with its share of the costs; its      *)
(* result is in exactly one trip.                                          *)
SellTold(s, n, at, net, basis, share, t) ==
    /\ cash' = cash + n * B!Plus(at, -replay.costs.adverse) - replay.costs.fixed
    /\ pos' = [pos EXCEPT ![s] = [qty |-> pos[s].qty - n, cost |-> pos[s].cost - basis]]
    /\ prices' = [prices EXCEPT ![s] = at]
    /\ spent' = spent
    /\ \E x : tranches' = Append(tranches, x) /\ x.pnl = net
    /\ IF n = pos[s].qty
       THEN /\ \E x : trips' = Append(trips, x) /\ x.pnl = trip[s].pnl + net /\ x.held = barNo - trip[s].since
            /\ t = B!NoTrip
       ELSE /\ trips' = trips
            /\ TripFits(t) /\ t.since = trip[s].since /\ t.fees = trip[s].fees - share /\ t.pnl = trip[s].pnl + net
    /\ trip' = [trip EXCEPT ![s] = t]

LEMMA SellTells ==
    ASSUME AccountFits, NEW s \in B!Traded, NEW n, NEW at, NEW kind, NEW r \in Nat, NEW crest,
           NEW net, NEW basis, NEW share, B!Sell(s, n, at, kind, r, crest),
           basis = (pos[s].cost * n) \div pos[s].qty, share = B!EntryShare(s, n), share \in Int,
           net = n * B!Plus(at, -replay.costs.adverse) - basis - replay.costs.fixed - share, net \in Int
    PROVE  \E t : SellTold(s, n, at, net, basis, share, t)
<1>. DEFINE o == trip[s]
            whole == [o EXCEPT !.fees = @ - share, !.pnl = @ + net, !.basis = @ + basis,
                               !.qty = @ + n, !.proceeds = @ + n * B!Plus(at, -replay.costs.adverse),
                               !.stopped = @ \/ kind \in {"stop-loss", "trailing-stop"},
                               !.rungs = @ \o B!RungsUpTo(s, r),
                               !.taken = IF r = 0 THEN @ ELSE B!NextTaken(s, r)]
            t == IF n = pos[s].qty THEN B!NoTrip ELSE whole
<1>1. /\ cash' = cash + n * B!Plus(at, -replay.costs.adverse) - replay.costs.fixed
      /\ prices' = [prices EXCEPT ![s] = at]
      /\ spent' = spent
  BY DEF B!Sell
<1>2. pos' = [pos EXCEPT ![s] = [qty |-> pos[s].qty - n, cost |-> pos[s].cost - basis]]
  BY DEF B!Sell, AccountFits
<1>3. \E x : tranches' = Append(tranches, x) /\ x.pnl = net
  BY DEF B!Sell
<1>4. IF n = pos[s].qty
      THEN /\ \E x : trips' = Append(trips, x) /\ x.pnl = whole.pnl /\ x.held = barNo - trip[s].since
           /\ trip' = [trip EXCEPT ![s] = B!NoTrip]
      ELSE trips' = trips /\ trip' = [trip EXCEPT ![s] = whole]
  BY DEF B!Sell
<1>5. TripFits(o)
  BY DEF AccountFits
<1>. HIDE DEF o
<1>6. /\ DOMAIN whole = DOMAIN o /\ whole.since = o.since /\ whole.orig = o.orig
      /\ whole.fees = o.fees - share /\ whole.pnl = o.pnl + net
      /\ whole.taken = IF r = 0 THEN o.taken ELSE r
  BY <1>5 DEF TripFits, B!NextTaken
<1>. HIDE DEF whole
<1>7. TripFits(whole)
  BY <1>5, <1>6 DEF TripFits
<1>8. SellTold(s, n, at, net, basis, share, t)
  BY <1>1, <1>2, <1>3, <1>4, <1>6, <1>7 DEF SellTold, o
<1>. QED  BY <1>8

LEMMA SellAccount ==
    ASSUME B!BacktestAssumption, AccountFits, replay \in Settings, UNCHANGED <<replay, barNo>>, barNo \in Nat,
           NEW s \in B!Traded, NEW n \in Nat \ {0}, n <= pos[s].qty, NEW at \in Nat, NEW kind, NEW r \in Nat,
           NEW crest \in Int, B!Sell(s, n, at, kind, r, crest)
    PROVE  AccountFits'
<1>. DEFINE px == B!Plus(at, -replay.costs.adverse)
            fixed == replay.costs.fixed
            paid == n * px
            basis == (pos[s].cost * n) \div pos[s].qty
            share == B!EntryShare(s, n)
            net == paid - basis - fixed - share
<1>1. paid \in Int /\ fixed \in Nat
  BY PricesHaveMargins
<1>2. pos[s].qty \in Nat \ {0} /\ pos[s].cost \in Int /\ TripFits(trip[s]) /\ cash \in Int
  BY DEF AccountFits
<1>3. basis \in Int /\ share \in Int
  BY <1>2, Divided DEF TripFits, B!EntryShare
<1>4. n = pos[s].qty => basis = pos[s].cost /\ share = trip[s].fees
  BY <1>2, WholeShare DEF TripFits, B!EntryShare
<1>5. PICK t : SellTold(s, n, at, net, basis, share, t)
  <2>. HIDE DEF paid, fixed
  <2>1. net \in Int
    BY <1>1, <1>3
  <2>2. basis = (pos[s].cost * n) \div pos[s].qty /\ share = B!EntryShare(s, n)
    OBVIOUS
  <2>. USE DEF paid, fixed
  <2>3. net = n * B!Plus(at, -replay.costs.adverse) - basis - replay.costs.fixed - share
    OBVIOUS
  <2>. HIDE DEF net, basis, share
  <2>. QED  BY <1>3, <2>1, <2>2, <2>3, SellTells
<1>6. net \in Int
  <2>. HIDE DEF paid, fixed, basis, share
  <2>. QED  BY <1>1, <1>3
<1>7. cash' = cash + paid - fixed /\ net = paid - basis - fixed - share
  BY <1>5 DEF SellTold
<1>. HIDE DEF px, fixed, paid, basis, share, net
<1>8. /\ pos' = [pos EXCEPT ![s] = [qty |-> pos[s].qty - n, cost |-> pos[s].cost - basis]]
      /\ prices' = [prices EXCEPT ![s] = at] /\ spent' = spent /\ trip' = [trip EXCEPT ![s] = t]
  BY <1>5 DEF SellTold
<1>9. pos' \in [B!Traded -> [qty : Nat, cost : Int]]
  <2>1. pos[s].qty - n \in Nat /\ pos[s].cost - basis \in Int
    BY <1>2, <1>3
  <2>. QED  BY <1>8, <2>1 DEF AccountFits
<1>10. /\ TripFits(t) /\ t.fees = trip[s].fees - share
       /\ n = pos[s].qty => t = B!NoTrip /\ t.pnl = 0
       /\ n # pos[s].qty => t.since = trip[s].since /\ t.pnl = trip[s].pnl + net
  <2>1. CASE n = pos[s].qty
    <3>1. t = B!NoTrip
      BY <1>5, <2>1 DEF SellTold
    <3>2. TripFits(t) /\ t.pnl = 0 /\ t.fees = 0
      BY <3>1 DEF B!NoTrip, TripFits
    <3>3. trip[s].fees - share = 0
      BY <1>3, <1>4, <2>1
    <3>. QED  BY <2>1, <3>1, <3>2, <3>3
  <2>2. CASE n # pos[s].qty
    BY <1>5, <2>2 DEF SellTold
  <2>. QED  BY <2>1, <2>2
<1>11. /\ \A q \in B!Traded \ {s} : trip'[q] = trip[q] /\ pos'[q] = pos[q]
       /\ trip'[s] = t /\ pos'[s].cost = pos[s].cost - basis /\ pos'[s].qty = pos[s].qty - n
       /\ trip' = [q \in B!Traded |-> trip'[q]]
  BY <1>8 DEF AccountFits
<1>12. \A q \in B!Traded : TripFits(trip'[q]) /\ pos'[q].cost \in Int
  BY <1>9, <1>10, <1>11 DEF AccountFits
<1>13. B!Pnl(tranches') = B!Pnl(tranches) + net /\ ResultsFit(tranches') /\ B!Pnl(tranches) \in Int
  <2>1. PICK x : tranches' = Append(tranches, x) /\ x.pnl = net
    BY <1>5 DEF SellTold
  <2>2. ResultsFit(tranches)
    BY DEF AccountFits
  <2>. QED  BY <1>6, <2>1, <2>2, PnlGrows, PnlInt
<1>14. /\ ResultsFit(trips') /\ B!Pnl(trips) \in Int
       /\ B!Pnl(trips') = B!Pnl(trips) + (IF n = pos[s].qty THEN trip[s].pnl + net ELSE 0)
       /\ \A k \in 1..Len(trips') : trips'[k].held \in 0..barNo
  <2>1. ResultsFit(trips) /\ B!Pnl(trips) \in Int /\ Len(trips) \in Nat
    BY PnlInt DEF AccountFits
  <2>2. CASE n # pos[s].qty
    BY <1>5, <2>2, <2>1 DEF SellTold, AccountFits
  <2>3. CASE n = pos[s].qty
    <3>1. PICK x : trips' = Append(trips, x) /\ x.pnl = trip[s].pnl + net /\ x.held = barNo - trip[s].since
      BY <1>5, <2>3 DEF SellTold
    <3>2. x.pnl \in Int
      BY <1>2, <1>6, <3>1 DEF TripFits
    <3>3. /\ B!Pnl(trips') = B!Pnl(trips) + x.pnl /\ ResultsFit(trips')
          /\ Len(trips') = Len(trips) + 1 /\ trips'[Len(trips) + 1] = x
          /\ \A k \in 1..Len(trips) : trips'[k] = trips[k]
      BY <2>1, <3>1, <3>2, PnlGrows
    <3>4. x.held \in 0..barNo
      <4>1. trip[s].since \in 0..barNo
        BY <1>2 DEF AccountFits
      <4>. QED  BY <3>1, <4>1
    <3>5. \A k \in 1..Len(trips) : trips[k].held \in 0..barNo
      BY DEF AccountFits
    <3>6. \A k \in 1..Len(trips') : k = Len(trips) + 1 \/ k \in 1..Len(trips)
      BY <2>1, <3>3
    <3>7. \A k \in 1..Len(trips') : trips'[k].held \in 0..barNo
      BY <3>3, <3>4, <3>5, <3>6
    <3>. QED  BY <2>1, <2>3, <3>1, <3>3, <3>7
  <2>. QED  BY <2>2, <2>3
<1>15. B!BooksBalance'
  <2>. DEFINE f == [q \in B!Traded |-> pos[q].cost + trip[q].fees]
              h == [q \in B!Traded |-> pos'[q].cost + trip'[q].fees]
  <2>1. B!SumOver(h) = B!SumOver(f) - (pos[s].cost + trip[s].fees) + (pos'[s].cost + trip'[s].fees) /\ B!SumOver(f) \in Int
    BY <1>11, <1>12, TripsChange
  <2>2. cash = replay.cash + B!Pnl(tranches) - B!SumOver(f)
    BY DEF AccountFits, B!BooksBalance
  <2>3. replay.cash \in Int /\ trip[s].fees \in Int
    BY <1>2, SettingIs DEF TripFits
  <2>. HIDE DEF f, h
  <2>4. pos'[s].cost = pos[s].cost - basis /\ trip'[s].fees = trip[s].fees - share
    BY <1>10, <1>11
  <2>5. cash' = replay.cash + B!Pnl(tranches') - B!SumOver(h)
    BY <1>1, <1>2, <1>3, <1>7, <1>13, <2>1, <2>2, <2>3, <2>4
  <2>. QED  BY <2>5 DEF h, B!BooksBalance
<1>16. B!Pnl(trips)' + B!SumOver([q \in B!Traded |-> trip[q].pnl])' = B!Pnl(tranches)'
  <2>. DEFINE f == [q \in B!Traded |-> trip[q].pnl]
              h == [q \in B!Traded |-> trip'[q].pnl]
  <2>1. B!SumOver(h) = B!SumOver(f) - trip[s].pnl + trip'[s].pnl /\ B!SumOver(f) \in Int
    BY <1>11, <1>12, TripsChange
  <2>2. trip[s].pnl \in Int /\ trip'[s].pnl = IF n = pos[s].qty THEN 0 ELSE trip[s].pnl + net
    BY <1>2, <1>10, <1>11 DEF TripFits
  <2>3. B!Pnl(trips) + B!SumOver(f) = B!Pnl(tranches)
    BY DEF AccountFits
  <2>. HIDE DEF f, h
  <2>4. B!Pnl(trips') + B!SumOver(h) = B!Pnl(tranches')
    <3>. DEFINE was == trip[s].pnl
                now == trip'[s].pnl
                whole == n = pos[s].qty
    <3>1. /\ B!SumOver(h) = B!SumOver(f) - was + now /\ B!SumOver(f) \in Int
          /\ was \in Int /\ now \in Int /\ now = IF whole THEN 0 ELSE was + net
      BY <1>6, <2>1, <2>2
    <3>2. /\ B!Pnl(trips') = B!Pnl(trips) + (IF whole THEN was + net ELSE 0) /\ B!Pnl(trips) \in Int
          /\ B!Pnl(tranches') = B!Pnl(tranches) + net /\ net \in Int
      BY <1>6, <1>13, <1>14
    <3>. HIDE DEF was, now, whole
    <3>3. CASE whole
      BY <3>1, <3>2, <3>3, <2>3
    <3>4. CASE ~whole
      BY <3>1, <3>2, <3>4, <2>3
    <3>. QED  BY <3>3, <3>4
  <2>. QED  BY <2>4 DEF h
<1>17. \A q \in B!Traded : IF pos'[q].qty = 0 THEN pos'[q].cost = 0 /\ trip'[q] = B!NoTrip
                           ELSE trip'[q].since \in 0..barNo
  <2>1. trip[s].since \in 0..barNo
    BY <1>2 DEF AccountFits
  <2>2. CASE n = pos[s].qty
    <3>1. pos'[s].qty = 0 /\ pos'[s].cost = 0 /\ trip'[s] = B!NoTrip
      BY <1>2, <1>3, <1>4, <1>10, <1>11, <2>2
    <3>. QED  BY <1>11, <3>1 DEF AccountFits
  <2>3. CASE n # pos[s].qty
    <3>1. pos'[s].qty # 0 /\ trip'[s].since \in 0..barNo
      BY <1>2, <1>10, <1>11, <2>1, <2>3
    <3>. QED  BY <1>11, <3>1 DEF AccountFits
  <2>. QED  BY <2>2, <2>3
<1>18. cash' \in Int /\ spent' \in [day : Int, sum : Int] /\ prices' \in [B!Traded -> Nat]
  <2>1. cash' \in Int
    BY <1>1, <1>2, <1>7
  <2>. QED  BY <1>8, <2>1 DEF AccountFits
<1>19. trail' \in [B!Traded -> [peak : Int, floor : Int]]
  <2>1. \/ trail' = [trail EXCEPT ![s] = [peak |-> 0, floor |-> 0]]
        \/ trail' = [trail EXCEPT ![s].peak = crest]
    BY DEF B!Sell
  <2>2. trail[s] \in [peak : Int, floor : Int] /\ trail \in [B!Traded -> [peak : Int, floor : Int]]
    BY DEF AccountFits
  <2>3. CASE trail' = [trail EXCEPT ![s] = [peak |-> 0, floor |-> 0]]
    BY <2>2, <2>3
  <2>4. CASE trail' = [trail EXCEPT ![s].peak = crest]
    BY <2>2, <2>4
  <2>. QED  BY <2>1, <2>3, <2>4
<1>. QED  BY <1>9, <1>11, <1>12, <1>13, <1>14, <1>15, <1>16, <1>17, <1>18, <1>19 DEF AccountFits

(* What leaves the account alone, but for the marks and the clock.         *)
LEMMA AccountKept ==
    ASSUME AccountFits, UNCHANGED <<replay, cash, pos, trip, spent, tranches, trips>>,
           barNo \in Int, barNo' \in Int, barNo <= barNo',
           prices' \in [B!Traded -> Nat], trail' \in [B!Traded -> [peak : Int, floor : Int]]
    PROVE  AccountFits'
<1>1. \A s \in B!Traded : IF pos[s].qty = 0 THEN pos[s].cost = 0 /\ trip[s] = B!NoTrip
                          ELSE trip[s].since \in 0..barNo'
  BY DEF AccountFits
<1>2. \A k \in 1..Len(trips) : trips[k].held \in 0..barNo'
  BY DEF AccountFits
<1>3. B!BooksBalance'
  BY DEF AccountFits, B!BooksBalance
<1>4. /\ cash' \in Int /\ spent' \in [day : Int, sum : Int] /\ pos' \in [B!Traded -> [qty : Nat, cost : Int]]
      /\ trip' = [s \in B!Traded |-> trip'[s]] /\ \A s \in B!Traded : TripFits(trip'[s])
      /\ ResultsFit(tranches') /\ ResultsFit(trips')
  BY DEF AccountFits
<1>5. B!Pnl(trips') + B!SumOver([s \in B!Traded |-> trip'[s].pnl]) = B!Pnl(tranches')
  BY DEF AccountFits
<1>. QED  BY <1>1, <1>2, <1>3, <1>4, <1>5 DEF AccountFits

-----------------------------------------------------------------------------
(* The bar and the fills, through every action.                            *)

LEMMA AfterTurn ==
    ASSUME NEW q \in Seq(B!Traded), Distinct(q), q # <<>>
    PROVE  /\ Tail(q) \in Seq(B!Traded) /\ Distinct(Tail(q)) /\ Head(q) \in B!Traded
           /\ \A k \in 1..Len(Tail(q)) : /\ Tail(q)[k] # Head(q)
                                         /\ \E j \in 1..Len(q) : Tail(q)[k] = q[j]
<1>1. /\ Len(q) \in Nat /\ Len(q) > 0 /\ Tail(q) \in Seq(B!Traded) /\ Len(Tail(q)) = Len(q) - 1
      /\ \A k \in 1..Len(Tail(q)) : Tail(q)[k] = q[k + 1]
      /\ Head(q) = q[1] /\ q[1] \in B!Traded
  OBVIOUS
<1>. DEFINE r == Tail(q)
<1>. HIDE DEF r
<1>2. \A k \in 1..Len(r) : k + 1 \in 1..Len(q) /\ k + 1 # 1 /\ r[k] = q[k + 1]
  BY <1>1 DEF r
<1>3. Distinct(r)
  <2>. SUFFICES ASSUME NEW j \in 1..Len(r), NEW k \in 1..Len(r), r[j] = r[k] PROVE j = k
    BY DEF Distinct
  <2>1. q[j + 1] = q[k + 1] /\ j + 1 \in 1..Len(q) /\ k + 1 \in 1..Len(q)
    BY <1>2
  <2>2. j + 1 = k + 1
    BY <2>1 DEF Distinct
  <2>. QED  BY <2>2
<1>4. ASSUME NEW k \in 1..Len(r) PROVE r[k] # Head(q) /\ \E j \in 1..Len(q) : r[k] = q[j]
  BY <1>1, <1>2 DEF Distinct
<1>. QED  BY <1>1, <1>3, <1>4 DEF r

(* A turn moves on, marks at most its own symbol, and leaves an add's price *)
(* within the bar.                                                         *)
LEMMA BarTurn ==
    ASSUME BarFits, NEW p \in {"open", "add", "exit", "close"}, NEW s, B!Turn(p, s), UNCHANGED B!still,
           pending' = [q \in B!Traded |-> pending'[q]], \A q \in B!Traded : Queued(pending'[q]),
           added' \in [B!Traded -> [bar : Int, at : Int]],
           \A q \in B!Traded : added'[q].bar <= barNo /\ (added'[q].bar = barNo => added'[q].at \in bar[q].low .. bar[q].high),
           p = "open" => prices' = prices, p = "add" => \A q \in B!Traded \ {s} : prices'[q] = prices[q]
    PROVE  BarFits'
<1>1. /\ phase = p /\ phase' = p /\ todo # <<>> /\ s = Head(todo) /\ todo' = Tail(todo)
      /\ UNCHANGED <<replay, barNo, bar, atr>>
  BY DEF B!Turn, B!still
<1>2. todo \in Seq(B!Traded) /\ Distinct(todo)
  BY DEF BarFits
<1>3. /\ todo' \in Seq(B!Traded) /\ Distinct(todo')
      /\ \A k \in 1..Len(todo') : todo'[k] # s /\ \E j \in 1..Len(todo) : todo'[k] = todo[j]
  BY <1>1, <1>2, AfterTurn
<1>4. /\ replay' \in Settings /\ barNo' \in Int /\ barNo' >= 0
      /\ atr' \in [B!Traded -> Nat]
      /\ bar' \in [B!Traded -> [open : Nat, high : Nat, low : Nat, close : Nat, atr : Nat]]
      /\ \A q \in B!Traded : bar'[q] \in B!SoundBars
  BY <1>1 DEF BarFits
<1>5. phase' = "open" => \A q \in B!Traded : prices'[q] = bar'[q].open
  BY <1>1 DEF BarFits
<1>6. ASSUME phase' = "add", NEW k \in 1..Len(todo') PROVE prices'[todo'[k]] = bar'[todo'[k]].open
  <2>1. PICK j \in 1..Len(todo) : todo'[k] = todo[j]
    BY <1>3
  <2>2. todo[j] \in B!Traded
    BY <1>2
  <2>3. prices[todo[j]] = bar[todo[j]].open
    BY <1>1, <1>6 DEF BarFits
  <2>4. prices'[todo[j]] = prices[todo[j]]
    BY <1>1, <1>3, <1>6, <2>1, <2>2
  <2>. QED  BY <1>1, <2>1, <2>3, <2>4
<1>7. \A q \in B!Traded : added'[q].bar <= barNo' /\ (added'[q].bar = barNo' => added'[q].at \in bar'[q].low .. bar'[q].high)
  BY <1>1
<1>8. (\A q \in B!Traded : Queued(pending[q]))' /\ (pending = [q \in B!Traded |-> pending[q]])'
  BY DEF Queued
<1>9. (\A k \in 1..Len(todo) : phase = "add" => prices[todo[k]] = bar[todo[k]].open)'
  BY <1>6
<1>. QED  BY <1>3, <1>4, <1>5, <1>7, <1>8, <1>9 DEF BarFits, Distinct

LEMMA FillKept ==
    ASSUME FillFits, UNCHANGED <<fill, barNo, bar, phase, added>>
    PROVE  FillFits'
BY DEF FillFits, B!FillsWereTraded

LEMMA CurveKept ==
    ASSUME CurveFits, UNCHANGED <<equity, phase, barNo>>, phase # "done"
    PROVE  CurveFits'
BY DEF CurveFits

(* A fill within the bar.                                                  *)
LEMMA FillMade ==
    ASSUME NEW s, NEW side, NEW how, NEW at, NEW e, barNo \in Int, UNCHANGED B!still,
           fill' = [s |-> s, side |-> side, how |-> how, bar |-> barNo, at |-> at, equity |-> e],
           at \in bar[s].low .. bar[s].high,
           side = "sell" /\ how # "strategy" =>
               /\ phase \notin {"open", "add"}
               /\ added'[s].bar = barNo => at <= B!Larger(added'[s].at, bar[s].close)
    PROVE  FillFits'
<1>1. UNCHANGED <<barNo, bar, phase>>
  BY DEF B!still
<1>2. fill'.s = s /\ fill'.side = side /\ fill'.how = how /\ fill'.bar = barNo /\ fill'.at = at
  OBVIOUS
<1>3. B!FillsWereTraded'
  BY <1>1, <1>2 DEF B!FillsWereTraded
<1>4. (phase \in {"open", "add"} /\ fill.bar = barNo /\ fill.side = "sell" => fill.how = "strategy")'
  BY <1>1, <1>2
<1>. QED  BY <1>1, <1>2, <1>3, <1>4 DEF FillFits

-----------------------------------------------------------------------------
(* The prices a bar can fill at.                                           *)

LEMMA GapsFit ==
    ASSUME NEW open \in Int, NEW level \in Int
    PROVE  /\ B!GapAdjusted(open, level, TRUE) \in Int /\ B!GapAdjusted(open, level, TRUE) <= open
           /\ B!GapAdjusted(open, level, FALSE) \in Int /\ B!GapAdjusted(open, level, FALSE) >= open
           /\ \A low \in Int : low <= open /\ low <= level => low <= B!GapAdjusted(open, level, TRUE)
           /\ \A high \in Int : open <= high /\ level <= high => B!GapAdjusted(open, level, FALSE) <= high
BY DEF B!GapAdjusted

LEMMA AvgInt ==
    ASSUME AccountFits, NEW s \in B!Traded, B!Held(s)
    PROVE  B!Avg(s) \in Int
<1>1. pos[s].qty \in Nat \ {0} /\ pos[s].cost \in Int
  BY DEF AccountFits, B!Held
<1>. QED  BY <1>1, Divided DEF B!Avg

LEMMA LevelsFit ==
    ASSUME B!BacktestAssumption, AccountFits, BarFits, NEW s \in B!Traded, B!Held(s)
    PROVE  B!LevelsOf(s).stop \in Int /\ B!LevelsOf(s).trail \in Int /\ B!LevelsOf(s).target \in Int
<1>. DEFINE avg == B!Avg(s)
            crest == B!Larger(trail[s].peak, avg)
            range == atr[s]
            floor == trail[s].floor
            held == B!Age(s)
            cfg == replay.exits
<1>1. avg \in Int /\ floor \in Int /\ range \in Nat /\ trail[s].peak \in Int
  BY AvgInt DEF AccountFits, BarFits
<1>2. crest \in Int
  BY <1>1, LargerInt
<1>3. B!ExitsFit(cfg)
  BY SettingIs DEF BarFits
<1>4. B!LevelsOf(s) = B!WithTrailFloor(B!Compute(cfg, avg, crest, range, held), cfg, floor)
  BY DEF B!LevelsOf
<1>. HIDE DEF avg, crest, range, floor, held, cfg
<1>. QED  BY <1>1, <1>2, <1>3, <1>4, LevelsInt

LEMMA BarIs ==
    ASSUME BarFits, phase # "next", NEW s \in B!Traded
    PROVE  /\ bar[s].open \in Nat /\ bar[s].high \in Nat /\ bar[s].low \in Nat /\ bar[s].close \in Nat /\ bar[s].atr \in Nat
           /\ bar[s].low > 0 /\ bar[s].low <= bar[s].open /\ bar[s].open <= bar[s].high
           /\ bar[s].low <= bar[s].close /\ bar[s].close <= bar[s].high
           /\ B!AddedNow(s) => added[s].at \in Int /\ bar[s].low <= added[s].at /\ added[s].at <= bar[s].high
           /\ DOMAIN bar[s] = {"open", "high", "low", "close", "atr"}
BY DEF BarFits, B!SoundBars, B!AddedNow

(* The bar an exit is judged by is part of the real one.                   *)
LEMMA JudgedFits ==
    ASSUME BarFits, phase # "next", NEW s \in B!Traded
    PROVE  LET j == B!Judged(s)
           IN  /\ j.open \in Int /\ j.high \in Int /\ j.low \in Int /\ j.low = bar[s].low
               /\ j.low <= j.open /\ j.open <= j.high /\ j.high <= bar[s].high
               /\ B!AddedNow(s) => j.high = B!Larger(added[s].at, bar[s].close)
<1>. DEFINE b == bar[s]
            at == added[s].at
            close == b.close
            crest == B!Larger(at, close)
<1>1. /\ b.open \in Nat /\ b.high \in Nat /\ b.low \in Nat /\ close \in Nat
      /\ b.low <= b.open /\ b.open <= b.high /\ b.low <= close /\ close <= b.high
      /\ B!AddedNow(s) => at \in Int /\ b.low <= at /\ at <= b.high
      /\ DOMAIN b = {"open", "high", "low", "close", "atr"}
  BY BarIs
<1>2. B!Judged(s) = IF B!AddedNow(s) THEN [b EXCEPT !.open = at, !.high = crest] ELSE b
  BY DEF B!Judged
<1>3. CASE ~B!AddedNow(s)
  <2>. HIDE DEF b, close, at
  <2>1. B!Judged(s) = b
    BY <1>2, <1>3
  <2>2. b.open \in Int /\ b.high \in Int /\ b.low \in Int
    BY <1>1
  <2>. QED  BY <1>1, <1>3, <2>1, <2>2 DEF b
<1>4. CASE B!AddedNow(s)
  <2>. HIDE DEF b, close, at
  <2>1. crest \in Int /\ crest >= at /\ (crest = at \/ crest = close)
    BY <1>1, <1>4, LargerInt
  <2>. HIDE DEF crest
  <2>2. B!Judged(s) = [b EXCEPT !.open = at, !.high = crest]
    BY <1>2, <1>4
  <2>3. B!Judged(s).open = at /\ B!Judged(s).high = crest /\ B!Judged(s).low = b.low
    BY <1>1, <2>2
  <2>4. b.low <= at /\ at <= crest /\ crest <= b.high /\ at \in Int /\ b.low \in Int
    BY <1>1, <1>4, <2>1
  <2>. QED  BY <2>1, <2>3, <2>4 DEF b, crest, at, close
<1>. QED  BY <1>3, <1>4

LEMMA ExitFillFits ==
    ASSUME NEW shown, shown.open \in Int, shown.high \in Int, shown.low \in Int, shown.low <= shown.open, shown.open <= shown.high,
           NEW levels, levels.stop \in Int, levels.trail \in Int, levels.target \in Int,
           B!ExitFill(shown, levels).kind # "none"
    PROVE  LET at == B!ExitFill(shown, levels).at IN at \in Int /\ shown.low <= at /\ at <= shown.high
<1>. DEFINE out == B!ExitFill(shown, levels)
            open == shown.open
            low == shown.low
            high == shown.high
            trails == levels.trail
            stops == levels.stop
            target == levels.target
            down == B!GapAdjusted(open, trails, TRUE)
            lower == B!GapAdjusted(open, stops, TRUE)
            up == B!GapAdjusted(open, target, FALSE)
<1>1. \/ out.at = open
      \/ low <= trails /\ out.at = down
      \/ low <= stops /\ out.at = lower
      \/ high >= target /\ out.at = up
  BY DEF B!ExitFill
<1>2. /\ open \in Int /\ low \in Int /\ high \in Int /\ low <= open /\ open <= high
      /\ trails \in Int /\ stops \in Int /\ target \in Int
  OBVIOUS
<1>. HIDE DEF out, open, low, high, trails, stops, target
<1>3. /\ down \in Int /\ down <= open /\ (low <= trails => low <= down)
      /\ lower \in Int /\ lower <= open /\ (low <= stops => low <= lower)
      /\ up \in Int /\ up >= open /\ (high >= target => up <= high)
  BY <1>2, GapsFit
<1>. HIDE DEF down, lower, up
<1>4. out.at \in Int /\ low <= out.at /\ out.at <= high
  BY <1>1, <1>2, <1>3
<1>. QED  BY <1>4 DEF out, low, high

(* A rung that is due has been reached.                                    *)
LEMMA PartFits ==
    ASSUME NEW cfg, B!ExitsFit(cfg), NEW p \in Int, NEW entry \in Int, NEW taken \in Nat
    PROVE  LET piece == B!NextPartial(cfg, p, entry, taken)
           IN  /\ piece.rung \in Nat /\ piece.pct \in Nat
               /\ piece.rung # 0 => /\ B!RungProfitPct(cfg, piece.rung) \in Nat
                                   /\ B!Plus(entry, B!RungProfitPct(cfg, piece.rung)) <= p
<1>. DEFINE rungs == B!SortedRungs(cfg.ladder)
            reached == {k \in (taken + 1) .. Len(rungs) : B!GainAtLeast(p, entry, rungs[k].profit)}
            piece == B!NextPartial(cfg, p, entry, taken)
            sells == [k \in reached |-> rungs[k].sell]
            Rungs == [profit : Nat, sell : Nat]
<1>1. rungs \in Seq(Rungs) /\ \A x \in Rungs : x.profit \in Nat /\ x.sell \in Nat
  BY DEF B!ExitsFit
<1>. HIDE DEF piece
<1>2. piece = IF reached = {} THEN [rung |-> 0, pct |-> 0]
             ELSE [rung |-> B!Max(reached), pct |-> B!Smaller(B!Hundred, B!SumOver(sells))]
  BY DEF B!NextPartial, piece
<1>. HIDE DEF rungs, Rungs
<1>3. Len(rungs) \in Nat /\ \A k \in 1..Len(rungs) : rungs[k].profit \in Nat /\ rungs[k].sell \in Nat
  BY <1>1
<1>4. reached \subseteq 1..Len(rungs) /\ reached \subseteq Nat /\ reached \subseteq Int
  BY <1>3
<1>5. IsFiniteSet(reached)
  <2>1. IsFiniteSet(1..Len(rungs))
    BY <1>3, FS_Interval
  <2>. QED  BY <1>4, <2>1, FS_Subset
<1>6. CASE reached = {}
  BY <1>2, <1>6 DEF piece
<1>7. CASE reached # {}
  <2>1. sells \in [reached -> Nat]
    BY <1>3, <1>4
  <2>. HIDE DEF sells
  <2>2. B!SumOver(sells) \in Nat
    <3>. DEFINE D == reached
    <3>1. IsFiniteSet(D) /\ sells \in [D -> Nat]
      BY <1>5, <2>1
    <3>. HIDE DEF D
    <3>. QED  BY <3>1, SumNat
  <2>3. B!Max(reached) \in reached
    <3>. DEFINE D == reached
    <3>1. IsFiniteSet(D) /\ D # {} /\ D \subseteq Int
      BY <1>4, <1>5, <1>7
    <3>. HIDE DEF D
    <3>2. B!Max(D) \in D
      BY <3>1, EndsOf
    <3>. QED  BY <3>2 DEF D
  <2>4. piece.rung = B!Max(reached) /\ piece.pct = B!Smaller(B!Hundred, B!SumOver(sells))
    BY <1>2, <1>7
  <2>5. piece.pct \in Nat
    <3>. DEFINE sum == B!SumOver(sells)
    <3>1. sum \in Nat
      BY <2>2
    <3>. HIDE DEF sum
    <3>2. B!Smaller(B!Hundred, sum) \in Nat
      BY <3>1 DEF B!Smaller, B!Hundred
    <3>. QED  BY <2>4, <3>2 DEF sum
  <2>. DEFINE r == piece.rung
              pct == rungs[r].profit
  <2>6. r \in 1..Len(rungs) /\ pct \in Nat /\ B!GainAtLeast(p, entry, pct)
    BY <1>3, <1>4, <2>3, <2>4
  <2>7. B!RungProfitPct(cfg, r) = pct
    BY DEF B!RungProfitPct, rungs
  <2>. HIDE DEF pct, r
  <2>8. B!Plus(entry, pct) <= p
    <3>1. entry * (B!Hundred + pct) \in Int /\ p * B!Hundred >= entry * (B!Hundred + pct)
      BY <2>6 DEF B!GainAtLeast, B!Hundred
    <3>. DEFINE a == entry * (B!Hundred + pct)
                q == a \div B!Hundred
    <3>2. a \in Int /\ p * B!Hundred >= a /\ B!Plus(entry, pct) = q
      BY <3>1 DEF B!Plus
    <3>. HIDE DEF a
    <3>3. q \in Int /\ q * B!Hundred <= a
      BY <3>2, Divided DEF B!Hundred
    <3>. HIDE DEF q
    <3>. QED  BY <3>2, <3>3 DEF B!Hundred
  <2>. QED  BY <1>4, <2>5, <2>6, <2>7, <2>8 DEF piece, r
<1>. QED  BY <1>6, <1>7

LEMMA TrancheFits ==
    ASSUME NEW orig \in Nat, NEW pct \in Nat, NEW held \in Nat
    PROVE  B!Tranche(orig, pct, held) \in Nat /\ B!Tranche(orig, pct, held) <= held
<1>. DEFINE a == orig * pct
            q == a \div B!Hundred
<1>1. a \in Nat
  OBVIOUS
<1>. HIDE DEF a
<1>2. q \in Nat
  BY <1>1 DEF B!Hundred
<1>3. B!Tranche(orig, pct, held) = B!Smaller(q, held)
  BY DEF B!Tranche, a
<1>. HIDE DEF q
<1>. QED  BY <1>2, <1>3 DEF B!Smaller

(* A step that is due lies within what the bar traded below its open.      *)
LEMMA AddFits ==
    ASSUME B!BacktestAssumption, AccountFits, BarFits, phase # "next", NEW s \in B!Traded, B!AddDue(s)
    PROVE  B!AddFill(s) \in Nat \ {0} /\ bar[s].low <= B!AddFill(s) /\ B!AddFill(s) <= bar[s].open
<1>. DEFINE down == -replay.scaleIn.step
            avg == B!Avg(s)
            level == B!Plus(avg, down)
            open == bar[s].open
            low == bar[s].low
<1>1. open \in Nat /\ low \in Nat /\ low > 0 /\ low <= open
  BY BarIs
<1>2. B!Held(s) /\ low <= level
  BY DEF B!AddDue
<1>3. avg \in Int /\ down \in Int
  <2>1. replay.scaleIn.step \in Nat
    BY SettingIs DEF BarFits
  <2>. QED  BY <1>2, <2>1, AvgInt
<1>4. B!AddFill(s) = B!GapAdjusted(open, level, TRUE)
  BY DEF B!AddFill
<1>. HIDE DEF down, avg, open, low
<1>5. level \in Int
  BY <1>3, PlusInt
<1>. HIDE DEF level
<1>6. B!GapAdjusted(open, level, TRUE) \in Int /\ B!GapAdjusted(open, level, TRUE) <= open
      /\ low <= B!GapAdjusted(open, level, TRUE)
  <2>1. open \in Int /\ low \in Int /\ low <= open /\ low <= level
    BY <1>1, <1>2
  <2>. QED  BY <1>5, <2>1, GapsFit
<1>. DEFINE at == B!GapAdjusted(open, level, TRUE)
<1>7. B!AddFill(s) = at /\ at \in Int /\ low <= at /\ at <= open
  BY <1>4, <1>6
<1>. HIDE DEF at
<1>8. at \in Nat \ {0}
  BY <1>1, <1>7
<1>. QED  BY <1>7, <1>8 DEF low, open

LEMMA SumZero ==
    ASSUME NEW D, IsFiniteSet(D), NEW f \in [D -> Int], \A x \in D : f[x] = 0
    PROVE  B!SumOver(f) = 0
<1>1. B!SumOver(f) = B!SumOver(Only(f, {}))
  BY SumWithin
<1>2. Only(f, {}) \in [{} -> Int]
  BY DEF Only
<1>. QED  BY <1>1, <1>2, SumNone

LEMMA PnlNone == B!Pnl(<<>>) = 0 /\ ResultsFit(<<>>) /\ Len(<<>>) = 0
<1>. DEFINE f == [k \in DOMAIN <<>> |-> <<>>[k]["pnl"]]
<1>1. DOMAIN <<>> = {} /\ f \in [{} -> Int]
  OBVIOUS
<1>2. B!Pnl(<<>>) = B!SumOver(f)
  BY DEF B!Pnl, B!SumOf
<1>. HIDE DEF f
<1>3. B!SumOver(f) = 0
  BY <1>1, SumNone
<1>. QED  BY <1>2, <1>3 DEF ResultsFit, IsSeq

LEMMA BookInit ==
    ASSUME B!BacktestAssumption, B!Init
    PROVE  BookInv
<1>1. /\ replay \in Settings /\ phase = "next" /\ todo = <<>> /\ barNo = -1
      /\ bar = [s \in B!Traded |-> B!NoBar]
      /\ atr = [s \in B!Traded |-> 0] /\ prices = [s \in B!Traded |-> 0]
      /\ cash = replay.cash
      /\ pos = [s \in B!Traded |-> [qty |-> 0, cost |-> 0]]
      /\ trail = [s \in B!Traded |-> [peak |-> 0, floor |-> 0]]
      /\ trip = [s \in B!Traded |-> B!NoTrip]
      /\ added = [s \in B!Traded |-> [bar |-> -1, at |-> 0]]
      /\ pending = [s \in B!Traded |-> <<>>]
      /\ spent = [day |-> 0, sum |-> 0]
      /\ equity = <<>> /\ tranches = <<>> /\ trips = <<>>
      /\ fill = B!NoFill
  BY DEF B!Init
<1>2. replay.cash \in Int
  BY <1>1, SettingIs
<1>3. TripFits(B!NoTrip) /\ B!NoTrip.fees = 0 /\ B!NoTrip.pnl = 0
  BY DEF TripFits, B!NoTrip
<1>4. B!BooksBalance
  <2>. DEFINE f == [s \in B!Traded |-> pos[s].cost + trip[s].fees]
  <2>1. f \in [B!Traded -> Int] /\ \A s \in B!Traded : f[s] = 0
    BY <1>1, <1>3
  <2>. HIDE DEF f
  <2>2. B!SumOver(f) = 0
    BY <2>1, TradedFinite, SumZero
  <2>3. cash = replay.cash + B!Pnl(tranches) - B!SumOver(f)
    BY <1>1, <1>2, <2>2, PnlNone
  <2>. QED  BY <2>3 DEF f, B!BooksBalance
<1>5. B!Pnl(trips) + B!SumOver([s \in B!Traded |-> trip[s].pnl]) = B!Pnl(tranches)
  <2>. DEFINE f == [s \in B!Traded |-> trip[s].pnl]
  <2>1. f \in [B!Traded -> Int] /\ \A s \in B!Traded : f[s] = 0
    BY <1>1, <1>3
  <2>. HIDE DEF f
  <2>2. B!SumOver(f) = 0
    BY <2>1, TradedFinite, SumZero
  <2>3. B!Pnl(trips) + B!SumOver(f) = B!Pnl(tranches)
    BY <1>1, <2>2, PnlNone
  <2>. QED  BY <2>3 DEF f
<1>6. cash \in Int /\ spent \in [day : Int, sum : Int] /\ prices \in [B!Traded -> Nat]
  BY <1>1, <1>2
<1>7. pos \in [B!Traded -> [qty : Nat, cost : Int]] /\ trail \in [B!Traded -> [peak : Int, floor : Int]]
  BY <1>1
<1>8. trip = [s \in B!Traded |-> trip[s]] /\ \A s \in B!Traded : TripFits(trip[s])
  BY <1>1, <1>3
<1>9. ResultsFit(tranches) /\ ResultsFit(trips) /\ \A k \in 1..Len(trips) : trips[k].held \in 0..barNo
  BY <1>1, PnlNone
<1>10. \A s \in B!Traded : pos[s].qty = 0 /\ pos[s].cost = 0 /\ trip[s] = B!NoTrip
  BY <1>1
<1>11. AccountFits
  BY <1>4, <1>5, <1>6, <1>7, <1>8, <1>9, <1>10 DEF AccountFits
<1>12. BarFits
  BY <1>1 DEF Distinct, B!NoBar, Queued, BarFits
<1>13. FillFits
  BY <1>1 DEF FillFits, B!FillsWereTraded, B!NoFill
<1>14. CurveFits
  BY <1>1 DEF CurveFits
<1>. QED  BY <1>11, <1>12, <1>13, <1>14 DEF BookInv

LEMMA OrderFits ==
    ASSUME B!BacktestAssumption
    PROVE  Order \in Seq(B!Traded) /\ Distinct(Order)
<1>1. Order \in Seq(B!Traded) /\ B!IsInjective(Order)
  BY DEF B!BacktestAssumption
<1>2. DOMAIN Order = 1..Len(Order)
  BY <1>1
<1>. QED  BY <1>1, <1>2 DEF Distinct, B!IsInjective

LEMMA NextBarBook ==
    ASSUME B!BacktestAssumption, BookInv, B!NextBar
    PROVE  BookInv'
<1>1. /\ phase = "next" /\ barNo' = barNo + 1 /\ phase' = "open" /\ todo' = Order
      /\ bar' \in [B!Traded -> UNION {replay.bars[s] : s \in B!Traded}]
      /\ \A s \in B!Traded : bar'[s] \in replay.bars[s]
      /\ atr' = [s \in B!Traded |-> bar[s].atr]
      /\ prices' = [s \in B!Traded |-> bar'[s].open]
      /\ UNCHANGED <<replay, added, pending, equity, cash, pos, trail, trip, spent, tranches, trips, fill>>
  BY DEF B!NextBar, B!Enter
<1>2. barNo \in Int /\ barNo >= -1
  BY DEF BookInv, BarFits
<1>3. \A s \in B!Traded : bar'[s] \in B!SoundBars
  BY <1>1, SettingIs DEF BookInv, BarFits
<1>4. prices' \in [B!Traded -> Nat] /\ bar' \in [B!Traded -> [open : Nat, high : Nat, low : Nat, close : Nat, atr : Nat]]
  BY <1>1, <1>3 DEF B!SoundBars
<1>5. AccountFits'
  <2>1. trail' \in [B!Traded -> [peak : Int, floor : Int]] /\ AccountFits
    BY <1>1 DEF BookInv, AccountFits
  <2>2. barNo' \in Int /\ barNo <= barNo'
    BY <1>1, <1>2
  <2>. QED  BY <1>1, <1>2, <1>4, <2>1, <2>2, AccountKept
<1>6. BarFits'
  <2>1. replay' \in Settings /\ barNo' \in Int /\ barNo' >= 0
    BY <1>1, <1>2 DEF BookInv, BarFits
  <2>2. todo' \in Seq(B!Traded) /\ Distinct(todo')
    BY <1>1, OrderFits
  <2>3. atr' \in [B!Traded -> Nat]
    BY <1>1 DEF BookInv, BarFits
  <2>4. pending' = [s \in B!Traded |-> pending'[s]] /\ \A s \in B!Traded : Queued(pending'[s])
    BY <1>1 DEF BookInv, BarFits
  <2>5. added' \in [B!Traded -> [bar : Int, at : Int]] /\ \A s \in B!Traded : added'[s].bar <= barNo' /\ added'[s].bar # barNo'
    <3>1. added \in [B!Traded -> [bar : Int, at : Int]] /\ \A s \in B!Traded : added[s].bar \in Int /\ added[s].bar <= barNo
      BY DEF BookInv, BarFits
    <3>. QED  BY <1>1, <1>2, <3>1
  <2>6. \A s \in B!Traded : prices'[s] = bar'[s].open
    BY <1>1
  <2>. QED  BY <1>1, <1>3, <1>4, <2>1, <2>2, <2>3, <2>4, <2>5, <2>6 DEF BarFits, Distinct, Queued
<1>7. FillFits'
  BY <1>1, <1>2 DEF BookInv, FillFits, B!FillsWereTraded
<1>8. CurveFits'
  BY <1>1 DEF BookInv, CurveFits
<1>. QED  BY <1>5, <1>6, <1>7, <1>8 DEF BookInv

LEMMA PassEndsBook ==
    ASSUME B!BacktestAssumption, BookInv, B!PassEnds
    PROVE  BookInv'
<1>1. /\ \/ phase = "open" /\ phase' = "add"
         \/ phase = "add" /\ phase' = "exit"
         \/ phase = "exit" /\ phase' = "close"
      /\ todo' = Order
      /\ UNCHANGED <<replay, barNo, bar, atr, added, pending, equity, cash, pos, prices, trail, trip, spent,
                     tranches, trips, fill>>
  BY DEF B!PassEnds, B!Enter, B!book
<1>2. AccountFits'
  BY <1>1, AccountKept DEF BookInv, AccountFits, BarFits
<1>3. BarFits'
  <2>1. todo' \in Seq(B!Traded) /\ Distinct(todo')
    BY <1>1, OrderFits
  <2>2. /\ replay' \in Settings /\ barNo' \in Int /\ barNo' >= 0 /\ atr' \in [B!Traded -> Nat]
        /\ bar' \in [B!Traded -> [open : Nat, high : Nat, low : Nat, close : Nat, atr : Nat]]
        /\ \A s \in B!Traded : bar'[s] \in B!SoundBars
        /\ pending' = [s \in B!Traded |-> pending'[s]] /\ \A s \in B!Traded : Queued(pending'[s])
        /\ added' \in [B!Traded -> [bar : Int, at : Int]]
        /\ \A s \in B!Traded : added'[s].bar <= barNo' /\ (added'[s].bar = barNo' => added'[s].at \in bar'[s].low .. bar'[s].high)
    BY <1>1 DEF BookInv, BarFits
  <2>3. ASSUME phase' = "add", NEW k \in 1..Len(todo') PROVE prices'[todo'[k]] = bar'[todo'[k]].open
    <3>1. phase = "open" /\ todo'[k] \in B!Traded
      BY <1>1, <2>1, <2>3
    <3>. QED  BY <1>1, <3>1 DEF BookInv, BarFits
  <2>. QED  BY <1>1, <2>1, <2>2, <2>3 DEF BarFits, Distinct, Queued
<1>4. FillFits'
  BY <1>1 DEF BookInv, FillFits, B!FillsWereTraded
<1>5. CurveFits'
  BY <1>1 DEF BookInv, CurveFits
<1>. QED  BY <1>2, <1>3, <1>4, <1>5 DEF BookInv

LEMMA BarEndsBook ==
    ASSUME B!BacktestAssumption, BookInv, B!BarEnds
    PROVE  BookInv'
<1>1. /\ phase = "close" /\ equity' = Append(equity, B!Book.equity) /\ phase' \in {"next", "done"}
      /\ UNCHANGED <<replay, todo, barNo, bar, atr, added, pending, cash, pos, prices, trail, trip, spent,
                     tranches, trips, fill>>
  BY DEF B!BarEnds
<1>2. AccountFits'
  BY <1>1, AccountKept DEF BookInv, AccountFits, BarFits
<1>3. BarFits'
  BY <1>1 DEF BookInv, BarFits, Distinct, Queued
<1>4. FillFits'
  BY <1>1 DEF BookInv, FillFits, B!FillsWereTraded
<1>5. CurveFits'
  <2>. DEFINE e == B!Book.equity
  <2>1. e \in Int
    <3>1. cash \in Int /\ prices \in [B!Traded -> Nat] /\ AccountFits
      BY DEF BookInv, AccountFits
    <3>. DEFINE sum == B!SumOver([s \in B!Traded |-> pos[s].qty * prices[s]])
    <3>2. e = cash + sum /\ sum \in Nat
      BY <3>1, BookAtFits DEF B!Book
    <3>. HIDE DEF sum, e
    <3>. QED  BY <3>1, <3>2
  <2>2. B!Book' = B!Book
    BY <1>1 DEF B!Book, B!BookAt, B!Today
  <2>. HIDE DEF e
  <2>3. equity \in Seq(Int) /\ Len(equity) = barNo /\ equity' = Append(equity, e) /\ barNo \in Int
    BY <1>1 DEF BookInv, CurveFits, BarFits, e
  <2>4. equity' \in Seq(Int) /\ Len(equity') = barNo + 1 /\ equity'[Len(equity')] = e
    BY <2>1, <2>3
  <2>. QED  BY <1>1, <2>2, <2>4 DEF CurveFits, e
<1>. QED  BY <1>2, <1>3, <1>4, <1>5 DEF BookInv

(* A turn that leaves the account alone, but perhaps for a mark and a peak. *)
LEMMA QuietTurn ==
    ASSUME AccountFits, BarFits, UNCHANGED B!still, UNCHANGED <<cash, pos, trip, spent, tranches, trips>>,
           prices' \in [B!Traded -> Nat], trail' \in [B!Traded -> [peak : Int, floor : Int]]
    PROVE  AccountFits'
<1>1. barNo \in Int /\ barNo' = barNo /\ replay' = replay
  BY DEF BarFits, B!still
<1>2. barNo' \in Int /\ barNo <= barNo'
  BY <1>1
<1>. QED  BY <1>1, <1>2, AccountKept

LEMMA Opened ==
    ASSUME BarFits, NEW p \in {"open", "add", "exit", "close"}, NEW s, B!Turn(p, s), UNCHANGED B!still
    PROVE  /\ phase = p /\ s \in B!Traded /\ s = todo[1] /\ 1 \in 1..Len(todo)
           /\ barNo \in Nat /\ UNCHANGED <<replay, barNo, bar, phase, equity>> /\ replay \in Settings
           /\ bar[s].open \in Nat \ {0} /\ bar[s].close \in Nat
<1>1. phase = p /\ todo # <<>> /\ s = Head(todo)
  BY DEF B!Turn
<1>2. todo \in Seq(B!Traded)
  BY DEF BarFits
<1>3. s = todo[1] /\ 1 \in 1..Len(todo) /\ s \in B!Traded
  BY <1>1, <1>2
<1>4. barNo \in Int /\ barNo >= 0 /\ replay \in Settings
  BY <1>1 DEF BarFits
<1>5. bar[s].open \in Nat /\ bar[s].low \in Nat /\ bar[s].low > 0 /\ bar[s].low <= bar[s].open /\ bar[s].close \in Nat
  BY <1>1, <1>3, BarIs
<1>. QED  BY <1>1, <1>3, <1>4, <1>5 DEF B!still

LEMMA FillBook ==
    ASSUME B!BacktestAssumption, BookInv, NEW s \in B!Traded, B!FillQueued(s)
    PROVE  BookInv'
<1>1. /\ B!Turn("open", s) /\ UNCHANGED B!still /\ UNCHANGED added
      /\ pending' = [pending EXCEPT ![s] = <<>>]
  BY DEF B!FillQueued
<1>2. AccountFits /\ BarFits /\ FillFits /\ CurveFits
  BY DEF BookInv
<1>3. /\ phase = "open" /\ barNo \in Nat /\ UNCHANGED <<replay, barNo, bar, phase, equity>> /\ replay \in Settings
      /\ bar[s].open \in Nat \ {0}
  BY <1>1, <1>2, Opened
<1>. DEFINE at == prices[s]
<1>4. at = bar[s].open /\ at \in Nat \ {0} /\ at \in bar[s].low .. bar[s].high
  BY <1>2, <1>3, BarIs DEF BarFits
<1>5. \/ UNCHANGED B!book
      \/ B!Held(s) /\ B!Sell(s, pos[s].qty, at, "strategy", 0, 0)
      \/ \E n : n = B!Bought(s, pending[s][1].notional \div at, at) /\ n > 0 /\ pending[s] # <<>> /\ B!Buy(s, n, at, "open")
  BY DEF B!FillQueued
<1>6. \A n : n = B!Bought(s, pending[s][1].notional \div at, at) /\ n > 0 /\ pending[s] # <<>> => n \in Nat \ {0}
  <2>. SUFFICES ASSUME pending[s] # <<>> PROVE B!Bought(s, pending[s][1].notional \div at, at) \in Nat
    OBVIOUS
  <2>1. pending[s][1].notional \in Nat
    BY <1>2 DEF BarFits, Queued
  <2>. DEFINE a == pending[s][1].notional
              q == a \div at
  <2>2. q \in Int
    <3>1. a \in Int /\ at \in Nat \ {0}
      BY <1>4, <2>1
    <3>. HIDE DEF a, at
    <3>. QED  BY <3>1, Divided
  <2>. HIDE DEF q, at
  <2>3. B!Bought(s, q, at) \in Nat
    BY <1>2, <1>3, <1>4, <2>2, BoughtFits
  <2>. QED  BY <2>3 DEF q, at
<1>7. AccountFits' /\ prices' = prices
  <2>1. CASE UNCHANGED B!book
    BY <2>1, <1>2, <1>1, QuietTurn DEF B!book, AccountFits
  <2>2. CASE B!Held(s) /\ B!Sell(s, pos[s].qty, at, "strategy", 0, 0)
    <3>. DEFINE n == pos[s].qty
    <3>1. n \in Nat \ {0} /\ n <= pos[s].qty /\ prices \in [B!Traded -> Nat]
      BY <1>2, <2>2 DEF AccountFits, B!Held
    <3>2. prices' = prices
      BY <2>2, <3>1 DEF B!Sell
    <3>3. B!Sell(s, n, at, "strategy", 0, 0)
      BY <2>2
    <3>. HIDE DEF n, at
    <3>4. AccountFits'
      BY <1>2, <1>3, <1>4, <3>1, <3>3, SellAccount
    <3>. QED  BY <3>2, <3>4
  <2>3. ASSUME NEW n, n = B!Bought(s, pending[s][1].notional \div at, at), n > 0, pending[s] # <<>>, B!Buy(s, n, at, "open")
        PROVE  AccountFits' /\ prices' = prices
    <3>1. n \in Nat \ {0}
      BY <1>6, <2>3
    <3>2. prices \in [B!Traded -> Nat] /\ prices' = [prices EXCEPT ![s] = at]
      BY <1>2, <2>3 DEF AccountFits, B!Buy
    <3>3. atr \in [B!Traded -> Nat]
      BY <1>2 DEF BarFits
    <3>4. prices' = prices
      BY <3>2
    <3>5. AccountFits'
      BY <1>2, <1>3, <1>4, <2>3, <3>1, <3>3, BuyAccount
    <3>. QED  BY <3>4, <3>5
  <2>. QED  BY <1>5, <2>1, <2>2, <2>3
<1>8. BarFits'
  BY <1>1, <1>2, <1>3, <1>7, BarTurn DEF BarFits, Queued
<1>9. FillFits'
  <2>1. CASE UNCHANGED B!book
    BY <2>1, <1>1, <1>2, <1>3, FillKept DEF B!book
  <2>2. CASE B!Held(s) /\ B!Sell(s, pos[s].qty, at, "strategy", 0, 0)
    <3>1. fill' = [s |-> s, side |-> "sell", how |-> "strategy", bar |-> barNo, at |-> at, equity |-> B!Book.equity]
      BY <2>2 DEF B!Sell
    <3>2. barNo \in Int
      BY <1>3
    <3>. HIDE DEF at
    <3>. QED  BY <1>1, <1>4, <3>1, <3>2, FillMade
  <2>3. ASSUME NEW n, B!Buy(s, n, at, "open") PROVE FillFits'
    <3>1. fill' = [s |-> s, side |-> "buy", how |-> "open", bar |-> barNo, at |-> at, equity |-> B!Book.equity]
      BY <2>3 DEF B!Buy
    <3>2. barNo \in Int
      BY <1>3
    <3>. HIDE DEF at
    <3>. QED  BY <1>1, <1>4, <3>1, <3>2, FillMade
  <2>. QED  BY <1>5, <2>1, <2>2, <2>3
<1>10. CurveFits'
  BY <1>2, <1>3, CurveKept
<1>. QED  BY <1>7, <1>8, <1>9, <1>10 DEF BookInv

LEMMA AddSizeNat ==
    ASSUME B!BacktestAssumption, AccountFits, BarFits, phase # "next", NEW s \in B!Traded, B!AddDue(s)
    PROVE  B!AddSize(s) \in Nat
<1>1. BookFits(B!Book, s)
  BY BookAtFits DEF AccountFits, B!Book
<1>2. B!AddFill(s) \in Nat /\ atr[s] \in Nat /\ replay \in Settings
  BY AddFits DEF BarFits
<1>3. replay.scaleIn.size \in Nat /\ {replay.size.most, replay.size.least} \subseteq Nat
  BY <1>2, SettingIs
<1>. DEFINE size == B!SizeBuy(replay.limits, replay.costs, replay.caps, B!Book, s, B!AddFill(s), replay.exits, replay.size, atr[s])
<1>4. size \in Nat
  BY <1>1, <1>2, <1>3, SettingIs, SizeNat
<1>5. B!AddSize(s) = (size * replay.scaleIn.size) \div B!Hundred
  BY DEF B!AddSize
<1>. HIDE DEF size
<1>. DEFINE prod == size * replay.scaleIn.size
<1>6. prod \in Nat
  BY <1>3, <1>4
<1>. HIDE DEF prod
<1>7. prod \div B!Hundred \in Nat
  BY <1>6 DEF B!Hundred
<1>. QED  BY <1>5, <1>7 DEF prod

LEMMA ScaleInBook ==
    ASSUME B!BacktestAssumption, BookInv, NEW s \in B!Traded, B!ScaleIn(s)
    PROVE  BookInv'
<1>. DEFINE at == B!AddFill(s)
            n == B!Bought(s, B!AddSize(s) \div at, at)
<1>1. /\ B!Turn("add", s) /\ UNCHANGED B!still /\ UNCHANGED pending
      /\ \/ UNCHANGED <<B!book, added>>
         \/ B!AddTried(s) /\ n > 0 /\ B!Buy(s, n, at, "add") /\ added' = [added EXCEPT ![s] = [bar |-> barNo, at |-> at]]
         \/ /\ B!AddTried(s) /\ prices' = [prices EXCEPT ![s] = at]
            /\ UNCHANGED <<cash, pos, trail, trip, spent, guard, tranches, trips, fill, added>>
  BY DEF B!ScaleIn
<1>2. AccountFits /\ BarFits /\ FillFits /\ CurveFits
  BY DEF BookInv
<1>3. /\ phase = "add" /\ barNo \in Nat /\ UNCHANGED <<replay, barNo, bar, phase, equity>> /\ replay \in Settings
  BY <1>1, <1>2, Opened
<1>4. B!AddTried(s) => /\ B!AddDue(s) /\ at \in Nat \ {0} /\ at \in bar[s].low .. bar[s].high /\ n \in Nat
  <2>. SUFFICES ASSUME B!AddTried(s)
                PROVE  B!AddDue(s) /\ at \in Nat \ {0} /\ at \in bar[s].low .. bar[s].high /\ n \in Nat
    OBVIOUS
  <2>1. B!AddDue(s)
    BY DEF B!AddTried
  <2>2. at \in Nat \ {0} /\ bar[s].low <= at /\ at <= bar[s].open
    BY <1>2, <1>3, <2>1, AddFits
  <2>3. bar[s].open <= bar[s].high /\ bar[s].open \in Nat /\ bar[s].high \in Nat /\ bar[s].low \in Nat
    BY <1>2, <1>3, BarIs
  <2>4. B!AddSize(s) \in Nat
    BY <1>2, <1>3, <2>1, AddSizeNat
  <2>. HIDE DEF at, n
  <2>5. at \in bar[s].low .. bar[s].high
    BY <2>2, <2>3
  <2>. DEFINE q == B!AddSize(s) \div at
  <2>6. q \in Int
    BY <2>2, <2>4, Divided
  <2>. HIDE DEF q
  <2>7. B!Bought(s, q, at) \in Nat
    BY <1>2, <1>3, <2>2, <2>6, BoughtFits
  <2>. QED  BY <2>1, <2>2, <2>5, <2>7 DEF q, n
<1>. HIDE DEF at, n
<1>5. AccountFits'
  <2>1. CASE UNCHANGED <<B!book, added>>
    BY <2>1, <1>2, <1>1, QuietTurn DEF B!book, AccountFits
  <2>2. CASE B!AddTried(s) /\ n > 0 /\ B!Buy(s, n, at, "add")
    <3>1. n \in Nat \ {0} /\ at \in Nat /\ atr \in [B!Traded -> Nat]
      BY <1>2, <1>4, <2>2 DEF BarFits
    <3>. QED  BY <1>2, <1>3, <2>2, <3>1, BuyAccount
  <2>3. CASE /\ B!AddTried(s) /\ prices' = [prices EXCEPT ![s] = at]
             /\ UNCHANGED <<cash, pos, trail, trip, spent, guard, tranches, trips, fill, added>>
    BY <1>2, <1>4, <2>3, <1>1, QuietTurn DEF AccountFits
  <2>. QED  BY <1>1, <2>1, <2>2, <2>3
<1>6. BarFits'
  <2>1. pending' = [q \in B!Traded |-> pending'[q]] /\ \A q \in B!Traded : Queued(pending'[q])
    BY <1>1, <1>2 DEF BarFits
  <2>2. /\ added \in [B!Traded -> [bar : Int, at : Int]]
        /\ \A q \in B!Traded : added[q].bar <= barNo /\ (added[q].bar = barNo => added[q].at \in bar[q].low .. bar[q].high)
    BY <1>2, <1>3 DEF BarFits
  <2>3. /\ added' \in [B!Traded -> [bar : Int, at : Int]]
        /\ \A q \in B!Traded : added'[q].bar <= barNo /\ (added'[q].bar = barNo => added'[q].at \in bar[q].low .. bar[q].high)
    BY <2>2, <1>3, <1>4, <1>1
  <2>4. \A q \in B!Traded \ {s} : prices'[q] = prices[q]
    BY <1>1, <1>2 DEF B!book, B!Buy, AccountFits
  <2>. QED  BY <1>1, <1>2, <2>1, <2>3, <2>4, BarTurn
<1>7. FillFits'
  <2>1. CASE UNCHANGED <<fill, added>>
    BY <1>2, <1>3, <2>1, FillKept
  <2>2. CASE B!AddTried(s) /\ B!Buy(s, n, at, "add")
    BY <2>2, <1>3, <1>4, <1>1, FillMade DEF B!Buy
  <2>. QED  BY <1>1, <2>1, <2>2 DEF B!book
<1>8. CurveFits'
  BY <1>2, <1>3, CurveKept
<1>. QED  BY <1>5, <1>6, <1>7, <1>8 DEF BookInv

LEMMA DecidedFits ==
    ASSUME B!BacktestAssumption, AccountFits, BarFits, phase # "next", NEW s \in B!Traded, NEW act
    PROVE  Queued(B!Decided(s, act))
<1>. DEFINE marks == [prices EXCEPT ![s] = bar[s].close]
            size == B!SizeBuy(replay.limits, replay.costs, replay.caps, B!BookAt(marks), s, bar[s].close,
                              replay.exits, replay.size, bar[s].atr)
            d == B!Decided(s, act)
<1>1. bar[s].close \in Nat /\ bar[s].atr \in Nat /\ replay \in Settings
  BY BarIs DEF BarFits
<1>2. size \in Nat
  <2>1. marks \in [B!Traded -> Nat]
    BY <1>1 DEF AccountFits
  <2>2. BookFits(B!BookAt(marks), s)
    <3>. HIDE DEF marks
    <3>. QED  BY <2>1, BookAtFits
  <2>3. {replay.size.most, replay.size.least} \subseteq Nat
    BY <1>1, SettingIs
  <2>. HIDE DEF marks
  <2>. QED  BY <1>1, <2>2, <2>3, SettingIs, SizeNat
<1>3. d \in {<<>>, <<[side |-> "buy", notional |-> size]>>, <<[side |-> "sell", notional |-> 0]>>, pending[s]}
  BY DEF B!Decided
<1>. HIDE DEF d, size
<1>4. Queued(pending[s])
  BY DEF BarFits
<1>5. Queued(<<>>) /\ Queued(<<[side |-> "buy", notional |-> size]>>) /\ Queued(<<[side |-> "sell", notional |-> 0]>>)
  BY <1>2 DEF Queued
<1>. QED  BY <1>3, <1>4, <1>5 DEF d

LEMMA AskBook ==
    ASSUME B!BacktestAssumption, BookInv, NEW s \in B!Traded, B!Ask(s)
    PROVE  BookInv'
<1>1. /\ B!Turn("close", s) /\ UNCHANGED B!still
      /\ prices' = [prices EXCEPT ![s] = bar[s].close]
      /\ UNCHANGED <<added, cash, pos, trail, trip, spent, guard, tranches, trips, fill>>
      /\ \E act : pending' = [pending EXCEPT ![s] = B!Decided(s, act)] \/ pending' = pending
  BY DEF B!Ask
<1>2. AccountFits /\ BarFits /\ FillFits /\ CurveFits
  BY DEF BookInv
<1>3. /\ phase = "close" /\ barNo \in Nat /\ UNCHANGED <<replay, barNo, bar, phase, equity>> /\ bar[s].close \in Nat
  BY <1>1, <1>2, Opened
<1>4. AccountFits'
  BY <1>1, <1>2, <1>3, QuietTurn DEF AccountFits
<1>5. BarFits'
  <2>1. pending' = [q \in B!Traded |-> pending'[q]] /\ \A q \in B!Traded : Queued(pending'[q])
    <3>1. pending = [q \in B!Traded |-> pending[q]] /\ \A q \in B!Traded : Queued(pending[q])
      BY <1>2 DEF BarFits
    <3>2. PICK act : pending' = [pending EXCEPT ![s] = B!Decided(s, act)] \/ pending' = pending
      BY <1>1
    <3>. DEFINE d == B!Decided(s, act)
    <3>3. Queued(d)
      BY <1>2, <1>3, DecidedFits
    <3>4. pending' = [pending EXCEPT ![s] = d] \/ pending' = pending
      BY <3>2
    <3>. HIDE DEF d
    <3>. QED  BY <3>1, <3>3, <3>4
  <2>2. /\ added' \in [B!Traded -> [bar : Int, at : Int]]
        /\ \A q \in B!Traded : added'[q].bar <= barNo /\ (added'[q].bar = barNo => added'[q].at \in bar[q].low .. bar[q].high)
    BY <1>1, <1>2, <1>3 DEF BarFits
  <2>. QED  BY <1>1, <1>2, <2>1, <2>2, BarTurn
<1>6. FillFits'
  BY <1>1, <1>2, <1>3, FillKept
<1>7. CurveFits'
  BY <1>2, <1>3, CurveKept
<1>. QED  BY <1>4, <1>5, <1>6, <1>7 DEF BookInv

LEMMA PeakInt ==
    ASSUME BarFits, phase # "next", AccountFits, NEW s \in B!Traded, B!Held(s)
    PROVE  B!Max({trail[s].peak, B!Avg(s), IF B!AddedNow(s) THEN bar[s].close ELSE bar[s].high}) \in Int
<1>. DEFINE a == trail[s].peak
            b == B!Avg(s)
            c == IF B!AddedNow(s) THEN bar[s].close ELSE bar[s].high
<1>1. a \in Int /\ b \in Int
  BY AvgInt DEF AccountFits
<1>2. c \in Int
  BY BarIs
<1>. HIDE DEF a, b, c
<1>. DEFINE X == {a, b, c}
<1>3. X \subseteq Int /\ X # {} /\ IsFiniteSet(X)
  <2>1. IsFiniteSet({a}) /\ IsFiniteSet({b}) /\ IsFiniteSet({c})
    BY FS_Singleton
  <2>2. IsFiniteSet({a} \cup {b})
    BY <2>1, FS_Union
  <2>3. IsFiniteSet(({a} \cup {b}) \cup {c})
    BY <2>1, <2>2, FS_Union
  <2>4. X = ({a} \cup {b}) \cup {c}
    OBVIOUS
  <2>. QED  BY <1>1, <1>2, <2>3, <2>4
<1>. HIDE DEF X
<1>4. B!Max(X) \in Int
  BY <1>3, EndsOf
<1>. QED  BY <1>4 DEF X, a, b, c

(* What an exit does: nothing, a new peak, all that is held at a price of   *)
(* the bar, or a rung of the ladder at one.                                *)
SoldInBar(s, n, at, kind, r, crest) ==
    /\ n \in Nat \ {0} /\ at \in Nat /\ r \in Nat /\ crest \in Int
    /\ B!Sell(s, n, at, kind, r, crest) /\ n <= pos[s].qty
    /\ bar[s].low <= at /\ at <= bar[s].high
    /\ B!AddedNow(s) => at <= B!Larger(added[s].at, bar[s].close)

ExitTold(s) ==
    \/ UNCHANGED B!book
    \/ \E crest \in Int : trail' = [trail EXCEPT ![s].peak = crest]
                        /\ UNCHANGED <<cash, pos, prices, trip, spent, guard, tranches, trips, fill>>
    \/ \E n, at, kind, r, crest : SoldInBar(s, n, at, kind, r, crest)

LEMMA ExitTells ==
    ASSUME B!BacktestAssumption, AccountFits, BarFits, phase # "next", NEW s \in B!Traded, B!Exit(s)
    PROVE  ExitTold(s)
<1>. DEFINE j == B!Judged(s)
            levels == B!LevelsOf(s)
            out == B!ExitFill(j, levels)
            avg == B!Avg(s)
            part1 == B!NextPartial(replay.exits, j.high, avg, trip[s].taken)
            n == B!Tranche(B!Larger(trip[s].orig, pos[s].qty), part1.pct, pos[s].qty)
            rise == B!Plus(avg, B!RungProfitPct(replay.exits, part1.rung))
            level == B!GapAdjusted(j.open, rise, FALSE)
            crest == B!Max({trail[s].peak, avg, IF B!AddedNow(s) THEN bar[s].close ELSE bar[s].high})
<1>1. \/ UNCHANGED B!book
      \/ B!Held(s) /\ out.kind # "none" /\ B!Sell(s, pos[s].qty, out.at, out.kind, 0, 0)
      \/ B!Held(s) /\ trail' = [trail EXCEPT ![s].peak = crest] /\ UNCHANGED <<cash, pos, prices, trip, spent, guard, tranches, trips, fill>>
      \/ B!Held(s) /\ part1.rung # 0 /\ n # 0 /\ B!Sell(s, n, level, "take-profit", part1.rung, crest)
  BY DEF B!Exit
<1>2. CASE UNCHANGED B!book
  BY <1>2 DEF ExitTold
<1>3. ASSUME B!Held(s)
      PROVE  /\ j.open \in Int /\ j.high \in Int /\ j.low \in Int /\ j.low = bar[s].low
             /\ j.low <= j.open /\ j.open <= j.high /\ j.high <= bar[s].high /\ bar[s].low \in Nat /\ bar[s].high \in Nat
             /\ B!AddedNow(s) => j.high = B!Larger(added[s].at, bar[s].close)
             /\ levels.stop \in Int /\ levels.trail \in Int /\ levels.target \in Int
             /\ avg \in Int /\ crest \in Int /\ pos[s].qty \in Nat \ {0} /\ TripFits(trip[s])
             /\ B!ExitsFit(replay.exits)
  <2>1. avg \in Int /\ crest \in Int /\ pos[s].qty \in Nat \ {0} /\ TripFits(trip[s])
    <3>1. avg \in Int /\ crest \in Int
      BY <1>3, AvgInt, PeakInt
    <3>. QED  BY <1>3, <3>1 DEF AccountFits, B!Held
  <2>2. levels.stop \in Int /\ levels.trail \in Int /\ levels.target \in Int
    BY <1>3, LevelsFit
  <2>3. B!ExitsFit(replay.exits)
    BY SettingIs DEF BarFits
  <2>4. /\ j.open \in Int /\ j.high \in Int /\ j.low \in Int /\ j.low = bar[s].low
        /\ j.low <= j.open /\ j.open <= j.high /\ j.high <= bar[s].high
        /\ B!AddedNow(s) => j.high = B!Larger(added[s].at, bar[s].close)
    BY JudgedFits
  <2>5. bar[s].low \in Nat /\ bar[s].high \in Nat
    BY BarIs
  <2>. QED  BY <2>1, <2>2, <2>3, <2>4, <2>5
<1>4. CASE B!Held(s) /\ out.kind # "none" /\ B!Sell(s, pos[s].qty, out.at, out.kind, 0, 0)
  <2>1. out.at \in Int /\ j.low <= out.at /\ out.at <= j.high
    <3>. HIDE DEF j, levels
    <3>. QED  BY <1>3, <1>4, ExitFillFits
  <2>. DEFINE q == pos[s].qty
              at == out.at
              kind == out.kind
  <2>2. B!Sell(s, q, at, kind, 0, 0) /\ q \in Nat \ {0} /\ q <= pos[s].qty
    BY <1>3, <1>4
  <2>. HIDE DEF j, levels, out
  <2>3. /\ at \in Nat /\ bar[s].low <= at /\ at <= bar[s].high
        /\ B!AddedNow(s) => at <= B!Larger(added[s].at, bar[s].close)
    BY <1>3, <1>4, <2>1
  <2>. HIDE DEF q, at, kind
  <2>4. SoldInBar(s, q, at, kind, 0, 0)
    BY <2>2, <2>3 DEF SoldInBar
  <2>. QED  BY <2>4 DEF ExitTold
<1>5. CASE B!Held(s) /\ trail' = [trail EXCEPT ![s].peak = crest] /\ UNCHANGED <<cash, pos, prices, trip, spent, guard, tranches, trips, fill>>
  <2>1. crest \in Int
    BY <1>3, <1>5
  <2>. HIDE DEF crest
  <2>. QED  BY <1>5, <2>1 DEF ExitTold
<1>6. CASE B!Held(s) /\ part1.rung # 0 /\ n # 0 /\ B!Sell(s, n, level, "take-profit", part1.rung, crest)
  <2>. DEFINE taken == trip[s].taken
              high == j.high
              open == j.open
              r == part1.rung
              pct == part1.pct
  <2>1. taken \in Nat /\ high \in Int /\ avg \in Int /\ open \in Int /\ open <= high /\ crest \in Int /\ B!ExitsFit(replay.exits)
    BY <1>3, <1>6 DEF TripFits
  <2>2. r \in Nat /\ pct \in Nat /\ B!RungProfitPct(replay.exits, r) \in Nat /\ rise <= high
    <3>1. part1 = B!NextPartial(replay.exits, high, avg, taken)
      OBVIOUS
    <3>. HIDE DEF high, avg, taken, part1
    <3>. QED  BY <1>6, <2>1, <3>1, PartFits
  <2>. DEFINE profit == B!RungProfitPct(replay.exits, r)
  <2>3. rise \in Int
    <3>1. profit \in Int /\ rise = B!Plus(avg, profit)
      BY <2>2
    <3>. HIDE DEF profit, avg, rise
    <3>. QED  BY <2>1, <3>1, PlusInt
  <2>4. level \in Int /\ open <= level /\ level <= high
    <3>1. level = B!GapAdjusted(open, rise, FALSE)
      OBVIOUS
    <3>. HIDE DEF open, rise, high, level
    <3>. QED  BY <2>1, <2>2, <2>3, <3>1, GapsFit
  <2>5. n \in Nat /\ n <= pos[s].qty
    <3>. DEFINE orig == B!Larger(trip[s].orig, pos[s].qty)
                q == pos[s].qty
    <3>1. orig \in Nat /\ q \in Nat
      <4>1. orig \in Int /\ orig >= pos[s].qty /\ pos[s].qty \in Nat
        <5>1. trip[s].orig \in Int /\ pos[s].qty \in Int /\ pos[s].qty \in Nat
          BY <1>3, <1>6 DEF TripFits
        <5>. QED  BY <5>1, LargerInt
      <4>. HIDE DEF orig
      <4>. QED  BY <4>1
    <3>2. n = B!Tranche(orig, pct, q)
      OBVIOUS
    <3>. HIDE DEF orig, q, pct, n
    <3>3. n \in Nat /\ n <= q
      BY <2>2, <3>1, <3>2, TrancheFits
    <3>. QED  BY <3>3 DEF q
  <2>6. B!Sell(s, n, level, "take-profit", r, crest) /\ n \in Nat \ {0}
    BY <1>6, <2>5
  <2>. HIDE DEF n, level, r, crest, rise, pct, profit
  <2>7. /\ level \in Nat /\ bar[s].low <= level /\ level <= bar[s].high
        /\ B!AddedNow(s) => level <= B!Larger(added[s].at, bar[s].close)
    <3>1. /\ bar[s].low \in Nat /\ bar[s].high \in Nat /\ bar[s].low <= open /\ high <= bar[s].high
          /\ B!AddedNow(s) => high = B!Larger(added[s].at, bar[s].close)
      BY <1>3, <1>6
    <3>. HIDE DEF open, high
    <3>. QED  BY <2>1, <2>4, <3>1
  <2>8. SoldInBar(s, n, level, "take-profit", r, crest)
    BY <2>1, <2>2, <2>5, <2>6, <2>7 DEF SoldInBar
  <2>. QED  BY <2>8 DEF ExitTold
<1>. HIDE DEF part1, out, levels, j, n, rise, level, crest
<1>. QED  BY <1>1, <1>2, <1>4, <1>5, <1>6

LEMMA ExitBook ==
    ASSUME B!BacktestAssumption, BookInv, NEW s \in B!Traded, B!Exit(s)
    PROVE  BookInv'
<1>1. B!Turn("exit", s) /\ UNCHANGED B!still /\ UNCHANGED <<added, pending>>
  BY DEF B!Exit
<1>2. AccountFits /\ BarFits /\ FillFits /\ CurveFits
  BY DEF BookInv
<1>3. /\ phase = "exit" /\ barNo \in Nat /\ UNCHANGED <<replay, barNo, bar, phase, equity>> /\ replay \in Settings
  BY <1>1, <1>2, Opened
<1>4. ExitTold(s)
  BY <1>2, <1>3, ExitTells
<1>5. AccountFits' /\ FillFits'
  <2>1. CASE UNCHANGED B!book
    BY <2>1, <1>2, <1>1, QuietTurn, <1>3, FillKept DEF B!book, AccountFits
  <2>2. ASSUME NEW crest \in Int, trail' = [trail EXCEPT ![s].peak = crest],
               UNCHANGED <<cash, pos, prices, trip, spent, guard, tranches, trips, fill>>
        PROVE  AccountFits' /\ FillFits'
    <3>1. trail \in [B!Traded -> [peak : Int, floor : Int]] /\ prices' \in [B!Traded -> Nat]
      BY <1>2, <2>2 DEF AccountFits
    <3>2. trail' \in [B!Traded -> [peak : Int, floor : Int]]
      BY <2>2, <3>1
    <3>3. AccountFits'
      BY <1>1, <1>2, <2>2, <3>1, <3>2, QuietTurn
    <3>. QED  BY <1>1, <1>2, <1>3, <2>2, <3>3, FillKept
  <2>3. ASSUME NEW n, NEW at, NEW kind, NEW r, NEW crest, SoldInBar(s, n, at, kind, r, crest)
        PROVE  AccountFits' /\ FillFits'
    <3>0. /\ n \in Nat \ {0} /\ at \in Nat /\ r \in Nat /\ crest \in Int
          /\ B!Sell(s, n, at, kind, r, crest) /\ n <= pos[s].qty
          /\ bar[s].low <= at /\ at <= bar[s].high
          /\ B!AddedNow(s) => at <= B!Larger(added[s].at, bar[s].close)
      BY <2>3 DEF SoldInBar
    <3>1. AccountFits'
      BY <1>2, <1>3, <3>0, SellAccount
    <3>2. fill' = [s |-> s, side |-> "sell", how |-> kind, bar |-> barNo, at |-> at, equity |-> B!Book.equity]
      BY <3>0 DEF B!Sell
    <3>3. at \in bar[s].low .. bar[s].high /\ barNo \in Int
      BY <1>2, <1>3, BarIs, <3>0
    <3>4. phase \notin {"open", "add"} /\ (added'[s].bar = barNo => at <= B!Larger(added'[s].at, bar[s].close))
      BY <1>1, <1>3, <3>0 DEF B!AddedNow
    <3>5. FillFits'
      BY <1>1, <3>2, <3>3, <3>4, FillMade
    <3>. QED  BY <3>1, <3>5
  <2>. QED  BY <1>4, <2>1, <2>2, <2>3 DEF ExitTold
<1>6. BarFits'
  BY <1>1, <1>2, <1>3, BarTurn DEF BarFits
<1>7. CurveFits'
  BY <1>2, <1>3, CurveKept
<1>. QED  BY <1>5, <1>6, <1>7 DEF BookInv

LEMMA BookStep ==
    ASSUME B!BacktestAssumption, BookInv, [B!Next]_btvars
    PROVE  BookInv'
<1>1. CASE UNCHANGED btvars
  <2>1. AccountFits' /\ FillFits' /\ CurveFits'
    BY <1>1 DEF btvars, BookInv, AccountFits, FillFits, CurveFits, B!BooksBalance, B!FillsWereTraded, B!Book, B!BookAt, B!Today
  <2>2. BarFits'
    BY <1>1 DEF btvars, BookInv, BarFits, Distinct, Queued
  <2>. QED  BY <2>1, <2>2 DEF BookInv
<1>2. CASE B!Next
  <2>1. ASSUME NEW s \in B!Traded, B!FillQueued(s) \/ B!ScaleIn(s) \/ B!Exit(s) \/ B!Ask(s)
        PROVE  BookInv'
    BY <2>1, FillBook, ScaleInBook, ExitBook, AskBook
  <2>. QED  BY <1>2, <2>1, NextBarBook, PassEndsBook, BarEndsBook DEF B!Next
<1>. QED  BY <1>1, <1>2

-----------------------------------------------------------------------------
(* What a report says of the results.                                      *)

LEMMA Scaled ==
    ASSUME NEW x \in Int, NEW y \in Int, NEW z \in Nat, x <= y
    PROVE  x * z <= y * z /\ x * z \in Int /\ y * z \in Int
<1>. DEFINE d == y - x
<1>1. d \in Nat /\ y = x + d
  OBVIOUS
<1>. HIDE DEF d
<1>2. y * z = x * z + d * z /\ d * z \in Nat /\ x * z \in Int
  BY <1>1
<1>. QED  BY <1>2

LEMMA Unscaled ==
    ASSUME NEW x \in Int, NEW y \in Int, NEW z \in Nat \ {0}, x * z <= y * z
    PROVE  x <= y
<1>. SUFFICES ASSUME x > y PROVE FALSE
  OBVIOUS
<1>. DEFINE d == x - y - 1
<1>1. d \in Nat /\ x = y + 1 + d
  OBVIOUS
<1>. HIDE DEF d
<1>2. x * z = y * z + z + d * z /\ d * z \in Nat /\ y * z \in Int
  BY <1>1
<1>. QED  BY <1>2

(* Fractions compared over their common denominators, as the falls are.    *)
LEMMA FractionsGo ==
    ASSUME NEW x \in Int, NEW y \in Int, NEW z \in Int,
           NEW l \in Nat \ {0}, NEW m \in Nat \ {0}, NEW n \in Nat \ {0},
           x * m >= y * l, y * n >= z * m
    PROVE  x * n >= z * l
<1>. DEFINE a == x * m
            b == y * l
            c == y * n
            d == z * m
            u == x * n
            v == z * l
<1>1. a \in Int /\ b \in Int /\ c \in Int /\ d \in Int /\ u \in Int /\ v \in Int /\ b <= a /\ d <= c
  OBVIOUS
<1>2. b * n <= a * n /\ d * l <= c * l
  <2>. HIDE DEF a, b, c, d
  <2>1. n \in Nat /\ l \in Nat
    OBVIOUS
  <2>2. b * n <= a * n
    BY <1>1, <2>1, Scaled
  <2>3. d * l <= c * l
    BY <1>1, <2>1, Scaled
  <2>. QED  BY <2>2, <2>3
<1>3. a * n = u * m /\ b * n = c * l /\ d * l = v * m
  OBVIOUS
<1>4. v * m <= u * m
  <2>1. b * n \in Int /\ a * n \in Int /\ d * l \in Int /\ c * l \in Int
    <3>. HIDE DEF a, b, c, d
    <3>. QED  BY <1>1
  <2>. DEFINE p == a * n  q == b * n  r == d * l  s == c * l
  <2>2. r <= s /\ s = q /\ q <= p /\ p \in Int /\ q \in Int /\ r \in Int /\ s \in Int
    BY <1>2, <1>3, <2>1
  <2>3. v * m = r /\ u * m = p
    BY <1>3
  <2>. HIDE DEF p, q, r, s, u, v
  <2>4. r <= p
    BY <2>2
  <2>. QED  BY <2>3, <2>4
<1>. HIDE DEF u, v
<1>5. v <= u
  BY <1>1, <1>4, Unscaled
<1>. QED  BY <1>1, <1>5 DEF u, v

(* A part and the rest.                                                    *)
LEMMA SumParted ==
    ASSUME NEW D, IsFiniteSet(D), NEW f \in [D -> Int], NEW W \in SUBSET D
    PROVE  B!SumOver(Only(f, W)) + B!SumOver(Only(f, D \ W)) = B!SumOver(f) /\ B!SumOver(Only(f, W)) \in Int
           /\ B!SumOver(Only(f, D \ W)) \in Int
<1>. DEFINE g == [x \in D |-> IF x \in W THEN f[x] ELSE 0]
            h == [x \in D |-> IF x \in W THEN 0 ELSE f[x]]
            L1 == D \ W
<1>1. g \in [D -> Int] /\ h \in [D -> Int] /\ (\A x \in D \ W : g[x] = 0) /\ (\A x \in D \ L1 : h[x] = 0)
      /\ L1 \in SUBSET D
  OBVIOUS
<1>2. f = [x \in D |-> g[x] + h[x]]
  OBVIOUS
<1>3. Only(g, W) = Only(f, W) /\ Only(h, L1) = Only(f, L1)
  BY DEF Only
<1>. HIDE DEF g, h, L1
<1>4. B!SumOver(f) = B!SumOver(g) + B!SumOver(h)
  BY <1>1, SumPlus, <1>2
<1>5. B!SumOver(g) = B!SumOver(Only(f, W)) /\ B!SumOver(h) = B!SumOver(Only(f, L1))
  BY <1>1, <1>3, SumWithin
<1>6. B!SumOver(g) \in Int /\ B!SumOver(h) \in Int
  BY <1>1, SumInt
<1>. QED  BY <1>4, <1>5, <1>6 DEF L1

(* A column of results that are numbers.                                   *)
ColumnFits(q, field) == Len(q) \in Nat /\ DOMAIN q = 1..Len(q) /\ \A k \in 1..Len(q) : q[k][field] \in Int

LEMMA ColumnSplits ==
    ASSUME NEW q, NEW field, ColumnFits(q, field)
    PROVE  /\ B!SumOf(q, B!Winners(q), field) + B!SumOf(q, B!Losers(q), field) = B!SumOf(q, DOMAIN q, field)
           /\ B!SumOf(q, B!Winners(q), field) \in Int /\ B!SumOf(q, B!Losers(q), field) \in Int
<1>. DEFINE D == DOMAIN q
            f == [k \in D |-> q[k][field]]
            W == B!Winners(q)
<1>1. IsFiniteSet(D) /\ f \in [D -> Int] /\ W \in SUBSET D
  <2>1. IsFiniteSet(1..Len(q))
    BY FS_Interval DEF ColumnFits
  <2>. QED  BY <2>1 DEF ColumnFits, B!Winners
<1>2. /\ B!SumOf(q, W, field) = B!SumOver(Only(f, W)) /\ B!SumOf(q, D \ W, field) = B!SumOver(Only(f, D \ W))
      /\ B!SumOf(q, D, field) = B!SumOver(f)
  BY <1>1 DEF Only, B!SumOf
<1>. HIDE DEF D, f, W
<1>3. /\ B!SumOver(Only(f, W)) + B!SumOver(Only(f, D \ W)) = B!SumOver(f)
      /\ B!SumOver(Only(f, W)) \in Int /\ B!SumOver(Only(f, D \ W)) \in Int
  BY <1>1, SumParted
<1>. QED  BY <1>2, <1>3 DEF D, W, B!Losers

LEMMA ColumnGroups ==
    ASSUME NEW q, NEW field, NEW column, ColumnFits(q, field)
    PROVE  B!SumOver([d \in {q[k][column] : k \in DOMAIN q} |-> B!SumOf(q, {k \in DOMAIN q : q[k][column] = d}, field)])
             = B!SumOf(q, DOMAIN q, field)
<1>. DEFINE K == DOMAIN q
            lab == [k \in K |-> q[k][column]]
            D == {lab[k] : k \in K}
            f == [k \in K |-> q[k][field]]
<1>1. IsFiniteSet(K) /\ f \in [K -> Int]
  <2>1. IsFiniteSet(1..Len(q))
    BY FS_Interval DEF ColumnFits
  <2>. QED  BY <2>1 DEF ColumnFits
<1>2. lab \in [K -> D] /\ DOMAIN lab = K
  OBVIOUS
<1>3. IsFiniteSet(D)
  <2>. HIDE DEF K, lab
  <2>. QED  BY <1>1, <1>2, ImageFinite
<1>4. D = {q[k][column] : k \in DOMAIN q}
  OBVIOUS
<1>5. \A d \in D : B!SumOf(q, {k \in K : q[k][column] = d}, field) = B!SumOver([k \in {j \in K : lab[j] = d} |-> f[k]])
  <2>. TAKE d \in D
  <2>1. {k \in K : q[k][column] = d} = {j \in K : lab[j] = d}
    OBVIOUS
  <2>2. B!SumOf(q, {k \in K : q[k][column] = d}, field) = B!SumOver([k \in {j \in K : q[j][column] = d} |-> q[k][field]])
    BY DEF B!SumOf
  <2>3. [k \in {j \in K : q[j][column] = d} |-> q[k][field]] = [k \in {j \in K : lab[j] = d} |-> f[k]]
    BY <2>1
  <2>. QED  BY <2>2, <2>3
<1>6. B!SumOf(q, K, field) = B!SumOver(f)
  BY DEF B!SumOf
<1>7. [d \in D |-> B!SumOf(q, {k \in K : q[k][column] = d}, field)] = [d \in D |-> B!SumOver([k \in {j \in K : lab[j] = d} |-> f[k]])]
  BY <1>5
<1>8. B!SumOver([d \in D |-> B!SumOver([k \in {j \in K : lab[j] = d} |-> f[k]])]) = B!SumOver(f)
  <2>. HIDE DEF K, lab, D, f
  <2>. QED  BY <1>1, <1>2, <1>3, SumGroups
<1>. QED  BY <1>4, <1>6, <1>7, <1>8 DEF K

(* The n-th shortest holding.                                              *)
Shorter(q, v) == {k \in DOMAIN q : q[k].held < v}

LEMMA SizeIs == ASSUME NEW X PROVE B!Cardinality(X) = Cardinality(X)
BY DEF B!Cardinality, Cardinality

LEMMA ShorterFits ==
    ASSUME NEW q, ColumnFits(q, "held"), NEW v \in Int, NEW w \in Int, v <= w
    PROVE  /\ B!Cardinality(Shorter(q, v)) \in Nat /\ B!Cardinality(Shorter(q, w)) \in Nat
           /\ B!Cardinality(Shorter(q, v)) <= B!Cardinality(Shorter(q, w))
<1>. DEFINE X == Shorter(q, v)
            Y == Shorter(q, w)
<1>1. IsFiniteSet(1..Len(q))
  <2>1. Len(q) \in Int
    BY DEF ColumnFits
  <2>. HIDE DEF X, Y
  <2>. QED  BY <2>1, FS_Interval
<1>2. X \subseteq Y /\ Y \subseteq 1..Len(q)
  BY DEF Shorter, ColumnFits
<1>. HIDE DEF X, Y
<1>3. IsFiniteSet(Y)
  BY <1>1, <1>2, FS_Subset
<1>4. IsFiniteSet(X) /\ Cardinality(X) <= Cardinality(Y)
  BY <1>2, <1>3, FS_Subset
<1>5. Cardinality(X) \in Nat /\ Cardinality(Y) \in Nat
  BY <1>3, <1>4, FS_CardinalityType
<1>. QED  BY <1>4, <1>5, SizeIs DEF X, Y

IsNth(q, n, v) ==
    /\ \E k \in DOMAIN q : v = q[k].held
    /\ B!Cardinality(Shorter(q, v)) < n /\ n <= B!Cardinality(Shorter(q, v + 1))

LEMMA NthExists ==
    ASSUME NEW q, ColumnFits(q, "held"), NEW n \in 1..Len(q)
    PROVE  \E v : IsNth(q, n, v)
<1>. DEFINE H == {q[k].held : k \in DOMAIN q}
            C(v) == B!Cardinality(Shorter(q, v))
            X == {v \in H : n <= C(v + 1)}
<1>1. IsFiniteSet(1..Len(q)) /\ DOMAIN q = 1..Len(q) /\ Len(q) \in Nat
  <2>1. DOMAIN q = 1..Len(q) /\ Len(q) \in Nat
    BY DEF ColumnFits
  <2>2. IsFiniteSet(1..Len(q))
    BY <2>1, FS_Interval
  <2>. QED  BY <2>1, <2>2
<1>2. H \subseteq Int /\ H # {}
  BY <1>1 DEF ColumnFits
<1>3. IsFiniteSet(H)
  <2>. DEFINE f == [k \in DOMAIN q |-> q[k].held]
  <2>1. DOMAIN f = DOMAIN q /\ H = {f[k] : k \in DOMAIN q}
    OBVIOUS
  <2>. HIDE DEF f, H
  <2>2. IsFiniteSet({f[k] : k \in DOMAIN q})
    BY <1>1, <2>1, ImageFinite
  <2>. QED  BY <2>1, <2>2
<1>4. B!Max(H) \in X
  <2>. DEFINE crest == B!Max(H)
  <2>1. crest \in H /\ \A x \in H : crest >= x
    <3>. HIDE DEF H
    <3>. QED  BY <1>2, <1>3, EndsOf
  <2>. HIDE DEF crest
  <2>2. Shorter(q, crest + 1) = 1..Len(q)
    <3>1. crest \in Int
      BY <1>2, <2>1
    <3>2. \A k \in DOMAIN q : q[k].held \in Int /\ q[k].held <= crest
      BY <1>2, <2>1
    <3>. QED  BY <1>1, <3>1, <3>2 DEF Shorter
  <2>3. C(crest + 1) = Len(q)
    <3>1. Cardinality(1..Len(q)) = Len(q)
      BY <1>1, FS_Interval
    <3>. QED  BY <2>2, <3>1, SizeIs
  <2>4. n <= C(crest + 1)
    BY <1>1, <2>3
  <2>. QED  BY <2>1, <2>4 DEF crest
<1>. DEFINE v == B!Min(X)
<1>5. v \in X /\ \A x \in X : v <= x
  <2>1. X \subseteq H /\ X # {}
    BY <1>4
  <2>. HIDE DEF X, H
  <2>2. IsFiniteSet(X)
    BY <1>3, <2>1, FS_Subset
  <2>3. X \subseteq Int
    BY <1>2, <2>1
  <2>. QED  BY <2>1, <2>2, <2>3, EndsOf
<1>. HIDE DEF v
<1>6. C(v) < n
  <2>1. v \in Int /\ C(v) \in Nat
    BY <1>2, <1>5, ShorterFits
  <2>2. CASE Shorter(q, v) = {}
    BY <2>2, SizeIs, FS_EmptySet, <1>1
  <2>3. CASE Shorter(q, v) # {}
    <3>. DEFINE Y == {x \in H : x < v}
                u == B!Max(Y)
    <3>1. Y \subseteq H /\ Y # {}
      BY <2>3 DEF Shorter
    <3>2. u \in Y /\ \A x \in Y : u >= x
      <4>. HIDE DEF Y, H
      <4>1. IsFiniteSet(Y)
        BY <1>3, <3>1, FS_Subset
      <4>2. Y \subseteq Int
        BY <1>2, <3>1
      <4>. QED  BY <3>1, <4>1, <4>2, EndsOf
    <3>. HIDE DEF u
    <3>3. u \in H /\ u < v /\ u \in Int /\ v \in Int
      BY <1>2, <2>1, <3>2
    <3>4. Shorter(q, u + 1) = Shorter(q, v)
      <4>1. ASSUME NEW k \in DOMAIN q PROVE q[k].held < u + 1 <=> q[k].held < v
        <5>1. q[k].held \in H /\ q[k].held \in Int
          BY <1>2
        <5>2. q[k].held < v => u >= q[k].held
          BY <3>2, <5>1
        <5>. QED  BY <3>3, <5>1, <5>2
      <4>. QED  BY <4>1 DEF Shorter
    <3>5. u \notin X
      <4>. HIDE DEF X, H
      <4>. QED  BY <1>5, <3>3
    <3>6. ~(n <= C(v))
      BY <3>3, <3>4, <3>5
    <3>. QED  BY <1>1, <2>1, <3>6
  <2>. QED  BY <2>2, <2>3
<1>. QED  BY <1>5, <1>6 DEF IsNth

LEMMA NthFits ==
    ASSUME NEW q, ColumnFits(q, "held"), NEW n \in 1..Len(q)
    PROVE  IsNth(q, n, B!Nth(q, n)) /\ B!Nth(q, n) \in Int
<1>. DEFINE H == {q[k].held : k \in DOMAIN q}
<1>1. B!Nth(q, n) = CHOOSE v \in H : B!Cardinality(Shorter(q, v)) < n /\ n <= B!Cardinality(Shorter(q, v + 1))
  BY DEF B!Nth, Shorter
<1>2. \E v \in H : B!Cardinality(Shorter(q, v)) < n /\ n <= B!Cardinality(Shorter(q, v + 1))
  BY NthExists DEF IsNth
<1>3. LET v == B!Nth(q, n) IN v \in H /\ B!Cardinality(Shorter(q, v)) < n /\ n <= B!Cardinality(Shorter(q, v + 1))
  BY <1>1, <1>2
<1>4. H \subseteq Int
  BY DEF ColumnFits
<1>. QED  BY <1>3, <1>4 DEF IsNth

LEMMA NthGrows ==
    ASSUME NEW q, ColumnFits(q, "held"), NEW m \in 1..Len(q), NEW n \in 1..Len(q), m <= n
    PROVE  B!Nth(q, m) <= B!Nth(q, n)
<1>. DEFINE v == B!Nth(q, m)
            w == B!Nth(q, n)
            C(x) == B!Cardinality(Shorter(q, x))
<1>1. v \in Int /\ w \in Int /\ C(v) < m /\ n <= C(w + 1)
  BY NthFits DEF IsNth
<1>2. Len(q) \in Nat
  BY DEF ColumnFits
<1>. HIDE DEF v, w
<1>3. SUFFICES ASSUME w + 1 <= v PROVE FALSE
  BY <1>1 DEF v, w
<1>. DEFINE x == w + 1
<1>4. x \in Int /\ x <= v /\ n <= C(x)
  BY <1>1, <1>3
<1>. HIDE DEF x
<1>5. C(x) \in Nat /\ C(v) \in Nat /\ C(x) <= C(v)
  BY <1>1, <1>4, ShorterFits
<1>. QED  BY <1>1, <1>2, <1>4, <1>5

LEMMA HoldsFit ==
    ASSUME NEW q, ColumnFits(q, "held"), q # <<>>, IsSeq(q), NEW most \in Int, \A k \in 1..Len(q) : q[k].held <= most
    PROVE  LET hold == B!HoldStats(q)
           IN  /\ hold.won + hold.lost = hold.total
               /\ B!SumOf(q, DOMAIN q, "held") = hold.total
               /\ hold.least <= hold.median /\ hold.median <= hold.most
               /\ hold.most <= most
<1>. DEFINE hold == B!HoldStats(q)
            n == Len(q)
            mid == (Len(q) \div 2) + 1
<1>1. n \in Nat \ {0} /\ DOMAIN q = 1..n
  BY DEF IsSeq, ColumnFits
<1>2. mid \in Nat /\ 1 <= mid /\ mid <= n
  BY <1>1
<1>3. /\ hold.least = B!Nth(q, 1) /\ hold.median = B!Nth(q, mid) /\ hold.most = B!Nth(q, n)
      /\ hold.total = B!SumOf(q, DOMAIN q, "held")
      /\ hold.won = B!SumOf(q, B!Winners(q), "held") /\ hold.lost = B!SumOf(q, B!Losers(q), "held")
  BY DEF B!HoldStats
<1>. HIDE DEF hold, mid
<1>4. B!Nth(q, 1) <= B!Nth(q, mid) /\ B!Nth(q, mid) <= B!Nth(q, n)
  <2>1. 1 \in 1..Len(q) /\ mid \in 1..Len(q) /\ n \in 1..Len(q)
    BY <1>1, <1>2
  <2>2. 1 <= mid /\ mid <= n
    BY <1>2
  <2>. HIDE DEF n
  <2>. QED  BY <2>1, <2>2, NthGrows
<1>5. B!Nth(q, n) <= most
  <2>1. n \in 1..Len(q)
    BY <1>1
  <2>2. \E k \in DOMAIN q : B!Nth(q, n) = q[k].held
    <3>. HIDE DEF n
    <3>. QED  BY <2>1, NthFits DEF IsNth
  <2>. QED  BY <1>1, <2>2
<1>. QED  BY <1>3, <1>4, <1>5, ColumnSplits DEF hold

(* The periods of a curve: each begins after the end of another.           *)
LEMMA PeriodsJoin ==
    ASSUME NEW e \in Seq(Int), NEW start \in Nat \ {0}, NEW length
    PROVE  LET periods == B!PeriodReturns(e, start, length)
           IN  /\ \A p \in periods : \/ p.from = 1 /\ p.startEq = start
                                     \/ \E q \in periods : q.to = p.from - 1 /\ q.endEq = p.startEq
               /\ periods # {} => \E p \in periods : p.to = Len(e)
<1>. DEFINE period(k) == (k - 1) \div length
            firsts == {k \in DOMAIN e : k = 1 \/ period(k) # period(k - 1)}
            lasts == {k \in DOMAIN e : k = Len(e) \/ period(k) # period(k + 1)}
            begin(k) == B!Max({f \in firsts : f <= k})
            before(k) == IF begin(k) > 1 THEN e[begin(k) - 1]
                         ELSE IF start > 0 THEN start ELSE e[begin(k)]
            all == {[from |-> begin(k), to |-> k, startEq |-> before(k), endEq |-> e[k]] : k \in lasts}
            periods == B!PeriodReturns(e, start, length)
<1>1. periods = IF Len(e) < 2 THEN {} ELSE all
  BY DEF B!PeriodReturns
<1>2. DOMAIN e = 1..Len(e) /\ Len(e) \in Nat
  OBVIOUS
<1>3. ASSUME NEW k \in lasts PROVE begin(k) \in firsts
  <2>. DEFINE F == {f \in firsts : f <= k}
  <2>1. k \in 1..Len(e)
    BY <1>2
  <2>2. 1 \in firsts /\ 1 <= k
    BY <1>2, <2>1
  <2>3. F # {} /\ F \subseteq Int /\ F \subseteq 1..Len(e) /\ F \subseteq firsts
    BY <1>2, <2>2
  <2>4. IsFiniteSet(1..Len(e))
    BY <1>2, FS_Interval
  <2>5. begin(k) = B!Max(F)
    OBVIOUS
  <2>. HIDE DEF F, firsts
  <2>6. IsFiniteSet(F)
    BY <2>3, <2>4, FS_Subset
  <2>. QED  BY <2>3, <2>5, <2>6, EndsOf
<1>4. ASSUME NEW p \in periods
      PROVE  \/ p.from = 1 /\ p.startEq = start
             \/ \E q \in periods : q.to = p.from - 1 /\ q.endEq = p.startEq
  <2>1. PICK k \in lasts : p = [from |-> begin(k), to |-> k, startEq |-> before(k), endEq |-> e[k]]
    <3>1. p \in all
      <4>. HIDE DEF all, periods
      <4>. QED  BY <1>1, <1>4
    <3>. HIDE DEF begin, before, lasts
    <3>. QED  BY <3>1
  <2>. DEFINE f == begin(k)
  <2>2. f \in firsts /\ p.from = f /\ p.startEq = IF f > 1 THEN e[f - 1] ELSE IF start > 0 THEN start ELSE e[f]
    BY <1>3, <2>1
  <2>. HIDE DEF f
  <2>3. f \in 1..Len(e) /\ (f = 1 \/ period(f) # period(f - 1))
    BY <1>2, <2>2
  <2>4. CASE f = 1
    BY <2>2, <2>4
  <2>5. CASE f # 1
    <3>. DEFINE m == f - 1
    <3>1. m \in 1..Len(e) /\ f = m + 1 /\ f > 1
      BY <1>2, <2>3, <2>5
    <3>2. period(m) # period(m + 1)
      BY <2>3, <2>5, <3>1
    <3>. HIDE DEF m
    <3>3. m \in lasts
      BY <1>2, <3>1, <3>2
    <3>. DEFINE q == [from |-> begin(m), to |-> m, startEq |-> before(m), endEq |-> e[m]]
    <3>4. q \in periods
      BY <1>1, <2>1, <3>3
    <3>5. q.to = m /\ q.endEq = e[m]
      OBVIOUS
    <3>6. p.startEq = e[m] /\ p.from - 1 = m
      BY <3>1, <2>2
    <3>. HIDE DEF q
    <3>. QED  BY <3>4, <3>5, <3>6
  <2>. QED  BY <2>4, <2>5
<1>5. ASSUME periods # {} PROVE \E p \in periods : p.to = Len(e)
  <2>1. Len(e) \in lasts /\ periods = all
    BY <1>1, <1>2, <1>5
  <2>. DEFINE n == Len(e)
              p == [from |-> begin(n), to |-> n, startEq |-> before(n), endEq |-> e[n]]
  <2>2. p \in periods /\ p.to = n
    BY <2>1
  <2>. HIDE DEF p
  <2>. QED  BY <2>2
<1>. QED  BY <1>4, <1>5

(* A fall from a peak is the deeper the more of the peak it takes.         *)
Deeper(a, b) == (a.peak - a.at) * b.peak >= (b.peak - b.at) * a.peak

LEMMA DeeperTotal ==
    ASSUME NEW A, A \subseteq [peak : Nat \ {0}, at : Int]
    PROVE  /\ \A x, y \in A : Deeper(x, y) \/ Deeper(y, x)
           /\ \A x, y, z \in A : Deeper(x, y) /\ Deeper(y, z) => Deeper(x, z)
<1>1. ASSUME NEW x \in A, NEW y \in A PROVE Deeper(x, y) \/ Deeper(y, x)
  <2>1. x.peak \in Nat \ {0} /\ x.at \in Int /\ y.peak \in Nat \ {0} /\ y.at \in Int
    OBVIOUS
  <2>. DEFINE u == (x.peak - x.at) * y.peak
              v == (y.peak - y.at) * x.peak
  <2>2. u \in Int /\ v \in Int
    BY <2>1
  <2>. HIDE DEF u, v
  <2>3. u >= v \/ v >= u
    BY <2>2
  <2>. QED  BY <2>3 DEF Deeper, u, v
<1>2. ASSUME NEW x \in A, NEW y \in A, NEW z \in A, Deeper(x, y), Deeper(y, z) PROVE Deeper(x, z)
  <2>. DEFINE a == x.peak - x.at
              b == y.peak - y.at
              c == z.peak - z.at
              l == x.peak
              m == y.peak
              n == z.peak
  <2>1. a \in Int /\ b \in Int /\ c \in Int /\ l \in Nat \ {0} /\ m \in Nat \ {0} /\ n \in Nat \ {0}
    OBVIOUS
  <2>2. a * m >= b * l /\ b * n >= c * m
    BY <1>2 DEF Deeper
  <2>. HIDE DEF a, b, c, l, m, n
  <2>3. a * n >= c * l
    BY <2>1, <2>2, FractionsGo
  <2>. QED  BY <2>3 DEF Deeper, a, c, l, n
<1>. QED  BY <1>1, <1>2

(* The deepest fall is no less deep than one from a lower point on the way. *)
LEMMA FallsFrom ==
    ASSUME NEW peakW \in Nat \ {0}, NEW atW \in Int, NEW crest \in Nat \ {0}, NEW high \in Nat \ {0}, high <= crest,
           NEW low \in Nat, (peakW - atW) * crest >= (crest - low) * peakW
    PROVE  (high - low) * peakW <= (peakW - atW) * high
<1>. DEFINE w == peakW - atW
            z == high - low
            t == crest - low
<1>1. w \in Int /\ z \in Int /\ t \in Int /\ w * crest >= t * peakW
  OBVIOUS
<1>2. t * high >= z * crest
  <2>1. PICK d \in Nat : crest = high + d
    OBVIOUS
  <2>2. t = z + d /\ z * crest = z * high + z * d /\ t * high = z * high + d * high
    BY <2>1
  <2>3. z * d <= d * high
    <3>1. z <= high /\ high \in Int
      OBVIOUS
    <3>. HIDE DEF z
    <3>2. z * d <= high * d
      BY <1>1, <3>1, Scaled
    <3>3. high * d = d * high
      OBVIOUS
    <3>. QED  BY <3>2, <3>3
  <2>4. z * high \in Int /\ z * d \in Int /\ d * high \in Int
    <3>. HIDE DEF z
    <3>. QED  BY <1>1
  <2>. DEFINE p == z * high  q == z * d  r == d * high
  <2>5. p \in Int /\ q \in Int /\ r \in Int /\ q <= r /\ z * crest = p + q /\ t * high = p + r
    BY <2>2, <2>3, <2>4
  <2>. HIDE DEF p, q, r, z, t
  <2>. QED  BY <2>5
<1>. HIDE DEF w, z, t
<1>3. w * high >= z * peakW
  BY <1>1, <1>2, FractionsGo
<1>. QED  BY <1>3 DEF w, z

LEMMA DeepestFall ==
    ASSUME NEW e \in Seq(Int)
    PROVE  LET worst == B!MaxDrawdown(e)
           IN  \A m, n \in DOMAIN e : m <= n /\ e[m] > 0 /\ e[n] >= 0 =>
                   (e[m] - e[n]) * worst.peak <= (worst.peak - worst.at) * e[m]
<1>. DEFINE fall(n) == [peak |-> B!Max({e[k] : k \in 1..n}), at |-> e[n]]
            falls == {fall(n) : n \in DOMAIN e}
            deep == {f \in falls : f.peak > 0}
            worst == B!MaxDrawdown(e)
<1>1. worst = IF deep = {} THEN [peak |-> 1, at |-> 1] ELSE CHOOSE f \in deep : \A g \in deep : Deeper(f, g)
  BY DEF B!MaxDrawdown, Deeper
<1>2. DOMAIN e = 1..Len(e) /\ Len(e) \in Nat /\ IsFiniteSet(1..Len(e)) /\ \A k \in 1..Len(e) : e[k] \in Int
  BY FS_Interval
<1>3. ASSUME NEW n \in DOMAIN e
      PROVE  fall(n) \in [peak : Int, at : Int] /\ fall(n).at = e[n] /\ \A m \in 1..n : fall(n).peak >= e[m]
  <2>. DEFINE X == {e[k] : k \in 1..n}
              h == [k \in 1..n |-> e[k]]
  <2>1. n \in Nat /\ n > 0 /\ 1..n \subseteq 1..Len(e)
    BY <1>2
  <2>2. IsFiniteSet(1..n)
    BY <2>1, FS_Interval
  <2>3. IsFiniteSet(X)
    <3>1. DOMAIN h = 1..n /\ X = {h[k] : k \in 1..n}
      OBVIOUS
    <3>. HIDE DEF h, X
    <3>2. IsFiniteSet({h[k] : k \in 1..n})
      BY <2>2, <3>1, ImageFinite
    <3>. QED  BY <3>1, <3>2
  <2>4. X # {} /\ X \subseteq Int
    BY <1>2, <2>1
  <2>5. \A m \in 1..n : e[m] \in X
    OBVIOUS
  <2>. HIDE DEF X
  <2>6. B!Max(X) \in X /\ \A x \in X : B!Max(X) >= x
    BY <2>3, <2>4, EndsOf
  <2>7. fall(n) = [peak |-> B!Max(X), at |-> e[n]]
    BY DEF X
  <2>. DEFINE r == fall(n)
              crest == B!Max(X)
  <2>8. r = [peak |-> crest, at |-> e[n]] /\ crest \in Int /\ e[n] \in Int /\ \A m \in 1..n : crest >= e[m]
    BY <1>2, <2>1, <2>4, <2>5, <2>6, <2>7
  <2>. HIDE DEF r, crest
  <2>9. r \in [peak : Int, at : Int] /\ r.at = e[n] /\ \A m \in 1..n : r.peak >= e[m]
    BY <2>8
  <2>. QED  BY <2>9 DEF r
<1>4. falls \subseteq [peak : Int, at : Int] /\ deep \subseteq [peak : Nat \ {0}, at : Int]
  <2>1. falls \subseteq [peak : Int, at : Int]
    BY <1>3
  <2>. HIDE DEF falls
  <2>. QED  BY <2>1
<1>5. IsFiniteSet(deep)
  <2>. DEFINE h == [n \in DOMAIN e |-> fall(n)]
  <2>1. DOMAIN h = DOMAIN e /\ falls = {h[n] : n \in DOMAIN e}
    OBVIOUS
  <2>. HIDE DEF h, falls
  <2>2. IsFiniteSet({h[n] : n \in DOMAIN e})
    BY <1>2, <2>1, ImageFinite
  <2>3. deep \subseteq falls
    OBVIOUS
  <2>. HIDE DEF deep
  <2>. QED  BY <2>1, <2>2, <2>3, FS_Subset
<1>6. SUFFICES ASSUME NEW m \in DOMAIN e, NEW n \in DOMAIN e, m <= n, e[m] > 0, e[n] >= 0
               PROVE  (e[m] - e[n]) * worst.peak <= (worst.peak - worst.at) * e[m]
  OBVIOUS
<1>. DEFINE g == fall(n)
<1>7. /\ e[m] \in Nat \ {0} /\ e[n] \in Nat
      /\ g.peak \in Nat \ {0} /\ e[m] <= g.peak /\ g.at = e[n] /\ g \in deep
  <2>1. g \in [peak : Int, at : Int] /\ g.at = e[n] /\ g \in falls
    BY <1>3
  <2>2. m \in 1..n /\ e[m] \in Int /\ e[n] \in Int
    BY <1>2, <1>6
  <2>3. g.peak >= e[m]
    BY <1>3, <2>2
  <2>4. g.peak \in Int
    BY <2>1
  <2>. HIDE DEF g, falls
  <2>. QED  BY <1>6, <2>1, <2>2, <2>3, <2>4
<1>8. worst \in deep /\ \A f \in deep : Deeper(worst, f)
  <2>. HIDE DEF deep, g
  <2>. DEFINE R == {x \in deep \X deep : Deeper(x[1], x[2])}
  <2>1. \A x, y \in deep : <<x, y>> \in R <=> Deeper(x, y)
    OBVIOUS
  <2>2. deep # {}
    BY <1>7
  <2>. HIDE DEF R
  <2>3. \A x, y \in deep : <<x, y>> \in R \/ <<y, x>> \in R
    BY <1>4, <2>1, DeeperTotal
  <2>4. \A x, y, z \in deep : <<x, y>> \in R /\ <<y, z>> \in R => <<x, z>> \in R
    BY <1>4, <2>1, DeeperTotal
  <2>5. \E x \in deep : \A y \in deep : <<x, y>> \in R
    BY <1>5, <2>2, <2>3, <2>4, FirstOf
  <2>6. \E x \in deep : \A y \in deep : Deeper(x, y)
    BY <2>1, <2>5
  <2>. QED  BY <1>1, <2>2, <2>6
<1>. HIDE DEF g, deep, worst, fall
<1>9. worst.peak \in Nat \ {0} /\ worst.at \in Int /\ (worst.peak - worst.at) * g.peak >= (g.peak - g.at) * worst.peak
  BY <1>7, <1>8, <1>4 DEF Deeper
<1>. DEFINE peakW == worst.peak
            atW == worst.at
            crest == g.peak
            high == e[m]
            low == e[n]
<1>10. /\ peakW \in Nat \ {0} /\ atW \in Int /\ crest \in Nat \ {0} /\ high \in Nat \ {0} /\ high <= crest /\ low \in Nat
       /\ (peakW - atW) * crest >= (crest - low) * peakW
  BY <1>7, <1>9
<1>. HIDE DEF peakW, atW, crest, high, low
<1>11. (high - low) * peakW <= (peakW - atW) * high
  BY <1>10, FallsFrom
<1>. QED  BY <1>11 DEF peakW, atW, high, low

LEMMA ResultsAre ==
    ASSUME AccountFits
    PROVE  /\ ColumnFits(trips, "pnl") /\ ColumnFits(trips, "held") /\ ColumnFits(tranches, "pnl")
           /\ IsSeq(trips)
<1>1. ResultsFit(trips) /\ ResultsFit(tranches)
  BY DEF AccountFits
<1>2. /\ Len(trips) \in Nat /\ DOMAIN trips = 1..Len(trips)
      /\ Len(tranches) \in Nat /\ DOMAIN tranches = 1..Len(tranches)
  BY <1>1, PnlInt
<1>3. \A k \in 1..Len(trips) : trips[k]["held"] \in Int
  BY DEF AccountFits
<1>. QED  BY <1>1, <1>2, <1>3 DEF ColumnFits, ResultsFit

(* The breakdowns by a column, read off the report.                        *)
LEMMA BreakdownAdds ==
    ASSUME NEW q, NEW column
    PROVE  LET by == B!By(q, column)
           IN  /\ ColumnFits(q, "pnl") => B!SumOver([d \in DOMAIN by |-> by[d].pnl]) = B!SumOf(q, DOMAIN q, "pnl")
               /\ ColumnFits(q, "held") => B!SumOver([d \in DOMAIN by |-> by[d].held]) = B!SumOf(q, DOMAIN q, "held")
<1>. DEFINE by == B!By(q, column)
            D == {q[k][column] : k \in DOMAIN q}
            group(d) == {k \in DOMAIN q : q[k][column] = d}
            pnl == [d \in DOMAIN by |-> by[d].pnl]
            held == [d \in DOMAIN by |-> by[d].held]
            pnlOf == [d \in D |-> B!SumOf(q, group(d), "pnl")]
            heldOf == [d \in D |-> B!SumOf(q, group(d), "held")]
<1>1. by = [d \in D |-> B!Tally(q, group(d))]
  BY DEF B!By
<1>2. \A d \in D : /\ B!Tally(q, group(d)).pnl = B!SumOf(q, group(d), "pnl")
                   /\ B!Tally(q, group(d)).held = B!SumOf(q, group(d), "held")
  BY DEF B!Tally
<1>3. ColumnFits(q, "pnl") => B!SumOver(pnlOf) = B!SumOf(q, DOMAIN q, "pnl")
  BY ColumnGroups
<1>4. ColumnFits(q, "held") => B!SumOver(heldOf) = B!SumOf(q, DOMAIN q, "held")
  BY ColumnGroups
<1>5. pnl = pnlOf /\ held = heldOf
  <2>. HIDE DEF by, D, group
  <2>1. DOMAIN by = D /\ \A d \in D : by[d] = B!Tally(q, group(d))
    BY <1>1
  <2>. QED  BY <1>2, <2>1
<1>. HIDE DEF pnl, held, pnlOf, heldOf
<1>6. /\ ColumnFits(q, "pnl") => B!SumOver(pnl) = B!SumOf(q, DOMAIN q, "pnl")
      /\ ColumnFits(q, "held") => B!SumOver(held) = B!SumOf(q, DOMAIN q, "held")
  BY <1>3, <1>4, <1>5
<1>. QED  BY <1>6 DEF pnl, held

LEMMA Marked ==
    ASSUME B!BacktestAssumption, AccountFits, \A s \in B!Traded : ~B!Held(s)
    PROVE  B!Book.equity - replay.cash = B!Pnl(trips) \/ replay \notin Settings
<1>. SUFFICES ASSUME replay \in Settings PROVE B!Book.equity - replay.cash = B!Pnl(trips)
  OBVIOUS
<1>1. \A s \in B!Traded : pos[s].qty = 0 /\ pos[s].cost = 0 /\ trip[s] = B!NoTrip /\ prices[s] \in Nat
  BY DEF AccountFits, B!Held
<1>. DEFINE value == [s \in B!Traded |-> pos[s].qty * prices[s]]
            cost == [s \in B!Traded |-> pos[s].cost + trip[s].fees]
            open == [s \in B!Traded |-> trip[s].pnl]
<1>2. /\ value \in [B!Traded -> Int] /\ cost \in [B!Traded -> Int] /\ open \in [B!Traded -> Int]
      /\ \A s \in B!Traded : value[s] = 0 /\ cost[s] = 0 /\ open[s] = 0
  BY <1>1 DEF B!NoTrip
<1>3. B!Book.equity = cash + B!SumOver(value)
  BY DEF B!Book, B!BookAt
<1>4. cash = replay.cash + B!Pnl(tranches) - B!SumOver(cost) /\ B!Pnl(trips) + B!SumOver(open) = B!Pnl(tranches)
  BY DEF AccountFits, B!BooksBalance
<1>. HIDE DEF value, cost, open
<1>5. B!SumOver(value) = 0 /\ B!SumOver(cost) = 0 /\ B!SumOver(open) = 0
  BY <1>2, TradedFinite, SumZero
<1>6. B!Pnl(trips) \in Int /\ B!Pnl(tranches) \in Int /\ cash \in Int /\ replay.cash \in Int
  BY PnlInt, SettingIs DEF AccountFits
<1>. QED  BY <1>3, <1>4, <1>5, <1>6

LEMMA ReportsFit ==
    ASSUME B!BacktestAssumption, BookInv
    PROVE  B!ReportsAddUp
<1>. SUFFICES ASSUME phase = "done" PROVE B!ReportsAddUp
  BY DEF B!ReportsAddUp
<1>. DEFINE symbols == B!BySymbol(trips)
            kinds == B!ByExitKind(tranches)
            periods == B!PeriodReturns(equity, replay.cash, BarsPerDay)
            worst == B!MaxDrawdown(equity)
            hold == B!HoldStats(trips)
            open == B!SumOver([s \in B!Traded |-> trip[s].pnl])
<1>1. AccountFits /\ BarFits /\ CurveFits /\ replay \in Settings /\ barNo \in Nat
  BY DEF BookInv, BarFits
<1>2. equity \in Seq(Int) /\ Len(equity) = barNo + 1 /\ equity[Len(equity)] = B!Book.equity
  BY <1>1 DEF CurveFits
<1>3. replay.cash \in Nat \ {0}
  BY <1>1, SettingIs
<1>4. /\ ColumnFits(trips, "pnl") /\ ColumnFits(trips, "held") /\ ColumnFits(tranches, "pnl") /\ IsSeq(trips)
  BY <1>1, ResultsAre
<1>5. B!SumOver([s \in DOMAIN symbols |-> symbols[s].pnl]) + open = B!SumOver([k \in DOMAIN kinds |-> kinds[k].pnl])
  BY <1>4, BreakdownAdds, <1>1 DEF B!BySymbol, B!Pnl, B!ByExitKind, AccountFits
<1>6. (\A s \in B!Traded : ~B!Held(s)) => equity[Len(equity)] - replay.cash = B!Pnl(trips)
  BY <1>1, <1>2, Marked
<1>7. B!ProfitAndLoss(trips).gross - B!ProfitAndLoss(trips).loss = B!Pnl(trips)
  <2>. DEFINE won == B!SumOf(trips, B!Winners(trips), "pnl")
              lost == B!SumOf(trips, B!Losers(trips), "pnl")
  <2>1. won + lost = B!Pnl(trips) /\ won \in Int /\ lost \in Int
    BY <1>4, ColumnSplits DEF B!Pnl
  <2>2. B!ProfitAndLoss(trips).gross = won /\ B!ProfitAndLoss(trips).loss = -lost
    BY DEF B!ProfitAndLoss
  <2>. HIDE DEF won, lost
  <2>3. won - (-lost) = won + lost
    BY <2>1
  <2>. QED  BY <2>1, <2>2, <2>3
<1>8. trips # <<>> =>
         /\ hold.won + hold.lost = hold.total
         /\ B!SumOver([s \in DOMAIN symbols |-> symbols[s].held]) = hold.total
         /\ hold.least <= hold.median /\ hold.median <= hold.most
         /\ hold.most <= Len(equity)
  <2>. SUFFICES ASSUME trips # <<>>
                PROVE  /\ hold.won + hold.lost = hold.total
                       /\ B!SumOver([s \in DOMAIN symbols |-> symbols[s].held]) = hold.total
                       /\ hold.least <= hold.median /\ hold.median <= hold.most
                       /\ hold.most <= Len(equity)
    OBVIOUS
  <2>. DEFINE most == Len(equity)
  <2>1. most \in Int /\ \A k \in 1..Len(trips) : trips[k].held <= most
    BY <1>1, <1>2 DEF AccountFits
  <2>2. B!SumOver([s \in DOMAIN symbols |-> symbols[s].held]) = B!SumOf(trips, DOMAIN trips, "held")
    BY <1>4, BreakdownAdds DEF B!BySymbol
  <2>. HIDE DEF most
  <2>3. /\ hold.won + hold.lost = hold.total
        /\ B!SumOf(trips, DOMAIN trips, "held") = hold.total
        /\ hold.least <= hold.median /\ hold.median <= hold.most
        /\ hold.most <= most
    BY <1>4, <2>1, HoldsFit
  <2>. QED  BY <2>2, <2>3 DEF most
<1>9. /\ \A p \in periods : \/ p.from = 1 /\ p.startEq = replay.cash
                            \/ \E q \in periods : q.to = p.from - 1 /\ q.endEq = p.startEq
      /\ periods # {} => \E p \in periods : p.to = Len(equity)
  <2>. DEFINE start == replay.cash
  <2>1. start \in Nat \ {0}
    BY <1>3
  <2>. HIDE DEF start
  <2>2. LET ps == B!PeriodReturns(equity, start, BarsPerDay)
        IN  /\ \A p \in ps : \/ p.from = 1 /\ p.startEq = start
                             \/ \E q \in ps : q.to = p.from - 1 /\ q.endEq = p.startEq
            /\ ps # {} => \E p \in ps : p.to = Len(equity)
    BY <1>2, <2>1, PeriodsJoin
  <2>. QED  BY <2>2 DEF start
<1>10. \A m, n \in DOMAIN equity : m <= n /\ equity[m] > 0 /\ equity[n] >= 0 =>
         (equity[m] - equity[n]) * worst.peak <= (worst.peak - worst.at) * equity[m]
  BY <1>2, DeepestFall
<1>. HIDE DEF symbols, kinds, periods, worst, hold, open
<1>. QED  BY <1>5, <1>6, <1>7, <1>8, <1>9, <1>10 DEF B!ReportsAddUp, symbols, kinds, periods, worst, hold, open

(* A replay does not flatter (Backtester.Run): every fill is at a price    *)
(* its bar traded at, on the bar of an add at one known to have come after *)
(* it; the cash is what the run began with and the sales' results, each    *)
(* commission charged once, less what the open positions cost; and the     *)
(* report's trips, breakdowns, periods, drawdown and holding times add up  *)
(* to that result -- whatever the bars, settings, costs and ladders.       *)
THEOREM ReplaysAreHonest == ReplaysSpec => []ReplayIsHonest
<1>1. ReplaysInit => BookInv
  BY ReplaysAssumption, BookInit DEF ReplaysInit
<1>2. BookInv /\ [ReplaysNext]_parts => BookInv'
  BY ReplaysAssumption, BookStep DEF ReplaysNext, parts
<1>3. BookInv => ReplayIsHonest
  BY ReplaysAssumption, ReportsFit DEF BookInv, AccountFits, FillFits, ReplayIsHonest
<1>. QED  BY <1>1, <1>2, <1>3, PTL DEF ReplaysSpec

-----------------------------------------------------------------------------
(* What a buy may not do.                                                  *)

(* A class within its share before a buy of no more than was asked for is   *)
(* within it after.                                                        *)
LEMMA ClassKept ==
    ASSUME B!BacktestAssumption, AccountFits, NEW caps, NEW s \in B!Traded, NEW add \in Int,
           B!GuardAllows(caps, B!Book, s, add), caps.on, B!CapsFit(caps), caps.class[s] \in DOMAIN caps.share,
           B!Book.equity \in Int, B!Book.equity > 0,
           NEW m \in Nat, NEW at \in Nat, at <= prices[s], m * at <= add, NEW cost,
           pos' = [pos EXCEPT ![s] = [qty |-> pos[s].qty + m, cost |-> cost]], prices' = [prices EXCEPT ![s] = at]
    PROVE  B!SumOver([h \in {h \in B!Traded : caps.class[h] = caps.class[s]} |-> pos'[h].qty * prices'[h]]) * B!Hundred
             <= caps.share[caps.class[s]] * B!Book.equity
<1>. DEFINE alike == {h \in B!Traded : caps.class[h] = caps.class[s]}
            value == [h \in B!Traded |-> pos[h].qty * prices[h]]
            held == {h \in B!HeldIn(B!Book) : caps.class[h] = caps.class[s]}
            before == [h \in alike |-> pos[h].qty * prices[h]]
            after == [h \in alike |-> pos'[h].qty * prices'[h]]
            limit == caps.share[caps.class[s]] * B!Book.equity
<1>1. pos \in [B!Traded -> [qty : Nat, cost : Int]] /\ prices \in [B!Traded -> Nat]
  BY DEF AccountFits
<1>2. B!Book.value = value
  BY DEF B!Book, B!BookAt
<1>3. (B!SumOver([h \in held |-> B!Book.value[h]]) + add) * B!Hundred <= limit
  BY DEF B!GuardAllows, B!ClassAllows, B!ValueOver
<1>4. alike \subseteq B!Traded /\ IsFiniteSet(alike) /\ s \in alike
  <2>1. alike \subseteq B!Traded /\ s \in alike
    OBVIOUS
  <2>. HIDE DEF alike
  <2>. QED  BY <2>1, TradedFinite, FS_Subset
<1>5. before \in [alike -> Nat] /\ before \in [alike -> Int]
  <2>1. \A h \in alike : pos[h].qty \in Nat /\ prices[h] \in Nat
    BY <1>1
  <2>2. \A h \in alike : pos[h].qty * prices[h] \in Nat
    BY <2>1
  <2>. HIDE DEF alike
  <2>3. before \in [alike -> Nat]
    BY <2>2
  <2>. QED  BY <2>3
<1>6. held \subseteq alike /\ \A h \in alike \ held : before[h] = 0
  <2>1. B!HeldIn(B!Book) = {h \in B!Traded : value[h] > 0}
    BY <1>2 DEF B!HeldIn
  <2>2. held \subseteq alike
    BY <2>1
  <2>3. ASSUME NEW h \in alike \ held PROVE before[h] = 0
    BY <2>1, <2>3, <1>5
  <2>. QED  BY <2>2, <2>3
<1>7. B!SumOver([h \in held |-> B!Book.value[h]]) = B!SumOver(before)
  <2>1. [h \in held |-> B!Book.value[h]] = Only(before, held)
    <3>1. \A h \in held : h \in alike /\ B!Book.value[h] = before[h]
      BY <1>2, <1>6
    <3>. HIDE DEF held, before
    <3>. QED  BY <3>1 DEF Only
  <2>. HIDE DEF held, before, alike
  <2>2. B!SumOver(before) = B!SumOver(Only(before, held))
    BY <1>4, <1>5, <1>6, SumWithin
  <2>. QED  BY <2>1, <2>2
<1>8. /\ \A h \in alike \ {s} : pos'[h] = pos[h] /\ prices'[h] = prices[h]
      /\ pos'[s].qty = pos[s].qty + m /\ prices'[s] = at
  BY <1>1
<1>9. after \in [alike -> Int] /\ (\A h \in alike \ {s} : before[h] = after[h])
      /\ before[s] = pos[s].qty * prices[s] /\ after[s] = (pos[s].qty + m) * at
  <2>1. \A h \in alike : pos'[h].qty \in Nat /\ prices'[h] \in Nat
    BY <1>1, <1>8
  <2>2. \A h \in alike : pos'[h].qty * prices'[h] \in Int
    BY <2>1
  <2>3. s \in alike
    BY <1>4
  <2>. HIDE DEF alike
  <2>4. after \in [alike -> Int]
    BY <2>2
  <2>5. \A h \in alike \ {s} : before[h] = after[h]
    BY <1>8
  <2>. QED  BY <1>8, <2>3, <2>4, <2>5
<1>10. after[s] <= before[s] + add
  <2>. DEFINE q == pos[s].qty
              p == prices[s]
              low == q * at
              high == q * p
              paid == m * at
  <2>1. q \in Nat /\ p \in Nat /\ at <= p /\ paid <= add
    BY <1>1
  <2>2. after[s] = low + paid /\ before[s] = high
    BY <1>9, <2>1
  <2>3. low <= high /\ low \in Int /\ high \in Int
    <3>1. at * q <= p * q /\ at * q \in Int /\ p * q \in Int
      <4>. HIDE DEF q, p
      <4>1. at \in Int /\ p \in Int /\ q \in Nat /\ at <= p
        BY <2>1
      <4>. QED  BY <4>1, Scaled
    <3>2. low = at * q /\ high = p * q
      BY <2>1
    <3>. HIDE DEF low, high, q, p
    <3>. QED  BY <3>1, <3>2
  <2>4. paid \in Int
    OBVIOUS
  <2>. HIDE DEF low, high, paid, before, after, q, p
  <2>. QED  BY <2>1, <2>2, <2>3, <2>4
<1>11. B!SumOver(after) <= B!SumOver(before) + add /\ B!SumOver(after) \in Int /\ B!SumOver(before) \in Int
  <2>1. before[s] \in Int /\ after[s] \in Int
    BY <1>4, <1>5, <1>9
  <2>. HIDE DEF before, after, alike
  <2>2. B!SumOver(after) = B!SumOver(before) - before[s] + after[s] /\ B!SumOver(before) \in Int
    BY <1>4, <1>5, <1>9, SumChange, SumInt
  <2>. QED  BY <1>10, <2>1, <2>2
<1>. DEFINE x == B!SumOver(after)
            y == B!SumOver(before) + add
<1>12. x * B!Hundred <= y * B!Hundred /\ y * B!Hundred <= limit /\ x * B!Hundred \in Int /\ y * B!Hundred \in Int
  <2>1. x \in Int /\ y \in Int /\ x <= y
    BY <1>11
  <2>2. y * B!Hundred <= limit
    BY <1>3, <1>7
  <2>. HIDE DEF x, y, limit
  <2>. QED  BY <2>1, <2>2 DEF B!Hundred
<1>13. x * B!Hundred <= limit
  <2>. DEFINE a == x * B!Hundred
              b == y * B!Hundred
  <2>1. a <= b /\ b <= limit /\ a \in Int /\ b \in Int
    BY <1>12
  <2>3. limit \in Int
    BY DEF B!CapsFit
  <2>. HIDE DEF a, b, limit
  <2>2. a <= limit
    BY <2>1, <2>3
  <2>. QED  BY <2>2 DEF a
<1>. QED  BY <1>13

-----------------------------------------------------------------------------
LEMMA NoMargin ==
    ASSUME NEW p \in Nat
    PROVE  B!Plus(p, 0) = p
<1>1. (p * 100) \div 100 = p
  OBVIOUS
<1>. QED  BY <1>1 DEF B!Plus, B!Hundred

(* A buy that passed the second look, at no more than the symbol's mark.    *)
LEMMA BuyKeeps ==
    ASSUME B!BacktestAssumption, AccountFits, replay \in Settings, NEW s \in B!Traded,
           NEW at \in Nat \ {0}, at <= prices[s], NEW add \in Nat,
           B!GuardAllows(replay.caps, B!Book, s, add), B!EntryAllowed(guard, replay.protections, s, barNo),
           NEW n \in Nat \ {0}, n = B!Bought(s, add \div at, at), NEW how, B!Buy(s, n, at, how)
    PROVE  B!BuyFollowsTheRules
<1>. DEFINE px == B!Plus(at, replay.costs.adverse)
            fixed == replay.costs.fixed
            reserve == replay.limits.reserve
            shares == add \div at
            caps == replay.caps
            class == caps.class[s]
<1>1. /\ cash' = cash - n * px - fixed
      /\ pos' = [pos EXCEPT ![s] = [qty |-> pos[s].qty + n, cost |-> pos[s].cost + n * px]]
      /\ prices' = [prices EXCEPT ![s] = at]
      /\ fill' = [s |-> s, side |-> "buy", how |-> how, bar |-> barNo, at |-> at, equity |-> B!Book.equity]
  BY DEF B!Buy
<1>2. fixed \in Nat /\ reserve \in Nat /\ replay.costs.adverse \in Nat /\ B!CapsFit(caps) /\ cash \in Int
  BY SettingIs DEF B!LimitsFit, B!CostsFit, AccountFits
<1>3. px \in Nat /\ px >= at
  <2>. DEFINE adverse == replay.costs.adverse
  <2>1. at \in Nat /\ 0 \in Nat /\ adverse \in Nat /\ 0 <= adverse
    BY <1>2
  <2>. HIDE DEF adverse
  <2>2. B!Plus(at, 0) <= B!Plus(at, adverse) /\ B!Plus(at, adverse) \in Nat /\ B!Plus(at, 0) = at
    BY <2>1, PlusGrows, PlusNat, NoMargin
  <2>. QED  BY <2>1, <2>2 DEF adverse
<1>4. shares \in Int
  BY Divided
<1>5. n <= shares /\ n * px + fixed + reserve <= cash
  <2>. HIDE DEF shares, px, fixed, reserve
  <2>1. LET m == B!Bought(s, shares, at)
        IN  m > 0 => /\ m <= shares
                     /\ m * B!Plus(at, replay.costs.adverse) + replay.costs.fixed + replay.limits.reserve <= cash
    BY <1>4, BoughtFits
  <2>2. n = B!Bought(s, shares, at)
    BY DEF shares
  <2>. QED  BY <2>1, <2>2 DEF px, fixed, reserve
<1>6. n * px \in Nat /\ n * px > 0
  <2>. HIDE DEF px
  <2>1. px \in Nat \ {0}
    BY <1>3
  <2>. QED  BY <2>1
<1>7. cash' >= reserve /\ cash > 0
  <2>. DEFINE outlay == n * px
  <2>1. outlay \in Nat /\ outlay > 0 /\ outlay + fixed + reserve <= cash /\ cash' = cash - outlay - fixed
    BY <1>1, <1>5, <1>6
  <2>. HIDE DEF outlay, fixed, reserve
  <2>. QED  BY <1>2, <2>1
<1>8. ~guard.halted \/ ~replay.protections.on
  BY DEF B!EntryAllowed
<1>9. B!Book.equity \in Int /\ B!Book.equity > 0
  <2>. DEFINE value == [h \in B!Traded |-> pos[h].qty * prices[h]]
  <2>1. prices \in [B!Traded -> Nat]
    BY DEF AccountFits
  <2>2. B!SumOver(value) \in Nat /\ B!Book.equity = cash + B!SumOver(value)
    BY <2>1, BookAtFits DEF B!Book
  <2>. HIDE DEF value
  <2>. QED  BY <1>2, <1>7, <2>2
<1>10. n * at <= add
  <2>. HIDE DEF shares
  <2>1. n \in Int /\ add \in Int /\ at \in Nat \ {0} /\ n <= add \div at
    BY <1>5 DEF shares
  <2>. QED  BY <2>1, NotMore
<1>11. caps.on /\ class \in DOMAIN caps.share =>
         B!SumOver([h \in {h \in B!Traded : caps.class[h] = class} |-> pos'[h].qty * prices'[h]]) * B!Hundred
           <= caps.share[class] * B!Book.equity
  <2>. SUFFICES ASSUME caps.on, class \in DOMAIN caps.share
                PROVE  B!SumOver([h \in {h \in B!Traded : caps.class[h] = class} |-> pos'[h].qty * prices'[h]]) * B!Hundred
                         <= caps.share[class] * B!Book.equity
    OBVIOUS
  <2>1. B!GuardAllows(caps, B!Book, s, add) /\ caps.on /\ B!CapsFit(caps) /\ caps.class[s] \in DOMAIN caps.share
    BY <1>2
  <2>2. add \in Int /\ n \in Nat /\ at \in Nat
    OBVIOUS
  <2>. DEFINE cost == pos[s].cost + n * px
  <2>3. pos' = [pos EXCEPT ![s] = [qty |-> pos[s].qty + n, cost |-> cost]] /\ prices' = [prices EXCEPT ![s] = at]
    BY <1>1
  <2>. HIDE DEF caps, cost
  <2>. QED  BY <1>9, <1>10, <2>1, <2>2, <2>3, ClassKept
<1>12. fill'.s = s /\ fill'.equity = B!Book.equity
  BY <1>1
<1>. HIDE DEF px, fixed, shares
<1>. QED  BY <1>7, <1>8, <1>11, <1>12 DEF B!BuyFollowsTheRules

LEMMA NoBuy ==
    ASSUME fill' = fill \/ fill'.side = "sell"
    PROVE  B!BuyFollowsTheRules
BY DEF B!BuyFollowsTheRules

LEMMA FillKeeps ==
    ASSUME B!BacktestAssumption, BookInv, NEW s \in B!Traded, B!FillQueued(s)
    PROVE  B!BuyFollowsTheRules
<1>. DEFINE at == prices[s]
            add == pending[s][1].notional
<1>1. B!Turn("open", s) /\ UNCHANGED B!still /\ AccountFits /\ BarFits
  BY DEF B!FillQueued, BookInv
<1>2. phase = "open" /\ replay \in Settings /\ bar[s].open \in Nat \ {0}
  BY <1>1, Opened
<1>3. at \in Nat \ {0} /\ at <= prices[s]
  BY <1>1, <1>2 DEF BarFits
<1>4. \/ UNCHANGED B!book
      \/ B!Sell(s, pos[s].qty, at, "strategy", 0, 0)
      \/ /\ pending[s] # <<>> /\ B!FillAllowed(s) /\ B!Bought(s, add \div at, at) > 0
         /\ B!Buy(s, B!Bought(s, add \div at, at), at, "open")
  BY DEF B!FillQueued
<1>5. CASE UNCHANGED B!book
  BY <1>5, NoBuy DEF B!book
<1>6. CASE B!Sell(s, pos[s].qty, at, "strategy", 0, 0)
  BY <1>6, NoBuy DEF B!Sell
<1>7. CASE /\ pending[s] # <<>> /\ B!FillAllowed(s) /\ B!Bought(s, add \div at, at) > 0
           /\ B!Buy(s, B!Bought(s, add \div at, at), at, "open")
  <2>. DEFINE n == B!Bought(s, add \div at, at)
  <2>1. add \in Nat
    BY <1>1, <1>7 DEF BarFits, Queued
  <2>2. n \in Nat \ {0}
    <3>. DEFINE q == add \div at
    <3>1. q \in Int
      <4>. HIDE DEF add, at
      <4>1. add \in Int
        BY <2>1
      <4>. QED  BY <1>3, <4>1, Divided
    <3>. HIDE DEF q, at
    <3>2. B!Bought(s, q, at) \in Nat
      BY <1>1, <1>2, <1>3, <3>1, BoughtFits
    <3>. QED  BY <1>7, <3>2 DEF q, at
  <2>3. B!GuardAllows(replay.caps, B!Book, s, add) /\ B!EntryAllowed(guard, replay.protections, s, barNo)
    BY <1>7 DEF B!FillAllowed
  <2>4. B!Buy(s, n, at, "open") /\ n = B!Bought(s, add \div at, at)
    BY <1>7
  <2>. HIDE DEF n, at, add
  <2>. QED  BY <1>1, <1>2, <1>3, <2>1, <2>2, <2>3, <2>4, BuyKeeps
<1>. QED  BY <1>4, <1>5, <1>6, <1>7

LEMMA AddKeeps ==
    ASSUME B!BacktestAssumption, BookInv, NEW s \in B!Traded, B!ScaleIn(s)
    PROVE  B!BuyFollowsTheRules
<1>. DEFINE at == B!AddFill(s)
            add == B!AddSize(s)
            n == B!Bought(s, add \div at, at)
<1>1. /\ B!Turn("add", s) /\ UNCHANGED B!still /\ AccountFits /\ BarFits
      /\ \/ fill' = fill
         \/ B!AddTried(s) /\ n > 0 /\ B!Buy(s, n, at, "add")
  BY DEF B!ScaleIn, BookInv, B!book
<1>2. phase = "add" /\ replay \in Settings /\ s = todo[1] /\ 1 \in 1..Len(todo)
  BY <1>1, Opened
<1>3. CASE fill' = fill
  BY <1>3, NoBuy
<1>4. CASE B!AddTried(s) /\ n > 0 /\ B!Buy(s, n, at, "add")
  <2>1. B!AddDue(s) /\ B!GuardAllows(replay.caps, B!Book, s, add)
    BY <1>4 DEF B!AddTried
  <2>2. at \in Nat \ {0} /\ at <= bar[s].open
    BY <1>1, <1>2, <2>1, AddFits
  <2>3. prices[s] = bar[s].open
    BY <1>1, <1>2 DEF BarFits
  <2>4. add \in Nat
    BY <1>1, <1>2, <2>1, AddSizeNat
  <2>5. B!EntryAllowed(guard, replay.protections, s, barNo)
    BY <2>1 DEF B!AddDue
  <2>6. n \in Nat \ {0}
    <3>. DEFINE q == add \div at
    <3>. HIDE DEF add, at
    <3>1. q \in Int
      BY <2>4, <2>2, Divided
    <3>. HIDE DEF q
    <3>2. B!Bought(s, q, at) \in Nat
      BY <1>1, <1>2, <2>2, <3>1, BoughtFits
    <3>. QED  BY <1>4, <3>2 DEF q
  <2>7. n = B!Bought(s, add \div at, at) /\ at <= prices[s] /\ B!Buy(s, n, at, "add")
    BY <1>4, <2>2, <2>3
  <2>. HIDE DEF n, at, add
  <2>. QED  BY <1>1, <1>2, <2>1, <2>2, <2>4, <2>5, <2>6, <2>7, BuyKeeps
<1>. QED  BY <1>1, <1>3, <1>4

LEMMA ExitKeeps ==
    ASSUME NEW s, B!Exit(s)
    PROVE  B!BuyFollowsTheRules
<1>1. ASSUME NEW n, NEW at, NEW kind, NEW r, NEW crest, B!Sell(s, n, at, kind, r, crest)
      PROVE  fill'.side = "sell"
  BY <1>1 DEF B!Sell
<1>2. fill' = fill \/ fill'.side = "sell"
  BY <1>1 DEF B!Exit, B!book
<1>. QED  BY <1>2, NoBuy

LEMMA BuysStep ==
    ASSUME B!BacktestAssumption, BookInv, B!Next
    PROVE  B!BuyFollowsTheRules
<1>1. CASE B!NextBar \/ B!PassEnds \/ B!BarEnds
  BY <1>1, NoBuy DEF B!NextBar, B!PassEnds, B!BarEnds, B!book
<1>2. ASSUME NEW s \in B!Traded, B!Ask(s) PROVE B!BuyFollowsTheRules
  BY <1>2, NoBuy DEF B!Ask
<1>. QED  BY <1>1, <1>2, FillKeeps, AddKeeps, ExitKeeps DEF B!Next

-----------------------------------------------------------------------------
(* One evaluation of a strategy.                                           *)

LEMMA LeastPlace ==
    ASSUME NEW T, T \subseteq {1, 2}, T # {}
    PROVE  G!Min(T) = IF 1 \in T THEN 1 ELSE 2
<1>. DEFINE m == CHOOSE x \in T : \A y \in T : x <= y
<1>1. \E x \in T : \A y \in T : x <= y
  <2>1. CASE 1 \in T
    BY <2>1
  <2>2. CASE 1 \notin T
    <3>1. T = {2}
      BY <2>2
    <3>. QED  BY <3>1
  <2>. QED  BY <2>1, <2>2
<1>2. m \in T /\ \A y \in T : m <= y
  BY <1>1
<1>3. G!Min(T) = m
  BY DEF G!Min
<1>. HIDE DEF m
<1>4. m = IF 1 \in T THEN 1 ELSE 2
  BY <1>2
<1>. QED  BY <1>3, <1>4

(* Who acts: the candidates in their order, the first through every gate.  *)
LEMMA BestActs ==
    ASSUME NEW read, bars >= strategy.warmup, bars \in Nat, strategy.warmup \in Nat
    PROVE  LET side == G!Sides(read)
               could == {s \in {"buy", "sell"} : side[s].ok /\ ~G!CandidateFails(s, side[s], read)}
           IN G!Decide(read).action =
                 CASE could = {} -> "hold"
                   [] could = {"buy"} -> "buy"
                   [] could = {"sell"} -> "sell"
                   [] OTHER -> IF G!Weaker(side["sell"], side["buy"]) THEN "buy" ELSE "sell"
<1>. DEFINE side == G!Sides(read)
            fails(s) == G!CandidateFails(s, side[s], read)
            could == {s \in {"buy", "sell"} : side[s].ok /\ ~fails(s)}
            c == G!Candidates(side)
            through == G!Through(side, read)
            weaker == G!Weaker(side["sell"], side["buy"])
<1>1. G!Decide(read).action = IF through = {} THEN "hold" ELSE c[G!Min(through)]
  BY DEF G!Decide, G!NoSignal
<1>2. through = {k \in DOMAIN c : ~fails(c[k])}
  BY DEF G!Through
<1>3. c = CASE ~side["buy"].ok /\ ~side["sell"].ok -> <<>>
            [] side["buy"].ok /\ ~side["sell"].ok -> <<"buy">>
            [] ~side["buy"].ok /\ side["sell"].ok -> <<"sell">>
            [] OTHER -> IF weaker THEN <<"buy", "sell">> ELSE <<"sell", "buy">>
  BY DEF G!Candidates
<1>4. ("buy" \in could <=> side["buy"].ok /\ ~fails("buy")) /\ ("sell" \in could <=> side["sell"].ok /\ ~fails("sell"))
      /\ could \subseteq {"buy", "sell"}
  OBVIOUS
<1>. HIDE DEF side, fails, could, c, through, weaker
<1>5. G!Decide(read).action =
         CASE could = {} -> "hold"
           [] could = {"buy"} -> "buy"
           [] could = {"sell"} -> "sell"
           [] OTHER -> IF weaker THEN "buy" ELSE "sell"
  <2>1. CASE ~side["buy"].ok /\ ~side["sell"].ok
    <3>1. could = {} /\ c = <<>>
      BY <1>3, <1>4, <2>1
    <3>2. through = {}
      BY <1>2, <3>1
    <3>. QED  BY <1>1, <3>1, <3>2
  <2>2. CASE side["buy"].ok /\ ~side["sell"].ok
    BY <1>3, <1>4, <2>2, <1>2, LeastPlace, <1>1
  <2>3. CASE ~side["buy"].ok /\ side["sell"].ok
    BY <1>3, <1>4, <2>3, <1>2, LeastPlace, <1>1
  <2>4. CASE side["buy"].ok /\ side["sell"].ok
    <3>1. c = IF weaker THEN <<"buy", "sell">> ELSE <<"sell", "buy">>
      BY <1>3, <2>4
    <3>2. DOMAIN c = {1, 2} /\ c[1] = (IF weaker THEN "buy" ELSE "sell") /\ c[2] = (IF weaker THEN "sell" ELSE "buy")
      BY <3>1
    <3>3. \A k \in {1, 2} : k \in through <=> ~fails(c[k])
      BY <1>2, <3>2
    <3>4. through \subseteq {1, 2}
      BY <1>2, <3>2
    <3>5. ("buy" \in could <=> ~fails("buy")) /\ ("sell" \in could <=> ~fails("sell"))
      BY <1>4, <2>4
    <3>6. could = (IF fails("buy") THEN {} ELSE {"buy"}) \cup (IF fails("sell") THEN {} ELSE {"sell"})
      BY <1>4, <3>5
    <3>7. through # {} => G!Min(through) = IF 1 \in through THEN 1 ELSE 2
      BY <3>4, LeastPlace
    <3>8. CASE fails("buy") /\ fails("sell")
      BY <3>2, <3>3, <3>4, <3>6, <3>8, <1>1
    <3>9. CASE ~fails("buy") /\ fails("sell")
      BY <3>6, <3>9, <3>2, <3>3, <1>1, <3>7
    <3>10. CASE fails("buy") /\ ~fails("sell")
      BY <3>6, <3>10, <3>2, <3>3, <1>1, <3>7
    <3>11. CASE ~fails("buy") /\ ~fails("sell")
      BY <3>6, <3>11, <3>2, <3>3, <1>1, <3>7
    <3>. QED  BY <3>8, <3>9, <3>10, <3>11
  <2>. QED  BY <2>1, <2>2, <2>3, <2>4
<1>. QED  BY <1>5 DEF could, side, fails, weaker

(* Whoever acts, won its vote and is through every gate.                   *)
LEMMA ActorPassed ==
    ASSUME NEW read, G!Decide(read).action # "hold", bars \in Nat, strategy.warmup \in Nat
    PROVE  LET a == G!Decide(read).action
           IN  /\ a \in {"buy", "sell"} /\ bars >= strategy.warmup
               /\ G!Sides(read)[a].ok /\ ~G!CandidateFails(a, G!Sides(read)[a], read)
<1>. DEFINE side == G!Sides(read)
            fails(s) == G!CandidateFails(s, side[s], read)
            could == {s \in {"buy", "sell"} : side[s].ok /\ ~fails(s)}
            weaker == G!Weaker(side["sell"], side["buy"])
            a == G!Decide(read).action
<1>1. bars >= strategy.warmup
  BY DEF G!Decide, G!NoSignal
<1>2. a = CASE could = {} -> "hold"
           [] could = {"buy"} -> "buy"
           [] could = {"sell"} -> "sell"
           [] OTHER -> IF weaker THEN "buy" ELSE "sell"
  BY <1>1, BestActs
<1>3. could \subseteq {"buy", "sell"} /\ \A s \in could : side[s].ok /\ ~fails(s)
  OBVIOUS
<1>. HIDE DEF a, side, fails, could, weaker
<1>4. a # "hold"
  BY DEF a
<1>5. a \in could
  <2>1. CASE could = {} \/ could = {"buy"} \/ could = {"sell"}
    BY <1>2, <1>4, <2>1
  <2>2. CASE could # {} /\ could # {"buy"} /\ could # {"sell"}
    BY <1>3, <2>2, <1>2
  <2>. QED  BY <2>1, <2>2
<1>. QED  BY <1>1, <1>3, <1>5 DEF a, side, fails

-----------------------------------------------------------------------------
(* What New builds.                                                        *)

LEMMA CountNat ==
    ASSUME NEW X, IsFiniteSet(X)
    PROVE  G!Cardinality(X) \in Nat
<1>1. G!Cardinality(X) = Cardinality(X)
  BY DEF G!Cardinality, Cardinality
<1>. QED  BY <1>1, FS_CardinalityType

LEMMA BuiltFits ==
    ASSUME NEW cfg, NEW names, Len(names) \in Nat, DOMAIN names = 1..Len(names)
    PROVE  LET d == G!Built(cfg, names)
           IN  IsFiniteSet(DOMAIN d) /\ G!Range(d) \subseteq DOMAIN cfg.needs
<1>. DEFINE kept == {k \in DOMAIN names : names[k] \in DOMAIN cfg.needs}
<1>1. G!Built(cfg, names) = [k \in kept |-> names[k]]
  BY DEF G!Built, G!RestrictValues, G!Restrict
<1>2. IsFiniteSet(kept)
  <2>1. DOMAIN names = 1..Len(names) /\ Len(names) \in Nat
    OBVIOUS
  <2>2. IsFiniteSet(1..Len(names))
    BY <2>1, FS_Interval
  <2>3. kept \subseteq 1..Len(names)
    BY <2>1
  <2>. HIDE DEF kept
  <2>. QED  BY <2>2, <2>3, FS_Subset
<1>3. G!Range([k \in kept |-> names[k]]) \subseteq DOMAIN cfg.needs
  BY DEF G!Range
<1>. QED  BY <1>1, <1>2, <1>3

LEMMA LongestNat ==
    ASSUME NEW cfg, cfg.needs \in [DOMAIN cfg.needs -> Nat], NEW dets, dets \subseteq DOMAIN cfg.needs, IsFiniteSet(dets)
    PROVE  G!Longest(cfg, dets) \in Nat
<1>. DEFINE f == [d \in dets |-> cfg.needs[d]]
            X == {0} \cup {f[d] : d \in dets}
<1>1. DOMAIN f = dets /\ \A d \in dets : f[d] \in Nat
  OBVIOUS
<1>2. {cfg.needs[d] : d \in dets} = {f[d] : d \in dets}
  OBVIOUS
<1>3. X \subseteq Nat /\ X # {}
  BY <1>1
<1>. HIDE DEF f
<1>4. IsFiniteSet({f[d] : d \in dets})
  BY <1>1, ImageFinite
<1>5. IsFiniteSet(X)
  <2>. DEFINE Y == {f[d] : d \in dets}
  <2>1. X = Y \cup {0}
    OBVIOUS
  <2>2. IsFiniteSet(Y)
    BY <1>4
  <2>. HIDE DEF Y, X
  <2>. QED  BY <2>1, <2>2, FS_AddElement
<1>6. G!Longest(cfg, dets) = G!Max(X)
  BY <1>2 DEF G!Longest
<1>. HIDE DEF X
<1>7. G!Max(X) = B!Max(X)
  BY DEF G!Max, B!Max
<1>8. B!Max(X) \in X
  <2>1. X \subseteq Int
    BY <1>3
  <2>. QED  BY <1>3, <1>5, <2>1, EndsOf
<1>. QED  BY <1>3, <1>6, <1>7, <1>8

LEMMA VotersFit ==
    ASSUME NEW cfg, cfg.needs \in [DOMAIN cfg.needs -> Nat], NEW dets, IsFiniteSet(DOMAIN dets), G!Range(dets) \subseteq DOMAIN cfg.needs
    PROVE  G!Longest(cfg, G!Range(dets)) \in Nat /\ IsFiniteSet(G!Range(dets))
<1>1. G!Range(dets) = {dets[k] : k \in DOMAIN dets}
  BY DEF G!Range
<1>2. IsFiniteSet({dets[k] : k \in DOMAIN dets})
  BY ImageFinite
<1>. QED  BY <1>1, <1>2, LongestNat

(* The higher timeframe is ready whenever the warmup is over.              *)
LEMMA WarmupCovers ==
    ASSUME NEW cfg, G!SettingsFit(cfg), NEW dets, dets \subseteq DOMAIN cfg.needs, IsFiniteSet(dets)
    PROVE  /\ G!HigherWarmup(cfg) \in Nat /\ G!WarmupBars(cfg, dets) \in Nat
           /\ G!HigherWarmup(cfg) # 0 => \A b \in Nat : b >= G!WarmupBars(cfg, dets) => b \div cfg.higher.multiple >= G!HigherWarmup(cfg)
<1>. DEFINE hw == G!HigherWarmup(cfg)
            m == cfg.higher.multiple
            base == G!Longest(cfg, dets)
            w == G!WarmupBars(cfg, dets)
            names == G!Either(cfg.higher.detectors, <<"trend">>)
<1>1. /\ cfg.higher.detectors \in Seq(STRING) /\ cfg.needs \in [DOMAIN cfg.needs -> Nat] /\ m \in Int
  BY DEF G!SettingsFit
<1>2. Len(names) \in Nat /\ DOMAIN names = 1..Len(names)
  <2>1. Len(<<"trend">>) \in Nat /\ DOMAIN <<"trend">> = 1..Len(<<"trend">>)
    OBVIOUS
  <2>2. Len(cfg.higher.detectors) \in Nat /\ DOMAIN cfg.higher.detectors = 1..Len(cfg.higher.detectors)
    BY <1>1
  <2>3. names \in {cfg.higher.detectors, <<"trend">>}
    BY DEF G!Either
  <2>. HIDE DEF names
  <2>. QED  BY <2>1, <2>2, <2>3
<1>3. G!Longest(cfg, G!Range(G!Built(cfg, names))) \in Nat
  <2>. DEFINE d == G!Built(cfg, names)
  <2>1. IsFiniteSet(DOMAIN d) /\ G!Range(d) \subseteq DOMAIN cfg.needs
    <3>. HIDE DEF names
    <3>. QED  BY <1>2, BuiltFits
  <2>. HIDE DEF d
  <2>2. G!Longest(cfg, G!Range(d)) \in Nat
    BY <1>1, <2>1, VotersFit
  <2>. QED  BY <2>2 DEF d
<1>4. hw \in Nat /\ (hw # 0 => m >= 2)
  BY <1>1, <1>3 DEF G!HigherWarmup
<1>5. base \in Nat
  BY <1>1, LongestNat
<1>. DEFINE ready == IF hw = 0 THEN 0 ELSE (hw + 2) * m
<1>6. w = (IF ready > base THEN ready ELSE base) + 2
  BY DEF G!WarmupBars
<1>. HIDE DEF hw, m, base, w, names
<1>7. ready \in Nat
  <2>1. CASE hw = 0
    BY <2>1
  <2>2. CASE hw # 0
    BY <1>1, <1>4, <2>2
  <2>. QED  BY <2>1, <2>2
<1>8. w \in Nat /\ w >= ready
  <2>. HIDE DEF ready
  <2>. QED  BY <1>5, <1>6, <1>7
<1>9. ASSUME hw # 0, NEW b \in Nat, b >= w PROVE b \div m >= hw
  <2>1. m \in Nat \ {0}
    BY <1>1, <1>4, <1>9
  <2>2. ready = (hw + 2) * m
    BY <1>9
  <2>. HIDE DEF ready
  <2>3. b >= (hw + 2) * m
    BY <1>7, <1>8, <1>9, <2>2
  <2>. DEFINE q == b \div m
  <2>4. q \in Int /\ b < (q + 1) * m
    <3>1. b = q * m + (b % m) /\ b % m < m /\ b % m \in Nat /\ q \in Int
      BY <2>1
    <3>2. (q + 1) * m = q * m + m /\ q * m \in Int
      BY <2>1, <3>1
    <3>. HIDE DEF q
    <3>. QED  BY <2>1, <3>1, <3>2
  <2>. HIDE DEF q
  <2>5. q >= hw
    <3>1. SUFFICES ASSUME q < hw PROVE FALSE
      BY <1>4, <2>4
    <3>2. PICK k \in Nat : hw + 2 = (q + 1) + k
      BY <1>4, <2>4, <3>1
    <3>3. (hw + 2) * m = (q + 1) * m + k * m /\ k * m \in Nat /\ (q + 1) * m \in Int
      BY <2>1, <2>4, <3>2
    <3>. QED  BY <2>3, <2>4, <3>3
  <2>. QED  BY <2>5 DEF q
<1>. QED  BY <1>4, <1>8, <1>9 DEF hw, w, m

(* The strategy an evaluation runs is one New built.                       *)
LEMMA StrategyIs ==
    ASSUME G!SignalsAssumption, strategy \in G!Combineds
    PROVE  /\ G!SettingsFit(strategy.cfg) /\ strategy.warmup \in Nat
           /\ \A s \in {"buy", "sell"} : IsFiniteSet(DOMAIN strategy.voters[s])
           /\ strategy.higher.mode \in {"off", "vote", "gate"}
           /\ strategy.higher.mode # "off" =>
                \A b \in Nat : b >= strategy.warmup => b \div strategy.cfg.higher.multiple >= strategy.higher.warmup
<1>1. PICK cfg \in Strategies : strategy = G!New(cfg)
  BY DEF G!Combineds
<1>. DEFINE wanted == G!Either(cfg.buy, <<"ema_cross", "rsi", "macd">>)
            buyers == G!Either(G!Built(cfg, wanted), <<"rsi">>)
            sellers == G!Either(G!Built(cfg, cfg.sell), buyers)
            all == G!Range(buyers) \cup G!Range(sellers)
            hw == G!HigherWarmup(cfg)
<1>2. G!SettingsFit(cfg)
  BY DEF G!SignalsAssumption
<1>3. /\ strategy.cfg = cfg /\ strategy.warmup = G!WarmupBars(cfg, all)
      /\ strategy.voters = [buy |-> buyers, sell |-> sellers] /\ strategy.higher.warmup = hw
      /\ strategy.higher.mode # "off" => hw # 0
      /\ strategy.higher.mode \in {"off", "vote", "gate"}
  BY <1>1 DEF G!New
<1>4. /\ cfg.buy \in Seq(STRING) /\ cfg.sell \in Seq(STRING)
      /\ cfg.needs \in [DOMAIN cfg.needs -> Nat] /\ "rsi" \in DOMAIN cfg.needs
  BY <1>2 DEF G!SettingsFit
<1>5. Len(wanted) \in Nat /\ DOMAIN wanted = 1..Len(wanted)
  <2>1. LET w == <<"ema_cross", "rsi", "macd">> IN Len(w) \in Nat /\ DOMAIN w = 1..Len(w)
    OBVIOUS
  <2>2. Len(cfg.buy) \in Nat /\ DOMAIN cfg.buy = 1..Len(cfg.buy)
    BY <1>4
  <2>3. wanted \in {cfg.buy, <<"ema_cross", "rsi", "macd">>}
    BY DEF G!Either
  <2>. HIDE DEF wanted
  <2>. QED  BY <2>1, <2>2, <2>3
<1>. HIDE DEF wanted, hw
<1>6. IsFiniteSet(DOMAIN <<"rsi">>) /\ G!Range(<<"rsi">>) \subseteq DOMAIN cfg.needs
  <2>1. DOMAIN <<"rsi">> = {1} /\ <<"rsi">>[1] = "rsi"
    OBVIOUS
  <2>2. IsFiniteSet({1})
    BY FS_Singleton
  <2>. QED  BY <1>4, <2>1, <2>2 DEF G!Range
<1>7. IsFiniteSet(DOMAIN buyers) /\ G!Range(buyers) \subseteq DOMAIN cfg.needs
  <2>1. IsFiniteSet(DOMAIN G!Built(cfg, wanted)) /\ G!Range(G!Built(cfg, wanted)) \subseteq DOMAIN cfg.needs
    BY <1>5, BuiltFits
  <2>2. buyers = G!Built(cfg, wanted) \/ buyers = <<"rsi">>
    BY DEF G!Either
  <2>. HIDE DEF buyers
  <2>. QED  BY <1>6, <2>1, <2>2
<1>8. IsFiniteSet(DOMAIN sellers) /\ G!Range(sellers) \subseteq DOMAIN cfg.needs
  <2>1. IsFiniteSet(DOMAIN G!Built(cfg, cfg.sell)) /\ G!Range(G!Built(cfg, cfg.sell)) \subseteq DOMAIN cfg.needs
    BY <1>4, BuiltFits
  <2>2. sellers = G!Built(cfg, cfg.sell) \/ sellers = buyers
    BY DEF G!Either
  <2>. HIDE DEF buyers, sellers
  <2>. QED  BY <1>7, <2>1, <2>2
<1>. HIDE DEF buyers, sellers
<1>9. all \subseteq DOMAIN cfg.needs /\ IsFiniteSet(all)
  BY <1>4, <1>7, <1>8, VotersFit, FS_Union
<1>. HIDE DEF all
<1>10. /\ G!WarmupBars(cfg, all) \in Nat
       /\ hw # 0 => \A b \in Nat : b >= G!WarmupBars(cfg, all) => b \div cfg.higher.multiple >= hw
  BY <1>2, <1>9, WarmupCovers DEF hw
<1>11. \A s \in {"buy", "sell"} : IsFiniteSet(DOMAIN strategy.voters[s])
  BY <1>3, <1>7, <1>8
<1>. QED  BY <1>2, <1>3, <1>10, <1>11

-----------------------------------------------------------------------------
(* What an evaluation keeps to.                                            *)
SignalFits ==
    /\ strategy \in G!Combineds /\ bars \in Nat
    /\ reads # <<>> => /\ reads \in [G!Voting -> G!Readings]
                       /\ htf.ok <=> G!HigherReady
    /\ advice # G!Waiting => reads # <<>> /\ advice = G!Decide(reads)

(* The answer is a matter of what was read.                                *)
LEMMA DecideStays ==
    ASSUME UNCHANGED <<strategy, bars, reads, htf, trend, denied>>
    PROVE  G!Decide(reads)' = G!Decide(reads)
<1>1. \A s : G!Tally(s, reads)' = G!Tally(s, reads)
  BY DEF G!Tally, G!Tallied, G!Weight
<1>2. G!Sides(reads)' = G!Sides(reads)
  BY <1>1 DEF G!Sides, G!Standing
<1>3. \A s, x : G!CandidateFails(s, x, reads)' = G!CandidateFails(s, x, reads)
  BY DEF G!CandidateFails, G!DirectionalVeto, G!TrendVote
<1>4. \A x : G!Through(x, reads)' = G!Through(x, reads)
  BY <1>3 DEF G!Through
<1>. QED  BY <1>2, <1>4 DEF G!Decide

LEMMA SignalInit ==
    ASSUME G!SignalsAssumption, G!Init
    PROVE  SignalFits
<1>1. strategy \in G!Combineds /\ bars \in strategy.cfg.lengths /\ reads = <<>> /\ advice = G!Waiting
  BY DEF G!Init
<1>2. bars \in Nat
  BY <1>1, StrategyIs DEF G!SettingsFit
<1>. QED  BY <1>1, <1>2 DEF SignalFits

LEMMA SignalStep ==
    ASSUME SignalFits, [G!Next]_gvars
    PROVE  SignalFits'
<1>1. CASE G!Read
  <2>1. /\ reads' \in [G!Voting -> G!Readings] /\ UNCHANGED <<strategy, bars, advice>> /\ reads = <<>>
        /\ \E c : htf' = G!HigherVote(c, strategy.cfg.symbolic)
    BY <1>1 DEF G!Read
  <2>2. advice = G!Waiting
    BY <2>1 DEF SignalFits
  <2>3. PICK c : htf' = G!HigherVote(c, strategy.cfg.symbolic)
    BY <2>1
  <2>4. htf'.ok <=> G!HigherReady
    <3>1. CASE ~G!HigherReady
      BY <2>3, <3>1 DEF G!HigherVote
    <3>2. CASE G!HigherReady
      BY <2>3, <3>2 DEF G!HigherVote
    <3>. QED  BY <3>1, <3>2
  <2>5. G!HigherReady' <=> G!HigherReady
    BY <2>1 DEF G!HigherReady
  <2>6. G!Voting' = G!Voting /\ G!Readings' = G!Readings
    BY <2>1 DEF G!Voting, G!Readings
  <2>. QED  BY <2>1, <2>2, <2>4, <2>5, <2>6 DEF SignalFits
<1>2. CASE G!Evaluate
  BY <1>2, DecideStays DEF G!Evaluate, G!HigherReady, G!Voting, G!Readings, SignalFits
<1>3. CASE UNCHANGED gvars
  BY <1>3, DecideStays DEF gvars, G!HigherReady, G!Voting, G!Readings, SignalFits
<1>. QED  BY <1>1, <1>2, <1>3 DEF G!Next

LEMMA BestSideActs ==
    ASSUME G!SignalsAssumption, SignalFits
    PROVE  G!TheBestSideActs
<1>. SUFFICES ASSUME G!Answered, bars >= strategy.warmup
              PROVE  LET side == G!Sides(reads)
                         could == {s \in {"buy", "sell"} : side[s].ok /\ ~G!CandidateFails(s, side[s], reads)}
                     IN advice.action =
                           CASE could = {} -> "hold"
                             [] could = {"buy"} -> "buy"
                             [] could = {"sell"} -> "sell"
                             [] OTHER -> IF G!Weaker(side["sell"], side["buy"]) THEN "buy" ELSE "sell"
  BY DEF G!TheBestSideActs
<1>1. advice = G!Decide(reads) /\ strategy \in G!Combineds /\ bars \in Nat
  BY DEF SignalFits, G!Answered
<1>2. strategy.warmup \in Nat
  BY <1>1, StrategyIs
<1>. QED  BY <1>1, <1>2, BestActs

LEMMA HigherHeard ==
    ASSUME G!SignalsAssumption, SignalFits
    PROVE  G!HigherIsHeard
<1>. SUFFICES ASSUME G!Answered, advice.action # "hold", strategy.higher.mode # "off"
              PROVE  /\ htf.ok
                     /\ G!Opposes(htf.action, advice.action) =>
                          strategy.higher.mode = "vote" /\ strategy.modes[advice.action] # "unanimous"
  BY DEF G!HigherIsHeard
<1>. DEFINE a == advice.action
            side == G!Sides(reads)
<1>1. advice = G!Decide(reads) /\ strategy \in G!Combineds /\ bars \in Nat /\ (htf.ok <=> G!HigherReady)
  BY DEF SignalFits, G!Answered
<1>2. /\ strategy.warmup \in Nat /\ strategy.higher.mode \in {"off", "vote", "gate"}
      /\ \A s \in {"buy", "sell"} : IsFiniteSet(DOMAIN strategy.voters[s])
      /\ \A b \in Nat : b >= strategy.warmup => b \div strategy.cfg.higher.multiple >= strategy.higher.warmup
  BY <1>1, StrategyIs
<1>3. a \in {"buy", "sell"} /\ bars >= strategy.warmup /\ side[a].ok /\ ~G!CandidateFails(a, side[a], reads)
  BY <1>1, <1>2, ActorPassed
<1>4. htf.ok
  BY <1>1, <1>2, <1>3 DEF G!HigherReady
<1>5. ASSUME G!Opposes(htf.action, a)
      PROVE  strategy.higher.mode = "vote" /\ strategy.modes[a] # "unanimous"
  <2>1. strategy.higher.mode # "gate"
    BY <1>3, <1>4, <1>5 DEF G!CandidateFails, G!DirectionalVeto
  <2>2. strategy.higher.mode = "vote"
    BY <1>2, <2>1
  <2>. DEFINE other == G!Mirror(a)
              dets == strategy.voters[a]
              against == {k \in DOMAIN dets : reads[dets[k]].action = other}
              t == G!Tally(a, reads)
  <2>3. htf.action = other /\ htf.action # "hold" /\ other \in {"buy", "sell"}
    BY <1>3, <1>5 DEF G!Opposes, G!Mirror
  <2>4. t.n[other] = G!Cardinality(against) + 1
    <3>1. t = G!WithVote(G!Tallied(dets, reads, G!Weight), htf)
      BY <1>4, <2>2 DEF G!Tally
    <3>2. G!Tallied(dets, reads, G!Weight).n = [x \in {"buy", "sell"} |-> G!Cardinality({k \in DOMAIN dets : reads[dets[k]].action = x})]
      BY DEF G!Tallied
    <3>. DEFINE u == G!Tallied(dets, reads, G!Weight)
    <3>3. u.n[other] = G!Cardinality(against)
      BY <2>3, <3>2
    <3>4. DOMAIN u = {"n", "str"}
      BY DEF G!Tallied
    <3>5. t.n = [u.n EXCEPT ![other] = u.n[other] + 1]
      <4>. HIDE DEF u, t, other
      <4>1. t = [u EXCEPT !.n[htf.action] = u.n[htf.action] + 1, !.str[htf.action] = u.str[htf.action] + htf.strength]
        BY <2>3, <3>1 DEF G!WithVote, u
      <4>. QED  BY <2>3, <3>4, <4>1
    <3>6. DOMAIN u.n = {"buy", "sell"}
      BY <3>2
    <3>. HIDE DEF u, t, other, against
    <3>. QED  BY <2>3, <3>3, <3>5, <3>6
  <2>5. G!Cardinality(against) \in Nat
    <3>1. IsFiniteSet(DOMAIN dets) /\ against \subseteq DOMAIN dets
      BY <1>2, <1>3
    <3>. HIDE DEF against, dets
    <3>2. IsFiniteSet(against)
      BY <3>1, FS_Subset
    <3>. QED  BY <3>2, CountNat
  <2>6. t.n[other] # 0
    <3>. HIDE DEF t, other, against
    <3>. QED  BY <2>4, <2>5
  <2>7. side[a] = G!Standing(a, t)
    BY <1>3 DEF G!Sides
  <2>8. strategy.modes[a] = "unanimous" => ~side[a].ok
    <3>. HIDE DEF t, a, side
    <3>1. ASSUME strategy.modes[a] = "unanimous" PROVE ~side[a].ok
      <4>1. \E x, y : side[a] = [ok |-> t.n[a] > 0 /\ t.n[other] = 0, num |-> x, den |-> y]
        BY <2>7, <3>1 DEF G!Standing, G!SideQualifies
      <4>2. side[a].ok = (t.n[a] > 0 /\ t.n[other] = 0)
        BY <4>1
      <4>. QED  BY <2>6, <4>2
    <3>. QED  BY <3>1
  <2>. QED  BY <1>3, <2>2, <2>8
<1>. QED  BY <1>4, <1>5

(* Two readings that differ in how strongly a muted detector votes.        *)
LEMMA MutedMute ==
    ASSUME G!SignalsAssumption, SignalFits
    PROVE  G!MutedStaysMute
<1>. SUFFICES ASSUME G!Answered, NEW d \in DOMAIN strategy.cfg.weights \cap G!Voting, strategy.cfg.weights[d] <= 0,
                     NEW r \in G!Readings, r.action = reads[d].action
              PROVE  G!Decide([reads EXCEPT ![d] = r]) = advice
  BY DEF G!MutedStaysMute
<1>. DEFINE other == [reads EXCEPT ![d] = r]
<1>1. advice = G!Decide(reads) /\ strategy \in G!Combineds /\ reads \in [G!Voting -> G!Readings]
  BY DEF SignalFits, G!Answered
<1>2. strategy.cfg.weights \in [DOMAIN strategy.cfg.weights -> Int] /\ strategy.cfg.strengths \subseteq Nat
  BY <1>1, StrategyIs DEF G!SettingsFit
<1>3. \A x \in G!Readings : x.strength \in Int
  BY <1>2 DEF G!Readings, G!Undecided
<1>4. /\ other \in [G!Voting -> G!Readings] /\ d \in G!Voting
      /\ other[d] = r /\ \A x \in G!Voting \ {d} : other[x] = reads[x]
  BY <1>1
<1>5. \A x \in G!Voting : other[x].action = reads[x].action
  BY <1>4
<1>. HIDE DEF other
<1>6. \A x \in G!Voting : other[x].strength * G!Weight(x) = reads[x].strength * G!Weight(x)
  <2>1. G!Weight(d) = 0
    BY <1>2 DEF G!Weight
  <2>2. other[d].strength * 0 = 0 /\ reads[d].strength * 0 = 0
    BY <1>1, <1>3, <1>4
  <2>3. ASSUME NEW x \in G!Voting
        PROVE  other[x].strength * G!Weight(x) = reads[x].strength * G!Weight(x)
    BY <2>1, <2>2, <1>4
  <2>. QED  BY <2>3
<1>7. \A s \in {"buy", "sell"} : \A k \in DOMAIN strategy.voters[s] : strategy.voters[s][k] \in G!Voting
  BY DEF G!Voting, G!Range
<1>8. ASSUME NEW s \in {"buy", "sell"}
      PROVE  G!Tallied(strategy.voters[s], other, G!Weight) = G!Tallied(strategy.voters[s], reads, G!Weight)
  <2>. DEFINE dets == strategy.voters[s]
              now(x) == {k \in DOMAIN dets : other[dets[k]].action = x}
              was(x) == {k \in DOMAIN dets : reads[dets[k]].action = x}
              more(x) == [k \in now(x) |-> other[dets[k]].strength * G!Weight(dets[k])]
              same(x) == [k \in was(x) |-> reads[dets[k]].strength * G!Weight(dets[k])]
  <2>1. \A k \in DOMAIN dets : dets[k] \in G!Voting
    BY <1>7
  <2>2. \A x : now(x) = was(x)
    <3>1. \A k \in DOMAIN dets : other[dets[k]].action = reads[dets[k]].action
      BY <1>5, <2>1
    <3>. HIDE DEF dets
    <3>. QED  BY <3>1
  <2>3. \A x : more(x) = same(x)
    <3>1. \A k \in DOMAIN dets : other[dets[k]].strength * G!Weight(dets[k]) = reads[dets[k]].strength * G!Weight(dets[k])
      BY <1>6, <2>1
    <3>. SUFFICES ASSUME NEW x PROVE more(x) = same(x)
      OBVIOUS
    <3>2. now(x) = was(x) /\ now(x) \subseteq DOMAIN dets
      BY <2>2
    <3>. HIDE DEF dets, now, was
    <3>. QED  BY <3>1, <3>2
  <2>4. G!Tallied(dets, other, G!Weight) =
          [n   |-> [x \in {"buy", "sell"} |-> G!Cardinality(now(x))],
           str |-> [x \in {"buy", "sell"} |-> G!SumOver(more(x))]]
    BY DEF G!Tallied
  <2>5. G!Tallied(dets, reads, G!Weight) =
          [n   |-> [x \in {"buy", "sell"} |-> G!Cardinality(was(x))],
           str |-> [x \in {"buy", "sell"} |-> G!SumOver(same(x))]]
    BY DEF G!Tallied
  <2>. HIDE DEF dets, now, was, more, same
  <2>6. [x \in {"buy", "sell"} |-> G!Cardinality(now(x))] = [x \in {"buy", "sell"} |-> G!Cardinality(was(x))]
    BY <2>2
  <2>7. [x \in {"buy", "sell"} |-> G!SumOver(more(x))] = [x \in {"buy", "sell"} |-> G!SumOver(same(x))]
    BY <2>3
  <2>. QED  BY <2>4, <2>5, <2>6, <2>7 DEF dets
<1>9. \A s \in {"buy", "sell"} : G!Tally(s, other) = G!Tally(s, reads)
  BY <1>8 DEF G!Tally
<1>10. G!Sides(other) = G!Sides(reads)
  BY <1>9 DEF G!Sides
<1>11. \A s \in {"buy", "sell"} : \A x : G!CandidateFails(s, x, other) <=> G!CandidateFails(s, x, reads)
  <2>1. \A s \in {"buy", "sell"} : G!TrendVote(s, other) = G!TrendVote(s, reads)
    BY <1>5 DEF G!Voting, G!TrendVote
  <2>. QED  BY <2>1 DEF G!CandidateFails, G!DirectionalVeto
<1>12. ASSUME NEW side PROVE G!Through(side, other) = G!Through(side, reads)
  <2>. DEFINE c == G!Candidates(side)
  <2>1. \A k \in DOMAIN c : c[k] \in {"buy", "sell"}
    BY DEF G!Candidates
  <2>. HIDE DEF c
  <2>. QED  BY <1>11, <2>1 DEF G!Through, c
<1>13. G!Decide(other) = G!Decide(reads)
  BY <1>10, <1>12 DEF G!Decide
<1>. QED  BY <1>1, <1>13 DEF other

(* No simulated buy (Backtester.Run's buy, risk.Manager, PortfolioGuard)   *)
(* comes once the protections have halted the run, takes the cash below    *)
(* its reserve or carries its class past its share of the book; and the    *)
(* answer of a strategy (Combined.Evaluate) is that of the stronger side   *)
(* of those through every gate, not against a higher timeframe that gates, *)
(* and the same however strongly a muted detector votes.                   *)
THEOREM RulesAreKept == ReplaysSpec => BuysKeepTheRules
<1>1. ReplaysInit => BookInv /\ SignalFits
  BY ReplaysAssumption, BookInit, SignalInit DEF ReplaysInit
<1>2. BookInv /\ SignalFits /\ [ReplaysNext]_parts => BookInv' /\ SignalFits'
  BY ReplaysAssumption, BookStep, SignalStep DEF ReplaysNext, parts
<1>3. BookInv /\ [ReplaysNext]_parts => [B!BuyFollowsTheRules]_(B!btvars)
  BY ReplaysAssumption, BuysStep DEF btvars, B!btvars, B!book, ReplaysNext, parts
<1>4. SignalFits => G!SignalsKeepTheRules
  BY ReplaysAssumption, BestSideActs, HigherHeard, MutedMute DEF G!SignalsKeepTheRules
<1>. QED  BY <1>1, <1>2, <1>3, <1>4, PTL DEF ReplaysSpec, BuysKeepTheRules, B!BuysKeepTheRules
=============================================================================
