------------------------------ MODULE HaltControl ------------------------------
(***************************************************************************)
(* The drawdown, daily-loss and realized-drawdown halts of                 *)
(* internal/protect (Manager), with everything internal/engine and         *)
(* internal/api wrap around them: who feeds them, who trips the breaker,   *)
(* who saves the state and how it comes back after a restart.              *)
(*                                                                         *)
(* Three threads touch the manager: the evaluation loop (syncPortfolio ->  *)
(* checkDrawdown), whoever books a realized sell (record ->                *)
(* feedProtections: a limit watcher or an HTTP handler) and the operator's *)
(* HTTP handlers.  Each method of the manager is one step, as its mutex    *)
(* makes it; what the engine does around it is a step of its own.          *)
(* Halted() and Resume() of one resume request are taken together, and so  *)
(* are the two reads with which persistProtectionsIfChanged compares.      *)
(*                                                                         *)
(* Equity is a small number.  real is what the account is worth, phantom   *)
(* what pendingExposure adds to it for a recorded position the operator    *)
(* sold by hand.  top and dayStart are history: what real was at its       *)
(* highest, and at the first observation of the day, since the last time   *)
(* the baselines were set anew.                                            *)
(***************************************************************************)
EXTENDS Integers

CONSTANTS
    Loop, Closer, Operator,                 \* the threads
    Equities,                               \* what the account can be worth
    Phantom,                                \* worth of a position sold by hand
    DrawdownPct, DailyLossPct, RealizedPct, \* the limits, 0 switches one off
    Environments                            \* what may go wrong, and bounds

FaultKinds == {"overlap", "saveFails", "crash", "drift", "expiry", "forgetOff"}

ASSUME HaltAssumption ==
    /\ Equities \subseteq Nat \ {0} /\ Equities # {}
    /\ Phantom \in Nat
    /\ DrawdownPct \in 0..100 /\ DailyLossPct \in 0..100 /\ RealizedPct \in 0..100
    /\ Environments \subseteq [faults : SUBSET FaultKinds, maxDay : Nat \ {0}, maxRealized : Nat]
    /\ Loop # Closer /\ Loop # Operator /\ Closer # Operator

VARIABLES
    setting,        \* the environment this behaviour runs in
    today,          \* the UTC day
    real, phantom,  \* the account, and what is counted on top of it
    exists,         \* e.prot is not nil
    enabled,        \* ProtectionsConfig.Enabled, also in the config file
    prot,           \* the manager's state, as protect.State exports it
    stored,         \* the state in the database; Fresh when there is none
    saved,          \* e.protSaved: what the engine believes is stored
    trading,        \* e.tradingEnabled
    path,           \* what each thread is in the middle of
    top, dayStart   \* history of real

vars == <<setting, today, real, phantom, exists, enabled, prot, stored, saved,
          trading, path, top, dayStart>>

faults      == setting.faults
MaxDay      == setting.maxDay        \* bound: last UTC day
MaxRealized == setting.maxRealized   \* bound: realized P&L either way

manager == <<exists, enabled, prot>>
store   == <<stored, saved>>
world   == <<today, real, phantom>>
history == <<top, dayStart>>

Threads == {Loop, Closer, Operator}

Fresh == [halted |-> FALSE, peak |-> 0, dayEquity |-> 0, day |-> 0,
          realized |-> 0, realizedPeak |-> 0]

At(pc) == [pc |-> pc, snap |-> Fresh, next |-> "idle"]
Idle(t) == path[t].pc = "idle"

(* Nothing serialises the three; without "overlap" they happen not to meet. *)
Quiet == "overlap" \in faults \/ \A t \in Threads : Idle(t)

Larger(a, b) == IF a > b THEN a ELSE b
Lost(from, now, pct) == pct > 0 /\ from > 0 /\ (from - now) * 100 >= pct * from

-----------------------------------------------------------------------------
(* protect.Manager                                                         *)

(* ObserveEquity, the part that tracks: a new day takes its first equity   *)
(* as its baseline.                                                        *)
Tracked(p, equity) ==
    [p EXCEPT !.peak = Larger(@, equity),
              !.dayEquity = IF p.day # today THEN equity ELSE @,
              !.day = today]

(* ObserveEquity, the part that judges. *)
Breached(peak, dayEquity, equity) ==
    Lost(peak, equity, DrawdownPct) \/ Lost(dayEquity, equity, DailyLossPct)

Observed(p, equity) ==
    LET q == Tracked(p, equity)
    IN  [q EXCEPT !.halted = @ \/ (enabled /\ Breached(q.peak, q.dayEquity, equity))]

(* ObserveRealizedClose: the give-back is measured against the equity peak. *)
Realized(p, pnl) ==
    LET q == [p EXCEPT !.realized = @ + pnl, !.realizedPeak = Larger(@, p.realized + pnl)]
    IN  [q EXCEPT !.halted =
           @ \/ /\ enabled /\ RealizedPct > 0 /\ q.peak > 0
                /\ (q.realizedPeak - q.realized) * 100 >= RealizedPct * q.peak]

(* Resume: the halt goes, and every baseline starts from here. *)
Resumed(p, equity) ==
    [p EXCEPT !.halted = FALSE, !.peak = equity, !.dayEquity = equity,
              !.realizedPeak = p.realized]

LowerPeakNot(p, delta) == p   \* mutant: the phantom stays in the peak
LowerPeak(p, delta) ==
    [p EXCEPT !.peak = Larger(0, @ - delta), !.dayEquity = Larger(0, @ - delta)]

(* materialChange: anything but a peak that only rose. *)
MaterialChange(cur, last) ==
    [cur EXCEPT !.peak = 0] # [last EXCEPT !.peak = 0] \/ cur.peak < last.peak

-----------------------------------------------------------------------------
Init ==
    /\ setting \in Environments
    /\ today = 1 /\ real \in Equities /\ phantom = 0
    /\ enabled \in BOOLEAN /\ exists = enabled
    /\ prot = Fresh /\ stored = Fresh /\ saved = Fresh
    /\ trading = TRUE
    /\ path = [t \in Threads |-> At("idle")]
    /\ top = 0 /\ dayStart = 0

(* A thread has just changed prot; when that halted it, it trips the       *)
(* breaker and saves before it goes on to compare and save.                *)
AfterFeeding(t) ==
    path' = [path EXCEPT ![t] = IF prot'.halted /\ ~prot.halted
                                THEN [At("trip") EXCEPT !.next = "export"]
                                ELSE At("check")]

(* checkDrawdown, at the end of every portfolio sync. *)
Sync ==
    /\ Idle(Loop) /\ Quiet /\ exists
    /\ prot' = Observed(prot, real + phantom)
    /\ AfterFeeding(Loop)
    /\ top' = Larger(top, real)
    /\ dayStart' = IF prot.day # today THEN real ELSE dayStart
    /\ UNCHANGED <<setting, world, exists, enabled, store, trading>>

(* feedProtections, for a sell with a realized outcome.  Nothing is sold   *)
(* before the account has been read once.                                  *)
Close(pnl) ==
    /\ Idle(Closer) /\ Quiet /\ exists /\ prot.peak > 0
    /\ prot.realized + pnl \in -MaxRealized..MaxRealized
    /\ prot' = Realized(prot, pnl)
    /\ AfterFeeding(Closer)
    /\ UNCHANGED <<setting, world, exists, enabled, store, trading, history>>

(* tripBreaker *)
Trip(t) ==
    /\ path[t].pc = "trip"
    /\ trading' = FALSE
    /\ path' = [path EXCEPT ![t] = At(path[t].next)]
    /\ UNCHANGED <<setting, world, manager, store, history>>

(* PersistProtectionState reads the state ... *)
Export(t) ==
    /\ path[t].pc = "export"
    /\ path' = [path EXCEPT ![t] = [pc |-> "write", snap |-> prot, next |-> "check"]]
    /\ UNCHANGED <<setting, world, manager, store, trading, history>>

(* ... persistProtectionsIfChanged only when it has to: a peak that only   *)
(* rose waits for the throttle, which may or may not have run out.         *)
Check(t) ==
    /\ path[t].pc \in {"check", "force"}
    /\ \/ /\ prot # saved
          /\ path' = [path EXCEPT ![t] = [pc |-> "write", snap |-> prot, next |-> "idle"]]
       \/ /\ prot = saved \/ (path[t].pc = "check" /\ ~MaterialChange(prot, saved))
          /\ path' = [path EXCEPT ![t] = At("idle")]
    /\ UNCHANGED <<setting, world, manager, store, trading, history>>

(* saveProtectionState writes, then remembers what it wrote. *)
WriteOk(t) ==
    /\ path[t].pc = "write"
    /\ stored' = path[t].snap
    /\ path' = [path EXCEPT ![t].pc = "remember"]
    /\ UNCHANGED <<setting, world, manager, saved, trading, history>>

WriteFailsRemembering(t) ==   \* mutant: a failed save is remembered as done
    /\ path[t].pc = "write" /\ "saveFails" \in faults
    /\ path' = [path EXCEPT ![t].pc = "remember"]
    /\ UNCHANGED <<setting, world, manager, store, trading, history>>
WriteFails(t) ==
    /\ path[t].pc = "write" /\ "saveFails" \in faults
    /\ path' = [path EXCEPT ![t] = At(path[t].next)]
    /\ UNCHANGED <<setting, world, manager, store, trading, history>>

Remember(t) ==
    /\ path[t].pc = "remember"
    /\ saved' = path[t].snap
    /\ path' = [path EXCEPT ![t] = At(path[t].next)]
    /\ UNCHANGED <<setting, world, manager, stored, trading, history>>

(* POST /api/protections/resume.  With no halt it only acts on ?rebase=1.  *)
(* The cleared halt is saved before trading comes back.                    *)
Resume(rebase) ==
    /\ Idle(Operator) /\ Quiet /\ exists
    /\ prot.halted \/ rebase
    /\ prot' = Resumed(prot, real + phantom)
    /\ path' = [path EXCEPT ![Operator] =
                  [At("resumed") EXCEPT !.next = IF prot.halted THEN "turnOn" ELSE "idle"]]
    /\ top' = real /\ dayStart' = real
    /\ UNCHANGED <<setting, world, exists, enabled, store, trading>>

ResumeExport ==
    /\ path[Operator].pc = "resumed"
    /\ path' = [path EXCEPT ![Operator] =
                  [pc |-> "write", snap |-> prot, next |-> path[Operator].next]]
    /\ UNCHANGED <<setting, world, manager, store, trading, history>>

(* SetTradingEnabled(true), unless the money limits are missing. *)
TurnOn ==
    /\ path[Operator].pc = "turnOn"
    /\ trading' \in {trading, TRUE}
    /\ path' = [path EXCEPT ![Operator] = At("idle")]
    /\ UNCHANGED <<setting, world, manager, store, history>>

(* POST /api/trading *)
SetTrading(on) ==
    /\ Idle(Operator) /\ Quiet
    /\ trading' = on
    /\ UNCHANGED <<setting, world, manager, store, path, history>>

(* SetProtectionsConfig: an existing manager keeps its state, whichever    *)
(* way it is switched; the first one is made empty and then restored.      *)
SetConfigRebuilding(on) ==   \* mutant: every settings edit makes a new manager
    /\ Idle(Operator) /\ Quiet /\ enabled' = on
    /\ exists' = on /\ prot' = Fresh
    /\ UNCHANGED <<setting, path, world, store, trading, history>>
SetConfig(on) ==
    /\ Idle(Operator) /\ Quiet
    /\ enabled' = on
    /\ IF exists \/ ~on
       THEN UNCHANGED <<exists, prot, path>>
       ELSE /\ exists' = TRUE /\ prot' = Fresh
            /\ path' = [path EXCEPT ![Operator] = At("load")]
    /\ UNCHANGED <<setting, world, store, trading, history>>

(* RestoreProtectionState *)
Load ==
    /\ path[Operator].pc = "load"
    /\ path' = [path EXCEPT ![Operator] = [At("import") EXCEPT !.snap = stored]]
    /\ UNCHANGED <<setting, world, manager, store, trading, history>>

Import ==
    /\ path[Operator].pc = "import"
    /\ prot' = path[Operator].snap
    /\ path' = [path EXCEPT ![Operator] = At(IF prot'.halted THEN "trip" ELSE "idle")]
    /\ UNCHANGED <<setting, world, exists, enabled, store, trading, history>>

(* ForgetOpenPosition: the equity the record was adding is taken out of    *)
(* the baselines and the state is saved at once, if there is a manager.    *)
Forget ==
    /\ Idle(Operator) /\ Quiet /\ phantom > 0
    /\ exists \/ "forgetOff" \in faults
    /\ phantom' = 0
    /\ IF exists
       THEN /\ prot' = LowerPeak(prot, phantom)
            /\ path' = [path EXCEPT ![Operator] = At("force")]
       ELSE UNCHANGED <<prot, path>>
    /\ UNCHANGED <<setting, today, real, exists, enabled, store, trading, history>>

-----------------------------------------------------------------------------
Market ==
    /\ real' \in Equities \ {real}
    /\ UNCHANGED <<setting, today, phantom, manager, store, trading, path, history>>

Midnight ==
    /\ today < MaxDay
    /\ today' = today + 1
    /\ UNCHANGED <<setting, real, phantom, manager, store, trading, path, history>>

(* The operator sells a recorded position at the broker: its price is cash *)
(* now, and pendingExposure still counts the record ...  Nothing is held   *)
(* before the account has been read once.                                  *)
SoldByHand ==
    /\ "drift" \in faults /\ phantom = 0 /\ prot.day > 0
    /\ \A t \in Threads : Idle(t)
    /\ phantom' = Phantom
    /\ UNCHANGED <<setting, today, real, manager, store, trading, path, history>>

(* ... for pendingFillGrace. *)
GraceEnds ==
    /\ "expiry" \in faults /\ phantom > 0
    /\ phantom' = 0
    /\ UNCHANGED <<setting, today, real, manager, store, trading, path, history>>

(* The next process: config decides whether there is a manager, the store  *)
(* what it starts from, and a restored halt trips the breaker.             *)
Start(state) ==
    /\ exists' = enabled
    /\ prot' = IF enabled THEN state ELSE Fresh
    /\ saved' = Fresh
    /\ trading' \in IF prot'.halted THEN {FALSE} ELSE BOOLEAN
    /\ path' = [t \in Threads |-> At("idle")]

(* Run saves on its way out. *)
Shutdown ==
    /\ \A t \in Threads : Idle(t)
    /\ \/ stored' = IF exists THEN prot ELSE stored
       \/ "saveFails" \in faults /\ stored' = stored
    /\ Start(stored')
    /\ UNCHANGED <<setting, world, enabled, history>>

Crash ==
    /\ "crash" \in faults
    /\ Start(stored)
    /\ UNCHANGED <<setting, world, enabled, stored, history>>

ThreadStep(t) ==
    \/ Trip(t) \/ Export(t) \/ Check(t)
    \/ WriteOk(t) \/ WriteFails(t) \/ Remember(t)

Next ==
    \/ Sync
    \/ \E pnl \in {-1, 1} : Close(pnl)
    \/ \E t \in Threads : ThreadStep(t)
    \/ \E rebase \in BOOLEAN : Resume(rebase)
    \/ ResumeExport \/ TurnOn
    \/ \E on \in BOOLEAN : SetTrading(on) \/ SetConfig(on)
    \/ Load \/ Import \/ Forget
    \/ Market \/ Midnight \/ SoldByHand \/ GraceEnds
    \/ Shutdown \/ Crash

Spec == Init /\ [][Next]_vars

(* The evaluation ticker never stops, so a sync is made again and again;   *)
(* a thread in the middle of something goes on; and a store that is tried  *)
(* again and again takes a save in the end.                                *)
FairSpec ==
    /\ Spec
    /\ SF_vars(Sync)
    /\ \A t \in Threads : WF_vars(ThreadStep(t)) /\ SF_vars(WriteOk(t))
    /\ WF_vars(ResumeExport \/ TurnOn \/ Load \/ Import)

-----------------------------------------------------------------------------
States == [halted : BOOLEAN, peak : Nat, dayEquity : Nat, day : Nat,
           realized : Int, realizedPeak : Int]

Steps == {"idle", "trip", "export", "check", "force", "write", "remember",
          "resumed", "turnOn", "load", "import"}

(* Every variable has the shape the code gives it. *)
TypeOK ==
    /\ setting \in Environments
    /\ today \in Nat \ {0} /\ real \in Equities /\ phantom \in {0, Phantom}
    /\ exists \in BOOLEAN /\ enabled \in BOOLEAN /\ trading \in BOOLEAN
    /\ prot \in States /\ stored \in States /\ saved \in States
    /\ path \in [Threads -> [pc : Steps, snap : States, next : Steps]]
    /\ top \in {0} \cup Equities /\ dayStart \in {0} \cup Equities

AllIdle == \A t \in Threads : Idle(t)

(* A halt stands, in the manager or waiting in the store for one.          *)
HaltStands ==
    IF exists /\ path[Operator].pc \notin {"load", "import"}
    THEN prot.halted ELSE stored.halted

(* The threads do not meet, saves succeed, the process is not killed.      *)
Orderly == faults \cap {"overlap", "saveFails", "crash"} = {}

(* checkDrawdown, engine.go: the halt "is deliberately sticky: it stays    *)
(* until someone calls POST /api/protections/resume" -- through settings   *)
(* edits, switching the protections off and on, and orderly restarts.      *)
HaltEndsOnlyByResume ==
    [][Orderly /\ HaltStands /\ ~HaltStands'
         => \E rebase \in BOOLEAN : Resume(rebase)]_vars

(* No loss goes unnoticed while no position was sold by hand: an           *)
(* observation that finds the account down by a limit, counted from the    *)
(* highest it was since the baselines were last set, halts -- whatever     *)
(* restarts and switches came in between.                                  *)
LossHalts ==
    [][Orderly /\ "drift" \notin faults /\ Sync /\ enabled
         => prot'.halted \/ ~Breached(top', dayStart', real)]_vars

(* LowerPeak: "a bookkeeping correction can never itself read as a         *)
(* drawdown".  A halt means that the account really lost that much, also   *)
(* when a position sold by hand is forgotten, in time and with protections *)
(* on.                                                                     *)
FalseHalt == Sync /\ prot'.halted /\ ~prot.halted /\ ~Breached(top', dayStart', real)
HaltsOnlyOnLoss == [][faults \subseteq {"drift"} => ~FalseHalt]_vars

(* Both ways a halt can be wrong: an observed loss that does not halt, a   *)
(* halt for which nothing was lost.                                        *)
HaltsExactlyOnLoss == LossHalts /\ HaltsOnlyOnLoss

(* persistProtectionsIfChanged: between two observations only a peak that  *)
(* rose may be missing from the store.                                     *)
StoreIsCurrent ==
    Orderly /\ AllIdle /\ exists =>
        /\ \A field \in DOMAIN prot \ {"peak"} : stored[field] = prot[field]
        /\ stored.peak <= prot.peak

(* saveProtectionState "remembers it as the last state saved": a save is   *)
(* only skipped for what is in the store, though saves fail and the        *)
(* process is killed at any step.                                          *)
SavedIsStored ==
    /\ "overlap" \notin faults
    /\ \A t \in Threads : path[t].pc \notin {"write", "remember"}
    /\ saved # Fresh
    => saved = stored

(* What the next process starts from: the store holds what was last saved, *)
(* and only a peak that rose may be missing from it.                       *)
StoreKeepsUp == StoreIsCurrent /\ SavedIsStored

(* PersistProtectionState saves the halt "so it survives a restart": a     *)
(* failing store delays that, it does not make the engine give up.         *)
HaltGetsStored ==
    prot.halted /\ "overlap" \notin faults ~> (stored.halted \/ ~prot.halted)

(* SetProtectionsConfig restores the stored halt into a first manager;     *)
(* until it has read it, nobody may overwrite it.                          *)
HaltAwaitsRestore ==
    [][path[Operator].pc = "load" /\ stored.halted /\ path'[Operator].pc = "load"
         => stored'.halted]_vars

(* resumeProtections brings trading back for the halt it cleared, never    *)
(* over another one: a halt "always turns trading off itself".             *)
ResumeKeepsNewHalt ==
    [][path[Operator].pc = "turnOn" /\ trading' /\ ~trading => ~prot.halted]_vars
=============================================================================
