------------------------------ MODULE ConfigStore ------------------------------
(***************************************************************************)
(* The configuration the bot runs on and the one in config.yaml: the       *)
(* settings handlers of internal/api (settings.go, server.go, persist.go), *)
(* the writer of the file (internal/config, patch.go and overrides.go),    *)
(* the strategies the engine has built (engine.go, per_symbol.go) and the  *)
(* auto-optimizer that rewrites one symbol's strategy on its own           *)
(* (internal/autotune).                                                    *)
(*                                                                         *)
(* The handlers of the settings forms hold settingsMu and so run one at a  *)
(* time; the switch of POST /api/trading and the optimizer do not hold it. *)
(* A step is one read or write under one lock, or one write of the file.   *)
(*                                                                         *)
(* A strategy is a value for each of two parameters; an override gives     *)
(* some of them.  A form is reduced to the value its rules look at: limits *)
(* to whether there are money ceilings, sizing and portfolio to the two    *)
(* sides of the position-slot rule, notify to its secret.  What a search   *)
(* finds is left open.  The several reads in which applyResult collects    *)
(* the overrides are one step, Gather.                                     *)
(***************************************************************************)
EXTENDS Integers, Sequences, FiniteSets

CONSTANTS
    Symbols,
    LossTuneQueue,        \* lossTuneQueue
    Environments          \* what the operator does, what may fail, and bounds

Forms == {"strategy", "limits", "sizing", "behavior", "portfolio", "autotune", "ai", "ml", "notify"}

(* overlap: a search, a form and the trading switch may run at once.       *)
ASSUME ConfigAssumption ==
    /\ LossTuneQueue \in Nat \ {0}
    /\ Environments \subseteq
         [forms : SUBSET Forms, overlap : BOOLEAN, writeFails : BOOLEAN, crash : BOOLEAN,
          envSecret : BOOLEAN,                  \* the secret comes from the environment
          switch : BOOLEAN,                     \* trading_enabled: of the file
          override : BOOLEAN,                   \* the file has an override to begin with
          eligible : SUBSET Symbols,            \* run_only_for_symbols, exclude_symbols
          edits : Nat, toggles : Nat, passes : Nat, losses : Nat]

VARIABLES
    setting,
    file,           \* config.yaml
    live,           \* the settings in force
    base, over,     \* e.stratCfg and e.start; e.symStratCfg and e.symStrategies
    services,       \* which advisor and which predictor is installed
    trading,        \* e.tradingEnabled
    save,           \* the form being applied
    toggle,         \* the trading switch being applied
    search,         \* the run slot and the search that holds it
    queue,          \* e.lossTune
    retries,        \* Schedule's lossRetries and its own retry timer
    recent,         \* the symbols autotune changed within on_loss.cooldown
    unsaved,        \* history: the forms whose last change did not reach the file
    left            \* how much of each bound is left

vars == <<setting, file, live, base, over, services, trading, save, toggle, search, queue,
          retries, recent, unsaved, left>>

strategies == <<base, over, services>>
loss       == <<queue, retries, recent>>

-----------------------------------------------------------------------------
Fields    == {"fast", "slow"}
Configs   == [Fields -> {0, 1}]
Fragments == UNION {[F -> {0, 1}] : F \in SUBSET Fields}
None      == [f \in {} |-> 0]

Layer(cfg, fragment) ==
    [f \in Fields |-> IF f \in DOMAIN fragment THEN fragment[f] ELSE cfg[f]]

Overlay(fragment, old) ==
    [f \in DOMAIN fragment \cup DOMAIN old |->
        IF f \in DOMAIN fragment THEN fragment[f] ELSE old[f]]

(* The parameters in which a search's winner differs from its base.        *)
OverrideFields(from, winner) ==
    [f \in {g \in Fields : winner[g] # from[g]} |-> winner[f]]

(* ValidateStrategyRules: fast_ma < slow_ma and the like.                  *)
Sound(cfg) == ~(cfg["fast"] = 1 /\ cfg["slow"] = 0)

Overridden(f) == {s \in Symbols : f.overrides[s] # None}
Resolved(f, cfg) == [s \in Overridden(f) |-> Layer(cfg, f.overrides[s])]

(* ValidatePositionSlots                                                   *)
SlotsFit(slots, minPositions) == slots <= minPositions

(* ValidateForTrading                                                      *)
Bounded(ceilings) == ceilings

Loads(f) ==
    /\ Sound(f.strategy)
    /\ \A s \in Overridden(f) : Sound(Resolved(f, f.strategy)[s])
    /\ f.switch => Bounded(f.ceilings)
    /\ SlotsFit(f.slots, f.minPositions)

\* mutant: the cross-section rules are not applied to a save
StillLoadsUnchecked(before, after) == TRUE
StillLoads(before, after) == Loads(after) \/ ~Loads(before)

(* A strategy binds the advisor and the predictor when it is built.        *)
Build(cfg) == [cfg |-> cfg, ai |-> services.ai, ml |-> services.ml]
BuildAll(cfgs) == [s \in DOMAIN cfgs |-> Build(cfgs[s])]

StrategyFor(s) == IF s \in DOMAIN over THEN over[s] ELSE base

-----------------------------------------------------------------------------
NoSave   == [form |-> "none", step |-> "none", value |-> 0, cfg |-> [f \in Fields |-> 0],
             over |-> <<>>]
NoSearch == [by |-> "none", todo |-> {}, sym |-> "none", step |-> "none", from |-> None,
             winner |-> None, merged |-> <<>>]

(* A secret the environment gives stands before the one of the file.       *)
Secret(f) == IF setting.envSecret THEN "stored" ELSE f.secret

FromFile(f) ==
    [ceilings |-> f.ceilings, switch |-> f.switch, minPositions |-> f.minPositions,
     slots |-> f.slots, confirm |-> f.confirm, enabled |-> f.enabled, secret |-> Secret(f)]

(* What a start builds from a file.                                        *)
Start(f) ==
    /\ live' = FromFile(f)
    /\ services' = [ai |-> 0, ml |-> 0]
    /\ base' = [cfg |-> f.strategy, ai |-> 0, ml |-> 0]
    /\ over' = [s \in Overridden(f) |-> [cfg |-> Resolved(f, f.strategy)[s], ai |-> 0, ml |-> 0]]
    /\ trading' = f.switch
    /\ save' = NoSave /\ toggle' = "none" /\ search' = NoSearch
    /\ queue' = <<>> /\ retries' = [pending |-> {}, due |-> FALSE, serving |-> {}, tick |-> FALSE]

Init ==
    /\ setting \in Environments
    /\ LET first == CHOOSE s \in Symbols : TRUE
           cfg == [f \in Fields |-> IF f = "slow" THEN 1 ELSE 0] IN
       file = [strategy |-> cfg, switch |-> setting.switch, ceilings |-> TRUE, minPositions |-> 2,
               slots |-> 1, confirm |-> 1, enabled |-> TRUE,
               secret |-> IF setting.envSecret THEN "empty" ELSE "stored",
               overrides |-> [s \in Symbols |->
                   IF setting.override /\ s = first THEN [f \in {"slow"} |-> 1] ELSE None]]
    /\ live = FromFile(file)
    /\ services = [ai |-> 0, ml |-> 0]
    /\ base = Build(file.strategy)
    /\ over = BuildAll(Resolved(file, file.strategy))
    /\ trading = file.switch
    /\ save = NoSave /\ toggle = "none" /\ search = NoSearch
    /\ queue = <<>> /\ retries = [pending |-> {}, due |-> FALSE, serving |-> {}, tick |-> FALSE]
    /\ recent = {} /\ unsaved = {}
    /\ left = [edits |-> setting.edits, toggles |-> setting.toggles, passes |-> setting.passes,
               losses |-> setting.losses]

Spend(what) == left[what] > 0 /\ left' = [left EXCEPT ![what] = @ - 1]

Applying == search.step \in {"compare", "write", "gather", "install"}
MayEdit == /\ save = NoSave
           /\ ~setting.overlap => toggle = "none" /\ ~Applying

-----------------------------------------------------------------------------
(* A form arrives and passes the checks its section makes; it has the lock *)
(* until it answers.                                                       *)
Form(form) == [NoSave EXCEPT !.form = form, !.step = "apply"]

BeginSave(how) ==
    /\ MayEdit /\ how.form \in setting.forms /\ Spend("edits")
    /\ save' = how
    /\ UNCHANGED <<setting, file, live, base, over, trading, toggle, search, loss, unsaved>>

(* What a form leaves out keeps its value in force.                        *)
BindMerged(submitted) == Layer(base.cfg, submitted)

(* Every override is read from the file and layered onto the new base      *)
(* before anything is applied.                                             *)
PutStrategy == \E submitted \in Fragments :
    LET cfg == BindMerged(submitted)
        layered == Resolved(file, cfg) IN
    /\ Sound(cfg) /\ \A s \in DOMAIN layered : Sound(layered[s])
    /\ BeginSave([Form("strategy") EXCEPT !.cfg = cfg, !.over = layered])
    /\ UNCHANGED services

PutLimits == \E ceilings \in BOOLEAN :
    /\ trading \/ live.switch => Bounded(ceilings)
    /\ BeginSave([Form("limits") EXCEPT !.value = ceilings])
    /\ UNCHANGED services

(* ValidatePositionSlots, from the two forms that could break it.          *)
PutSizing == \E n \in 1..2 :
    /\ SlotsFit(live.slots, n)
    /\ BeginSave([Form("sizing") EXCEPT !.value = n])
    /\ UNCHANGED services

PutPortfolio == \E n \in 1..2 :
    /\ SlotsFit(n, live.minPositions)
    /\ BeginSave([Form("portfolio") EXCEPT !.value = n])
    /\ UNCHANGED services

(* confirm_buy and the rest of the engine block that no rule looks at.     *)
PutBehavior == BeginSave([Form("behavior") EXCEPT !.value = 3 - live.confirm]) /\ UNCHANGED services

PutAutotune == BeginSave([Form("autotune") EXCEPT !.value = ~live.enabled]) /\ UNCHANGED services

(* A secret the form never showed comes back as the marker or not at all.  *)
Unredact(submitted) ==
    IF submitted \in {"omitted", "marker"} THEN live.secret ELSE submitted

PutNotify == \E submitted \in {"omitted", "marker", "empty", "new"} :
    /\ BeginSave([Form("notify") EXCEPT !.value = Unredact(submitted)])
    /\ UNCHANGED services

(* ai.Configure, then the shared strategy is rebuilt from its own config.  *)
PutAI ==
    /\ BeginSave([Form("ai") EXCEPT !.cfg = base.cfg])
    /\ services' = [services EXCEPT !.ai = 1 - @]

(* RebuildStrategies reads the shared config and the overrides under one   *)
(* lock, and builds and installs them after.                               *)
Rebuilding(form) ==
    [Form(form) EXCEPT !.cfg = base.cfg, !.over = [s \in DOMAIN over |-> over[s].cfg]]

PutML ==
    /\ BeginSave(Rebuilding("ml"))
    /\ services' = [services EXCEPT !.ml = 1 - @]

(* The setter of the section.                                              *)
Apply ==
    /\ save.form \in Forms \ {"strategy", "ai", "ml"} /\ save.step = "apply"
    /\ \/ save.form = "limits" /\ live' = [live EXCEPT !.ceilings = save.value]
       \/ save.form = "sizing" /\ live' = [live EXCEPT !.minPositions = save.value]
       \/ save.form = "behavior" /\ live' = [live EXCEPT !.confirm = save.value]
       \/ save.form = "portfolio" /\ live' = [live EXCEPT !.slots = save.value]
       \/ save.form = "autotune" /\ live' = [live EXCEPT !.enabled = save.value]
       \/ save.form = "notify" /\ live' = [live EXCEPT !.secret = save.value]
    /\ save' = [save EXCEPT !.step = "persist"]
    /\ UNCHANGED <<setting, file, strategies, trading, toggle, search, loss, unsaved, left>>

\* mutant: only the shared strategy is rebuilt (AT3-2, ML3-4)
SetSharedOnly ==
    /\ save.form \in {"strategy", "ai", "ml", "mlundo"} /\ save.step = "apply"
    /\ base' = Build(save.cfg)
    /\ save' = [save EXCEPT !.step = "persist"]
    /\ UNCHANGED <<setting, file, live, over, services, trading, toggle, search, loss, unsaved, left>>

SetStrategyConfig ==
    /\ save.form \in {"strategy", "ai", "ml", "mlundo"} /\ save.step = "apply"
    /\ base' = Build(save.cfg)
    /\ save' = [save EXCEPT !.step = IF save.form = "ai" THEN "persist" ELSE "overrides"]
    /\ UNCHANGED <<setting, file, live, over, services, trading, toggle, search, loss, unsaved, left>>

SetSymbolStrategies ==
    /\ save.step = "overrides"
    /\ over' = BuildAll(save.over)
    /\ save' = IF save.form = "mlundo" THEN NoSave ELSE [save EXCEPT !.step = "persist"]
    /\ UNCHANGED <<setting, file, live, base, services, trading, toggle, search, loss, unsaved, left>>

(* The new predictor would need more bars than the engine keeps: the old   *)
(* one is put back, the strategies are built again, and nothing is saved.  *)
RollBackML ==
    /\ save.form = "ml" /\ save.step = "persist"
    /\ services' = [services EXCEPT !.ml = 1 - @]
    /\ save' = Rebuilding("mlundo")
    /\ UNCHANGED <<setting, file, live, base, over, trading, toggle, search, loss, unsaved, left>>

(* The keys of the section that changed are replaced where they stand,     *)
(* with what is in force: sizing and behavior are two views of the engine  *)
(* block, which is written whole.                                          *)
LiveSection(form) ==
    CASE form = "strategy"  -> [file EXCEPT !.strategy = base.cfg]
      [] form = "limits"    -> [file EXCEPT !.ceilings = live.ceilings]
      [] form \in {"sizing", "behavior"} ->
           [file EXCEPT !.minPositions = live.minPositions, !.confirm = live.confirm,
                        !.switch = live.switch]
      [] form = "portfolio" -> [file EXCEPT !.slots = live.slots]
      [] form = "autotune"  -> [file EXCEPT !.enabled = live.enabled]
      [] form = "notify"    -> [file EXCEPT !.secret = live.secret]
      [] OTHER              -> file

(* What came from the environment stays out of the file.                   *)
WithoutEnvSourced(after) ==
    IF setting.envSecret THEN [after EXCEPT !.secret = file.secret] ELSE after

Patched(form) == WithoutEnvSourced(LiveSection(form))

(* The file is replaced as a whole, or not at all.                         *)
WriteAtomic(after) == StillLoads(file, after) /\ file' = after
WriteRefused(after) == (setting.writeFails \/ ~StillLoads(file, after)) /\ file' = file

Persist ==
    /\ save.step = "persist"
    /\ save' = NoSave
    /\ \/ WriteAtomic(Patched(save.form)) /\ unsaved' = unsaved \ {save.form}
       \/ WriteRefused(Patched(save.form)) /\ unsaved' = unsaved \cup {save.form}
    /\ UNCHANGED <<setting, live, strategies, trading, toggle, search, loss, left>>

(* POST /api/trading: the limits are looked at, then the switch is set.    *)
CheckTrading(on) ==
    /\ toggle = "none" /\ Spend("toggles")
    /\ ~setting.overlap => save = NoSave
    /\ on => Bounded(live.ceilings)
    /\ toggle' = IF on THEN "on" ELSE "off"
    /\ UNCHANGED <<setting, file, live, strategies, trading, save, search, loss, unsaved>>

SetTradingEnabled ==
    /\ toggle # "none"
    /\ trading' = (toggle = "on") /\ toggle' = "none"
    /\ UNCHANGED <<setting, file, live, strategies, save, search, loss, unsaved, left>>

-----------------------------------------------------------------------------
(* The run slot: one search at a time, whoever asked for it.               *)
SlotFree == search.by = "none"
Hold(by, symbols) == search' = [NoSearch EXCEPT !.by = by, !.todo = symbols, !.step = "pick"]

(* selectSymbols                                                           *)
Eligible(symbols) == symbols \cap setting.eligible

(* The loop of Schedule runs one thing at a time.                          *)
ScheduleIdle == search.by \notin {"tick", "loss"} /\ retries.serving = {}

OnlyTuning == UNCHANGED <<setting, file, live, strategies, trading, save, toggle, unsaved>>

(* The ticker, or the retry of a tick that found the slot busy.            *)
Tick ==
    /\ ScheduleIdle
    /\ \/ Spend("passes")
       \/ retries.tick /\ left' = left
    /\ LET busy == live.enabled /\ ~SlotFree IN
       /\ retries' = [retries EXCEPT !.tick = busy]
       /\ IF live.enabled /\ ~busy THEN Hold("tick", Eligible(Symbols)) ELSE search' = search
    /\ OnlyTuning /\ UNCHANGED <<queue, recent>>

(* "Run autotune now" applies what it finds, autotune on or off.           *)
StartOnce ==
    /\ Spend("passes") /\ SlotFree
    /\ Hold("once", Eligible(Symbols))
    /\ OnlyTuning /\ UNCHANGED loss

(* The button of one symbol only shows what it finds.                      *)
OptimizeSymbol == \E s \in Symbols :
    /\ Spend("passes") /\ SlotFree
    /\ Hold("button", {s})
    /\ OnlyTuning /\ UNCHANGED loss

TuneSymbol == \E s \in search.todo :
    /\ search.step = "pick"
    /\ search' = [search EXCEPT !.todo = @ \ {s}, !.sym = s, !.step = "run",
                                !.from = StrategyFor(s).cfg]
    /\ OnlyTuning /\ UNCHANGED <<loss, left>>

ReleaseSlot ==
    /\ search.step = "pick" /\ search.todo = {}
    /\ search' = NoSearch
    /\ OnlyTuning /\ UNCHANGED <<loss, left>>

(* RunSymbolOptimize.                                                      *)
Found ==
    /\ search.step = "run"
    /\ \/ search' = [search EXCEPT !.step = "pick"]
       \/ \E winner \in {c \in Configs : Sound(c)} \ {search.from} :
            search' = [search EXCEPT !.step = IF search.by = "button" THEN "pick" ELSE "compare",
                                     !.winner = winner]
    /\ OnlyTuning /\ UNCHANGED <<loss, left>>

MayApply == setting.overlap \/ (save = NoSave /\ toggle = "none")

\* mutant: the result is applied on whatever strategy is live by then (AT3-2)
CompareNothing ==
    /\ search.step = "compare" /\ MayApply
    /\ search' = [search EXCEPT !.step = "write"]
    /\ OnlyTuning /\ UNCHANGED <<loss, left>>

Compare ==
    /\ search.step = "compare" /\ MayApply
    /\ LET moved == StrategyFor(search.sym).cfg # search.from IN
       search' = [search EXCEPT !.step = IF moved THEN "pick" ELSE "write"]
    /\ OnlyTuning /\ UNCHANGED <<loss, left>>

FoundFields == OverrideFields(search.from, search.winner)

(* The parameters the search changed are set, the rest of the entry stays. *)
WithOverride == LET old == file.overrides[search.sym] IN
    [file EXCEPT !.overrides[search.sym] = Overlay(FoundFields, old)]

PatchSymbolOverride ==
    /\ search.step = "write"
    /\ \/ WriteAtomic(WithOverride) /\ search' = [search EXCEPT !.step = "gather"]
       \/ WriteRefused(WithOverride) /\ search' = [search EXCEPT !.step = "pick"]
    /\ UNCHANGED <<setting, live, strategies, trading, save, toggle, loss, unsaved, left>>

Gather ==
    /\ search.step = "gather"
    /\ LET found == Layer(StrategyFor(search.sym).cfg, FoundFields)
           merged == [s \in DOMAIN over \cup {search.sym} |->
                         IF s = search.sym THEN found ELSE over[s].cfg] IN
       search' = [search EXCEPT !.step = "install", !.merged = merged]
    /\ OnlyTuning /\ UNCHANGED <<loss, left>>

Install ==
    /\ search.step = "install"
    /\ over' = BuildAll(search.merged)
    /\ recent' = recent \cup {search.sym}
    /\ search' = [search EXCEPT !.step = "pick"]
    /\ UNCHANGED <<setting, file, live, base, services, trading, save, toggle, queue, retries,
                   unsaved, left>>

-----------------------------------------------------------------------------
(* A losing streak asks for a search of its symbol.                        *)
RequestTune == \E s \in Symbols :
    /\ Spend("losses") /\ live.enabled /\ s \notin recent
    /\ queue' = IF Len(queue) < LossTuneQueue THEN Append(queue, s) ELSE queue
    /\ OnlyTuning /\ UNCHANGED <<search, retries, recent>>

(* runLossPass refuses for good, finds the slot busy, or searches.         *)
Refused(s) == ~live.enabled \/ s \notin setting.eligible \/ s \in recent

\* mutant: a request that finds the slot busy is dropped (AT3-6)
ServeOrDrop(s, from) ==
    /\ retries' = [from EXCEPT !.pending = @ \ {s}]
    /\ IF Refused(s) \/ ~SlotFree THEN search' = search ELSE Hold("loss", {s})

Serve(s, from) ==
    LET busy == ~Refused(s) /\ ~SlotFree IN
    /\ retries' = [from EXCEPT !.pending = IF busy THEN @ \cup {s} ELSE @ \ {s},
                               !.due = @ \/ busy]
    /\ IF Refused(s) \/ busy THEN search' = search ELSE Hold("loss", {s})

ServeLoss ==
    /\ ScheduleIdle /\ queue # <<>>
    /\ Serve(Head(queue), retries) /\ queue' = Tail(queue)
    /\ OnlyTuning /\ UNCHANGED <<recent, left>>

RetryDue ==
    /\ ScheduleIdle /\ retries.due
    /\ retries' = [retries EXCEPT !.due = FALSE, !.serving = retries.pending]
    /\ OnlyTuning /\ UNCHANGED <<search, queue, recent, left>>

ServePending == \E s \in retries.serving :
    /\ search.by # "loss"
    /\ Serve(s, [retries EXCEPT !.serving = @ \ {s}])
    /\ OnlyTuning /\ UNCHANGED <<queue, recent, left>>

(* on_loss.cooldown passes.                                                *)
CoolDown == \E s \in recent :
    /\ recent' = recent \ {s}
    /\ OnlyTuning /\ UNCHANGED <<search, queue, retries, left>>

(* The process dies and is started again; the applies are on disk.         *)
Restart ==
    /\ setting.crash /\ Loads(file)
    /\ Start(file) /\ unsaved' = {}
    /\ UNCHANGED <<setting, file, recent, left>>

Next ==
    \/ PutStrategy \/ PutLimits \/ PutSizing \/ PutBehavior \/ PutPortfolio \/ PutAutotune
    \/ PutNotify \/ PutAI \/ PutML
    \/ Apply \/ SetStrategyConfig \/ SetSymbolStrategies \/ RollBackML \/ Persist
    \/ \E on \in BOOLEAN : CheckTrading(on)
    \/ SetTradingEnabled
    \/ Tick \/ StartOnce \/ OptimizeSymbol \/ TuneSymbol \/ ReleaseSlot
    \/ Found \/ Compare \/ PatchSymbolOverride \/ Gather \/ Install
    \/ RequestTune \/ ServeLoss \/ RetryDue \/ ServePending \/ CoolDown \/ Restart

Spec == Init /\ [][Next]_vars

(* Handlers and searches that have begun go on, and the timers run out.    *)
FairSpec ==
    /\ Spec
    /\ WF_vars(Apply \/ SetStrategyConfig \/ SetSymbolStrategies \/ Persist)
    /\ WF_vars(SetTradingEnabled)
    /\ WF_vars(TuneSymbol \/ ReleaseSlot \/ Found \/ Compare \/ PatchSymbolOverride \/ Gather \/ Install)
    /\ WF_vars(ServeLoss) /\ WF_vars(RetryDue) /\ WF_vars(ServePending)
    /\ WF_vars(Tick /\ left' = left)

-----------------------------------------------------------------------------
Quiet == save = NoSave /\ toggle = "none" /\ ~Applying

(* The strategy of every symbol is the one a restart would give it, once   *)
(* the forms and applies that had begun are over and the strategy was      *)
(* saved: applyResult writes before it installs, putStrategy layers every  *)
(* override onto the new base (AT3-2, CF3-3).                              *)
RunningIsOnDisk ==
    ~setting.overlap /\ Quiet /\ "strategy" \notin unsaved =>
      /\ base.cfg = file.strategy
      /\ \A s \in Symbols : StrategyFor(s).cfg = Layer(file.strategy, file.overrides[s])

(* What a search puts in force is what it ran: its winner differs from the *)
(* strategy it began with in a few parameters, and those on another base   *)
(* would be a strategy no trial ran (AT3-2).                               *)
AppliedWasSearched ==
    [][Install /\ ~setting.overlap => over'[search.sym].cfg = search.winner]_vars

(* The file always starts the bot, although each form and each search      *)
(* checks its own part and earlier saves may have failed (AP2-4); and it   *)
(* holds neither the marker nor a secret of the environment.               *)
FileIsFit ==
    /\ Loads(file)
    /\ file.secret \in (IF setting.envSecret THEN {"empty"} ELSE {"empty", "stored", "new"})

(* A live bot has its money ceilings (setTrading, putLimits).              *)
TradingHasCeiling == ~setting.overlap /\ trading => live.ceilings

(* Every strategy votes with the predictor now installed (ML3-4).          *)
PredictorIsCurrent ==
    save.form \notin {"ml", "mlundo"} => \A s \in Symbols : StrategyFor(s).ml = services.ml

(* What runs is what a restart would load: strategies, and the predictor   *)
(* they vote with.                                                         *)
ProcessMatchesFile == RunningIsOnDisk /\ PredictorIsCurrent

(* What is saved starts the bot, and what trades live has its ceilings.    *)
SavedIsSafe == FileIsFit /\ TradingHasCeiling

(* Every strategy asks the advisor now installed, as applyAI says.         *)
AdvisorIsCurrent ==
    save.form # "ai" => \A s \in Symbols : StrategyFor(s).ai = services.ai

(* A request in the queue leads to a search of its symbol, unless autotune *)
(* is off, the symbol is not eligible, it was just changed, or the bot     *)
(* stops: a busy slot delays it, never drops it (AT3-6).                   *)
Waiting(s) == s \in retries.pending \cup retries.serving \/ \E i \in DOMAIN queue : queue[i] = s
LossRequestServed ==
    \A s \in Symbols : [](Waiting(s) => <>(\/ search.by = "loss" /\ search.sym = s
                                           \/ Refused(s) \/ setting.crash))

=============================================================================
