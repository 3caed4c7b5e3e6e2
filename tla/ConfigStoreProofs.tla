-------------------------- MODULE ConfigStoreProofs --------------------------
(***************************************************************************)
(* Proofs about ConfigStore, for every set of symbols and every length of  *)
(* the queue of re-tunes; and, in the second half, about Search as Replays *)
(* runs it, whose answers are what ConfigStore installs: for every search  *)
(* there may be.  The two modules share no variable.                       *)
(***************************************************************************)
EXTENDS ConfigStore, Replays, TLAPS, FiniteSetTheorems, SequenceTheorems, WellFoundedInduction

-----------------------------------------------------------------------------
(* Layers                                                                  *)

LEMMA FragmentIs ==
    ASSUME NEW D \in SUBSET Fields, NEW g \in [D -> {0, 1}]
    PROVE  g \in Fragments
BY DEF Fragments

LEMMA FragmentHas ==
    ASSUME NEW g \in Fragments
    PROVE  DOMAIN g \subseteq Fields /\ \A f \in DOMAIN g : g[f] \in {0, 1}
BY DEF Fragments

LEMMA LayerWhole ==
    ASSUME NEW cfg \in Configs, NEW g \in Fragments
    PROVE  Layer(cfg, g) \in Configs
BY FragmentHas DEF Layer, Configs

LEMMA LayerNone ==
    ASSUME NEW cfg \in Configs
    PROVE  Layer(cfg, None) = cfg
BY DEF Layer, Configs, None

(* An override on top of an older one.                                     *)
LEMMA LayerTwice ==
    ASSUME NEW cfg \in Configs, NEW new \in Fragments, NEW old \in Fragments
    PROVE  /\ Overlay(new, old) \in Fragments
           /\ Layer(cfg, Overlay(new, old)) = Layer(Layer(cfg, old), new)
<1>1. Overlay(new, old) \in Fragments
  BY FragmentHas, FragmentIs DEF Overlay
<1>2. ASSUME NEW f \in Fields
      PROVE  Layer(cfg, Overlay(new, old))[f] = Layer(Layer(cfg, old), new)[f]
  BY DEF Layer, Overlay
<1>3. Layer(cfg, Overlay(new, old)) = Layer(Layer(cfg, old), new)
  BY <1>2 DEF Layer
<1>. QED  BY <1>1, <1>3

(* What a search changed, layered onto what it ran from, is what it found. *)
LEMMA LayerFound ==
    ASSUME NEW from \in Configs, NEW winner \in Configs
    PROVE  /\ OverrideFields(from, winner) \in Fragments
           /\ Layer(from, OverrideFields(from, winner)) = winner
<1>1. OverrideFields(from, winner) \in Fragments
  BY FragmentIs DEF OverrideFields, Configs
<1>2. ASSUME NEW f \in Fields
      PROVE  Layer(from, OverrideFields(from, winner))[f] = winner[f]
  BY DEF Layer, OverrideFields
<1>3. Layer(from, OverrideFields(from, winner)) = winner
  BY <1>2 DEF Layer, Configs
<1>. QED  BY <1>1, <1>3

LEMMA ResolvedIs ==
    ASSUME NEW f, f.overrides \in [Symbols -> Fragments], NEW cfg \in Configs
    PROVE  /\ \A s \in DOMAIN Resolved(f, cfg) : Resolved(f, cfg)[s] \in Configs
           /\ \A s \in Symbols :
                (IF s \in DOMAIN Resolved(f, cfg) THEN Resolved(f, cfg)[s] ELSE cfg)
                  = Layer(cfg, f.overrides[s])
<1>1. DOMAIN Resolved(f, cfg) = {s \in Symbols : f.overrides[s] # None}
      /\ \A s \in DOMAIN Resolved(f, cfg) : Resolved(f, cfg)[s] = Layer(cfg, f.overrides[s])
  BY DEF Resolved, Overridden
<1>. QED  BY <1>1, LayerWhole, LayerNone

-----------------------------------------------------------------------------
Changing  == {"apply", "overrides"}
Rebuilds  == {"strategy", "ml", "mlundo"}
Secrets   == {"empty", "stored", "new"}

(* The shape of each variable that an action changes in part.              *)
Shaped ==
    /\ file = [strategy |-> file.strategy, switch |-> file.switch, ceilings |-> file.ceilings,
               minPositions |-> file.minPositions, slots |-> file.slots, confirm |-> file.confirm,
               enabled |-> file.enabled, secret |-> file.secret, overrides |-> file.overrides]
    /\ live = [ceilings |-> live.ceilings, switch |-> live.switch,
               minPositions |-> live.minPositions, slots |-> live.slots,
               confirm |-> live.confirm, enabled |-> live.enabled, secret |-> live.secret]
    /\ save = [form |-> save.form, step |-> save.step, value |-> save.value, cfg |-> save.cfg,
               over |-> save.over]
    /\ search = [by |-> search.by, todo |-> search.todo, sym |-> search.sym,
                 step |-> search.step, from |-> search.from, winner |-> search.winner,
                 merged |-> search.merged]
    /\ search.by = "none" => search.step = "none"
    /\ services = [ai |-> services.ai, ml |-> services.ml]

(* Every strategy there is, in the file, in force or on its way, is whole. *)
Whole ==
    /\ file.strategy \in Configs /\ file.overrides \in [Symbols -> Fragments]
    /\ base.cfg \in Configs /\ \A s \in DOMAIN over : over[s].cfg \in Configs
    /\ save.cfg \in Configs /\ \A s \in DOMAIN save.over : save.over[s] \in Configs
    /\ search.step \in {"run", "compare", "write", "gather", "install"} => search.from \in Configs
    /\ search.step \in {"compare", "write", "gather", "install"} => search.winner \in Configs
    /\ search.step = "install" => \A s \in DOMAIN search.merged : search.merged[s] \in Configs

Given(s) == IF s \in DOMAIN save.over THEN save.over[s] ELSE save.cfg

(* A form holds what it layered onto the file that is still there; while   *)
(* it is applied, only the symbols with an override lag behind.            *)
FormInv ==
    /\ save = NoSave \/ search.step \notin {"write", "gather", "install"}
    /\ save.form \in Rebuilds /\ save.step \in Changing =>
         \A s \in Symbols : Given(s) = Layer(save.cfg, file.overrides[s])
    /\ save.form \in {"ai", "ml", "mlundo"} /\ save.step \in Changing => save.cfg = base.cfg
    /\ save.step = "overrides" => save.form \in Rebuilds /\ save.cfg = base.cfg
    /\ \/ base.cfg = file.strategy \/ "strategy" \in unsaved
       \/ save.form = "strategy" /\ save.step \in {"overrides", "persist"}

(* A search that found something: from is still in force when it is        *)
(* written, and what it merges is what the file now says.                  *)
SearchInv ==
    LET s == search.sym IN
    /\ search.step \in {"write", "gather"} => StrategyFor(s).cfg = search.from
    /\ search.step \in {"gather", "install"} /\ s \in Symbols =>
         search.winner = Layer(base.cfg, file.overrides[s])
    /\ search.step = "install" =>
         /\ DOMAIN search.merged = DOMAIN over \cup {s} /\ search.merged[s] = search.winner
         /\ \A r \in DOMAIN over \ {s} : search.merged[r] = over[r].cfg

Lags(s) ==
    \/ save.form = "strategy" /\ save.step = "overrides"
    \/ search.step \in {"gather", "install"} /\ s = search.sym

Agree == \A s \in Symbols : Lags(s) \/ StrategyFor(s).cfg = Layer(base.cfg, file.overrides[s])

OnDiskInv == ~setting.overlap => FormInv /\ SearchInv /\ Agree

PredictorInv ==
    LET swapping == save.form \in {"ml", "mlundo"} IN
    /\ base.ml = services.ml \/ (swapping /\ save.step = "apply")
    /\ (\A s \in DOMAIN over : over[s].ml = services.ml) \/ (swapping /\ save.step \in Changing)

CeilingInv ==
    ~setting.overlap =>
      /\ save = NoSave \/ toggle = "none"
      /\ trading => live.ceilings
      /\ toggle = "on" => live.ceilings
      /\ save.form = "limits" /\ save.step = "apply" /\ trading => save.value

SecretInv ==
    /\ file.secret \in (IF setting.envSecret THEN {"empty"} ELSE Secrets)
    /\ ~setting.envSecret => live.secret \in Secrets
    /\ ~setting.envSecret /\ save.form = "notify" /\ save.step = "apply" => save.value \in Secrets

Inv == Shaped /\ Whole /\ Loads(file)

-----------------------------------------------------------------------------
(* Idle and fresh records                                                  *)

LEMMA NoSaveIs ==
    /\ NoSave = [form |-> "none", step |-> "none", value |-> NoSave.value, cfg |-> NoSave.cfg,
                 over |-> NoSave.over]
    /\ NoSave.form = "none" /\ NoSave.step = "none" /\ NoSave.cfg \in Configs
    /\ DOMAIN NoSave.over = {}
BY DEF NoSave, Configs

LEMMA FormIs ==
    ASSUME NEW form
    PROVE  Form(form) = [form |-> form, step |-> "apply", value |-> NoSave.value,
                         cfg |-> NoSave.cfg, over |-> NoSave.over]
<1> DEFINE n == NoSave
           value == NoSave.value
           cfg == NoSave.cfg
           layered == NoSave.over
<1>1. n = [form |-> "none", step |-> "none", value |-> value, cfg |-> cfg, over |-> layered]
  BY NoSaveIs
<1>2. Form(form) = [n EXCEPT !.form = form, !.step = "apply"]
  BY DEF Form
<1> HIDE DEF n, value, cfg, layered
<1>3. Form(form) = [form |-> form, step |-> "apply", value |-> value, cfg |-> cfg,
                    over |-> layered]
  BY <1>1, <1>2
<1>. QED  BY <1>3 DEF value, cfg, layered

LEMMA NoSearchIs ==
    /\ NoSearch = [by |-> "none", todo |-> NoSearch.todo, sym |-> NoSearch.sym, step |-> "none",
                   from |-> NoSearch.from, winner |-> NoSearch.winner, merged |-> NoSearch.merged]
    /\ NoSearch.step = "none" /\ NoSearch.by = "none"
BY DEF NoSearch

LEMMA RebuildingIs ==
    ASSUME NEW form
    PROVE  Rebuilding(form) = [form |-> form, step |-> "apply", value |-> NoSave.value,
                               cfg |-> base.cfg, over |-> [s \in DOMAIN over |-> over[s].cfg]]
<1> DEFINE fresh == Form(form)
<1>1. fresh = [form |-> form, step |-> "apply", value |-> NoSave.value,
               cfg |-> NoSave.cfg, over |-> NoSave.over]
  BY FormIs
<1>2. Rebuilding(form) = [fresh EXCEPT !.cfg = base.cfg,
                                       !.over = [s \in DOMAIN over |-> over[s].cfg]]
  BY DEF Rebuilding
<1> HIDE DEF fresh
<1>. QED  BY <1>1, <1>2

-----------------------------------------------------------------------------
(* What a step does, with each record by its fields.                       *)

SavePart(form, to, value, cfg, layered) ==
    save' = [form |-> form, step |-> to, value |-> value, cfg |-> cfg, over |-> layered]
SaveAt(to) == SavePart(save.form, to, save.value, save.cfg, save.over)

SearchPart ==
    /\ search' = [by |-> search'.by, todo |-> search'.todo, sym |-> search'.sym,
                  step |-> search'.step, from |-> search'.from, winner |-> search'.winner,
                  merged |-> search'.merged]
    /\ search'.by = "none" => search'.step = "none"
SameTarget == search'.sym = search.sym /\ search'.from = search.from
                /\ search'.winner = search.winner

FilePart ==
    file' = [strategy |-> file'.strategy, switch |-> file'.switch, ceilings |-> file'.ceilings,
             minPositions |-> file'.minPositions, slots |-> file'.slots,
             confirm |-> file'.confirm, enabled |-> file'.enabled, secret |-> file'.secret,
             overrides |-> file'.overrides]
LivePart ==
    live' = [ceilings |-> live'.ceilings, switch |-> live'.switch,
             minPositions |-> live'.minPositions, slots |-> live'.slots,
             confirm |-> live'.confirm, enabled |-> live'.enabled, secret |-> live'.secret]
ServicesPart == services' = [ai |-> services'.ai, ml |-> services'.ml]

Opens(form, value, cfg, layered) ==
    /\ save = NoSave /\ (~setting.overlap => toggle = "none" /\ ~Applying)
    /\ SavePart(form, "apply", value, cfg, layered)
    /\ form \in Forms
    /\ form = "strategy" => cfg \in Configs /\ layered = Resolved(file, cfg)
    /\ form \in {"ai", "ml"} => cfg = base.cfg
    /\ form = "ml" => layered = [s \in DOMAIN over |-> over[s].cfg]
    /\ form \notin {"strategy", "ml"} => layered = NoSave.over
    /\ form \notin {"strategy", "ai", "ml"} => cfg = NoSave.cfg
    /\ form = "limits" /\ trading => value
    /\ form = "notify" => value \in {live.secret, "empty", "new"}
    /\ ServicesPart /\ (form # "ml" => services'.ml = services.ml)
    /\ UNCHANGED <<setting, file, live, base, over, trading, toggle, search, unsaved>>
Opened == \E form, value, cfg, layered : Opens(form, value, cfg, layered)

Applied ==
    /\ save.form \in Forms \ {"strategy", "ai", "ml"} /\ save.step = "apply"
    /\ SaveAt("persist")
    /\ LivePart
    /\ live'.ceilings = IF save.form = "limits" THEN save.value ELSE live.ceilings
    /\ live'.secret = IF save.form = "notify" THEN save.value ELSE live.secret
    /\ UNCHANGED <<setting, file, base, over, services, trading, toggle, search, unsaved>>

Based ==
    /\ save.form \in {"strategy", "ai", "ml", "mlundo"} /\ save.step = "apply"
    /\ SaveAt(IF save.form = "ai" THEN "persist" ELSE "overrides")
    /\ base'.cfg = save.cfg /\ base'.ml = services.ml
    /\ UNCHANGED <<setting, file, live, over, services, trading, toggle, search, unsaved>>

Layered ==
    /\ save.step = "overrides"
    /\ \/ save.form = "mlundo" /\ save' = NoSave
       \/ save.form # "mlundo" /\ SaveAt("persist")
    /\ DOMAIN over' = DOMAIN save.over
    /\ \A s \in DOMAIN save.over : over'[s].cfg = save.over[s] /\ over'[s].ml = services.ml
    /\ UNCHANGED <<setting, file, live, base, services, trading, toggle, search, unsaved>>

RolledBack ==
    /\ save.form = "ml" /\ save.step = "persist"
    /\ SavePart("mlundo", "apply", NoSave.value, base.cfg, [s \in DOMAIN over |-> over[s].cfg])
    /\ ServicesPart
    /\ UNCHANGED <<setting, file, live, base, over, trading, toggle, search, unsaved>>

Persisted ==
    /\ save.step = "persist" /\ save' = NoSave
    /\ FilePart /\ file'.overrides = file.overrides
    /\ file' = file \/ Loads(file') \/ ~Loads(file)
    /\ \/ /\ file'.strategy = (IF save.form = "strategy" THEN base.cfg ELSE file.strategy)
          /\ unsaved' = unsaved \ {save.form}
          /\ \/ file'.secret = file.secret
             \/ ~setting.envSecret /\ file'.secret = live.secret
       \/ file' = file /\ unsaved' = unsaved \cup {save.form}
    /\ UNCHANGED <<setting, live, base, over, services, trading, toggle, search>>

Switched ==
    /\ \/ /\ toggle = "none" /\ (~setting.overlap => save = NoSave)
          /\ toggle' \in {"on", "off"} /\ (toggle' = "on" => live.ceilings) /\ trading' = trading
       \/ toggle # "none" /\ trading' = (toggle = "on") /\ toggle' = "none"
    /\ UNCHANGED <<setting, file, live, base, over, services, save, search, unsaved>>

Searched ==
    /\ SearchPart
    /\ \/ search' = search
       \/ search.step \in {"none", "pick", "run", "compare"} /\ search'.step \in {"none", "pick"}
       \/ /\ search.step = "pick" /\ search'.step = "run"
          /\ \E s : search'.from = StrategyFor(s).cfg
       \/ /\ search.step = "run" /\ search'.step = "compare"
          /\ search'.from = search.from /\ search'.winner \in Configs
       \/ /\ search.step = "compare" /\ search'.step = "write" /\ SameTarget /\ MayApply
          /\ StrategyFor(search.sym).cfg = search.from
       \/ /\ search.step = "gather" /\ search'.step = "install" /\ SameTarget
          /\ DOMAIN search'.merged = DOMAIN over \cup {search.sym}
          /\ search'.merged[search.sym] = Layer(StrategyFor(search.sym).cfg, FoundFields)
          /\ \A r \in DOMAIN over \ {search.sym} : search'.merged[r] = over[r].cfg
    /\ OnlyTuning

Overrode ==
    /\ search.step = "write" /\ SearchPart
    /\ FilePart
    /\ file' = file \/ Loads(file') \/ ~Loads(file)
    /\ \/ /\ search'.step = "gather" /\ SameTarget
          /\ file'.strategy = file.strategy /\ file'.secret = file.secret
          /\ file'.overrides = [file.overrides EXCEPT ![search.sym] =
                                  Overlay(FoundFields, file.overrides[search.sym])]
       \/ search'.step = "pick" /\ file' = file
    /\ UNCHANGED <<setting, live, base, over, services, trading, save, toggle, unsaved>>

Installed ==
    /\ search.step = "install" /\ search'.step = "pick" /\ SearchPart
    /\ DOMAIN over' = DOMAIN search.merged
    /\ \A s \in DOMAIN search.merged : over'[s].cfg = search.merged[s] /\ over'[s].ml = services.ml
    /\ UNCHANGED <<setting, file, live, base, services, trading, save, toggle, unsaved>>

Restarted ==
    /\ LivePart /\ live'.ceilings = file.ceilings /\ live'.secret = Secret(file)
    /\ ServicesPart
    /\ base'.cfg = file.strategy /\ base'.ml = services'.ml
    /\ DOMAIN over' = DOMAIN Resolved(file, file.strategy)
    /\ \A s \in DOMAIN over' :
         over'[s].cfg = Resolved(file, file.strategy)[s] /\ over'[s].ml = services'.ml
    /\ trading' = file.switch /\ save' = NoSave /\ toggle' = "none" /\ search' = NoSearch
    /\ UNCHANGED <<setting, file>>

Rested ==
    UNCHANGED <<setting, file, live, base, over, services, trading, save, toggle, search, unsaved>>

StepKind ==
    \/ Opened \/ Applied \/ Based \/ Layered \/ RolledBack \/ Persisted \/ Switched \/ Searched
    \/ Overrode \/ Installed \/ Restarted \/ Rested

LEMMA OpeningForm ==
    ASSUME NEW form \in Forms, NEW value, BeginSave([Form(form) EXCEPT !.value = value])
    PROVE  /\ SavePart(form, "apply", value, NoSave.cfg, NoSave.over)
           /\ save = NoSave /\ (~setting.overlap => toggle = "none" /\ ~Applying)
           /\ UNCHANGED <<setting, file, live, base, over, trading, toggle, search, unsaved>>
<1> DEFINE fresh == Form(form)
<1>1. fresh = [form |-> form, step |-> "apply", value |-> NoSave.value,
               cfg |-> NoSave.cfg, over |-> NoSave.over]
  BY FormIs
<1>2. save' = [fresh EXCEPT !.value = value]
  BY DEF BeginSave
<1> HIDE DEF fresh
<1>3. SavePart(form, "apply", value, NoSave.cfg, NoSave.over)
  BY <1>1, <1>2 DEF SavePart
<1>. QED  BY <1>3 DEF BeginSave, MayEdit, loss

LEMMA PlainOpens ==
    ASSUME Shaped, NEW form \in Forms \ {"strategy", "ai", "ml"}, NEW value,
           BeginSave([Form(form) EXCEPT !.value = value]), UNCHANGED services,
           form = "limits" /\ trading => value,
           form = "notify" => value \in {live.secret, "empty", "new"}
    PROVE  Opened
<1>1. Opens(form, value, NoSave.cfg, NoSave.over)
  BY OpeningForm DEF Opens, ServicesPart, Shaped
<1>. QED  BY <1>1 DEF Opened

LEMMA StrategyOpens == ASSUME Shaped, base.cfg \in Configs, PutStrategy PROVE Opened
<1>1. PICK submitted \in Fragments :
        /\ Sound(BindMerged(submitted))
        /\ BeginSave([Form("strategy") EXCEPT !.cfg = BindMerged(submitted),
                                              !.over = Resolved(file, BindMerged(submitted))])
        /\ UNCHANGED services
  BY DEF PutStrategy
<1> DEFINE cfg == BindMerged(submitted)
           layered == Resolved(file, cfg)
           fresh == Form("strategy")
<1>2. fresh = [form |-> "strategy", step |-> "apply", value |-> NoSave.value,
               cfg |-> NoSave.cfg, over |-> NoSave.over]
  BY FormIs
<1>3. save' = [fresh EXCEPT !.cfg = cfg, !.over = layered]
  BY <1>1 DEF BeginSave
<1>4. cfg \in Configs /\ layered = Resolved(file, cfg)
  BY LayerWhole DEF BindMerged
<1> HIDE DEF cfg, layered, fresh
<1>5. SavePart("strategy", "apply", NoSave.value, cfg, layered)
  BY <1>2, <1>3 DEF SavePart
<1>6. Opens("strategy", NoSave.value, cfg, layered)
  BY <1>1, <1>4, <1>5 DEF Opens, Forms, BeginSave, MayEdit, ServicesPart, Shaped, loss
<1>. QED  BY <1>6 DEF Opened

LEMMA OthersOpen ==
    ASSUME Shaped, PutLimits \/ PutSizing \/ PutBehavior \/ PutPortfolio \/ PutAutotune \/ PutNotify
    PROVE  Opened
<1>1. CASE PutLimits
  <2>1. PICK ceilings \in BOOLEAN :
          /\ trading \/ live.switch => Bounded(ceilings)
          /\ BeginSave([Form("limits") EXCEPT !.value = ceilings])
          /\ UNCHANGED services
    BY <1>1 DEF PutLimits
  <2>. QED  BY <2>1, PlainOpens DEF Forms, Bounded
<1>2. CASE PutSizing
  BY <1>2, PlainOpens DEF PutSizing, Forms
<1>3. CASE PutBehavior
  BY <1>3, PlainOpens DEF PutBehavior, Forms
<1>4. CASE PutPortfolio
  BY <1>4, PlainOpens DEF PutPortfolio, Forms
<1>5. CASE PutAutotune
  BY <1>5, PlainOpens DEF PutAutotune, Forms
<1>6. CASE PutNotify
  <2>1. PICK submitted \in {"omitted", "marker", "empty", "new"} :
          /\ BeginSave([Form("notify") EXCEPT !.value = Unredact(submitted)])
          /\ UNCHANGED services
    BY <1>6 DEF PutNotify
  <2>2. Unredact(submitted) \in {live.secret, "empty", "new"}
    BY DEF Unredact
  <2>. QED  BY <2>1, <2>2, PlainOpens DEF Forms
<1>. QED  BY <1>1, <1>2, <1>3, <1>4, <1>5, <1>6

LEMMA ServicesOpen == ASSUME Shaped, PutAI \/ PutML PROVE Opened
<1>1. CASE PutAI
  <2> DEFINE fresh == Form("ai")
  <2>1. fresh = [form |-> "ai", step |-> "apply", value |-> NoSave.value,
                 cfg |-> NoSave.cfg, over |-> NoSave.over]
    BY FormIs
  <2>2. save' = [fresh EXCEPT !.cfg = base.cfg]
    BY <1>1 DEF PutAI, BeginSave
  <2> HIDE DEF fresh
  <2>3. SavePart("ai", "apply", NoSave.value, base.cfg, NoSave.over)
    BY <2>1, <2>2 DEF SavePart
  <2>4. services' = [ai |-> 1 - services.ai, ml |-> services.ml]
    BY <1>1 DEF PutAI, Shaped
  <2>5. ServicesPart /\ services'.ml = services.ml
    BY <2>4 DEF ServicesPart
  <2>6. Opens("ai", NoSave.value, base.cfg, NoSave.over)
    BY <1>1, <2>3, <2>5 DEF PutAI, Opens, Forms, BeginSave, MayEdit, loss
  <2>. QED  BY <2>6 DEF Opened
<1>2. CASE PutML
  <2>1. save' = Rebuilding("ml")
    BY <1>2 DEF PutML, BeginSave
  <2>2. SavePart("ml", "apply", NoSave.value, base.cfg, [s \in DOMAIN over |-> over[s].cfg])
    BY <2>1, RebuildingIs DEF SavePart
  <2>3. services' = [ai |-> services.ai, ml |-> 1 - services.ml]
    BY <1>2 DEF PutML, Shaped
  <2>4. ServicesPart
    BY <2>3 DEF ServicesPart
  <2>5. Opens("ml", NoSave.value, base.cfg, [s \in DOMAIN over |-> over[s].cfg])
    BY <1>2, <2>2, <2>4 DEF PutML, Opens, Forms, BeginSave, MayEdit, loss
  <2>. QED  BY <2>5 DEF Opened
<1>. QED  BY <1>1, <1>2

LEMMA SaveMoves ==
    ASSUME Shaped, NEW to, save' = [save EXCEPT !.step = to]
    PROVE  SaveAt(to)
BY DEF Shaped, SaveAt, SavePart

LEMMA LiveMoves ==
    ASSUME Shaped, Apply
    PROVE  /\ LivePart
           /\ live'.ceilings = IF save.form = "limits" THEN save.value ELSE live.ceilings
           /\ live'.secret = IF save.form = "notify" THEN save.value ELSE live.secret
<1> DEFINE now == [ceilings |-> live.ceilings, switch |-> live.switch,
                   minPositions |-> live.minPositions, slots |-> live.slots,
                   confirm |-> live.confirm, enabled |-> live.enabled, secret |-> live.secret]
<1>0. live = now
  BY DEF Shaped
<1>1. CASE save.form = "limits" /\ live' = [live EXCEPT !.ceilings = save.value]
  BY <1>0, <1>1 DEF LivePart
<1>2. CASE save.form = "sizing" /\ live' = [live EXCEPT !.minPositions = save.value]
  BY <1>0, <1>2 DEF LivePart
<1>3. CASE save.form = "behavior" /\ live' = [live EXCEPT !.confirm = save.value]
  BY <1>0, <1>3 DEF LivePart
<1>4. CASE save.form = "portfolio" /\ live' = [live EXCEPT !.slots = save.value]
  BY <1>0, <1>4 DEF LivePart
<1>5. CASE save.form = "autotune" /\ live' = [live EXCEPT !.enabled = save.value]
  BY <1>0, <1>5 DEF LivePart
<1>6. CASE save.form = "notify" /\ live' = [live EXCEPT !.secret = save.value]
  BY <1>0, <1>6 DEF LivePart
<1>. QED  BY <1>1, <1>2, <1>3, <1>4, <1>5, <1>6 DEF Apply

LEMMA FormSteps ==
    ASSUME Shaped, Apply \/ SetStrategyConfig \/ SetSymbolStrategies \/ RollBackML
    PROVE  StepKind
<1>1. CASE Apply
  BY <1>1, SaveMoves, LiveMoves DEF Apply, Applied, strategies, loss, StepKind
<1>2. CASE SetStrategyConfig
  BY <1>2, SaveMoves DEF SetStrategyConfig, Build, Based, StepKind
<1>3. CASE SetSymbolStrategies
  BY <1>3, SaveMoves DEF SetSymbolStrategies, BuildAll, Build, Layered, StepKind
<1>4. CASE RollBackML
  BY <1>4, RebuildingIs DEF RollBackML, SavePart, Shaped, RolledBack, ServicesPart, StepKind
<1>. QED  BY <1>1, <1>2, <1>3, <1>4

(* What a form writes: its own part, nothing of the environment.           *)
WholeFile(f) ==
    f = [strategy |-> f.strategy, switch |-> f.switch, ceilings |-> f.ceilings,
         minPositions |-> f.minPositions, slots |-> f.slots, confirm |-> f.confirm,
         enabled |-> f.enabled, secret |-> f.secret, overrides |-> f.overrides]

LEMMA SectionIs ==
    ASSUME WholeFile(file), NEW form, NEW f, f = LiveSection(form)
    PROVE  /\ WholeFile(f) /\ f.overrides = file.overrides
           /\ f.strategy = IF form = "strategy" THEN base.cfg ELSE file.strategy
           /\ f.secret = IF form = "notify" THEN live.secret ELSE file.secret
<1> USE DEF WholeFile
<1>1. CASE form = "strategy"
  BY <1>1 DEF LiveSection
<1>2. CASE form = "limits"
  BY <1>2 DEF LiveSection
<1>3. CASE form \in {"sizing", "behavior"}
  BY <1>3 DEF LiveSection
<1>4. CASE form = "portfolio"
  BY <1>4 DEF LiveSection
<1>5. CASE form = "autotune"
  BY <1>5 DEF LiveSection
<1>6. CASE form = "notify"
  BY <1>6 DEF LiveSection
<1>7. CASE form \notin {"strategy", "limits", "sizing", "behavior", "portfolio", "autotune",
                         "notify"}
  BY <1>7 DEF LiveSection
<1>. QED  BY <1>1, <1>2, <1>3, <1>4, <1>5, <1>6, <1>7

LEMMA PatchedIs ==
    ASSUME WholeFile(file), NEW form
    PROVE  /\ WholeFile(Patched(form)) /\ Patched(form).overrides = file.overrides
           /\ Patched(form).strategy = IF form = "strategy" THEN base.cfg ELSE file.strategy
           /\ \/ Patched(form).secret = file.secret
              \/ ~setting.envSecret /\ Patched(form).secret = live.secret
<1> DEFINE f == LiveSection(form)
           g == Patched(form)
<1>0. f = LiveSection(form)
  OBVIOUS
<1>1. g = IF setting.envSecret THEN [f EXCEPT !.secret = file.secret] ELSE f
  BY DEF Patched, WithoutEnvSourced
<1> HIDE DEF f, g
<1>2. /\ WholeFile(f) /\ f.overrides = file.overrides
      /\ f.strategy = IF form = "strategy" THEN base.cfg ELSE file.strategy
      /\ f.secret = IF form = "notify" THEN live.secret ELSE file.secret
  BY <1>0, SectionIs
<1>3. CASE setting.envSecret
  BY <1>1, <1>3, <1>2 DEF WholeFile, g
<1>4. CASE ~setting.envSecret
  BY <1>1, <1>4, <1>2 DEF g
<1>. QED  BY <1>3, <1>4

LEMMA PersistStep == ASSUME Shaped, Persist PROVE Persisted
<1>0. WholeFile(file)
  BY DEF Shaped, WholeFile
<1> DEFINE g == Patched(save.form)
<1>1. /\ WholeFile(g) /\ g.overrides = file.overrides
      /\ g.strategy = IF save.form = "strategy" THEN base.cfg ELSE file.strategy
      /\ \/ g.secret = file.secret
         \/ ~setting.envSecret /\ g.secret = live.secret
  BY <1>0, PatchedIs
<1>2. \/ (file' = g /\ (Loads(g) \/ ~Loads(file)) /\ unsaved' = unsaved \ {save.form})
      \/ (file' = file /\ unsaved' = unsaved \cup {save.form})
  BY DEF Persist, WriteAtomic, WriteRefused, StillLoads
<1>3. /\ save.step = "persist" /\ save' = NoSave
      /\ UNCHANGED <<setting, live, base, over, services, trading, toggle, search>>
  BY DEF Persist, strategies
<1>4. CASE file' = g /\ (Loads(g) \/ ~Loads(file)) /\ unsaved' = unsaved \ {save.form}
  <2> HIDE DEF g
  <2>0. FilePart
    BY <1>1, <1>4 DEF WholeFile, FilePart
  <2>1. Loads(file') \/ ~Loads(file)
    BY <1>4
  <2>. QED  BY <1>1, <1>3, <1>4, <2>0, <2>1 DEF Persisted
<1>5. CASE file' = file /\ unsaved' = unsaved \cup {save.form}
  BY <1>0, <1>5, <1>3 DEF WholeFile, FilePart, Persisted
<1>. QED  BY <1>2, <1>4, <1>5

LEMMA SwitchSteps ==
    ASSUME (\E on \in BOOLEAN : CheckTrading(on)) \/ SetTradingEnabled
    PROVE  Switched
<1>1. ASSUME NEW on \in BOOLEAN, CheckTrading(on)
      PROVE  Switched
  BY <1>1 DEF CheckTrading, Bounded, strategies, Switched
<1>2. CASE SetTradingEnabled
  BY <1>2 DEF SetTradingEnabled, Switched, strategies
<1>. QED  BY <1>1, <1>2

LEMMA HoldIs ==
    ASSUME Shaped, SlotFree, NEW by, by # "none", NEW symbols, Hold(by, symbols)
    PROVE  SearchPart /\ search.step = "none" /\ search'.step = "pick"
<1> DEFINE n == NoSearch
<1>1. n = [by |-> n.by, todo |-> n.todo, sym |-> n.sym, step |-> n.step, from |-> n.from,
           winner |-> n.winner, merged |-> n.merged]
  BY NoSearchIs
<1>2. search' = [n EXCEPT !.by = by, !.todo = symbols, !.step = "pick"]
  BY DEF Hold
<1> HIDE DEF n
<1>3. search.step = "none"
  BY DEF Shaped, SlotFree
<1>. QED  BY <1>1, <1>2, <1>3 DEF SearchPart

LEMMA SearchStays == ASSUME Shaped, search' = search PROVE SearchPart
BY DEF Shaped, SearchPart

LEMMA ServeIs ==
    ASSUME Shaped, NEW s, NEW from, Serve(s, from)
    PROVE  /\ SearchPart
           /\ search' = search \/ (search.step = "none" /\ search'.step = "pick")
<1>1. search' = search \/ (SlotFree /\ Hold("loss", {s}))
  BY DEF Serve
<1>. QED  BY <1>1, HoldIs, SearchStays

LEMMA ScheduleSteps ==
    ASSUME Shaped,
           Tick \/ StartOnce \/ OptimizeSymbol \/ RequestTune \/ ServeLoss \/ RetryDue
             \/ ServePending \/ CoolDown
    PROVE  Searched
<1>1. ASSUME OnlyTuning, search' = search \/ \E by, symbols : SlotFree /\ by # "none" /\ Hold(by, symbols)
      PROVE  Searched
  BY <1>1, HoldIs, SearchStays DEF Searched
<1>2. ASSUME OnlyTuning, NEW s, NEW from, Serve(s, from)
      PROVE  Searched
  BY <1>2, ServeIs DEF Searched
<1>3. CASE Tick
  BY <1>3, <1>1 DEF Tick
<1>4. CASE StartOnce
  BY <1>1, <1>4 DEF StartOnce
<1>5. CASE OptimizeSymbol
  BY <1>1, <1>5 DEF OptimizeSymbol
<1>6. CASE RequestTune
  BY <1>1, <1>6 DEF RequestTune
<1>7. CASE ServeLoss
  BY <1>2, <1>7 DEF ServeLoss
<1>8. CASE RetryDue
  BY <1>1, <1>8 DEF RetryDue
<1>9. CASE ServePending
  <2>1. PICK s : Serve(s, [retries EXCEPT !.serving = @ \ {s}]) /\ OnlyTuning
    BY <1>9 DEF ServePending
  <2>. QED  BY <2>1, <1>2
<1>10. CASE CoolDown
  BY <1>1, <1>10 DEF CoolDown
<1>. QED  BY <1>3, <1>4, <1>5, <1>6, <1>7, <1>8, <1>9, <1>10

LEMMA SearchMoves ==
    ASSUME Shaped, search.step # "none", NEW to, search' = [search EXCEPT !.step = to]
    PROVE  SearchPart /\ search'.step = to /\ SameTarget
BY DEF Shaped, SearchPart, SameTarget

LEMMA SearchSteps ==
    ASSUME Shaped, TuneSymbol \/ ReleaseSlot \/ Found \/ Compare \/ Gather
    PROVE  Searched
<1>1. CASE TuneSymbol
  <2>1. PICK s \in search.todo :
          search' = [search EXCEPT !.todo = @ \ {s}, !.sym = s, !.step = "run",
                                   !.from = StrategyFor(s).cfg]
    BY <1>1 DEF TuneSymbol
  <2>2. SearchPart /\ search'.step = "run" /\ search'.from = StrategyFor(s).cfg
    BY <1>1, <2>1 DEF Shaped, SearchPart, TuneSymbol
  <2>. QED  BY <1>1, <2>2 DEF TuneSymbol, Searched
<1>2. CASE ReleaseSlot
  BY <1>2, NoSearchIs DEF ReleaseSlot, SearchPart, Searched
<1>3. CASE Found
  <2>1. CASE search' = [search EXCEPT !.step = "pick"]
    BY <1>3, <2>1, SearchMoves DEF Found, Searched
  <2>2. ASSUME NEW winner \in {c \in Configs : Sound(c)} \ {search.from},
               search' = [search EXCEPT !.step = IF search.by = "button" THEN "pick" ELSE "compare",
                                        !.winner = winner]
        PROVE  Searched
    BY <1>3, <2>2 DEF Shaped, SearchPart, Found, Searched
  <2>. QED  BY <1>3, <2>1, <2>2 DEF Found
<1>4. CASE Compare
  <2>1. CASE StrategyFor(search.sym).cfg # search.from
    BY <1>4, <2>1, SearchMoves DEF Compare, Searched
  <2>2. CASE StrategyFor(search.sym).cfg = search.from
    BY <1>4, <2>2, SearchMoves DEF Compare, Searched
  <2>. QED  BY <2>1, <2>2
<1>5. CASE Gather
  <2> DEFINE found == Layer(StrategyFor(search.sym).cfg, FoundFields)
             merged == [s \in DOMAIN over \cup {search.sym} |->
                           IF s = search.sym THEN found ELSE over[s].cfg]
  <2>1. search' = [search EXCEPT !.step = "install", !.merged = merged]
    BY <1>5 DEF Gather
  <2>2. /\ DOMAIN merged = DOMAIN over \cup {search.sym}
        /\ merged[search.sym] = Layer(StrategyFor(search.sym).cfg, FoundFields)
        /\ \A r \in DOMAIN over \ {search.sym} : merged[r] = over[r].cfg
    OBVIOUS
  <2> HIDE DEF merged, found
  <2>3. SearchPart /\ search'.step = "install" /\ SameTarget /\ search'.merged = merged
    BY <1>5, <2>1 DEF Shaped, SearchPart, SameTarget, Gather
  <2>. QED  BY <1>5, <2>2, <2>3 DEF Gather, Searched
<1>. QED  BY <1>1, <1>2, <1>3, <1>4, <1>5

LEMMA WriteStep == ASSUME Shaped, PatchSymbolOverride PROVE Overrode
<1>1. CASE WriteAtomic(WithOverride) /\ search' = [search EXCEPT !.step = "gather"]
  <2> DEFINE overrides == [file.overrides EXCEPT ![search.sym] =
                             Overlay(FoundFields, file.overrides[search.sym])]
  <2>1. file' = [file EXCEPT !.overrides = overrides]
    BY <1>1 DEF WriteAtomic, WithOverride
  <2> HIDE DEF overrides
  <2>2. /\ FilePart /\ file'.overrides = overrides
        /\ file'.strategy = file.strategy /\ file'.secret = file.secret
    BY <2>1 DEF Shaped, FilePart
  <2>3. Loads(file') \/ ~Loads(file)
    BY <1>1 DEF WriteAtomic, StillLoads
  <2>4. SearchPart /\ search'.step = "gather" /\ SameTarget
    BY <1>1, SearchMoves DEF PatchSymbolOverride
  <2>. QED  BY <2>2, <2>3, <2>4 DEF PatchSymbolOverride, Overrode, overrides, strategies
<1>2. CASE WriteRefused(WithOverride) /\ search' = [search EXCEPT !.step = "pick"]
  BY <1>2, SearchMoves DEF WriteRefused, PatchSymbolOverride, Shaped, FilePart, Overrode, strategies
<1>. QED  BY <1>1, <1>2 DEF PatchSymbolOverride

LEMMA InstallStep == ASSUME Shaped, Install PROVE Installed
<1>1. DOMAIN over' = DOMAIN search.merged
      /\ \A s \in DOMAIN search.merged :
            over'[s].cfg = search.merged[s] /\ over'[s].ml = services.ml
  BY DEF Install, BuildAll, Build
<1>2. SearchPart /\ search'.step = "pick"
  BY SearchMoves DEF Install
<1>. QED  BY <1>1, <1>2 DEF Install, Installed

LEMMA RestartStep == ASSUME Restart PROVE Restarted
<1>1. LivePart /\ live'.ceilings = file.ceilings /\ live'.secret = Secret(file)
  BY DEF Restart, Start, FromFile, LivePart
<1>2. ServicesPart /\ services'.ml = 0
  BY DEF Restart, Start, ServicesPart
<1>3. base'.cfg = file.strategy /\ base'.ml = 0
  BY DEF Restart, Start
<1>4. over' = [s \in Overridden(file) |->
                 [cfg |-> Resolved(file, file.strategy)[s], ai |-> 0, ml |-> 0]]
  BY DEF Restart, Start
<1>5. DOMAIN Resolved(file, file.strategy) = Overridden(file)
  BY DEF Resolved
<1>6. /\ DOMAIN over' = DOMAIN Resolved(file, file.strategy)
      /\ \A s \in DOMAIN over' :
           over'[s].cfg = Resolved(file, file.strategy)[s] /\ over'[s].ml = 0
  BY <1>4, <1>5
<1>7. /\ trading' = file.switch /\ save' = NoSave /\ toggle' = "none" /\ search' = NoSearch
      /\ UNCHANGED <<setting, file>>
  BY DEF Restart, Start
<1>. QED  BY <1>1, <1>2, <1>3, <1>6, <1>7 DEF Restarted

LEMMA StepIs ==
    ASSUME Shaped, base.cfg \in Configs, [Next]_vars
    PROVE  StepKind
<1>1. CASE PutStrategy
  BY <1>1, StrategyOpens DEF StepKind
<1>2. CASE PutLimits \/ PutSizing \/ PutBehavior \/ PutPortfolio \/ PutAutotune \/ PutNotify
  BY <1>2, OthersOpen DEF StepKind
<1>3. CASE PutAI \/ PutML
  BY <1>3, ServicesOpen DEF StepKind
<1>4. CASE Apply \/ SetStrategyConfig \/ SetSymbolStrategies \/ RollBackML
  BY <1>4, FormSteps
<1>5. CASE Persist
  BY <1>5, PersistStep DEF StepKind
<1>6. CASE (\E on \in BOOLEAN : CheckTrading(on)) \/ SetTradingEnabled
  BY <1>6, SwitchSteps DEF StepKind
<1>7. CASE Tick \/ StartOnce \/ OptimizeSymbol \/ RequestTune \/ ServeLoss \/ RetryDue
             \/ ServePending \/ CoolDown
  BY <1>7, ScheduleSteps DEF StepKind
<1>8. CASE TuneSymbol \/ ReleaseSlot \/ Found \/ Compare \/ Gather
  BY <1>8, SearchSteps DEF StepKind
<1>9. CASE PatchSymbolOverride
  BY <1>9, WriteStep DEF StepKind
<1>10. CASE Install
  BY <1>10, InstallStep DEF StepKind
<1>11. CASE Restart
  BY <1>11, RestartStep DEF StepKind
<1>12. CASE UNCHANGED vars
  BY <1>12 DEF vars, Rested, StepKind
<1>. QED  BY <1>1, <1>2, <1>3, <1>4, <1>5, <1>6, <1>7, <1>8, <1>9, <1>10, <1>11, <1>12 DEF Next

-----------------------------------------------------------------------------
(* The records keep their fields, and every strategy stays whole.          *)

SavedPart == save' = [form |-> save'.form, step |-> save'.step, value |-> save'.value,
                      cfg |-> save'.cfg, over |-> save'.over]

LEMMA ShapedStep ==
    ASSUME Shaped, StepKind
    PROVE  Shaped'
<1>0. ASSUME FilePart, LivePart, SavedPart, SearchPart, ServicesPart
      PROVE  Shaped'
  BY <1>0 DEF FilePart, LivePart, SavedPart, SearchPart, ServicesPart, Shaped
<1>1. /\ file' = file => FilePart
      /\ live' = live => LivePart
      /\ save' = save => SavedPart
      /\ search' = search => SearchPart
      /\ services' = services => ServicesPart
  BY DEF FilePart, LivePart, SavedPart, SearchPart, ServicesPart, Shaped
<1>2. ASSUME NEW form, NEW to, NEW value, NEW cfg, NEW layered,
             SavePart(form, to, value, cfg, layered)
      PROVE  SavedPart
  BY <1>2 DEF SavePart, SavedPart
<1>3. save' = NoSave => SavedPart
  BY NoSaveIs DEF SavedPart
<1>4. search' = NoSearch => SearchPart
  BY NoSearchIs DEF SearchPart
<1>5. CASE Opened
  BY <1>0, <1>1, <1>2, <1>5 DEF Opened, Opens
<1>6. CASE Applied
  BY <1>0, <1>1, <1>2, <1>6 DEF Applied, SaveAt
<1>7. CASE Based
  BY <1>0, <1>1, <1>2, <1>7 DEF Based, SaveAt
<1>8. CASE Layered
  BY <1>0, <1>1, <1>2, <1>3, <1>8 DEF Layered, SaveAt
<1>9. CASE RolledBack
  BY <1>0, <1>1, <1>2, <1>9 DEF RolledBack
<1>10. CASE Persisted
  BY <1>0, <1>1, <1>3, <1>10 DEF Persisted
<1>11. CASE Switched
  BY <1>0, <1>1, <1>11 DEF Switched
<1>12. CASE Searched
  BY <1>0, <1>1, <1>12 DEF Searched, OnlyTuning, strategies
<1>13. CASE Overrode
  BY <1>0, <1>1, <1>13 DEF Overrode
<1>14. CASE Installed
  BY <1>0, <1>1, <1>14 DEF Installed
<1>15. CASE Restarted
  BY <1>0, <1>1, <1>3, <1>4, <1>15 DEF Restarted
<1>16. CASE Rested
  BY <1>0, <1>1, <1>16 DEF Rested
<1>. QED  BY <1>5, <1>6, <1>7, <1>8, <1>9, <1>10, <1>11, <1>12, <1>13, <1>14, <1>15, <1>16
          DEF StepKind

WholeFileStrategies(f) == f.strategy \in Configs /\ f.overrides \in [Symbols -> Fragments]
WholeInForce(b, o) == b.cfg \in Configs /\ \A s \in DOMAIN o : o[s].cfg \in Configs
WholeSave(s) == s.cfg \in Configs /\ \A t \in DOMAIN s.over : s.over[t] \in Configs
WholeSearch(s) ==
    /\ s.step \in {"run", "compare", "write", "gather", "install"} => s.from \in Configs
    /\ s.step \in {"compare", "write", "gather", "install"} => s.winner \in Configs
    /\ s.step = "install" => \A t \in DOMAIN s.merged : s.merged[t] \in Configs

LEMMA WholeSplit ==
    Whole <=> /\ WholeFileStrategies(file) /\ WholeInForce(base, over)
              /\ WholeSave(save) /\ WholeSearch(search)
BY DEF Whole, WholeFileStrategies, WholeInForce, WholeSave, WholeSearch

LEMMA StrategyForWhole ==
    ASSUME Whole, NEW s
    PROVE  StrategyFor(s).cfg \in Configs
BY DEF Whole, StrategyFor

LEMMA FoundFieldsWhole ==
    ASSUME Whole, search.step \in {"compare", "write", "gather", "install"}
    PROVE  FoundFields \in Fragments
BY LayerFound DEF Whole, FoundFields

LEMMA WholeStep ==
    ASSUME Whole, StepKind
    PROVE  Whole'
<1>0. /\ WholeFileStrategies(file) /\ WholeInForce(base, over)
      /\ WholeSave(save) /\ WholeSearch(search)
  BY WholeSplit
<1>a. ASSUME WholeFileStrategies(file'), WholeInForce(base', over'), WholeSave(save'),
             WholeSearch(search')
      PROVE  Whole'
  BY <1>a DEF Whole, WholeFileStrategies, WholeInForce, WholeSave, WholeSearch
<1>b. WholeSave(NoSave) /\ WholeSearch(NoSearch)
  BY NoSaveIs, NoSearchIs DEF WholeSave, WholeSearch
<1>c. ASSUME NEW to, SaveAt(to) PROVE WholeSave(save')
  BY <1>0, <1>c DEF WholeSave, SaveAt, SavePart
<1>1. CASE Opened
  <2>1. PICK form, value, cfg, layered : Opens(form, value, cfg, layered)
    BY <1>1 DEF Opened
  <2>2. cfg \in Configs /\ \A t \in DOMAIN layered : layered[t] \in Configs
    BY <1>0, <2>1, ResolvedIs, NoSaveIs DEF Opens, WholeFileStrategies, WholeInForce
  <2>3. WholeSave(save')
    BY <2>1, <2>2 DEF Opens, SavePart, WholeSave
  <2>. QED  BY <1>0, <1>a, <2>1, <2>3 DEF Opens
<1>2. CASE Applied
  BY <1>0, <1>a, <1>c, <1>2 DEF Applied
<1>3. CASE Based
  BY <1>0, <1>3, <1>a, <1>c DEF Based, WholeInForce, WholeSave
<1>4. CASE Layered
  BY <1>0, <1>4, <1>a, <1>b, <1>c DEF Layered, WholeInForce, WholeSave
<1>5. CASE RolledBack
  BY <1>0, <1>5, <1>a DEF RolledBack, SavePart, WholeSave, WholeInForce
<1>6. CASE Persisted
  BY <1>0, <1>6, <1>a, <1>b DEF Persisted, WholeFileStrategies, WholeInForce
<1>7. CASE Switched
  BY <1>0, <1>a, <1>7 DEF Switched
<1>8. CASE Searched
  <2>0. OnlyTuning
    BY <1>8 DEF Searched
  <2>a. ASSUME WholeSearch(search') PROVE Whole'
    BY <1>0, <1>a, <2>0, <2>a DEF OnlyTuning, strategies
  <2>1. CASE search' = search
    BY <1>0, <2>1, <2>a
  <2>2. CASE search'.step \in {"none", "pick"}
    BY <2>2, <2>a DEF WholeSearch
  <2>3. CASE search'.step = "run" /\ \E s : search'.from = StrategyFor(s).cfg
    BY <2>3, <2>a, StrategyForWhole DEF WholeSearch
  <2>4. CASE /\ search.step = "run" /\ search'.step = "compare"
             /\ search'.from = search.from /\ search'.winner \in Configs
    BY <1>0, <2>4, <2>a DEF WholeSearch
  <2>5. CASE search.step = "compare" /\ search'.step = "write" /\ SameTarget
    BY <1>0, <2>5, <2>a DEF WholeSearch, SameTarget
  <2>6. CASE /\ search.step = "gather" /\ search'.step = "install" /\ SameTarget
             /\ DOMAIN search'.merged = DOMAIN over \cup {search.sym}
             /\ search'.merged[search.sym] = Layer(StrategyFor(search.sym).cfg, FoundFields)
             /\ \A r \in DOMAIN over \ {search.sym} : search'.merged[r] = over[r].cfg
    BY <2>6, StrategyForWhole, FoundFieldsWhole, LayerWhole, <1>0, <2>a DEF WholeSearch, SameTarget,
       WholeInForce
  <2>. QED  BY <1>8, <2>1, <2>2, <2>3, <2>4, <2>5, <2>6 DEF Searched
<1>9. CASE Overrode
  <2>1. CASE /\ search'.step = "gather" /\ SameTarget
             /\ file'.strategy = file.strategy
             /\ file'.overrides = [file.overrides EXCEPT ![search.sym] =
                                     Overlay(FoundFields, file.overrides[search.sym])]
    <3>1. search.sym \in Symbols => Overlay(FoundFields, file.overrides[search.sym]) \in Fragments
      BY <1>9, FoundFieldsWhole, <1>0, LayerTwice DEF Overrode, WholeFileStrategies
    <3>2. WholeFileStrategies(file')
      <4> DEFINE o == file.overrides
                 fresh == Overlay(FoundFields, file.overrides[search.sym])
      <4>1. o \in [Symbols -> Fragments] /\ (search.sym \in Symbols => fresh \in Fragments)
        BY <1>0, <3>1 DEF WholeFileStrategies
      <4>2. file'.overrides = [o EXCEPT ![search.sym] = fresh]
        BY <2>1
      <4> HIDE DEF o, fresh
      <4>3. file'.overrides \in [Symbols -> Fragments]
        BY <4>1, <4>2
      <4>. QED  BY <4>3, <1>0, <2>1 DEF WholeFileStrategies
    <3>3. WholeSearch(search')
      BY <1>0, <1>9, <2>1 DEF WholeSearch, SameTarget, Overrode
    <3>. QED  BY <1>0, <1>a, <1>9, <3>2, <3>3 DEF Overrode
  <2>2. CASE search'.step = "pick" /\ file' = file
    BY <2>2, <1>0, <1>a, <1>9 DEF WholeSearch, Overrode
  <2>. QED  BY <1>9, <2>1, <2>2 DEF Overrode
<1>10. CASE Installed
  BY <1>0, <1>10, <1>a DEF Installed, WholeInForce, WholeSearch
<1>11. CASE Restarted
  BY <1>0, <1>11, ResolvedIs, <1>a, <1>b DEF Restarted, WholeInForce, WholeFileStrategies
<1>12. CASE Rested
  BY <1>0, <1>a, <1>12 DEF Rested
<1>. QED  BY <1>1, <1>2, <1>3, <1>4, <1>5, <1>6, <1>7, <1>8, <1>9, <1>10, <1>11, <1>12
          DEF StepKind

LEMMA LoadsStep ==
    ASSUME Loads(file), StepKind
    PROVE  Loads(file')
<1>1. file' = file \/ Loads(file') \/ ~Loads(file)
  BY DEF StepKind, Opened, Opens, Applied, Based, Layered, RolledBack, Persisted, Switched,
         Searched, OnlyTuning, Overrode, Installed, Restarted, Rested
<1>. QED  BY <1>1

LEMMA InvStep ==
    ASSUME Inv, [Next]_vars
    PROVE  StepKind /\ Inv'
<1>1. StepKind
  BY StepIs DEF Inv, Whole
<1>2. Loads(file')
  BY <1>1, LoadsStep DEF Inv
<1>3. Shaped' /\ Whole'
  BY <1>1, ShapedStep, WholeStep DEF Inv
<1>4. Inv'
  BY <1>2, <1>3 DEF Inv, Loads, Overridden, Resolved, Bounded
<1>. QED  BY <1>1, <1>4

-----------------------------------------------------------------------------
(* The strategies that run are those the file would give.                  *)

Applies == {"write", "gather", "install"}

LEMMA NotSaving == save = NoSave => save.form = "none" /\ save.step = "none"
BY NoSaveIs

LEMMA SameStrategies ==
    ASSUME UNCHANGED <<base, over>>, NEW s
    PROVE  StrategyFor(s)' = StrategyFor(s)
BY DEF StrategyFor

LEMMA SearchStaysTrue ==
    ASSUME SearchInv, UNCHANGED <<base, over, search>>, file'.overrides = file.overrides
    PROVE  SearchInv'
BY DEF SearchInv, StrategyFor

LEMMA AgreeStays ==
    ASSUME Agree, UNCHANGED <<base, over>>, file'.overrides = file.overrides,
           \A s \in Symbols : Lags(s) => Lags(s)'
    PROVE  Agree'
BY DEF Agree, StrategyFor

(* What a form that rebuilds the strategies holds.                         *)
LEMMA RebuildHolds ==
    ASSUME \A s \in Symbols : StrategyFor(s).cfg = Layer(base.cfg, file.overrides[s]),
           save'.over = [s \in DOMAIN over |-> over[s].cfg], save'.cfg = base.cfg,
           file' = file
    PROVE  (\A s \in Symbols : Given(s) = Layer(save.cfg, file.overrides[s]))'
BY DEF Given, StrategyFor

LEMMA OpenedKeeps ==
    ASSUME Inv, FormInv, SearchInv, Agree, ~setting.overlap, Opened
    PROVE  (FormInv /\ SearchInv /\ Agree)'
<1>1. PICK form, value, cfg, layered : Opens(form, value, cfg, layered)
  BY DEF Opened
<1>2. /\ save'.form = form /\ save'.step = "apply" /\ save'.cfg = cfg /\ save'.over = layered
      /\ UNCHANGED <<file, base, over, search, unsaved>> /\ form \in Forms
  BY <1>1 DEF Opens, SavePart
<1>3. save.form = "none" /\ save.step = "none" /\ search.step \notin Applies
  BY <1>1, NotSaving DEF Opens, Applying, Applies
<1>4. SearchInv' /\ Agree'
  BY <1>2, <1>3, SearchStaysTrue, AgreeStays DEF Lags, Applies
<1>5. \A s \in Symbols : StrategyFor(s).cfg = Layer(base.cfg, file.overrides[s])
  BY <1>3 DEF Agree, Lags, Applies
<1>6. form \in Rebuilds => (\A s \in Symbols : Given(s) = Layer(save.cfg, file.overrides[s]))'
  <2>1. CASE form = "strategy"
    BY <1>1, <2>1, ResolvedIs, <1>2 DEF Opens, Inv, Whole, Given
  <2>2. CASE form = "ml"
    BY <1>1, <1>2, <1>5, <2>2, RebuildHolds DEF Opens
  <2>. QED  BY <1>2, <2>1, <2>2 DEF Rebuilds, Forms
<1>7. form \in {"ai", "ml", "mlundo"} => cfg = base.cfg
  BY <1>1, <1>2 DEF Opens, Forms
<1>8. base.cfg = file.strategy \/ "strategy" \in unsaved
  BY <1>3 DEF FormInv
<1>9. FormInv'
  BY <1>2, <1>3, <1>6, <1>7, <1>8 DEF FormInv, Applies
<1>. QED  BY <1>4, <1>9

LEMMA SavingKeeps ==
    ASSUME Inv, FormInv, SearchInv, Agree, ~setting.overlap,
           Applied \/ Based \/ Layered \/ RolledBack \/ Persisted
    PROVE  (FormInv /\ SearchInv /\ Agree)'
<1>1. save.form # "none" \/ save.step # "none"
  BY NotSaving DEF Applied, Based, Layered, RolledBack, Persisted, Forms
<1>2. search.step \notin Applies
  BY <1>1, NotSaving DEF FormInv, Applies
<1>3. UNCHANGED search /\ file'.overrides = file.overrides
  BY DEF Applied, Based, Layered, RolledBack, Persisted
<1>4. SearchInv'
  BY <1>2, <1>3 DEF SearchInv, Applies
<1>5. CASE Applied
  BY <1>5, <1>2, <1>3, AgreeStays, <1>4 DEF Applied, SaveAt, SavePart, Lags, Applies, FormInv, Changing
<1>6. CASE Based
  <2>1. /\ save'.form = save.form /\ save.step = "apply" /\ save'.cfg = save.cfg
        /\ save'.over = save.over /\ save.form \in {"strategy", "ai", "ml", "mlundo"}
        /\ save'.step = IF save.form = "ai" THEN "persist" ELSE "overrides"
        /\ base'.cfg = save.cfg /\ UNCHANGED <<file, over, unsaved>>
    BY <1>6 DEF Based, SaveAt, SavePart
  <2>2. CASE save.form = "strategy"
    BY <2>1, <2>2, <1>2, <1>3, <1>4 DEF Agree, Lags, FormInv, Applies, Changing, Rebuilds, Given
  <2>3. CASE save.form # "strategy"
    <3>1. base'.cfg = base.cfg
      BY <2>1, <2>3 DEF FormInv, Changing
    <3>2. \A s \in Symbols : StrategyFor(s)'.cfg = StrategyFor(s).cfg
      BY <2>1, <3>1 DEF StrategyFor
    <3>3. Agree'
      BY <1>2, <1>3, <2>1, <2>3, <3>1, <3>2 DEF Agree, Lags, Applies
    <3>4. FormInv'
      BY <1>2, <1>3, <2>1, <2>3, <3>1 DEF FormInv, Applies, Changing, Rebuilds, Given
    <3>. QED  BY <1>4, <3>3, <3>4
  <2>. QED  BY <2>2, <2>3
<1>7. CASE Layered
  <2>1. /\ save.step = "overrides" /\ UNCHANGED <<file, base, unsaved>>
        /\ DOMAIN over' = DOMAIN save.over
        /\ \A s \in DOMAIN save.over : over'[s].cfg = save.over[s]
    BY <1>7 DEF Layered
  <2>2. save.form \in Rebuilds /\ save.cfg = base.cfg
    BY <2>1 DEF FormInv
  <2>3. \A s \in Symbols : Given(s) = Layer(base.cfg, file.overrides[s])
    BY <2>1, <2>2 DEF FormInv, Changing
  <2>4. \A s \in Symbols : StrategyFor(s)'.cfg = Given(s)
    BY <2>1, <2>2 DEF StrategyFor, Given
  <2>5. Agree'
    BY <2>1, <2>3, <2>4 DEF Agree
  <2>6. \/ save'.form = "none" /\ save'.step = "none" /\ save.form = "mlundo"
        \/ save'.form = save.form /\ save'.step = "persist"
    BY <1>7, NoSaveIs DEF Layered, SaveAt, SavePart
  <2>7. FormInv'
    BY <1>2, <1>3, <2>1, <2>2, <2>6 DEF FormInv, Applies, Changing, Rebuilds
  <2>. QED  BY <1>4, <2>5, <2>7
<1>8. CASE RolledBack
  <2>1. /\ save.form = "ml" /\ save.step = "persist" /\ save'.form = "mlundo"
        /\ save'.step = "apply" /\ save'.cfg = base.cfg
        /\ save'.over = [s \in DOMAIN over |-> over[s].cfg]
        /\ UNCHANGED <<file, base, over, unsaved>>
    BY <1>8 DEF RolledBack, SavePart
  <2>2. Agree'
    BY <1>2, <1>3, <2>1, AgreeStays DEF Lags, Applies
  <2>3. \A s \in Symbols : StrategyFor(s).cfg = Layer(base.cfg, file.overrides[s])
    BY <1>2, <2>1 DEF Agree, Lags, Applies
  <2>4. (\A s \in Symbols : Given(s) = Layer(save.cfg, file.overrides[s]))'
    BY <2>1, <2>3, RebuildHolds
  <2>5. FormInv'
    BY <1>2, <1>3, <2>1, <2>4 DEF FormInv, Applies
  <2>. QED  BY <1>4, <2>2, <2>5
<1>9. CASE Persisted
  <2>1. /\ save.step = "persist" /\ save'.form = "none" /\ save'.step = "none"
        /\ UNCHANGED <<base, over>>
    BY <1>9, NoSaveIs DEF Persisted
  <2>2. Agree'
    BY <1>2, <1>3, <2>1, AgreeStays DEF Lags, Applies
  <2>3. \/ /\ file'.strategy = (IF save.form = "strategy" THEN base.cfg ELSE file.strategy)
           /\ unsaved' = unsaved \ {save.form}
        \/ file' = file /\ unsaved' = unsaved \cup {save.form}
    BY <1>9 DEF Persisted
  <2>4. base'.cfg = file'.strategy \/ "strategy" \in unsaved'
    BY <2>1, <2>3 DEF FormInv
  <2>5. FormInv'
    BY <1>2, <1>3, <2>1, <2>4 DEF FormInv, Applies, Changing, Rebuilds
  <2>. QED  BY <1>4, <2>2, <2>5
<1>. QED  BY <1>5, <1>6, <1>7, <1>8, <1>9

LEMMA SearchingKeeps ==
    ASSUME Inv, FormInv, SearchInv, Agree, ~setting.overlap, Searched
    PROVE  (FormInv /\ SearchInv /\ Agree)'
<1>1. UNCHANGED <<setting, file, base, over, save, unsaved>>
  BY DEF Searched, OnlyTuning, strategies
<1>f. ASSUME search'.step \in Applies => save = NoSave
      PROVE  FormInv'
  BY <1>1, <1>f DEF FormInv, Applies, Given
<1>a. ASSUME \A s \in Symbols : Lags(s) => Lags(s)'
      PROVE  Agree'
  BY <1>1, <1>a, AgreeStays
<1>2. CASE search' = search
  BY <1>1, <1>2, <1>f, <1>a, SearchStaysTrue DEF FormInv, Lags, Applies
<1>3. CASE search.step \notin {"gather", "install"} /\ search'.step \notin Applies
  BY <1>1, <1>3, <1>f, <1>a DEF Lags, SearchInv, Applies
<1>4. CASE /\ search.step = "compare" /\ search'.step = "write" /\ SameTarget /\ MayApply
           /\ StrategyFor(search.sym).cfg = search.from
  BY <1>4, <1>f, <1>1, <1>a, SameStrategies DEF MayApply, Lags, SearchInv, SameTarget
<1>5. CASE /\ search.step = "gather" /\ search'.step = "install" /\ SameTarget
           /\ DOMAIN search'.merged = DOMAIN over \cup {search.sym}
           /\ search'.merged[search.sym] = Layer(StrategyFor(search.sym).cfg, FoundFields)
           /\ \A r \in DOMAIN over \ {search.sym} : search'.merged[r] = over[r].cfg
  <2>1. FormInv'
    BY <1>5, <1>f DEF FormInv
  <2>2. Agree'
    BY <1>1, <1>5, <1>a DEF Lags, SameTarget
  <2>3. search'.merged[search.sym] = search.winner
    BY <1>5, LayerFound DEF Inv, Whole, SearchInv, FoundFields
  <2>4. search.sym \in Symbols => search.winner = Layer(base.cfg, file.overrides[search.sym])
    BY <1>5 DEF SearchInv
  <2>5. SearchInv'
    BY <1>1, <1>5, <2>3, <2>4 DEF SearchInv, SameTarget
  <2>. QED  BY <2>1, <2>2, <2>5
<1>. QED  BY <1>2, <1>3, <1>4, <1>5 DEF Searched, Applies

LEMMA ApplyingKeeps ==
    ASSUME Inv, FormInv, SearchInv, Agree, ~setting.overlap, Overrode \/ Installed
    PROVE  (FormInv /\ SearchInv /\ Agree)'
<1>1. search.step \in Applies /\ save = NoSave
  BY DEF Overrode, Installed, FormInv, Applies
<1>2. save'.form = "none" /\ save'.step = "none" /\ UNCHANGED <<base, save, unsaved>>
  BY <1>1, NoSaveIs DEF Overrode, Installed
<1>3. file'.strategy = file.strategy
  BY DEF Overrode, Installed
<1>4. base'.cfg = file'.strategy \/ "strategy" \in unsaved'
  BY <1>1, <1>2, <1>3, NotSaving DEF FormInv
<1>5. FormInv'
  BY <1>1, <1>2, <1>4 DEF FormInv, Changing, Rebuilds
<1>6. CASE Overrode
  <2> DEFINE t == search.sym
  <2>0. search.step = "write" /\ UNCHANGED <<base, over, save>>
    BY <1>6 DEF Overrode
  <2>1. CASE /\ search'.step = "gather" /\ SameTarget
             /\ file'.overrides = [file.overrides EXCEPT ![search.sym] =
                                     Overlay(FoundFields, file.overrides[search.sym])]
    <3> DEFINE o == file.overrides
               fresh == Overlay(FoundFields, o[t])
    <3>0. o \in [Symbols -> Fragments] /\ file'.overrides = [o EXCEPT ![t] = fresh]
      BY <2>1 DEF Inv, Whole
    <3>1. \A s \in Symbols \ {t} : file'.overrides[s] = o[s]
      <4> HIDE DEF o, fresh, t
      <4>. QED  BY <3>0
    <3>2. t \in Symbols => file'.overrides[t] = fresh
      <4> HIDE DEF o, fresh, t
      <4>. QED  BY <3>0
    <3>3. t \in Symbols => search.winner = Layer(base.cfg, fresh)
      <4>1. search.from \in Configs /\ search.winner \in Configs /\ base.cfg \in Configs
        BY <2>0 DEF Inv, Whole
      <4>2. FoundFields \in Fragments /\ Layer(search.from, FoundFields) = search.winner
        BY <4>1, LayerFound DEF FoundFields
      <4>3. t \in Symbols => o[t] \in Fragments
        BY <3>0
      <4>4. t \in Symbols => search.from = Layer(base.cfg, o[t])
        BY <1>1, <2>0, NotSaving DEF SearchInv, Agree, Lags
      <4>. QED  BY <4>1, <4>2, <4>3, <4>4, LayerTwice
    <3>4. SearchInv'
      BY <2>1, <2>0, <3>2, <3>3 DEF SameTarget, SearchInv, StrategyFor
    <3>5. Agree'
      <4>1. ASSUME NEW s \in Symbols, s # t
            PROVE  StrategyFor(s)'.cfg = Layer(base'.cfg, file'.overrides[s])
        BY <1>1, <2>0, <3>1, <4>1, NotSaving, SameStrategies DEF Agree, Lags
      <4>2. Lags(t)'
        BY <2>1 DEF Lags, SameTarget
      <4>. QED  BY <2>1, <4>1, <4>2 DEF Agree, Lags, SameTarget
    <3>. QED  BY <1>5, <3>4, <3>5
  <2>2. CASE search'.step = "pick" /\ file' = file
    BY <2>2, <2>0, AgreeStays, <1>5 DEF SearchInv, Lags
  <2>. QED  BY <1>6, <2>1, <2>2 DEF Overrode
<1>7. CASE Installed
  <2> DEFINE t == search.sym
  <2>1. /\ search.step = "install" /\ search'.step = "pick" /\ UNCHANGED <<file, base, save>>
        /\ DOMAIN over' = DOMAIN search.merged
        /\ \A s \in DOMAIN search.merged : over'[s].cfg = search.merged[s]
    BY <1>7 DEF Installed
  <2>2. /\ DOMAIN search.merged = DOMAIN over \cup {t} /\ search.merged[t] = search.winner
        /\ \A r \in DOMAIN over \ {t} : search.merged[r] = over[r].cfg
        /\ t \in Symbols => search.winner = Layer(base.cfg, file.overrides[t])
    BY <2>1 DEF SearchInv
  <2>3. SearchInv'
    BY <2>1 DEF SearchInv
  <2>4. ASSUME NEW s \in Symbols
        PROVE  StrategyFor(s)'.cfg = Layer(base'.cfg, file'.overrides[s])
    <3>1. CASE s = t
      BY <2>1, <2>2, <3>1 DEF StrategyFor
    <3>2. CASE s # t
      BY <2>1, <2>2, <3>2, <1>1, NotSaving DEF StrategyFor, Lags, Agree
    <3>. QED  BY <3>1, <3>2
  <2>5. Agree'
    BY <2>4 DEF Agree
  <2>. QED  BY <1>5, <2>3, <2>5
<1>. QED  BY <1>6, <1>7

LEMMA RestartingKeeps ==
    ASSUME Inv, Restarted
    PROVE  (FormInv /\ SearchInv /\ Agree)'
<1>1. /\ save' = NoSave /\ save'.form = "none" /\ save'.step = "none" /\ search'.step = "none"
      /\ base'.cfg = file.strategy /\ file' = file
  BY NoSaveIs, NoSearchIs DEF Restarted
<1>2. FormInv' /\ SearchInv'
  BY <1>1 DEF FormInv, SearchInv, Changing
<1>3. \A s \in Symbols : StrategyFor(s)'.cfg = Layer(file.strategy, file.overrides[s])
  <2> DEFINE res == Resolved(file, file.strategy)
  <2>1. \A s \in Symbols :
          (IF s \in DOMAIN res THEN res[s] ELSE file.strategy)
             = Layer(file.strategy, file.overrides[s])
    BY ResolvedIs DEF Inv, Whole
  <2>2. DOMAIN over' = DOMAIN res /\ \A s \in DOMAIN over' : over'[s].cfg = res[s]
    BY DEF Restarted
  <2> HIDE DEF res
  <2>. QED  BY <1>1, <2>1, <2>2 DEF StrategyFor
<1>4. Agree'
  BY <1>1, <1>3 DEF Agree
<1>. QED  BY <1>2, <1>4

LEMMA OnDiskStep ==
    ASSUME Inv, OnDiskInv, StepKind
    PROVE  OnDiskInv'
<1>0. setting' = setting
  BY DEF StepKind, Opened, Opens, Applied, Based, Layered, RolledBack, Persisted, Switched,
         Searched, OnlyTuning, Overrode, Installed, Restarted, Rested
<1> SUFFICES ASSUME ~setting.overlap
             PROVE  (FormInv /\ SearchInv /\ Agree)'
  BY <1>0 DEF OnDiskInv
<1>1. FormInv /\ SearchInv /\ Agree
  BY DEF OnDiskInv
<1>2. CASE Switched \/ Rested
  BY <1>2, <1>1, SearchStaysTrue, AgreeStays DEF Switched, Rested, Lags, FormInv, Given
<1>. QED  BY <1>1, <1>2, OpenedKeeps, SavingKeeps, SearchingKeeps, ApplyingKeeps, RestartingKeeps
          DEF StepKind

-----------------------------------------------------------------------------
(* The predictor, the ceilings and the secret.                             *)

LEMMA PredictorStep ==
    ASSUME PredictorInv, StepKind
    PROVE  PredictorInv'
<1>1. CASE Opened
  <2>1. PICK form, value, cfg, layered : Opens(form, value, cfg, layered)
    BY <1>1 DEF Opened
  <2>2. /\ save'.form = form /\ save'.step = "apply" /\ save.form = "none"
        /\ UNCHANGED <<base, over>> /\ (form # "ml" => services'.ml = services.ml)
    BY <2>1, NotSaving DEF Opens, SavePart
  <2>. QED  BY <2>2 DEF PredictorInv, Changing
<1>2. CASE Applied
  BY <1>2 DEF Applied, SaveAt, SavePart, Forms, PredictorInv
<1>3. CASE Based
  BY <1>3 DEF Based, SaveAt, SavePart, PredictorInv, Changing
<1>4. CASE Layered
  BY <1>4 DEF Layered, PredictorInv
<1>5. CASE RolledBack
  BY <1>5 DEF RolledBack, SavePart, PredictorInv, Changing
<1>6. CASE Persisted
  BY <1>6 DEF Persisted, PredictorInv, Changing
<1>7. CASE Installed
  BY <1>7 DEF Installed, PredictorInv
<1>8. CASE Restarted
  BY <1>8 DEF PredictorInv, Restarted
<1>9. CASE Switched \/ Searched \/ Overrode \/ Rested
  BY <1>9 DEF Switched, Searched, OnlyTuning, strategies, Overrode, Rested, PredictorInv
<1>. QED  BY <1>1, <1>2, <1>3, <1>4, <1>5, <1>6, <1>7, <1>8, <1>9 DEF StepKind

LEMMA CeilingStep ==
    ASSUME Loads(file), CeilingInv, StepKind
    PROVE  CeilingInv'
<1>0. setting' = setting
  BY DEF StepKind, Opened, Opens, Applied, Based, Layered, RolledBack, Persisted, Switched,
         Searched, OnlyTuning, Overrode, Installed, Restarted, Rested
<1> SUFFICES ASSUME ~setting.overlap
             PROVE  CeilingInv'
  BY <1>0 DEF CeilingInv
<1>1. CASE Opened
  <2>1. PICK form, value, cfg, layered : Opens(form, value, cfg, layered)
    BY <1>1 DEF Opened
  <2>2. /\ save'.form = form /\ save'.value = value /\ toggle = "none"
        /\ UNCHANGED <<trading, toggle, live>> /\ (form = "limits" /\ trading => value)
    BY <2>1 DEF Opens, SavePart
  <2>. QED  BY <2>2 DEF CeilingInv
<1>2. CASE Applied
  BY <1>2, NotSaving DEF Applied, SaveAt, SavePart, CeilingInv, Forms
<1>3. CASE Based \/ Layered \/ RolledBack \/ Persisted
  BY <1>3, NoSaveIs, NotSaving DEF Based, Layered, RolledBack, Persisted, SaveAt, SavePart, CeilingInv
<1>4. CASE Switched
  BY <1>4, NotSaving DEF Switched, CeilingInv
<1>5. CASE Restarted
  BY <1>5, NoSaveIs DEF Restarted, Loads, Bounded, CeilingInv
<1>6. CASE Searched \/ Overrode \/ Installed \/ Rested
  BY <1>6 DEF Searched, OnlyTuning, Overrode, Installed, Rested, CeilingInv
<1>. QED  BY <1>1, <1>2, <1>3, <1>4, <1>5, <1>6 DEF StepKind

LEMMA SecretStep ==
    ASSUME SecretInv, StepKind
    PROVE  SecretInv'
<1>0. setting' = setting
  BY DEF StepKind, Opened, Opens, Applied, Based, Layered, RolledBack, Persisted, Switched,
         Searched, OnlyTuning, Overrode, Installed, Restarted, Rested
<1>1. CASE Opened
  <2>1. PICK form, value, cfg, layered : Opens(form, value, cfg, layered)
    BY <1>1 DEF Opened
  <2>2. /\ save'.form = form /\ save'.value = value /\ UNCHANGED <<file, live>>
        /\ form = "notify" => value \in {live.secret, "empty", "new"}
    BY <2>1 DEF Opens, SavePart
  <2>. QED  BY <1>0, <2>2 DEF SecretInv, Secrets
<1>2. CASE Applied
  BY <1>2, <1>0 DEF Applied, SaveAt, SavePart, SecretInv
<1>3. CASE Based \/ Layered \/ RolledBack
  BY <1>3, NoSaveIs, <1>0 DEF Based, Layered, RolledBack, SaveAt, SavePart, SecretInv
<1>4. CASE Persisted
  BY <1>4, NoSaveIs, <1>0 DEF Persisted, SecretInv
<1>5. CASE Restarted
  BY <1>5, NoSaveIs, <1>0 DEF Restarted, SecretInv, Secret
<1>6. CASE Switched \/ Searched \/ Overrode \/ Installed \/ Rested
  BY <1>6, <1>0 DEF Switched, Searched, OnlyTuning, Overrode, Installed, Rested, SecretInv
<1>. QED  BY <1>1, <1>2, <1>3, <1>4, <1>5, <1>6 DEF StepKind

-----------------------------------------------------------------------------
AllInv == Inv /\ OnDiskInv /\ PredictorInv /\ CeilingInv /\ SecretInv

LEMMA InitFile ==
    ASSUME Init
    PROVE  WholeFile(file) /\ WholeFileStrategies(file) /\ Loads(file)
<1> DEFINE first == CHOOSE s \in Symbols : TRUE
           cfg == [f \in Fields |-> IF f = "slow" THEN 1 ELSE 0]
           given == [f \in {"slow"} |-> 1]
           overrides == [s \in Symbols |-> IF setting.override /\ s = first THEN given ELSE None]
           secret == IF setting.envSecret THEN "empty" ELSE "stored"
<1>1. file = [strategy |-> cfg, switch |-> setting.switch, ceilings |-> TRUE, minPositions |-> 2,
              slots |-> 1, confirm |-> 1, enabled |-> TRUE, secret |-> secret,
              overrides |-> overrides]
  BY DEF Init
<1>2. cfg \in Configs /\ cfg["fast"] = 0
  BY DEF Configs, Fields
<1>3. given \in Fragments /\ None \in Fragments
  <2>1. given \in [{"slow"} -> {0, 1}] /\ {"slow"} \in SUBSET Fields
    BY DEF Fields
  <2>2. None \in [{} -> {0, 1}] /\ {} \in SUBSET Fields
    BY DEF None
  <2>. QED  BY <2>1, <2>2, FragmentIs
<1> HIDE DEF first
<1>4. overrides \in [Symbols -> Fragments]
  BY <1>3
<1>5. \A s \in Symbols : overrides[s] \in {given, None}
  OBVIOUS
<1>6. \A g \in {given, None} : Layer(cfg, g)["fast"] = 0
  BY <1>2 DEF Fields, None, Layer
<1> HIDE DEF cfg, given, overrides, secret
<1>7. WholeFile(file) /\ WholeFileStrategies(file)
  BY <1>1, <1>2, <1>4 DEF WholeFile, WholeFileStrategies
<1>8. Sound(file.strategy)
  BY <1>1, <1>2 DEF Sound
<1>9. ASSUME NEW s \in Overridden(file)
      PROVE  Sound(Resolved(file, file.strategy)[s])
  BY <1>1, <1>5, <1>6 DEF Overridden, Resolved, Sound
<1>10. Bounded(file.ceilings) /\ SlotsFit(file.slots, file.minPositions)
  BY <1>1 DEF Bounded, SlotsFit
<1>. QED  BY <1>7, <1>8, <1>9, <1>10 DEF Loads

LEMMA InitInv == Init => AllInv
<1> SUFFICES ASSUME Init PROVE AllInv
  OBVIOUS
<1>1. WholeFile(file) /\ WholeFileStrategies(file) /\ Loads(file)
  BY InitFile
<1>2. /\ save = NoSave /\ save.form = "none" /\ save.step = "none" /\ save.cfg \in Configs
      /\ DOMAIN save.over = {}
  BY NoSaveIs DEF Init
<1>3. search = NoSearch /\ search.step = "none" /\ search.by = "none"
  BY NoSearchIs DEF Init
<1>4. services = [ai |-> 0, ml |-> 0] /\ services.ml = 0
  BY DEF Init
<1>5. base.cfg = file.strategy /\ base.ml = services.ml
  BY DEF Init, Build
<1>6. /\ DOMAIN over = DOMAIN Resolved(file, file.strategy)
      /\ \A s \in DOMAIN over :
           over[s].cfg = Resolved(file, file.strategy)[s] /\ over[s].ml = services.ml
  BY DEF Init, Build, BuildAll
<1>7. live = FromFile(file) /\ trading = file.switch /\ toggle = "none" /\ unsaved = {}
  BY DEF Init
<1>8. Shaped
  <2>1. live = [ceilings |-> live.ceilings, switch |-> live.switch,
                minPositions |-> live.minPositions, slots |-> live.slots,
                confirm |-> live.confirm, enabled |-> live.enabled, secret |-> live.secret]
    BY <1>7 DEF FromFile
  <2>2. save = [form |-> save.form, step |-> save.step, value |-> save.value, cfg |-> save.cfg,
                over |-> save.over]
    BY <1>2, NoSaveIs
  <2>3. search = [by |-> search.by, todo |-> search.todo, sym |-> search.sym,
                  step |-> search.step, from |-> search.from, winner |-> search.winner,
                  merged |-> search.merged]
    BY <1>3, NoSearchIs
  <2>4. services = [ai |-> services.ai, ml |-> services.ml]
    BY <1>4
  <2>. QED  BY <1>1, <1>3, <2>1, <2>2, <2>3, <2>4 DEF Shaped, WholeFile
<1>9. Whole
  BY <1>1, <1>6, ResolvedIs, <1>2, <1>3, <1>5 DEF WholeFileStrategies, Whole
<1>10. OnDiskInv
  <2>1. FormInv
    BY <1>2, <1>5 DEF FormInv, Changing
  <2>2. SearchInv
    BY <1>3 DEF SearchInv
  <2>3. \A s \in Symbols : StrategyFor(s).cfg = Layer(file.strategy, file.overrides[s])
    <3> DEFINE res == Resolved(file, file.strategy)
    <3>1. \A s \in Symbols :
            (IF s \in DOMAIN res THEN res[s] ELSE file.strategy)
               = Layer(file.strategy, file.overrides[s])
      BY <1>1, ResolvedIs DEF WholeFileStrategies
    <3>2. DOMAIN over = DOMAIN res /\ \A s \in DOMAIN over : over[s].cfg = res[s]
      BY <1>6
    <3> HIDE DEF res
    <3>. QED  BY <1>5, <3>1, <3>2 DEF StrategyFor
  <2>4. Agree
    BY <1>5, <2>3 DEF Agree
  <2>. QED  BY <2>1, <2>2, <2>4 DEF OnDiskInv
<1>11. PredictorInv
  BY <1>5, <1>6 DEF PredictorInv
<1>12. CeilingInv
  BY <1>7, <1>1, <1>2 DEF FromFile, CeilingInv, Loads, Bounded
<1>13. SecretInv
  BY <1>7, <1>2 DEF Init, FromFile, SecretInv, Secrets, Secret
<1>. QED  BY <1>1, <1>8, <1>9, <1>10, <1>11, <1>12, <1>13 DEF AllInv, Inv

LEMMA AllInvStep == AllInv /\ [Next]_vars => AllInv'
<1> SUFFICES ASSUME AllInv, [Next]_vars PROVE AllInv'
  OBVIOUS
<1>1. StepKind /\ Inv'
  BY InvStep DEF AllInv
<1>2. OnDiskInv'
  BY <1>1, OnDiskStep DEF AllInv
<1>3. PredictorInv'
  BY <1>1, PredictorStep DEF AllInv
<1>4. CeilingInv'
  BY <1>1, CeilingStep DEF AllInv, Inv
<1>5. SecretInv'
  BY <1>1, SecretStep DEF AllInv
<1>. QED  BY <1>1, <1>2, <1>3, <1>4, <1>5 DEF AllInv

(* Whatever forms, searches, failed writes and restarts come, the bot and  *)
(* its file stay related as AllInv says.                                   *)
THEOREM FileAndProcessAgree == Spec => []AllInv
BY InitInv, AllInvStep, PTL DEF Spec

(* The strategies that run are those a restart would build from the file,  *)
(* and they all vote with the predictor now installed (putStrategy,        *)
(* applyResult, RebuildStrategies).                                        *)
THEOREM RunsWhatIsSaved == Spec => []ProcessMatchesFile
<1>1. AllInv => ProcessMatchesFile
  <2> SUFFICES ASSUME AllInv PROVE ProcessMatchesFile
    OBVIOUS
  <2>1. RunningIsOnDisk
    <3> SUFFICES ASSUME ~setting.overlap, Quiet, "strategy" \notin unsaved
                 PROVE  /\ base.cfg = file.strategy
                        /\ \A s \in Symbols :
                             StrategyFor(s).cfg = Layer(file.strategy, file.overrides[s])
      BY DEF RunningIsOnDisk
    <3>1. FormInv /\ Agree
      BY DEF AllInv, OnDiskInv
    <3>2. save.form = "none" /\ save.step = "none" /\ search.step \notin {"gather", "install"}
      BY NotSaving DEF Quiet, Applying
    <3>3. base.cfg = file.strategy
      BY <3>1, <3>2 DEF FormInv
    <3>. QED  BY <3>1, <3>2, <3>3 DEF Agree, Lags
  <2>2. PredictorIsCurrent
    BY DEF AllInv, PredictorInv, PredictorIsCurrent, StrategyFor
  <2>. QED  BY <2>1, <2>2 DEF ProcessMatchesFile
<1>. QED  BY <1>1, FileAndProcessAgree, PTL

(* The file always starts the bot and holds no secret that is not its own, *)
(* and the bot never trades live without its money ceilings.               *)
THEOREM WhatIsSavedIsSafe == Spec => []SavedIsSafe
<1>1. AllInv => SavedIsSafe
  <2> SUFFICES ASSUME AllInv PROVE SavedIsSafe
    OBVIOUS
  <2>1. FileIsFit
    BY DEF AllInv, Inv, SecretInv, Secrets, FileIsFit
  <2>2. TradingHasCeiling
    BY DEF AllInv, CeilingInv, TradingHasCeiling
  <2>. QED  BY <2>1, <2>2 DEF SavedIsSafe
<1>. QED  BY <1>1, FileAndProcessAgree, PTL

(* What a search puts in force is the strategy it ran (AT3-2).             *)
THEOREM OnlyTrialsAreApplied == Spec => AppliedWasSearched
<1>1. AllInv /\ [Next]_vars =>
        [Install /\ ~setting.overlap => over'[search.sym].cfg = search.winner]_vars
  <2> SUFFICES ASSUME AllInv, Install, ~setting.overlap
               PROVE  over'[search.sym].cfg = search.winner
    OBVIOUS
  <2>1. /\ DOMAIN search.merged = DOMAIN over \cup {search.sym}
        /\ search.merged[search.sym] = search.winner
    BY DEF AllInv, OnDiskInv, SearchInv, Install
  <2>. QED  BY <2>1 DEF Install, BuildAll, Build
<1>. QED  BY <1>1, FileAndProcessAgree, PTL DEF Spec, AppliedWasSearched

-----------------------------------------------------------------------------
(* Searches.                                                               *)

IsSeq(s) == \E V : s \in Seq(V)

IsConfig(c) == c = [f \in S!ConfigFields |-> c[f]]
IsTrial(t) == t = [cfg |-> t.cfg, out |-> t.out] /\ t.out \in setup.outcomes

(* t was replayed over the whole run, and its numbers are what that said. *)
ReplayedIn(t, known) ==
    LET k == S!Key(t.cfg, 1, setup.bars)
    IN  /\ IsTrial(t) /\ IsConfig(t.cfg) /\ t.cfg.on \in {TRUE, setup.live.on}
        /\ k \in DOMAIN known /\ known[k] = t.out

Replayed(t) == ReplayedIn(t, measured)

Shape ==
    /\ setup \in Searches /\ gen \in Nat /\ axis \in Nat
    /\ measured = [k \in DOMAIN measured |-> measured[k]]
    /\ \A k \in DOMAIN measured : measured[k] \in setup.outcomes
    /\ IsSeq(trials) /\ \A k \in 1..Len(trials) : IsTrial(trials[k])

(* The trials are ranked. *)
Sorted == \A k, m \in 1..Len(trials) : k < m => ~S!Before(trials[m], trials[k])

(* Where the search stands. *)
StageInv ==
    /\ stage \in {"start", "search", "refine", "rescue", "folds", "done"}
    /\ stage = "folds" => setup.by = "walk"
    /\ stage \in {"search", "refine", "rescue"} => setup.by # "walk"
    /\ stage = "start" => trials = <<>> /\ best = <<>> /\ folds = <<>> /\ gen = 0
    /\ stage # "done" => answer = <<>>
    /\ setup.by = "walk" => best = <<>> /\ answer = <<>>
    /\ setup.by # "walk" => folds = <<>>

(* What the incumbent and the trials are known to be. *)
BestInv ==
    /\ setup.by # "walk" => \A k \in 1..Len(trials) : Replayed(trials[k])
    /\ best # <<>> => Replayed(best)
    /\ S!Auto /\ best # <<>> => S!Key(setup.live, 1, setup.bars) \in DOMAIN measured
    /\ S!Auto /\ stage = "search" => best = S!Base
    /\ stage \in {"refine", "rescue"} => best # <<>>
    /\ S!Auto /\ stage \in {"refine", "rescue"} => \A k \in 1..Len(trials) : trials[k].out.score <= best.out.score

(* The folds walked, in their order, while the g-th is. *)
WalkedTo(fs, g) ==
    /\ IsSeq(fs)
    /\ \A m \in 1..Len(fs) :
         LET k == fs[m].k
         IN  /\ k \in m..(g - (Len(fs) - m))
             /\ fs[m].train = 1..S!TrainEnd(k) /\ fs[m].test = S!TestBegin(k)..S!TestEnd(k)
             /\ \A n \in m + 1..Len(fs) : k < fs[n].k

FoldInv ==
    /\ stage = "folds" \/ folds # <<>> => S!Segment >= 2 /\ gen <= setup.folds
    /\ WalkedTo(folds, gen)

HonestInv ==
    /\ Shape /\ Sorted /\ StageInv /\ BestInv /\ FoldInv
    /\ S!ProposalsReproduce /\ S!NothingBetterUnused

-----------------------------------------------------------------------------
(* Least and greatest of bounded sets of naturals.                         *)
LEMMA LeastOf ==
    ASSUME NEW X, X \subseteq Nat, X # {}
    PROVE  \E x \in X : \A y \in X : x <= y
<1>. DEFINE less == {pair \in Nat \X Nat : pair[1] < pair[2]}
<1>1. IsWellFoundedOn(less, Nat)
  BY NatLessThanWellFounded DEF OpToRel
<1>2. \E x \in X : \A y \in X : <<y, x>> \notin less
  <2>. HIDE DEF less
  <2>. QED  BY <1>1, WFMin
<1>3. ASSUME NEW x \in X, NEW y \in X, <<y, x>> \notin less
      PROVE  x <= y
  BY <1>3
<1>. QED  BY <1>2, <1>3

LEMMA MinIs ==
    ASSUME NEW X, X \subseteq Nat, X # {}
    PROVE  S!Min(X) \in X /\ \A y \in X : S!Min(X) <= y
BY LeastOf DEF S!Min

(* A set of places that holds with each the earlier ones is a first part.  *)
LEMMA FirstPart ==
    ASSUME NEW n \in Nat, NEW X, X \subseteq 1..n, \A k \in X : \A m \in 1..n : m < k => m \in X
    PROVE  \E m \in 0..n : X = 1..m
<1>. DEFINE Y == {k \in 1..n + 1 : k \notin X}
<1>1. Y \subseteq Nat /\ n + 1 \in Y
  OBVIOUS
<1>2. PICK y \in Y : \A k \in Y : y <= k
  <2>. HIDE DEF Y
  <2>. QED  BY <1>1, LeastOf
<1>3. y - 1 \in 0..n /\ X = 1..(y - 1)
  <2>1. ASSUME NEW k \in 1..(y - 1) PROVE k \in X
    BY <1>2, <2>1
  <2>2. ASSUME NEW k \in X PROVE k \in 1..(y - 1)
    BY <1>2, <2>2
  <2>3. y - 1 \in 0..n
    BY <1>2
  <2>4. X = 1..(y - 1)
    <3>. HIDE DEF Y
    <3>. QED  BY <2>1, <2>2
  <2>. QED  BY <2>3, <2>4
<1>. QED  BY <1>3

LEMMA FirstPartSize ==
    ASSUME NEW m \in Nat
    PROVE  S!Cardinality(1..m) = m
<1>1. Cardinality(1..m) = m
  BY FS_Interval
<1>. QED  BY <1>1 DEF S!Cardinality, Cardinality

-----------------------------------------------------------------------------
(* Ranking.  Before is a strict order in which what is neither ahead of    *)
(* nor behind another has its rank.                                        *)

Measured(t) == {t.out.score, t.out.closed, t.out.ret, t.out.win} \subseteq Int

LEMMA BeforeIs ==
    ASSUME NEW t, NEW u, NEW w, Measured(t), Measured(u), Measured(w)
    PROVE  /\ S!Before(t, u) => ~S!Before(u, t)
           /\ ~S!Before(t, u) /\ ~S!Before(u, w) => ~S!Before(t, w)
           /\ ~S!Before(t, u) => t.out.score <= u.out.score
<1>. DEFINE a == t.out.score  b == u.out.score  c == w.out.score
            d == t.out.win  e == u.out.win  f == w.out.win
            g == t.out.closed  h == u.out.closed  i == w.out.closed
<1>1. /\ a \in Int /\ b \in Int /\ c \in Int /\ d \in Int /\ e \in Int /\ f \in Int
      /\ g \in Int /\ h \in Int /\ i \in Int
  BY DEF Measured
<1>2. /\ S!Before(t, u) <=> (a > b \/ (a = b /\ d > e) \/ (a = b /\ d = e /\ g < h))
      /\ S!Before(u, t) <=> (b > a \/ (b = a /\ e > d) \/ (b = a /\ e = d /\ h < g))
      /\ S!Before(u, w) <=> (b > c \/ (b = c /\ e > f) \/ (b = c /\ e = f /\ h < i))
      /\ S!Before(t, w) <=> (a > c \/ (a = c /\ d > f) \/ (a = c /\ d = f /\ g < i))
  BY DEF S!Before
<1>. HIDE DEF a, b, c, d, e, f, g, h, i
<1>. QED  BY <1>1, <1>2 DEF a, b

InOrder(ts) == \A k, m \in 1..Len(ts) : k < m => ~S!Before(ts[m], ts[k])

LEMMA RankedIs ==
    ASSUME NEW V, NEW ts \in Seq(V), NEW t \in V, \A v \in V : Measured(v), InOrder(ts)
    PROVE  /\ S!Ranked(ts, t) \in Seq(V) /\ Len(S!Ranked(ts, t)) = Len(ts) + 1
           /\ \A k \in 1..Len(S!Ranked(ts, t)) :
                S!Ranked(ts, t)[k] = t \/ \E m \in 1..Len(ts) : S!Ranked(ts, t)[k] = ts[m]
           /\ InOrder(S!Ranked(ts, t))
<1>. DEFINE n == Len(ts)
            ahead == {k \in DOMAIN ts : ~S!Before(t, ts[k])}
            r == S!Ranked(ts, t)
<1>1. n \in Nat /\ DOMAIN ts = 1..n /\ (\A k \in 1..n : ts[k] \in V)
  OBVIOUS
<1>2. ahead \subseteq 1..n /\ \A k \in ahead : \A m \in 1..n : m < k => m \in ahead
  <2>1. ASSUME NEW k \in ahead, NEW m \in 1..n, m < k PROVE m \in ahead
    BY <1>1, <2>1, BeforeIs DEF InOrder
  <2>. QED  BY <1>1, <2>1
<1>3. PICK at \in 0..n : ahead = 1..at
  <2>. HIDE DEF ahead, n
  <2>. QED  BY <1>1, <1>2, FirstPart
<1>4. S!Cardinality(ahead) = at
  <2>. HIDE DEF ahead, n
  <2>. QED  BY <1>1, <1>3, FirstPartSize
<1>5. r = SubSeq(ts, 1, at) \o <<t>> \o SubSeq(ts, at + 1, n)
  BY <1>4 DEF S!Ranked
<1>6. /\ r \in Seq(V) /\ Len(r) = n + 1
      /\ \A k \in 1..n + 1 : r[k] = IF k <= at THEN ts[k] ELSE IF k = at + 1 THEN t ELSE ts[k - 1]
  <2>. DEFINE p == SubSeq(ts, 1, at)  q == SubSeq(ts, at + 1, n)  pt == p \o <<t>>
  <2>1. p \in Seq(V) /\ Len(p) = at /\ \A k \in 1..at : p[k] = ts[k]
    BY <1>1, <1>3
  <2>2. q \in Seq(V) /\ Len(q) = n - at /\ \A k \in 1..n - at : q[k] = ts[at + k]
    <3>. HIDE DEF n
    <3>1. at \in Nat /\ at <= n /\ at + 1 \in Nat /\ n \in Nat
      BY <1>1, <1>3
    <3>2. \A k \in at + 1..n : ts[k] \in V
      BY <1>1, <1>3
    <3>3. Len(q) = n - at /\ \A k \in 1..n - at : q[k] = ts[at + k]
      BY <3>1
    <3>4. q = [k \in 1..n - at |-> ts[at + k]]
      BY <3>1
    <3>5. \A k \in 1..n - at : ts[at + k] \in V
      BY <3>1, <3>2
    <3>6. q \in Seq(V)
      <4>. HIDE DEF q
      <4>. QED  BY <3>1, <3>4, <3>5
    <3>. QED  BY <3>3, <3>6
  <2>3. pt \in Seq(V) /\ Len(pt) = at + 1 /\ (\A k \in 1..at : pt[k] = ts[k]) /\ pt[at + 1] = t
    <3>. HIDE DEF p
    <3>. QED  BY <1>1, <1>3, <2>1
  <2>4. r = pt \o q
    BY <1>5
  <2>. HIDE DEF p, q, pt, r, n
  <2>5. r \in Seq(V) /\ Len(r) = n + 1
    <3>1. r \in Seq(V) /\ Len(r) = Len(pt) + Len(q)
      BY <2>2, <2>3, <2>4, ConcatProperties
    <3>. QED  BY <1>1, <1>3, <2>2, <2>3, <3>1
  <2>6. ASSUME NEW k \in 1..n + 1
        PROVE  r[k] = IF k <= at THEN ts[k] ELSE IF k = at + 1 THEN t ELSE ts[k - 1]
    <3>1. CASE k <= at + 1
      BY <1>1, <1>3, <2>2, <2>3, <2>4, <3>1
    <3>2. CASE k > at + 1
      BY <1>1, <1>3, <3>2, <2>2, <2>3, <2>4
    <3>. QED  BY <1>1, <1>3, <3>1, <3>2
  <2>. QED  BY <2>5, <2>6
<1>7. ASSUME NEW k \in 1..n + 1
      PROVE  r[k] = t \/ \E m \in 1..n : r[k] = ts[m]
  <2>. HIDE DEF r, n
  <2>. QED  BY <1>1, <1>3, <1>6
<1>8. ASSUME NEW k \in 1..n + 1, NEW m \in 1..n + 1, k < m
      PROVE  ~S!Before(r[m], r[k])
  <2>1. \A j \in 1..n : (j <= at) <=> ~S!Before(t, ts[j])
    BY <1>1, <1>3
  <2>2. \A j \in at + 1..n : ~S!Before(ts[j], t)
    <3>1. ASSUME NEW j \in at + 1..n PROVE ~S!Before(ts[j], t)
      BY <1>1, <1>3, <2>1, BeforeIs
    <3>. QED  BY <3>1
  <2>3. \A a, b \in 1..n : a < b => ~S!Before(ts[b], ts[a])
    BY DEF InOrder
  <2>. HIDE DEF r, n
  <2>4. CASE k <= at /\ m <= at
    BY <1>1, <1>3, <1>6, <1>8, <2>3, <2>4
  <2>5. CASE k <= at /\ m = at + 1
    BY <1>1, <1>3, <1>6, <1>8, <2>1, <2>5
  <2>6. CASE k <= at /\ m > at + 1
    BY <1>1, <1>3, <1>6, <1>8, <2>6, <2>3
  <2>7. CASE k = at + 1
    BY <1>1, <1>3, <1>6, <1>8, <2>7, <2>2
  <2>8. CASE k > at + 1
    BY <1>1, <1>3, <1>6, <1>8, <2>8, <2>3
  <2>. QED  BY <1>1, <1>3, <2>4, <2>5, <2>6, <2>7, <2>8
<1>. QED  BY <1>6, <1>7, <1>8 DEF InOrder

-----------------------------------------------------------------------------
(* What is known of a replay does not change.                              *)
Grown == \A k \in DOMAIN measured : k \in DOMAIN measured' /\ measured'[k] = measured[k]

LEMMA Learns ==
    ASSUME Shape, NEW c, NEW a, NEW b, NEW out \in S!Says(c, a, b), S!Learn(c, a, b, out)
    PROVE  /\ out \in setup.outcomes /\ Grown
           /\ measured' = [k \in DOMAIN measured' |-> measured'[k]]
           /\ \A k \in DOMAIN measured' : measured'[k] \in setup.outcomes
           /\ S!Key(c, a, b) \in DOMAIN measured' /\ measured'[S!Key(c, a, b)] = out
<1>. DEFINE key == S!Key(c, a, b)
<1>1. out \in setup.outcomes /\ (key \in DOMAIN measured => out = measured[key])
  BY DEF S!Says, Shape
<1>2. measured' = [k \in DOMAIN measured \cup {key} |-> IF k = key THEN out ELSE measured[k]]
  BY DEF S!Learn
<1>3. \A k \in DOMAIN measured : measured[k] \in setup.outcomes
  BY DEF Shape
<1>. HIDE DEF key
<1>. QED  BY <1>1, <1>2, <1>3 DEF Grown, key

LEMMA StaysReplayed ==
    ASSUME Grown, NEW t, Replayed(t)
    PROVE  ReplayedIn(t, measured')
BY DEF Replayed, ReplayedIn, Grown

LEMMA OutcomesMeasured ==
    ASSUME S!SearchAssumption, Shape, NEW t, IsTrial(t)
    PROVE  Measured(t) /\ t.out.score \in Int /\ t.out.ret \in Int
BY DEF S!SearchAssumption, Shape, IsTrial, Measured

(* A new trial is ranked among the others.                                 *)
LEMMA Ranks ==
    ASSUME S!SearchAssumption, Shape, Sorted, NEW t, IsTrial(t)
    PROVE  LET r == S!Ranked(trials, t)
           IN  /\ IsSeq(r) /\ r # <<>> /\ \A k \in 1..Len(r) : IsTrial(r[k]) /\ (r[k] = t \/ \E m \in 1..Len(trials) : r[k] = trials[m])
               /\ InOrder(r)
<1>. DEFINE V == {v \in {t} \cup {trials[k] : k \in 1..Len(trials)} : IsTrial(v)}
            r == S!Ranked(trials, t)
<1>1. \A v \in V : Measured(v)
  BY OutcomesMeasured
<1>2. trials \in Seq(V)
  BY DEF Shape, IsSeq
<1>3. t \in V /\ InOrder(trials)
  BY DEF Sorted, InOrder
<1>4. /\ r \in Seq(V) /\ Len(r) = Len(trials) + 1
      /\ \A k \in 1..Len(r) : r[k] = t \/ \E m \in 1..Len(trials) : r[k] = trials[m]
      /\ InOrder(r)
  <2>. HIDE DEF V, r
  <2>. QED  BY <1>1, <1>2, <1>3, RankedIs DEF r
<1>5. IsSeq(r) /\ Len(r) # 0
  <2>. HIDE DEF V, r
  <2>1. Len(trials) \in Nat
    BY <1>2
  <2>. QED  BY <1>4, <2>1 DEF IsSeq
<1>6. \A k \in 1..Len(r) : r[k] \in V
  <2>. HIDE DEF V, r
  <2>. QED  BY <1>4
<1>. HIDE DEF r
<1>7. \A k \in 1..Len(r) : IsTrial(r[k])
  BY <1>6
<1>8. r # <<>>
  BY <1>5
<1>. QED  BY <1>4, <1>5, <1>7, <1>8 DEF r

-----------------------------------------------------------------------------
(* What steps have in common.                                              *)
MeasuresFit ==
    /\ measured = [k \in DOMAIN measured |-> measured[k]]
    /\ \A k \in DOMAIN measured : measured[k] \in setup.outcomes

LEMMA NothingLearnt ==
    ASSUME Shape, UNCHANGED <<setup, measured>>
    PROVE  Grown /\ MeasuresFit'
BY DEF Shape, Grown, MeasuresFit

LEMMA TrialsKept ==
    ASSUME Shape, Sorted, UNCHANGED setup, Grown, MeasuresFit', gen' \in Nat, axis' \in Nat,
           trials' = trials \/ trials' = <<>>
    PROVE  /\ Shape' /\ Sorted'
           /\ \A k \in 1..Len(trials') : trials'[k] = trials[k] /\ k \in 1..Len(trials)
<1>1. IsSeq(<<>>) /\ Len(<<>>) = 0 /\ 1..0 = {}
  BY DEF IsSeq
<1>2. \A t : IsTrial(t) => IsTrial(t)'
  BY DEF IsTrial
<1>3. CASE trials' = trials
  BY <1>2, <1>3 DEF Shape, Sorted, MeasuresFit, IsTrial
<1>4. CASE trials' = <<>>
  BY <1>1, <1>4 DEF Shape, Sorted, MeasuresFit
<1>. QED  BY <1>3, <1>4

LEMMA TrialRanked ==
    ASSUME S!SearchAssumption, Shape, Sorted, UNCHANGED setup, Grown, MeasuresFit', gen' \in Nat, axis' \in Nat,
           NEW t, IsTrial(t), trials' = S!Ranked(trials, t)
    PROVE  /\ Shape' /\ Sorted'
           /\ \A k \in 1..Len(trials') : trials'[k] = t \/ \E m \in 1..Len(trials) : trials'[k] = trials[m]
<1>1. /\ IsSeq(trials') /\ InOrder(trials')
      /\ \A k \in 1..Len(trials') :
           IsTrial(trials'[k]) /\ (trials'[k] = t \/ \E m \in 1..Len(trials) : trials'[k] = trials[m])
  BY Ranks
<1>2. Sorted'
  BY <1>1 DEF InOrder, Sorted
<1>3. \A k \in 1..Len(trials') : IsTrial(trials[k])'
  BY <1>1 DEF IsTrial
<1>4. IsSeq(trials)'
  BY <1>1 DEF IsSeq
<1>. QED  BY <1>1, <1>2, <1>3, <1>4 DEF Shape, MeasuresFit

LEMMA NotDone ==
    ASSUME stage' # "done", answer' = <<>>
    PROVE  S!ProposalsReproduce' /\ S!NothingBetterUnused'
BY DEF S!ProposalsReproduce, S!NothingBetterUnused, S!Improved, S!None

LEMMA NoFolds ==
    ASSUME stage' # "folds", folds' = <<>>
    PROVE  FoldInv'
<1>1. <<>> \in Seq({}) /\ Len(<<>>) = 0 /\ 1..0 = {}
  OBVIOUS
<1>2. IsSeq(folds)' /\ Len(folds') = 0
  BY <1>1 DEF IsSeq
<1>. QED  BY <1>1, <1>2 DEF FoldInv, WalkedTo

(* A step of a search that is not over and not a walk: what it adds to the *)
(* incumbent and to the trials has been replayed.                          *)
LEMMA SearchStep ==
    ASSUME HonestInv, setup.by # "walk", UNCHANGED <<setup, folds, answer>>, Grown, Shape', Sorted',
           stage \in {"start", "search", "refine", "rescue"}, stage' \in {"search", "refine", "rescue"},
           \A k \in 1..Len(trials') : ReplayedIn(trials'[k], measured') \/ \E m \in 1..Len(trials) : trials'[k] = trials[m],
           best' = best \/ ReplayedIn(best', measured'), stage' \in {"refine", "rescue"} => best' # <<>>,
           S!Auto /\ best' # <<>> => S!Key(setup.live, 1, setup.bars) \in DOMAIN measured',
           S!Auto /\ stage' = "search" => best' = S!Base',
           S!Auto /\ stage' \in {"refine", "rescue"} =>
               \A k \in 1..Len(trials') : trials'[k].out.score <= best'.out.score
    PROVE  HonestInv'
<1>1. folds' = <<>> /\ answer' = <<>>
  BY DEF HonestInv, StageInv
<1>2. S!ProposalsReproduce' /\ S!NothingBetterUnused' /\ FoldInv'
  BY <1>1, NotDone, NoFolds
<1>3. StageInv'
  BY <1>1 DEF HonestInv, StageInv
<1>4. \A k \in 1..Len(trials') : Replayed(trials[k])'
  <2>1. ASSUME NEW k \in 1..Len(trials') PROVE Replayed(trials[k])'
    <3>1. ReplayedIn(trials'[k], measured')
      <4>1. ASSUME NEW m \in 1..Len(trials), trials'[k] = trials[m] PROVE ReplayedIn(trials'[k], measured')
        BY <4>1, StaysReplayed DEF HonestInv, BestInv
      <4>. QED  BY <4>1
    <3>. QED  BY <3>1 DEF Replayed, ReplayedIn, IsTrial
  <2>. QED  BY <2>1
<1>5. best' # <<>> => Replayed(best)'
  <2>1. ASSUME best' # <<>> PROVE ReplayedIn(best', measured')
    BY <2>1, StaysReplayed DEF HonestInv, BestInv
  <2>. QED  BY <2>1 DEF Replayed, ReplayedIn, IsTrial
<1>6. BestInv'
  BY <1>4, <1>5 DEF BestInv, S!Auto, S!Key
<1>. QED  BY <1>2, <1>3, <1>6 DEF HonestInv

-----------------------------------------------------------------------------
(* The steps of a search.                                                  *)
LEMMA SetupFits ==
    ASSUME S!SearchAssumption, HonestInv
    PROVE  /\ IsConfig(setup.live) /\ setup.live.on \in BOOLEAN
           /\ Len(setup.refine) \in Nat
           /\ \A k \in 1..Len(setup.refine) : setup.refine[k].field \in S!ConfigFields \ {"on"}
           /\ setup.bars \in Nat /\ setup.folds \in Nat /\ setup.floor \in Int /\ setup.minTrades \in Int
BY DEF S!SearchAssumption, HonestInv, Shape, IsConfig

LEMMA CandidatesFit ==
    ASSUME S!SearchAssumption, HonestInv, NEW c \in S!Candidates
    PROVE  IsConfig(c) /\ c.on = TRUE
<1>1. IsConfig(setup.live)
  BY SetupFits
<1>2. PICK d \in S!Dets, p \in setup.grid.period, x \in S!Deploys : c = S!Candidate(d, p, x)
  BY DEF S!Candidates
<1>. QED  BY <1>1, <1>2 DEF IsConfig, S!ConfigFields, S!Candidate

LEMMA TrialIs ==
    ASSUME NEW c, NEW out
    PROVE  S!Trial(c, out) = [cfg |-> c, out |-> out] /\ S!Trial(c, out) # <<>>
           /\ S!Trial(c, out).cfg = c /\ S!Trial(c, out).out = out
BY DEF S!Trial

LEMMA TrialReplayed ==
    ASSUME HonestInv, NEW c, IsConfig(c), c.on \in {TRUE, setup.live.on},
           NEW out \in S!Whole(c), S!Learn(c, 1, setup.bars, out)
    PROVE  /\ Grown /\ (UNCHANGED setup => MeasuresFit') /\ out \in setup.outcomes
           /\ IsTrial(S!Trial(c, out)) /\ ReplayedIn(S!Trial(c, out), measured')
           /\ S!Key(c, 1, setup.bars) \in DOMAIN measured' /\ measured'[S!Key(c, 1, setup.bars)] = out
<1>1. Shape /\ out \in S!Says(c, 1, setup.bars)
  BY DEF HonestInv, S!Whole
<1>2. /\ out \in setup.outcomes /\ Grown
      /\ measured' = [k \in DOMAIN measured' |-> measured'[k]]
      /\ \A k \in DOMAIN measured' : measured'[k] \in setup.outcomes
      /\ S!Key(c, 1, setup.bars) \in DOMAIN measured' /\ measured'[S!Key(c, 1, setup.bars)] = out
  BY <1>1, Learns
<1>3. UNCHANGED setup => MeasuresFit'
  BY <1>2 DEF MeasuresFit
<1>4. IsTrial(S!Trial(c, out))
  BY <1>2, TrialIs DEF IsTrial
<1>5. S!Trial(c, out).cfg = c /\ S!Trial(c, out).out = out
  BY TrialIs
<1>6. ReplayedIn(S!Trial(c, out), measured')
  BY <1>2, <1>4, <1>5 DEF ReplayedIn
<1>. QED  BY <1>2, <1>3, <1>4, <1>6

LEMMA StartStep ==
    ASSUME S!SearchAssumption, HonestInv, S!Start
    PROVE  HonestInv'
<1>1. /\ stage = "start" /\ setup.by # "walk" /\ UNCHANGED <<setup, gen, axis, trials, folds>>
      /\ trials = <<>> /\ best = <<>> /\ folds = <<>>
  BY DEF S!Start, HonestInv, StageInv
<1>2. gen \in Nat /\ axis \in Nat /\ Shape /\ Sorted
  BY DEF HonestInv, Shape
<1>3. CASE S!Auto /\ S!Unsearchable
  <2>1. stage' = "done" /\ answer' = [improved |-> FALSE, fields |-> S!None] /\ UNCHANGED <<measured, best>>
    BY <1>3 DEF S!Start
  <2>2. Shape' /\ Sorted'
    BY <1>1, <1>2, <2>1, NothingLearnt, TrialsKept
  <2>3. S!ProposalsReproduce' /\ S!NothingBetterUnused'
    BY <1>1, <2>1 DEF S!ProposalsReproduce, S!NothingBetterUnused, S!Improved, S!None
  <2>4. StageInv' /\ FoldInv'
    BY <1>1, <2>1, NoFolds DEF HonestInv, StageInv
  <2>5. 1..Len(<<>>) = {}
    OBVIOUS
  <2>6. BestInv'
    BY <1>1, <2>1, <2>5 DEF BestInv
  <2>. QED  BY <2>2, <2>3, <2>4, <2>6 DEF HonestInv
<1>4. CASE S!Auto /\ ~S!Unsearchable
  <2>1. stage' = "search" /\ UNCHANGED answer
    BY <1>4 DEF S!Start
  <2>2. PICK out \in S!Whole(setup.live) :
          S!Learn(setup.live, 1, setup.bars, out) /\ best' = S!Trial(setup.live, out)
    BY <1>4 DEF S!Start
  <2>3. IsConfig(setup.live) /\ setup.live.on \in {TRUE, setup.live.on}
    BY SetupFits
  <2>4. /\ Grown /\ MeasuresFit' /\ ReplayedIn(best', measured')
        /\ S!Key(setup.live, 1, setup.bars) \in DOMAIN measured' /\ measured'[S!Key(setup.live, 1, setup.bars)] = out
    BY <1>1, <2>2, <2>3, TrialReplayed
  <2>5. Shape' /\ Sorted'
    BY <1>1, <1>2, <2>4, TrialsKept
  <2>6. best' = S!Base' /\ best' # <<>>
    BY <1>1, <2>2, <2>4, TrialIs DEF S!Base, S!Trial, S!Key
  <2>7. \A k \in 1..Len(trials') : FALSE
    BY <1>1
  <2>. QED  BY <1>1, <2>1, <2>4, <2>5, <2>6, <2>7, SearchStep
<1>5. CASE ~S!Auto
  BY <1>5, <1>1, <1>2, NothingLearnt, TrialsKept, SearchStep DEF S!Start
<1>. QED  BY <1>3, <1>4, <1>5

(* One evaluation.                                                         *)
LEMMA EvalStep ==
    ASSUME S!SearchAssumption, HonestInv, NEW c \in S!Candidates, S!Eval(c), stage = "search",
           UNCHANGED <<setup, stage, gen, best, axis, answer, folds>>
    PROVE  HonestInv'
<1>1. /\ Shape /\ Sorted /\ gen \in Nat /\ axis \in Nat /\ setup.by # "walk"
      /\ best # <<>> => Replayed(best)
      /\ S!Auto /\ best # <<>> => S!Key(setup.live, 1, setup.bars) \in DOMAIN measured
      /\ S!Auto => best = S!Base
  BY DEF HonestInv, Shape, StageInv, BestInv
<1>2. S!Base # <<>>
  BY TrialIs DEF S!Base
<1>3. ASSUME Grown PROVE S!Auto => S!Base' = S!Base /\ S!Key(setup.live, 1, setup.bars) \in DOMAIN measured'
  BY <1>1, <1>2, <1>3 DEF Grown, S!Base, S!Key, S!Trial
<1>4. CASE UNCHANGED <<measured, trials>>
  BY <1>1, <1>4, NothingLearnt, TrialsKept, <1>3, SearchStep
<1>5. CASE ~(UNCHANGED <<measured, trials>>)
  <2>1. PICK out \in S!Whole(c) :
          /\ S!Learn(c, 1, setup.bars, out)
          /\ trials' = IF out.closed < setup.minTrades THEN trials ELSE S!Ranked(trials, S!Trial(c, out))
    BY <1>5 DEF S!Eval
  <2>2. IsConfig(c) /\ c.on \in {TRUE, setup.live.on}
    BY CandidatesFit
  <2>3. /\ Grown /\ MeasuresFit' /\ IsTrial(S!Trial(c, out)) /\ ReplayedIn(S!Trial(c, out), measured')
    BY <2>1, <2>2, TrialReplayed
  <2>4. CASE trials' = trials
    BY <1>1, <2>3, <2>4, TrialsKept, <1>3, SearchStep
  <2>5. CASE trials' = S!Ranked(trials, S!Trial(c, out))
    BY <1>1, <2>3, <2>5, TrialRanked, <1>3, SearchStep
  <2>. QED  BY <2>1, <2>4, <2>5
<1>. QED  BY <1>4, <1>5

LEMMA SampleStep ==
    ASSUME S!SearchAssumption, HonestInv, S!Sample
    PROVE  HonestInv'
BY EvalStep DEF S!Sample, S!Searching

LEMMA MutateStep ==
    ASSUME S!SearchAssumption, HonestInv, S!Mutate
    PROVE  HonestInv'
<1>1. PICK parent \in S!Range(elite) : \E c \in S!Children(parent.cfg) : S!Eval(c)
  BY DEF S!Mutate
<1>2. PICK c \in S!Candidates : S!Eval(c)
  BY <1>1 DEF S!Children
<1>. QED  BY <1>2, EvalStep DEF S!Mutate, S!Searching

LEMMA NothingMoves ==
    ASSUME HonestInv, UNCHANGED <<setup, stage, measured, trials, gen, best, axis, answer, folds>>
    PROVE  HonestInv'
<1>1. Shape' /\ Sorted'
  BY DEF HonestInv, Shape, Sorted, IsTrial
<1>2. StageInv'
  BY DEF HonestInv, StageInv
<1>3. BestInv'
  BY DEF HonestInv, BestInv, Replayed, ReplayedIn, IsTrial, S!Auto, S!Key, S!Base, S!Trial
<1>4. FoldInv'
  BY DEF HonestInv, FoldInv, WalkedTo, S!Segment, S!TrainEnd, S!TestBegin, S!TestEnd
<1>5. S!ProposalsReproduce'
  BY DEF HonestInv, S!ProposalsReproduce, S!Improved, S!Applied, S!Key, S!None
<1>6. S!NothingBetterUnused'
  BY DEF HonestInv, S!NothingBetterUnused, S!Auto, S!Base, S!Trial, S!Key, S!None
<1>. QED  BY <1>1, <1>2, <1>3, <1>4, <1>5, <1>6 DEF HonestInv

(* What a search knows while it is under way.                              *)
LEMMA UnderWay ==
    ASSUME HonestInv, stage \in {"search", "refine", "rescue"}
    PROVE  /\ Shape /\ Sorted /\ gen \in Nat /\ axis \in Nat /\ setup.by # "walk"
           /\ best # <<>> => Replayed(best)
           /\ S!Auto /\ best # <<>> => S!Key(setup.live, 1, setup.bars) \in DOMAIN measured
           /\ S!Auto /\ stage = "search" => best = S!Base
           /\ \A k \in 1..Len(trials) : Replayed(trials[k])
BY DEF HonestInv, Shape, StageInv, BestInv

LEMMA GenerationStep ==
    ASSUME HonestInv, S!Generation
    PROVE  HonestInv'
<1>1. /\ stage = "search" /\ gen' = gen + 1
      /\ UNCHANGED <<setup, stage, measured, trials, best, axis, answer, folds>>
  BY DEF S!Generation
<1>2. /\ Shape /\ Sorted /\ gen' \in Nat /\ axis' \in Nat /\ setup.by # "walk"
      /\ S!Auto /\ best # <<>> => S!Key(setup.live, 1, setup.bars) \in DOMAIN measured
      /\ S!Auto /\ stage = "search" => best = S!Base
  BY <1>1, UnderWay
<1>3. Grown /\ MeasuresFit'
  BY <1>1, <1>2, NothingLearnt
<1>4. Shape' /\ Sorted' /\ \A k \in 1..Len(trials') : trials'[k] = trials[k] /\ k \in 1..Len(trials)
  BY <1>1, <1>2, <1>3, TrialsKept
<1>5. S!Base' = S!Base
  BY <1>1 DEF S!Base, S!Trial, S!Key
<1>. QED  BY <1>1, <1>2, <1>3, <1>4, <1>5, SearchStep

LEMMA RefinedStep ==
    ASSUME HonestInv, S!Refined
    PROVE  HonestInv'
<1>1. /\ stage = "refine" /\ stage' = "rescue"
      /\ UNCHANGED <<setup, measured, trials, gen, best, axis, answer, folds>>
  BY DEF S!Refined
<1>2. /\ Shape /\ Sorted /\ gen' \in Nat /\ axis' \in Nat /\ setup.by # "walk"
      /\ S!Auto /\ best # <<>> => S!Key(setup.live, 1, setup.bars) \in DOMAIN measured
  BY <1>1, UnderWay
<1>3. Grown /\ MeasuresFit'
  BY <1>1, <1>2, NothingLearnt
<1>4. Shape' /\ Sorted' /\ \A k \in 1..Len(trials') : trials'[k] = trials[k] /\ k \in 1..Len(trials)
  BY <1>1, <1>2, <1>3, TrialsKept
<1>5. best # <<>> /\ (S!Auto => \A k \in 1..Len(trials) : trials[k].out.score <= best.out.score)
  BY <1>1 DEF HonestInv, BestInv
<1>. QED  BY <1>1, <1>2, <1>3, <1>4, <1>5, SearchStep

(* The first of the ranked trials has the highest score.                   *)
LEMMA FirstIsBest ==
    ASSUME S!SearchAssumption, Shape, Sorted, NEW k \in 1..Len(trials), NEW m \in 1..Len(trials), k <= m
    PROVE  trials[m].out.score <= trials[k].out.score
<1>0. Len(trials) \in Nat
  BY DEF Shape, IsSeq
<1>1. IsTrial(trials[k]) /\ IsTrial(trials[m])
  BY DEF Shape
<1>2. Measured(trials[k]) /\ Measured(trials[m]) /\ trials[k].out.score \in Int
  BY <1>1, OutcomesMeasured
<1>3. CASE k = m
  BY <1>2, <1>3
<1>4. CASE k < m
  BY <1>4, <1>2, BeforeIs DEF Sorted
<1>. QED  BY <1>0, <1>3, <1>4

LEMMA SearchedStep ==
    ASSUME S!SearchAssumption, HonestInv, S!Searched
    PROVE  HonestInv'
<1>1. /\ stage = "search" /\ UNCHANGED <<setup, measured, trials, gen, axis, answer, folds>>
      /\ S!None = <<>>
  BY DEF S!Searched, S!None
<1>2. /\ Shape /\ Sorted /\ gen' \in Nat /\ axis' \in Nat /\ setup.by # "walk"
      /\ best # <<>> => Replayed(best)
      /\ S!Auto /\ best # <<>> => S!Key(setup.live, 1, setup.bars) \in DOMAIN measured
      /\ S!Auto => best = S!Base
      /\ \A k \in 1..Len(trials) : Replayed(trials[k])
  BY <1>1, UnderWay
<1>3. Grown /\ MeasuresFit'
  BY <1>1, <1>2, NothingLearnt
<1>4. Shape' /\ Sorted' /\ \A k \in 1..Len(trials') : trials'[k] = trials[k] /\ k \in 1..Len(trials)
  BY <1>1, <1>2, <1>3, TrialsKept
<1>5. CASE ~S!Auto /\ trials = <<>>
  <2>1. stage' = "done" /\ best' = best
    BY <1>1, <1>5 DEF S!Searched
  <2>2. ~S!Auto' /\ answer' = <<>> /\ folds' = <<>>
    BY <1>1, <1>2, <1>5 DEF S!Auto, HonestInv, StageInv
  <2>3. S!NothingBetterUnused' /\ ~S!Improved'
    BY <2>2 DEF S!NothingBetterUnused, S!Improved, S!None
  <2>4. S!ProposalsReproduce'
    BY <1>1, <1>2, <2>1, <2>3 DEF S!ProposalsReproduce, S!None, Replayed, ReplayedIn, S!Key
  <2>5. StageInv' /\ FoldInv'
    BY <1>1, <1>2, <2>1, <2>2, NoFolds DEF HonestInv, StageInv
  <2>6. BestInv'
    BY <1>1, <1>2, <2>1, <2>2 DEF BestInv, Replayed, ReplayedIn, IsTrial, S!Key
  <2>. QED  BY <1>4, <2>3, <2>4, <2>5, <2>6 DEF HonestInv
<1>6. CASE S!Auto \/ trials # <<>>
  <2>1. best' = S!Winner /\ stage' \in {"refine", "rescue"}
    BY <1>1, <1>6 DEF S!Searched
  <2>2. trials # <<>> => 1 \in 1..Len(trials)
    BY <1>2 DEF Shape, IsSeq
  <2>3. S!Base # <<>>
    BY TrialIs DEF S!Base
  <2>4. CASE trials # <<>> /\ (~S!Auto \/ trials[1].out.score > best.out.score)
    <3>1. best' = trials[1] /\ Replayed(trials[1])
      BY <1>1, <1>2, <2>1, <2>2, <2>4 DEF S!Winner
    <3>2. best' # <<>>
      <4>1. trials[1] = [cfg |-> trials[1].cfg, out |-> trials[1].out]
        BY <3>1 DEF Replayed, ReplayedIn, IsTrial
      <4>2. trials[1] # <<>>
        BY <4>1, TrialIs DEF S!Trial
      <4>. QED  BY <3>1, <4>2
    <3>3. ReplayedIn(best', measured')
      BY <1>1, <3>1 DEF Replayed
    <3>4. \A k \in 1..Len(trials') : trials'[k].out.score <= best'.out.score
      <4>1. ASSUME NEW k \in 1..Len(trials) PROVE trials[k].out.score <= trials[1].out.score
        BY <2>2, <2>4, <1>2, FirstIsBest
      <4>. QED  BY <1>1, <3>1, <4>1
    <3>5. S!Auto => S!Key(setup.live, 1, setup.bars) \in DOMAIN measured'
      BY <1>1, <1>2, <2>3
    <3>. QED  BY <1>1, <1>2, <1>3, <1>4, <2>1, <3>2, <3>3, <3>4, <3>5, SearchStep
  <2>5. CASE ~(trials # <<>> /\ (~S!Auto \/ trials[1].out.score > best.out.score))
    <3>1. best' = best /\ S!Auto /\ best # <<>> /\ Replayed(best)
      BY <1>1, <1>2, <1>6, <2>1, <2>3, <2>5 DEF S!Winner
    <3>2. \A k \in 1..Len(trials') : trials'[k].out.score <= best'.out.score
      <4>1. ASSUME NEW k \in 1..Len(trials) PROVE trials[k].out.score <= best.out.score
        <5>1. 1 \in 1..Len(trials) /\ 1 <= k /\ trials # <<>>
          BY <1>2, <2>2 DEF Shape, IsSeq
        <5>2. trials[k].out.score <= trials[1].out.score
          BY <1>2, <5>1, FirstIsBest
        <5>3. ~(trials[1].out.score > best.out.score)
          BY <2>5, <3>1, <5>1
        <5>4. IsTrial(trials[k]) /\ IsTrial(trials[1]) /\ IsTrial(best)
          BY <1>2, <3>1, <5>1 DEF Replayed, ReplayedIn
        <5>5. trials[k].out.score \in Int /\ trials[1].out.score \in Int /\ best.out.score \in Int
          BY <1>2, <5>4, OutcomesMeasured
        <5>. QED  BY <5>2, <5>3, <5>5
      <4>. QED  BY <1>1, <3>1, <4>1
    <3>3. S!Key(setup.live, 1, setup.bars) \in DOMAIN measured'
      BY <1>1, <1>2, <3>1
    <3>. QED  BY <1>1, <1>2, <1>3, <1>4, <2>1, <3>1, <3>2, <3>3, SearchStep
  <2>. QED  BY <2>4, <2>5
<1>. QED  BY <1>5, <1>6

LEMMA TryStep ==
    ASSUME S!SearchAssumption, HonestInv, S!Try
    PROVE  HonestInv'
<1>. DEFINE v == setup.refine[axis + 1]
            c == [best.cfg EXCEPT ![v.field] = v.value]
<1>1. /\ stage = "refine" /\ axis < Len(setup.refine) /\ axis' = axis + 1
      /\ UNCHANGED <<setup, stage, trials, gen, answer, folds>>
      /\ \E out \in S!Whole(c) :
           /\ S!Learn(c, 1, setup.bars, out)
           /\ best' = IF out.closed >= setup.minTrades /\ out.score > best.out.score
                      THEN S!Adopted(c, out) ELSE best
  BY DEF S!Try
<1>2. PICK out \in S!Whole(c) :
        /\ S!Learn(c, 1, setup.bars, out)
        /\ best' = IF out.closed >= setup.minTrades /\ out.score > best.out.score
                   THEN S!Adopted(c, out) ELSE best
  BY <1>1
<1>3. /\ Shape /\ Sorted /\ gen' \in Nat /\ axis' \in Nat /\ axis \in Nat /\ setup.by # "walk"
      /\ S!Auto /\ best # <<>> => S!Key(setup.live, 1, setup.bars) \in DOMAIN measured
  BY <1>1, UnderWay
<1>4. /\ best # <<>> /\ Replayed(best)
      /\ S!Auto => \A k \in 1..Len(trials) : trials[k].out.score <= best.out.score
  BY <1>1 DEF HonestInv, BestInv
<1>5. v.field \in S!ConfigFields \ {"on"}
  BY SetupFits, <1>1, <1>3
<1>6. IsConfig(c) /\ c.on = best.cfg.on
  <2>1. IsConfig(best.cfg)
    BY <1>4 DEF Replayed, ReplayedIn
  <2>. HIDE DEF v
  <2>. QED  BY <1>5, <2>1 DEF IsConfig, S!ConfigFields
<1>. HIDE DEF c
<1>7. c.on \in {TRUE, setup.live.on}
  BY <1>4, <1>6 DEF Replayed, ReplayedIn
<1>8. /\ Grown /\ MeasuresFit' /\ ReplayedIn(S!Trial(c, out), measured') /\ IsTrial(S!Trial(c, out))
  BY <1>1, <1>2, <1>6, <1>7, TrialReplayed
<1>9. Shape' /\ Sorted' /\ \A k \in 1..Len(trials') : trials'[k] = trials[k] /\ k \in 1..Len(trials)
  BY <1>1, <1>3, <1>8, TrialsKept
<1>10. S!Auto => S!Key(setup.live, 1, setup.bars) \in DOMAIN measured'
  BY <1>3, <1>4, <1>8 DEF Grown
<1>11. CASE best' = best
  BY <1>1, <1>3, <1>4, <1>8, <1>9, <1>10, <1>11, SearchStep
<1>12. CASE best' = S!Trial(c, out) /\ out.score > best.out.score
  <2>1. best' # <<>> /\ best'.out = out
    BY <1>12, TrialIs
  <2>2. ASSUME S!Auto, NEW k \in 1..Len(trials') PROVE trials'[k].out.score <= best'.out.score
    <3>1. trials'[k] = trials[k] /\ trials[k].out.score <= best.out.score /\ IsTrial(trials[k])
      BY <1>3, <1>4, <1>9, <2>2 DEF Shape
    <3>2. IsTrial(best) /\ S!Trial(c, out).out = out
      BY <1>4, TrialIs DEF Replayed, ReplayedIn
    <3>3. trials[k].out.score \in Int /\ best.out.score \in Int /\ out.score \in Int
      BY <1>3, <1>8, OutcomesMeasured, <3>1, <3>2
    <3>. QED  BY <1>12, <2>1, <3>1, <3>3
  <2>. QED  BY <1>1, <1>3, <1>8, <1>9, <1>10, <1>12, <2>1, <2>2, SearchStep
<1>. QED  BY <1>2, <1>11, <1>12 DEF S!Adopted

(* What becomes of the winner.                                             *)
LEMMA SettledIs ==
    ASSUME S!SearchAssumption, HonestInv, stage = "rescue", S!Auto
    PROVE  /\ Replayed(S!Settled) /\ S!Settled # <<>>
           /\ \/ \A k \in 1..Len(trials) : trials[k].out.score <= S!Settled.out.score
              \/ \A k \in S!Clearing : trials[k].out.score <= S!Settled.out.score
           /\ S!Settled.out.ret < setup.floor => S!Clearing = {}
<1>1. /\ Shape /\ Sorted /\ best # <<>> /\ Replayed(best)
      /\ \A k \in 1..Len(trials) : trials[k].out.score <= best.out.score /\ Replayed(trials[k])
  BY UnderWay DEF HonestInv, BestInv
<1>2. CASE S!Settled = best /\ ~(best.out.ret < setup.floor /\ S!Clearing # {})
  BY <1>1, <1>2
<1>3. CASE S!Settled = trials[S!Min(S!Clearing)] /\ S!Clearing # {}
  <2>. DEFINE X == S!Clearing
              m == S!Min(X)
  <2>1. Len(trials) \in Nat /\ DOMAIN trials = 1..Len(trials)
    BY <1>1 DEF Shape, IsSeq
  <2>2. X \subseteq 1..Len(trials) /\ \A k \in X : trials[k].out.ret >= setup.floor
    BY <2>1 DEF S!Clearing
  <2>. HIDE DEF X
  <2>3. m \in X /\ \A y \in X : m <= y
    <3>1. X \subseteq Nat /\ X # {}
      BY <1>3, <2>2 DEF X
    <3>. QED  BY <3>1, MinIs
  <2>4. S!Settled = trials[m]
    BY <1>3 DEF X
  <2>. HIDE DEF m
  <2>5. Replayed(trials[m]) /\ IsTrial(trials[m])
    BY <1>1, <2>2, <2>3 DEF Shape
  <2>6. trials[m] # <<>>
    BY <2>5, TrialIs DEF S!Trial, IsTrial
  <2>7. \A k \in X : trials[k].out.score <= trials[m].out.score
    <3>1. ASSUME NEW k \in X PROVE trials[k].out.score <= trials[m].out.score
      BY <1>1, <2>2, <2>3, <3>1, FirstIsBest
    <3>. QED  BY <3>1
  <2>8. ~(trials[m].out.ret < setup.floor)
    BY <2>2, <2>3, <1>1, <2>5, OutcomesMeasured, SetupFits
  <2>. QED  BY <2>4, <2>5, <2>6, <2>7, <2>8 DEF X
<1>. QED  BY <1>2, <1>3 DEF S!Settled

LEMMA AppliedIs ==
    ASSUME S!SearchAssumption, HonestInv, stage = "rescue", S!Auto, S!Judge, S!Improved'
    PROVE  S!Applied' = S!Settled.cfg
<1>. DEFINE t == S!Settled
<1>1. /\ answer' = [improved |-> ~cancelled /\ S!NotOverridable(t) = {} /\ S!BeatsBothBaselines(t),
                    fields |-> S!Override(t)]
      /\ UNCHANGED setup
  BY DEF S!Judge
<1>2. answer'.improved
  BY DEF S!Improved
<1>3. S!NotOverridable(t) = {} /\ answer'.fields = S!Override(t)
  BY <1>1, <1>2
<1>4. IsConfig(t.cfg) /\ t.cfg.on \in {TRUE, setup.live.on} /\ IsConfig(setup.live) /\ setup.live.on \in BOOLEAN
  BY SettledIs, SetupFits DEF Replayed, ReplayedIn
<1>. HIDE DEF t
<1>5. t.cfg["deploy"] = setup.live["deploy"] /\ t.cfg["behave"] = setup.live["behave"] /\ setup.live.on
  BY <1>3 DEF S!NotOverridable
<1>6. t.cfg["on"] = setup.live["on"]
  BY <1>4, <1>5
<1>7. /\ DOMAIN S!Override(t) = S!Fields(t)
      /\ \A f \in S!Fields(t) : S!Override(t)[f] = t.cfg[f]
  BY DEF S!Override
<1>8. S!Applied' = [f \in DOMAIN setup.live |-> IF f \in S!Fields(t) THEN t.cfg[f] ELSE setup.live[f]]
  BY <1>1, <1>3, <1>7 DEF S!Applied
<1>9. DOMAIN setup.live = S!ConfigFields
  BY <1>4 DEF IsConfig
<1>10. \A f \in S!ConfigFields : f \in S!Fields(t) \/ t.cfg[f] = setup.live[f]
  BY <1>5, <1>6 DEF S!ConfigFields, S!Fields
<1>11. S!Applied' = [f \in S!ConfigFields |-> t.cfg[f]]
  BY <1>8, <1>9, <1>10
<1>. QED  BY <1>4, <1>11 DEF IsConfig, t

LEMMA JudgeStep ==
    ASSUME S!SearchAssumption, HonestInv, S!Judge
    PROVE  HonestInv'
<1>1. /\ stage = "rescue" /\ stage' = "done" /\ UNCHANGED <<setup, measured, trials, gen, axis, folds>>
      /\ folds' = <<>>
  BY DEF S!Judge, HonestInv, StageInv
<1>2. /\ Shape /\ Sorted /\ gen' \in Nat /\ axis' \in Nat /\ setup.by # "walk"
      /\ best # <<>> => Replayed(best)
      /\ S!Auto /\ best # <<>> => S!Key(setup.live, 1, setup.bars) \in DOMAIN measured
      /\ \A k \in 1..Len(trials) : Replayed(trials[k])
  BY <1>1, UnderWay
<1>3. best # <<>>
  BY <1>1 DEF HonestInv, BestInv
<1>4. Grown /\ MeasuresFit'
  BY <1>1, <1>2, NothingLearnt
<1>5. Shape' /\ Sorted' /\ FoldInv' /\ StageInv'
  BY <1>1, <1>2, <1>4, TrialsKept, NoFolds DEF HonestInv, StageInv
<1>6. S!Auto' = S!Auto /\ S!Base' = S!Base
  BY <1>1 DEF S!Auto, S!Base, S!Trial, S!Key
<1>7. CASE S!Auto
  <2>1. best' = S!Settled
    BY <1>7 DEF S!Judge
  <2>2. /\ Replayed(best')  /\ best' # <<>>
        /\ \/ \A k \in 1..Len(trials) : trials[k].out.score <= best'.out.score
           \/ \A k \in S!Clearing : trials[k].out.score <= best'.out.score
        /\ best'.out.ret < setup.floor => S!Clearing = {}
    BY <1>1, <1>7, <2>1, SettledIs
  <2>3. BestInv'
    BY <1>1, <1>2, <1>3, <1>6, <1>7, <2>2 DEF BestInv, Replayed, ReplayedIn, IsTrial, S!Key
  <2>4. measured[S!Key(best'.cfg, 1, setup.bars)] = best'.out /\ S!Key(best'.cfg, 1, setup.bars) \in DOMAIN measured
    BY <2>2 DEF Replayed, ReplayedIn
  <2>5. S!Improved' => S!Applied' = best'.cfg
    BY <1>1, <1>7, <2>1, AppliedIs
  <2>6. S!ProposalsReproduce'
    BY <1>1, <2>4, <2>5 DEF S!ProposalsReproduce, S!Key
  <2>7. S!NothingBetterUnused'
    BY <1>2, <2>2, <1>1, <1>6 DEF Shape, IsSeq, S!Clearing, S!NothingBetterUnused
  <2>. QED  BY <1>5, <2>3, <2>6, <2>7 DEF HonestInv
<1>8. CASE ~S!Auto
  <2>1. UNCHANGED <<best, answer>> /\ answer' = <<>>
    BY <1>1, <1>8 DEF S!Judge, HonestInv, StageInv
  <2>2. S!NothingBetterUnused' /\ ~S!Improved'
    BY <1>6, <1>8, <2>1 DEF S!NothingBetterUnused, S!Improved, S!None
  <2>3. S!ProposalsReproduce'
    BY <1>1, <1>2, <2>1, <2>2 DEF S!ProposalsReproduce, S!None, Replayed, ReplayedIn, S!Key
  <2>4. BestInv'
    BY <1>1, <1>2, <1>6, <1>8, <2>1 DEF BestInv, Replayed, ReplayedIn, IsTrial, S!Key
  <2>. QED  BY <1>5, <2>2, <2>3, <2>4 DEF HonestInv
<1>. QED  BY <1>7, <1>8

-----------------------------------------------------------------------------
(* Walking forward.                                                        *)
LEMMA Quotient ==
    ASSUME NEW b \in Nat, NEW d \in Nat \ {0}
    PROVE  b \div d \in Nat /\ (b \div d) * d <= b
OBVIOUS

LEMMA TimesGrows ==
    ASSUME NEW k \in Nat, NEW l \in Nat, NEW s \in Nat, k < l
    PROVE  k * s \in Nat /\ l * s \in Nat /\ (k + 1) * s = k * s + s /\ k * s + s <= l * s
<1>1. PICK d \in Nat : l = k + 1 + d
  OBVIOUS
<1>2. l * s = k * s + s + d * s /\ d * s \in Nat /\ k * s \in Nat
  BY <1>1
<1>. QED  BY <1>2

LEMMA SegmentFits ==
    ASSUME S!SearchAssumption, HonestInv
    PROVE  /\ S!Segment \in Nat /\ setup.folds \in Nat /\ setup.bars \in Nat
           /\ setup.folds * S!Segment + S!Segment <= setup.bars
<1>1. setup.folds \in Nat /\ setup.bars \in Nat
  BY SetupFits
<1>. DEFINE n == setup.folds
            s == S!Segment
<1>2. s = setup.bars \div (n + 1)
  BY DEF S!Segment
<1>. HIDE DEF n, s
<1>3. n \in Nat
  BY <1>1 DEF n
<1>4. s \in Nat /\ s * (n + 1) <= setup.bars
  BY <1>1, <1>2, <1>3, Quotient
<1>5. s * (n + 1) = n * s + s
  BY <1>3, <1>4
<1>. QED  BY <1>1, <1>4, <1>5 DEF n, s

LEMMA WalkStep ==
    ASSUME HonestInv, setup.by = "walk", UNCHANGED <<setup, best, answer>>, Shape', Sorted',
           stage' \in {"folds", "done"}, FoldInv'
    PROVE  HonestInv'
<1>1. best' = <<>> /\ answer' = <<>> /\ ~S!Auto'
  BY DEF HonestInv, StageInv, S!Auto
<1>2. StageInv' /\ BestInv'
  BY <1>1 DEF HonestInv, StageInv, BestInv
<1>3. S!ProposalsReproduce' /\ S!NothingBetterUnused'
  BY <1>1 DEF S!ProposalsReproduce, S!NothingBetterUnused, S!Improved, S!None
<1>. QED  BY <1>2, <1>3 DEF HonestInv

LEMMA SameSegments ==
    ASSUME UNCHANGED setup
    PROVE  /\ S!Segment' = S!Segment
           /\ \A fs, g : WalkedTo(fs, g)' <=> WalkedTo(fs, g)
BY DEF S!Segment, WalkedTo, S!TrainEnd, S!TestBegin, S!TestEnd

LEMMA WalkWaits ==
    ASSUME NEW fs, NEW g \in Nat, WalkedTo(fs, g)
    PROVE  WalkedTo(fs, g + 1)
<1>1. Len(fs) \in Nat
  BY DEF WalkedTo, IsSeq
<1>2. \A m \in 1..Len(fs) : m..(g - (Len(fs) - m)) \subseteq m..(g + 1 - (Len(fs) - m))
  BY <1>1
<1>. QED  BY <1>1, <1>2 DEF WalkedTo

LEMMA WalkGoesOn ==
    ASSUME NEW fs, NEW g \in Nat, WalkedTo(fs, g), NEW e, e.k = g + 1, e.train = 1..S!TrainEnd(g + 1),
           e.test = S!TestBegin(g + 1)..S!TestEnd(g + 1)
    PROVE  WalkedTo(Append(fs, e), g + 1)
<1>. DEFINE to == Append(fs, e)
            n == Len(fs)
<1>1. PICK V : fs \in Seq(V)
  BY DEF WalkedTo, IsSeq
<1>2. /\ n \in Nat /\ to \in Seq(V \cup {e}) /\ Len(to) = n + 1 /\ to[n + 1] = e
      /\ \A m \in 1..n : to[m] = fs[m]
  BY <1>1
<1>. HIDE DEF to
<1>3. \A m \in 1..n :
        LET k == fs[m].k
        IN  /\ k \in m..(g - (n - m)) /\ fs[m].train = 1..S!TrainEnd(k) /\ fs[m].test = S!TestBegin(k)..S!TestEnd(k)
            /\ \A j \in m + 1..n : k < fs[j].k
  BY DEF WalkedTo
<1>. HIDE DEF n
<1>4. ASSUME NEW m \in 1..n + 1
      PROVE  /\ to[m].k \in m..(g + 1 - (n + 1 - m))
             /\ to[m].train = 1..S!TrainEnd(to[m].k) /\ to[m].test = S!TestBegin(to[m].k)..S!TestEnd(to[m].k)
             /\ \A j \in m + 1..n + 1 : to[m].k < to[j].k
  <2>1. CASE m \in 1..n
    <3>1. to[m] = fs[m] /\ fs[m].k \in m..(g - (n - m)) /\ g + 1 - (n + 1 - m) = g - (n - m)
      BY <1>2, <1>3, <2>1
    <3>2. fs[m].train = 1..S!TrainEnd(fs[m].k) /\ fs[m].test = S!TestBegin(fs[m].k)..S!TestEnd(fs[m].k)
      BY <1>3, <2>1
    <3>3. ASSUME NEW j \in m + 1..n + 1 PROVE fs[m].k < to[j].k
      <4>1. CASE j \in m + 1..n
        BY <1>2, <2>1, <4>1, <1>3
      <4>2. CASE j = n + 1
        <5>1. to[j].k = g + 1 /\ fs[m].k <= g
          BY <1>2, <2>1, <3>1, <4>2
        <5>. QED  BY <2>1, <3>1, <5>1
      <4>. QED  BY <1>2, <4>1, <4>2
    <3>. QED  BY <3>1, <3>2, <3>3
  <2>2. CASE m = n + 1
    <3>1. n <= g
      <4>1. CASE n = 0
        BY <4>1
      <4>2. CASE n > 0
        BY <1>2, <1>3, <4>2
      <4>. QED  BY <1>2, <4>1, <4>2
    <3>2. to[m] = e /\ g + 1 \in m..(g + 1 - (n + 1 - m)) /\ m + 1..n + 1 = {}
      BY <1>2, <2>2, <3>1
    <3>. QED  BY <3>2
  <2>. QED  BY <1>2, <2>1, <2>2
<1>5. IsSeq(to)
  BY <1>2 DEF IsSeq
<1>6. \A m \in 1..Len(to) :
        /\ to[m].k \in m..(g + 1 - (Len(to) - m))
        /\ to[m].train = 1..S!TrainEnd(to[m].k) /\ to[m].test = S!TestBegin(to[m].k)..S!TestEnd(to[m].k)
        /\ \A j \in m + 1..Len(to) : to[m].k < to[j].k
  BY <1>2, <1>4
<1>7. WalkedTo(to, g + 1)
  BY <1>5, <1>6 DEF WalkedTo
<1>. QED  BY <1>7 DEF to

LEMMA FoldsAre ==
    ASSUME UNCHANGED setup, S!Segment >= 2, gen' <= setup.folds, WalkedTo(folds', gen')
    PROVE  FoldInv'
<1>1. S!Segment' = S!Segment
  BY DEF S!Segment
<1>2. \A k : S!TrainEnd(k)' = S!TrainEnd(k) /\ S!TestBegin(k)' = S!TestBegin(k) /\ S!TestEnd(k)' = S!TestEnd(k)
  BY <1>1 DEF S!TrainEnd, S!TestBegin, S!TestEnd
<1>3. WalkedTo(folds, gen)'
  BY <1>2 DEF WalkedTo
<1>. QED  BY <1>1, <1>3 DEF FoldInv

(* What a walk knows while it is under way.                                *)
LEMMA Walking ==
    ASSUME S!SearchAssumption, HonestInv, stage = "folds"
    PROVE  /\ Shape /\ Sorted /\ gen \in Nat /\ axis \in Nat /\ setup.by = "walk"
           /\ S!Segment >= 2 /\ gen <= setup.folds /\ setup.folds \in Nat /\ WalkedTo(folds, gen)
BY SetupFits DEF HonestInv, Shape, StageInv, FoldInv

LEMMA StartFoldsStep ==
    ASSUME S!SearchAssumption, HonestInv, S!StartFolds
    PROVE  HonestInv'
<1>1. /\ stage = "start" /\ setup.by = "walk" /\ folds = <<>> /\ gen = 0
      /\ stage' = IF S!Segment < 2 THEN "done" ELSE "folds"
      /\ UNCHANGED <<setup, measured, trials, gen, best, axis, answer, folds>>
  BY DEF S!StartFolds, HonestInv, StageInv
<1>2. Shape /\ Sorted /\ Grown /\ MeasuresFit' /\ gen' \in Nat /\ axis' \in Nat
  BY <1>1, NothingLearnt DEF HonestInv, Shape
<1>3. Shape' /\ Sorted'
  BY <1>1, <1>2, TrialsKept
<1>4. CASE S!Segment < 2
  BY <1>1, <1>4, NoFolds, <1>3, WalkStep
<1>5. CASE ~(S!Segment < 2)
  BY <1>1, <1>5, SegmentFits, FoldsAre, <1>3, WalkStep DEF HonestInv, FoldInv
<1>. QED  BY <1>4, <1>5

LEMMA FoldStep ==
    ASSUME S!SearchAssumption, HonestInv, S!Fold
    PROVE  HonestInv'
<1>1. stage = "folds" /\ UNCHANGED <<setup, stage, gen, axis, best, answer, folds>>
  BY DEF S!Fold
<1>0. PICK c \in S!Candidates \ seen :
        \E out \in S!Says(c, 1, S!TrainEnd(gen + 1)) :
          /\ S!Learn(c, 1, S!TrainEnd(gen + 1), out)
          /\ trials' = IF out.closed < setup.minTrades THEN trials ELSE S!Ranked(trials, S!Trial(c, out))
  BY DEF S!Fold
<1>2. PICK out \in S!Says(c, 1, S!TrainEnd(gen + 1)) :
        /\ S!Learn(c, 1, S!TrainEnd(gen + 1), out)
        /\ trials' = IF out.closed < setup.minTrades THEN trials ELSE S!Ranked(trials, S!Trial(c, out))
  BY <1>0
<1>3. /\ Shape /\ Sorted /\ gen' \in Nat /\ axis' \in Nat /\ setup.by = "walk"
      /\ S!Segment >= 2 /\ gen' <= setup.folds /\ WalkedTo(folds', gen')
  BY <1>1, Walking
<1>4. /\ out \in setup.outcomes /\ Grown
      /\ measured' = [k \in DOMAIN measured' |-> measured'[k]]
      /\ \A k \in DOMAIN measured' : measured'[k] \in setup.outcomes
  <2>. DEFINE b == S!TrainEnd(gen + 1)
  <2>1. out \in S!Says(c, 1, b) /\ S!Learn(c, 1, b, out)
    BY <1>2
  <2>. HIDE DEF b
  <2>. QED  BY <1>3, <2>1, Learns
<1>5. MeasuresFit'
  BY <1>1, <1>4 DEF MeasuresFit
<1>6. Shape' /\ Sorted'
  <2>1. CASE trials' = trials
    BY <1>1, <1>3, <1>4, <1>5, <2>1, TrialsKept
  <2>2. CASE trials' = S!Ranked(trials, S!Trial(c, out))
    <3>1. IsTrial(S!Trial(c, out))
      BY <1>4, TrialIs DEF IsTrial
    <3>. QED  BY <1>1, <1>3, <1>4, <1>5, <2>2, <3>1, TrialRanked
  <2>. QED  BY <1>2, <2>1, <2>2
<1>7. FoldInv'
  BY <1>1, <1>3, FoldsAre
<1>. QED  BY <1>1, <1>3, <1>6, <1>7, WalkStep

LEMMA ScoreStep ==
    ASSUME S!SearchAssumption, HonestInv, S!Score
    PROVE  HonestInv'
<1>. DEFINE a == S!TestBegin(gen + 1)
            b == S!TestEnd(gen + 1)
            c == trials[1].cfg
            e(out) == [train |-> 1..S!TrainEnd(gen + 1), best |-> trials[1], out |-> out, test |-> a..b, k |-> gen + 1]
<1>1. /\ stage = "folds" /\ gen < setup.folds /\ gen' = gen + 1 /\ trials' = <<>>
      /\ UNCHANGED <<setup, stage, axis, best, answer>>
  BY DEF S!Score, S!None
<1>2. PICK out \in S!Says(c, a, b) : S!Learn(c, a, b, out) /\ folds' = Append(folds, e(out))
  BY DEF S!Score
<1>3. /\ e(out).k = gen + 1 /\ e(out).train = 1..S!TrainEnd(gen + 1)
      /\ e(out).test = S!TestBegin(gen + 1)..S!TestEnd(gen + 1)
  OBVIOUS
<1>. HIDE DEF a, b, c, e
<1>4. /\ Shape /\ Sorted /\ gen \in Nat /\ axis' \in Nat /\ setup.by = "walk" /\ setup.folds \in Nat
      /\ S!Segment >= 2 /\ WalkedTo(folds, gen)
  BY <1>1, Walking
<1>5. /\ out \in setup.outcomes /\ Grown
      /\ measured' = [k \in DOMAIN measured' |-> measured'[k]]
      /\ \A k \in DOMAIN measured' : measured'[k] \in setup.outcomes
  BY <1>2, <1>4, Learns
<1>6. MeasuresFit'
  BY <1>1, <1>5 DEF MeasuresFit
<1>7. gen' \in Nat /\ gen' <= setup.folds
  BY <1>1, <1>4
<1>8. Shape' /\ Sorted'
  BY <1>1, <1>4, <1>5, <1>6, <1>7, TrialsKept
<1>9. WalkedTo(folds', gen')
  BY <1>3, <1>4, WalkGoesOn, <1>1, <1>2
<1>10. FoldInv'
  BY <1>1, <1>4, <1>7, <1>9, FoldsAre
<1>. QED  BY <1>1, <1>4, <1>8, <1>10, WalkStep

LEMMA NoTrialStep ==
    ASSUME S!SearchAssumption, HonestInv, S!NoTrial
    PROVE  HonestInv'
<1>1. /\ stage = "folds" /\ gen < setup.folds /\ gen' = gen + 1
      /\ UNCHANGED <<setup, stage, measured, trials, axis, best, answer, folds>>
  BY DEF S!NoTrial
<1>2. /\ Shape /\ Sorted /\ gen \in Nat /\ axis' \in Nat /\ setup.by = "walk" /\ setup.folds \in Nat
      /\ S!Segment >= 2 /\ WalkedTo(folds, gen)
  BY <1>1, Walking
<1>3. Grown /\ MeasuresFit' /\ gen' \in Nat /\ gen' <= setup.folds
  BY <1>1, <1>2, NothingLearnt
<1>4. Shape' /\ Sorted'
  BY <1>1, <1>2, <1>3, TrialsKept
<1>5. WalkedTo(folds', gen')
  BY <1>2, WalkWaits, <1>1
<1>6. FoldInv'
  BY <1>1, <1>2, <1>3, <1>5, FoldsAre
<1>. QED  BY <1>1, <1>2, <1>4, <1>6, WalkStep

LEMMA WalkedStep ==
    ASSUME S!SearchAssumption, HonestInv, S!Walked
    PROVE  HonestInv'
<1>1. /\ stage = "folds" /\ stage' = "done"
      /\ UNCHANGED <<setup, measured, trials, gen, axis, best, answer, folds>>
  BY DEF S!Walked
<1>2. /\ Shape /\ Sorted /\ gen' \in Nat /\ axis' \in Nat /\ setup.by = "walk"
      /\ S!Segment >= 2 /\ gen' <= setup.folds /\ WalkedTo(folds', gen')
  BY <1>1, Walking
<1>3. Grown /\ MeasuresFit'
  BY <1>1, <1>2, NothingLearnt
<1>4. Shape' /\ Sorted'
  BY <1>1, <1>2, <1>3, TrialsKept
<1>5. FoldInv'
  BY <1>1, <1>2, FoldsAre
<1>. QED  BY <1>1, <1>2, <1>4, <1>5, WalkStep

LEMMA HonestInit ==
    ASSUME S!SearchAssumption, S!Init
    PROVE  HonestInv
<1>1. /\ setup \in Searches /\ stage = "start" /\ measured = <<>> /\ trials = <<>> /\ gen = 0 /\ best = <<>>
      /\ axis = 0 /\ answer = <<>> /\ folds = <<>>
  BY DEF S!Init, S!None
<1>2. <<>> \in Seq({}) /\ Len(<<>>) = 0 /\ 1..0 = {} /\ DOMAIN <<>> = {} /\ <<>> = [k \in {} |-> <<>>[k]]
  OBVIOUS
<1>3. IsSeq(<<>>)
  BY <1>2 DEF IsSeq
<1>4. Shape /\ Sorted
  BY <1>1, <1>2, <1>3 DEF Shape, Sorted
<1>5. StageInv /\ BestInv
  BY <1>1, <1>2 DEF StageInv, BestInv
<1>6. FoldInv
  BY <1>1, <1>2, <1>3 DEF FoldInv, WalkedTo
<1>7. S!ProposalsReproduce /\ S!NothingBetterUnused
  BY <1>1 DEF S!ProposalsReproduce, S!NothingBetterUnused, S!Improved, S!None
<1>. QED  BY <1>4, <1>5, <1>6, <1>7 DEF HonestInv

LEMMA HonestNext ==
    ASSUME S!SearchAssumption, HonestInv, [S!Next]_S!svars
    PROVE  HonestInv'
<1>1. CASE S!Start  BY <1>1, StartStep
<1>2. CASE S!Sample  BY <1>2, SampleStep
<1>3. CASE S!Mutate  BY <1>3, MutateStep
<1>4. CASE S!Generation  BY <1>4, GenerationStep
<1>5. CASE S!Timeout  BY <1>5, NothingMoves DEF S!Timeout
<1>6. CASE S!Interrupt  BY <1>6, NothingMoves DEF S!Interrupt
<1>7. CASE S!Searched  BY <1>7, SearchedStep
<1>8. CASE S!Try  BY <1>8, TryStep
<1>9. CASE S!Refined  BY <1>9, RefinedStep
<1>10. CASE S!Judge  BY <1>10, JudgeStep
<1>11. CASE S!StartFolds  BY <1>11, StartFoldsStep
<1>12. CASE S!Fold  BY <1>12, FoldStep
<1>13. CASE S!Score  BY <1>13, ScoreStep
<1>14. CASE S!NoTrial  BY <1>14, NoTrialStep
<1>15. CASE S!Walked  BY <1>15, WalkedStep
<1>16. CASE UNCHANGED S!svars  BY <1>16, NothingMoves DEF S!svars
<1>. QED
  BY <1>1, <1>2, <1>3, <1>4, <1>5, <1>6, <1>7, <1>8, <1>9, <1>10, <1>11, <1>12, <1>13, <1>14, <1>15, <1>16
  DEF S!Next

-----------------------------------------------------------------------------
(* The folds of a walk lie apart.                                          *)
LEMMA Segments ==
    ASSUME S!SearchAssumption, HonestInv, S!Segment >= 2, NEW k \in 1..setup.folds
    PROVE  /\ setup.folds \in Nat /\ setup.bars \in Nat /\ S!Segment \in Nat /\ S!TrainEnd(k) \in Nat
           /\ S!TestBegin(k) = S!TrainEnd(k) + 1 /\ S!TestEnd(k) \in Nat
           /\ S!TrainEnd(k) >= S!Segment /\ S!TestEnd(k) >= S!TrainEnd(k) + 2 /\ S!TestEnd(k) <= setup.bars
           /\ S!TrainEnd(1) = S!Segment /\ S!TestEnd(setup.folds) = setup.bars
           /\ \A l \in 1..setup.folds : k < l => S!TestEnd(k) <= S!TrainEnd(l)
           /\ k > 1 => S!TestEnd(k - 1) = S!TrainEnd(k)
<1>. DEFINE s == S!Segment
            n == setup.folds
            b == setup.bars
<1>1. s \in Nat /\ n \in Nat /\ b \in Nat /\ n * s + s <= b /\ s >= 2
  BY SegmentFits
<1>2. /\ \A l : S!TrainEnd(l) = l * s /\ S!TestBegin(l) = l * s + 1
      /\ \A l : S!TestEnd(l) = IF l = n THEN b ELSE (l + 1) * s
  BY DEF S!TrainEnd, S!TestBegin, S!TestEnd
<1>3. k \in 1..n
  OBVIOUS
<1>. HIDE DEF s, n, b
<1>4. k * s \in Nat /\ n * s \in Nat /\ (k + 1) * s = k * s + s
  <2>1. k * s \in Nat /\ (k + 1) * s = k * s + s
    BY <1>1, <1>3, TimesGrows, k \in Nat, k + 1 \in Nat, k < k + 1
  <2>2. n * s \in Nat
    BY <1>1, TimesGrows, n + 1 \in Nat, n < n + 1
  <2>. QED  BY <2>1, <2>2
<1>5. k * s >= s
  BY <1>1, <1>3, TimesGrows, <1>4
<1>6. ASSUME NEW l \in 1..n, k < l PROVE (k + 1) * s <= l * s /\ l * s \in Nat /\ k # n
  BY <1>1, <1>3, <1>6, TimesGrows, <1>4
<1>7. k # n => (k + 1) * s <= n * s
  BY <1>1, <1>3, <1>6
<1>8. k > 1 => k - 1 # n /\ (k - 1) + 1 = k
  BY <1>1, <1>3
<1>9. 1 * s = s
  BY <1>1
<1>10. S!TestEnd(k) \in Nat /\ S!TestEnd(k) >= k * s + 2 /\ S!TestEnd(k) <= b
  BY <1>1, <1>2, <1>4, <1>7
<1>11. \A l \in 1..n : k < l => S!TestEnd(k) <= S!TrainEnd(l)
  BY <1>2, <1>6
<1>12. k > 1 => S!TestEnd(k - 1) = S!TrainEnd(k)
  BY <1>2, <1>8
<1>13. /\ S!TrainEnd(k) \in Nat /\ S!TestBegin(k) = S!TrainEnd(k) + 1 /\ S!TrainEnd(k) >= s
       /\ S!TrainEnd(1) = s /\ S!TestEnd(n) = b /\ S!TrainEnd(k) = k * s
  BY <1>2, <1>4, <1>5, <1>9
<1>. QED  BY <1>1, <1>10, <1>11, <1>12, <1>13 DEF s, n, b

LEMMA UnseenFolds ==
    ASSUME S!SearchAssumption, HonestInv
    PROVE  S!FoldsAreUnseen
<1>. DEFINE W == Len(folds)
<1>1. W \in Nat /\ DOMAIN folds = 1..W /\ (folds = <<>> <=> W = 0)
  BY DEF HonestInv, FoldInv, WalkedTo, IsSeq
<1>2. folds # <<>> => S!Segment >= 2 /\ gen <= setup.folds /\ gen \in Nat /\ setup.folds \in Nat
  BY SetupFits DEF HonestInv, FoldInv, Shape
<1>3. \A m \in 1..W :
        /\ folds[m].k \in m..(gen - (W - m))
        /\ folds[m].train = 1..S!TrainEnd(folds[m].k)
        /\ folds[m].test = S!TestBegin(folds[m].k)..S!TestEnd(folds[m].k)
        /\ \A n \in m + 1..W : folds[m].k < folds[n].k
  BY DEF HonestInv, FoldInv, WalkedTo
<1>. HIDE DEF W
<1>4. ASSUME NEW m \in 1..W
      PROVE  /\ folds[m].k \in 1..setup.folds /\ S!Segment >= 2
             /\ W = setup.folds => folds[m].k = m
  <2>1. folds # <<>>
    BY <1>1, <1>4
  <2>. QED  BY <1>1, <1>2, <1>3, <1>4, <2>1
<1>5. ASSUME NEW m \in 1..W
      PROVE  folds[m].test # {} /\ folds[m].train \cap folds[m].test = {}
  <2>. DEFINE k == folds[m].k
  <2>1. k \in 1..setup.folds /\ S!Segment >= 2 /\ folds[m].train = 1..S!TrainEnd(k) /\ folds[m].test = S!TestBegin(k)..S!TestEnd(k)
    BY <1>3, <1>4
  <2>. HIDE DEF k
  <2>2. S!TrainEnd(k) \in Nat /\ S!TestBegin(k) = S!TrainEnd(k) + 1 /\ S!TestEnd(k) \in Nat /\ S!TestEnd(k) >= S!TrainEnd(k) + 2
    BY <2>1, Segments
  <2>3. S!TestBegin(k) \in S!TestBegin(k)..S!TestEnd(k)
    BY <2>2
  <2>4. (1..S!TrainEnd(k)) \cap (S!TestBegin(k)..S!TestEnd(k)) = {}
    BY <2>2
  <2>. QED  BY <2>1, <2>3, <2>4
<1>6. ASSUME NEW m \in 1..W, NEW n \in 1..W, m < n
      PROVE  folds[m].test \cap folds[n].test = {}
  <2>. DEFINE k == folds[m].k
              l == folds[n].k
  <2>1. /\ k \in 1..setup.folds /\ l \in 1..setup.folds /\ S!Segment >= 2
        /\ folds[m].test = S!TestBegin(k)..S!TestEnd(k) /\ folds[n].test = S!TestBegin(l)..S!TestEnd(l)
    BY <1>3, <1>4
  <2>2. k < l
    BY <1>1, <1>6, <1>3
  <2>. HIDE DEF k, l
  <2>3. S!TestEnd(k) \in Nat /\ S!TestEnd(k) <= S!TrainEnd(l) /\ S!TestBegin(k) = S!TrainEnd(k) + 1 /\ S!TrainEnd(k) \in Nat
    BY <2>1, <2>2, Segments
  <2>4. S!TrainEnd(l) \in Nat /\ S!TestBegin(l) = S!TrainEnd(l) + 1 /\ S!TestEnd(l) \in Nat
    BY <2>1, Segments
  <2>5. (S!TestBegin(k)..S!TestEnd(k)) \cap (S!TestBegin(l)..S!TestEnd(l)) = {}
    BY <2>3, <2>4
  <2>. QED  BY <2>1, <2>5
<1>7. ASSUME W = setup.folds, folds # <<>>
      PROVE  UNION {folds[m].test : m \in DOMAIN folds} = (S!Segment + 1)..setup.bars
  <2>. DEFINE b == setup.bars
              s == S!Segment
  <2>1. \A m \in 1..W : folds[m].test = S!TestBegin(m)..S!TestEnd(m)
    BY <1>3, <1>4, <1>7
  <2>2. W \in 1..W /\ 1 \in 1..W /\ S!Segment >= 2
    BY <1>1, <1>2, <1>7
  <2>3. /\ b \in Nat /\ s \in Nat /\ S!TrainEnd(1) = s /\ S!TestEnd(W) = b
        /\ \A m \in 1..W : /\ S!TrainEnd(m) \in Nat /\ S!TestBegin(m) = S!TrainEnd(m) + 1 /\ S!TestEnd(m) \in Nat
                           /\ S!TrainEnd(m) >= s /\ S!TestEnd(m) <= b /\ (m > 1 => S!TestEnd(m - 1) = S!TrainEnd(m))
    BY <1>7, <2>2, Segments
  <2>. HIDE DEF b, s
  <2>4. ASSUME NEW m \in 1..W, NEW x \in folds[m].test PROVE x \in s + 1..b
    BY <2>1, <2>3
  <2>5. ASSUME NEW x \in s + 1..b PROVE \E m \in 1..W : x \in folds[m].test
    <3>. DEFINE Y == {m \in 1..W : x <= S!TestEnd(m)}
    <3>1. W \in Y /\ Y \subseteq Nat
      BY <2>2, <2>3
    <3>2. PICK m \in Y : \A l \in Y : m <= l
      <4>. HIDE DEF Y
      <4>. QED  BY <3>1, LeastOf
    <3>3. m \in 1..W /\ x <= S!TestEnd(m) /\ x \in Nat /\ x >= s + 1
      BY <2>3
    <3>4. x >= S!TestBegin(m)
      <4>1. CASE m = 1
        BY <2>3, <3>3, <4>1
      <4>2. CASE m > 1
        BY <1>1, <3>2, <3>3, <4>2, <2>3
      <4>. QED  BY <1>1, <3>3, <4>1, <4>2
    <3>5. x \in S!TestBegin(m)..S!TestEnd(m)
      BY <2>3, <3>3, <3>4
    <3>. QED  BY <2>1, <3>3, <3>5
  <2>6. UNION {folds[m].test : m \in 1..W} = s + 1..b
    BY <2>4, <2>5
  <2>. QED  BY <1>1, <2>6 DEF s, b
<1>8. \A m, n \in 1..W : m # n => folds[m].test \cap folds[n].test = {}
  <2>1. ASSUME NEW m \in 1..W, NEW n \in 1..W, m # n PROVE folds[m].test \cap folds[n].test = {}
    BY <1>6, <1>1, <2>1
  <2>. QED  BY <2>1
<1>. QED  BY <1>1, <1>5, <1>7, <1>8 DEF S!FoldsAreUnseen, S!None, W

(* Whatever is searched for, by whom and on how many bars, a search is     *)
(* honest of itself: the configuration it proposes is one that was         *)
(* replayed and has the numbers it is judged by, no usable trial that was  *)
(* better is left unused, and no fold of a walk forward is scored on a bar *)
(* that chose its winner, or on one another fold is scored on.             *)
THEOREM SearchesAreHonest == ReplaysSpec => []SearchIsHonest
<1>1. ReplaysInit => HonestInv
  BY ReplaysAssumption, HonestInit DEF ReplaysInit
<1>2. HonestInv /\ [ReplaysNext]_parts => HonestInv'
  BY ReplaysAssumption, HonestNext DEF ReplaysNext, svars, S!svars, parts
<1>3. HonestInv => SearchIsHonest
  BY ReplaysAssumption, UnseenFolds DEF HonestInv, S!SearchIsHonest, SearchIsHonest
<1>. QED  BY <1>1, <1>2, <1>3, PTL DEF ReplaysSpec
-----------------------------------------------------------------------------
(* The scale-out ladder.                                                   *)

LEMMA GreatestOf ==
    ASSUME NEW n \in Nat, NEW X, X \subseteq 1..n, X # {}
    PROVE  \E x \in X : \A y \in X : x >= y
<1>. DEFINE Y == {k \in Nat : \A x \in X : x <= k}
<1>1. n \in Y /\ Y \subseteq Nat
  OBVIOUS
<1>2. PICK k \in Y : \A m \in Y : k <= m
  <2>. HIDE DEF Y
  <2>. QED  BY <1>1, LeastOf
<1>3. k \in X
  <2>1. SUFFICES ASSUME k \notin X PROVE FALSE
    OBVIOUS
  <2>2. k \in Nat /\ \A x \in X : x \in 1..n /\ x <= k /\ x # k
    BY <2>1
  <2>3. k > 0 /\ k - 1 \in Nat
    <3>1. PICK x \in X : TRUE
      OBVIOUS
    <3>. QED  BY <2>2, <3>1
  <2>4. \A x \in X : x <= k - 1
    BY <2>2
  <2>5. k - 1 \in Y
    BY <2>3, <2>4
  <2>. QED  BY <1>2, <2>2, <2>5
<1>. QED  BY <1>2, <1>3

(* A rung that is due is one no sale has reached.                          *)
LEMMA DueInReplay ==
    ASSUME NEW c, Len(B!SortedRungs(c.ladder)) \in Nat, NEW taken \in Nat, NEW p, NEW entry
    PROVE  LET r == B!NextPartial(c, p, entry, taken).rung IN r = 0 \/ (r \in Nat /\ r > taken)
<1>. DEFINE rungs == B!SortedRungs(c.ladder)
            reached == {k \in (taken + 1) .. Len(rungs) : B!GainAtLeast(p, entry, rungs[k].profit)}
<1>1. reached # {} => B!Max(reached) \in Nat /\ B!Max(reached) > taken
  <2>1. reached \subseteq 1..Len(rungs) /\ \A k \in reached : k \in Nat /\ k > taken
    OBVIOUS
  <2>. HIDE DEF reached
  <2>2. ASSUME reached # {} PROVE B!Max(reached) \in reached
    BY <2>1, <2>2, GreatestOf DEF B!Max
  <2>. QED  BY <2>1, <2>2
<1>2. B!NextPartial(c, p, entry, taken).rung = IF reached = {} THEN 0 ELSE B!Max(reached)
  BY DEF B!NextPartial
<1>. HIDE DEF reached
<1>. QED  BY <1>1, <1>2

LEMMA DueLive ==
    ASSUME NEW c, Len(L!SortedRungs(c.ladder)) \in Nat, NEW taken \in Nat, NEW p, NEW entry
    PROVE  LET r == L!NextPartial(c, p, entry, taken).rung IN r = 0 \/ (r \in Nat /\ r > taken)
<1>. DEFINE rungs == L!SortedRungs(c.ladder)
            reached == {k \in (taken + 1) .. Len(rungs) : L!GainAtLeast(p, entry, rungs[k].profit)}
<1>1. reached # {} => L!Max(reached) \in Nat /\ L!Max(reached) > taken
  <2>1. reached \subseteq 1..Len(rungs) /\ \A k \in reached : k \in Nat /\ k > taken
    OBVIOUS
  <2>. HIDE DEF reached
  <2>2. ASSUME reached # {} PROVE L!Max(reached) \in reached
    BY <2>1, <2>2, GreatestOf DEF L!Max
  <2>. QED  BY <2>1, <2>2
<1>2. L!NextPartial(c, p, entry, taken).rung = IF reached = {} THEN 0 ELSE L!Max(reached)
  BY DEF L!NextPartial
<1>. HIDE DEF reached
<1>. QED  BY <1>1, <1>2

(* How the rungs a sale takes are counted up to the last of them.          *)
LEMMA RungsGoOn ==
    ASSUME NEW taken \in Nat, NEW r \in Nat, r > taken, NEW s, s = [k \in 1..taken |-> k],
           NEW more, more = [k \in 1..r - taken |-> taken + k]
    PROVE  s \o more = [k \in 1..r |-> k]
<1>1. s \in Seq(Nat) /\ more \in Seq(Nat) /\ Len(s) = taken /\ Len(more) = r - taken
  OBVIOUS
<1>2. Len(s \o more) = r /\ s \o more \in Seq(Nat)
  BY <1>1
<1>3. ASSUME NEW k \in 1..r PROVE (s \o more)[k] = k
  <2>1. CASE k <= taken
    BY <1>1, <2>1
  <2>2. CASE k > taken
    BY <2>2, <1>1
  <2>. QED  BY <2>1, <2>2
<1>. QED  BY <1>2, <1>3

(* The rungs a trip has sold are the first ones, as many as it has taken.  *)
TripInOrder(t) ==
    /\ {"taken", "rungs"} \subseteq DOMAIN t
    /\ t.taken \in Nat /\ t.rungs = [k \in 1..t.taken |-> k]

TripsInOrder ==
    /\ replay \in Settings
    /\ trip = [s \in B!Traded |-> trip[s]] /\ \A s \in B!Traded : TripInOrder(trip[s])
    /\ IsSeq(trips) /\ \A k \in 1..Len(trips) : \A m \in DOMAIN trips[k].rungs : trips[k].rungs[m] = m

LEMMA SellInOrder ==
    ASSUME TripsInOrder, UNCHANGED replay, NEW s \in B!Traded, NEW n, NEW px, NEW kind, NEW r, NEW top,
           r = 0 \/ (r \in Nat /\ r > trip[s].taken), B!Sell(s, n, px, kind, r, top)
    PROVE  TripsInOrder'
<1>. DEFINE t == trip[s]
            net == n * B!Plus(px, -replay.costs.adverse) - (pos[s].cost * n) \div pos[s].qty - replay.costs.fixed - B!EntryShare(s, n)
            whole == [t EXCEPT !.fees = @ - B!EntryShare(s, n), !.pnl = @ + net,
                               !.basis = @ + (pos[s].cost * n) \div pos[s].qty,
                               !.qty = @ + n, !.proceeds = @ + n * B!Plus(px, -replay.costs.adverse),
                               !.stopped = @ \/ kind \in {"stop-loss", "trailing-stop"},
                               !.rungs = @ \o B!RungsUpTo(s, r),
                               !.taken = IF r = 0 THEN @ ELSE B!NextTaken(s, r)]
<1>1. \/ trip' = [trip EXCEPT ![s] = whole] /\ trips' = trips
      \/ /\ trip' = [trip EXCEPT ![s] = B!NoTrip]
         /\ \E x : trips' = Append(trips, x) /\ x.rungs = whole.rungs
  BY DEF B!Sell
<1>2. TripInOrder(whole)
  <2>1. TripInOrder(t)
    BY DEF TripsInOrder
  <2>2. {"taken", "rungs"} \subseteq DOMAIN whole /\ whole.rungs = t.rungs \o B!RungsUpTo(s, r)
        /\ whole.taken = IF r = 0 THEN t.taken ELSE r
    BY <2>1 DEF TripInOrder, B!NextTaken
  <2>3. CASE r = 0
    <3>1. B!RungsUpTo(s, r) = <<>>
      BY <2>3 DEF B!RungsUpTo
    <3>2. t.rungs \in Seq(Nat)
      BY <2>1 DEF TripInOrder
    <3>3. whole.rungs = t.rungs
      BY <2>2, <3>1, <3>2
    <3>. HIDE DEF whole, t
    <3>. QED  BY <2>1, <2>2, <2>3, <3>3 DEF TripInOrder
  <2>4. CASE r # 0
    <3>1. B!RungsUpTo(s, r) = [k \in 1..r - t.taken |-> t.taken + k]
      BY <2>4 DEF B!RungsUpTo
    <3>2. t.rungs \o B!RungsUpTo(s, r) = [k \in 1..r |-> k]
      <4>. DEFINE a == t.rungs
                  b == B!RungsUpTo(s, r)
                  d == t.taken
      <4>1. d \in Nat /\ r \in Nat /\ r > d /\ a = [k \in 1..d |-> k] /\ b = [k \in 1..r - d |-> d + k]
        BY <2>1, <2>4, <3>1 DEF TripInOrder
      <4>. HIDE DEF a, b, d
      <4>2. a \o b = [k \in 1..r |-> k]
        BY <4>1, RungsGoOn
      <4>. QED  BY <4>2 DEF a, b
    <3>. HIDE DEF whole, t
    <3>. QED  BY <2>1, <2>2, <2>4, <3>2 DEF TripInOrder
  <2>. QED  BY <2>3, <2>4
<1>. HIDE DEF whole, t
<1>3. CASE trip' = [trip EXCEPT ![s] = whole] /\ trips' = trips
  BY <1>2, <1>3 DEF TripsInOrder, B!Traded, TripInOrder
<1>4. CASE /\ trip' = [trip EXCEPT ![s] = B!NoTrip]
           /\ \E x : trips' = Append(trips, x) /\ x.rungs = whole.rungs
  <2>1. TripInOrder(B!NoTrip)
    BY DEF TripInOrder, B!NoTrip
  <2>2. PICK x : trips' = Append(trips, x) /\ x.rungs = whole.rungs
    BY <1>4
  <2>3. PICK V : trips \in Seq(V)
    BY DEF TripsInOrder, IsSeq
  <2>4. trips \in Seq(V \cup {x}) /\ x \in V \cup {x}
    BY <2>3
  <2>5. /\ trips' \in Seq(V \cup {x}) /\ Len(trips') = Len(trips) + 1 /\ Len(trips) \in Nat
        /\ \A k \in 1..Len(trips) : trips'[k] = trips[k]
        /\ trips'[Len(trips) + 1] = x
    BY <2>2, <2>4
  <2>6. \A m \in DOMAIN x.rungs : x.rungs[m] = m
    BY <1>2, <2>2 DEF TripInOrder
  <2>7. \A k \in 1..Len(trips)' : \A m \in DOMAIN trips'[k].rungs : trips'[k].rungs[m] = m
    BY <2>5, <2>6 DEF TripsInOrder
  <2>8. IsSeq(trips')
    BY <2>5 DEF IsSeq
  <2>9. trip' = [q \in B!Traded |-> trip'[q]] /\ \A q \in B!Traded : TripInOrder(trip'[q])
    BY <1>4, <2>1 DEF TripsInOrder
  <2>. QED  BY <2>7, <2>8, <2>9 DEF TripsInOrder, TripInOrder, IsSeq
<1>. QED  BY <1>1, <1>3, <1>4

(* What leaves the trips alone, or only tells a trip of a buy.             *)
LEMMA TripsKept ==
    ASSUME TripsInOrder, UNCHANGED <<replay, trips>>, NEW s \in B!Traded,
           \/ UNCHANGED trip
           \/ \E a, b, c, d : trip' = [trip EXCEPT ![s] = [trip[s] EXCEPT !.since = a, !.orig = b, !.fees = c, !.adds = d]]
    PROVE  TripsInOrder'
<1>1. CASE UNCHANGED trip
  BY <1>1 DEF TripsInOrder, TripInOrder, IsSeq
<1>2. ASSUME NEW a, NEW b, NEW c, NEW d,
             trip' = [trip EXCEPT ![s] = [trip[s] EXCEPT !.since = a, !.orig = b, !.fees = c, !.adds = d]]
      PROVE  TripsInOrder'
  <2>. DEFINE t == [trip[s] EXCEPT !.since = a, !.orig = b, !.fees = c, !.adds = d]
  <2>1. TripInOrder(trip[s])
    BY DEF TripsInOrder
  <2>2. TripInOrder(t)
    BY <2>1 DEF TripInOrder
  <2>. HIDE DEF t
  <2>3. trip' = [trip EXCEPT ![s] = t]
    BY <1>2 DEF t
  <2>4. trip' = [q \in B!Traded |-> trip'[q]] /\ \A q \in B!Traded : TripInOrder(trip'[q])
    BY <2>2, <2>3 DEF TripsInOrder
  <2>. QED  BY <2>4 DEF TripsInOrder, TripInOrder, IsSeq
<1>. QED  BY <1>1, <1>2

LEMMA BuyInOrder ==
    ASSUME TripsInOrder, UNCHANGED replay, NEW s \in B!Traded, NEW n, NEW px, NEW how, B!Buy(s, n, px, how)
    PROVE  TripsInOrder'
<1>1. \E a, b, c, d : trip' = [trip EXCEPT ![s] = [trip[s] EXCEPT !.since = a, !.orig = b, !.fees = c, !.adds = d]]
  BY DEF B!Buy
<1>2. UNCHANGED trips
  BY DEF B!Buy
<1>. QED  BY <1>1, <1>2, TripsKept

LEMMA FillInOrder ==
    ASSUME TripsInOrder, NEW s \in B!Traded, B!FillQueued(s)
    PROVE  TripsInOrder'
<1>1. UNCHANGED replay
  BY DEF B!FillQueued, B!still
<1>2. CASE UNCHANGED B!book
  BY <1>1, <1>2, TripsKept DEF B!book
<1>3. CASE B!Sell(s, pos[s].qty, prices[s], "strategy", 0, 0)
  BY <1>1, <1>3, SellInOrder
<1>4. ASSUME NEW n, B!Buy(s, n, prices[s], "open")
      PROVE  TripsInOrder'
  BY <1>1, <1>4, BuyInOrder
<1>. QED  BY <1>2, <1>3, <1>4 DEF B!FillQueued

LEMMA ScaleInInOrder ==
    ASSUME TripsInOrder, NEW s \in B!Traded, B!ScaleIn(s)
    PROVE  TripsInOrder'
<1>1. UNCHANGED replay
  BY DEF B!ScaleIn, B!still
<1>2. CASE UNCHANGED <<trip, trips>>
  BY <1>1, <1>2, TripsKept
<1>3. ASSUME NEW n, NEW px, B!Buy(s, n, px, "add")
      PROVE  TripsInOrder'
  BY <1>1, <1>3, BuyInOrder
<1>. QED  BY <1>2, <1>3 DEF B!ScaleIn, B!book

LEMMA ExitInOrder ==
    ASSUME B!BacktestAssumption, TripsInOrder, NEW s \in B!Traded, B!Exit(s)
    PROVE  TripsInOrder'
<1>1. UNCHANGED replay
  BY DEF B!Exit, B!still
<1>2. CASE UNCHANGED <<trip, trips>>
  BY <1>1, <1>2, TripsKept
<1>3. ASSUME NEW n, NEW px, NEW kind, NEW top, B!Sell(s, n, px, kind, 0, top)
      PROVE  TripsInOrder'
  BY <1>1, <1>3, SellInOrder
<1>. DEFINE r == B!NextPartial(replay.exits, B!Judged(s).high, B!Avg(s), trip[s].taken).rung
<1>4. ASSUME NEW n, NEW px, NEW top, B!Sell(s, n, px, "take-profit", r, top)
      PROVE  TripsInOrder'
  <2>1. Len(B!SortedRungs(replay.exits.ladder)) \in Nat /\ trip[s].taken \in Nat
    <3>1. B!ExitsFit(replay.exits)
      BY DEF B!BacktestAssumption, B!SettingFits, TripsInOrder
    <3>2. B!SortedRungs(replay.exits.ladder) \in Seq([profit : Nat, sell : Nat])
      BY <3>1 DEF B!ExitsFit
    <3>3. ASSUME NEW u \in Seq([profit : Nat, sell : Nat]) PROVE Len(u) \in Nat
      OBVIOUS
    <3>4. Len(B!SortedRungs(replay.exits.ladder)) \in Nat
      BY <3>2, <3>3
    <3>. QED  BY <3>4 DEF TripsInOrder, TripInOrder
  <2>2. r = 0 \/ (r \in Nat /\ r > trip[s].taken)
    BY <2>1, DueInReplay
  <2>. HIDE DEF r
  <2>. QED  BY <1>1, <1>4, <2>2, SellInOrder
<1>5. \/ UNCHANGED <<trip, trips>>
      \/ \E n, px, kind, top : B!Sell(s, n, px, kind, 0, top)
      \/ \E n, px, top : B!Sell(s, n, px, "take-profit", r, top)
  BY DEF B!Exit, B!book
<1>. HIDE DEF r
<1>. QED  BY <1>2, <1>3, <1>4, <1>5

LEMMA ReplayInOrder ==
    ASSUME B!BacktestAssumption, TripsInOrder, [B!Next]_btvars
    PROVE  TripsInOrder'
<1>1. CASE UNCHANGED <<replay, trip, trips>>
  BY <1>1 DEF TripsInOrder, TripInOrder, IsSeq
<1>2. CASE B!NextBar
  BY <1>1, <1>2 DEF B!NextBar
<1>3. CASE B!PassEnds
  BY <1>1, <1>3 DEF B!PassEnds, B!book
<1>4. CASE B!BarEnds
  BY <1>1, <1>4 DEF B!BarEnds
<1>5. CASE UNCHANGED btvars
  BY <1>1, <1>5 DEF btvars
<1>6. ASSUME NEW s \in B!Traded, B!Ask(s) PROVE TripsInOrder'
  BY <1>1, <1>6 DEF B!Ask, B!still
<1>. QED
  BY <1>2, <1>3, <1>4, <1>5, <1>6, FillInOrder, ScaleInInOrder, ExitInOrder DEF B!Next

LEMMA ReplayStarts == B!Init => TripsInOrder
<1>. SUFFICES ASSUME B!Init PROVE TripsInOrder
  OBVIOUS
<1>1. trip = [s \in B!Traded |-> B!NoTrip] /\ trips = <<>> /\ replay \in Settings
  BY DEF B!Init
<1>2. TripInOrder(B!NoTrip)
  BY DEF TripInOrder, B!NoTrip
<1>3. IsSeq(trips) /\ Len(trips) = 0
  BY <1>1 DEF IsSeq
<1>. QED  BY <1>1, <1>2, <1>3 DEF TripsInOrder

LEMMA ReplayRungs == TripsInOrder => B!RungsSoldOnce
<1>. SUFFICES ASSUME TripsInOrder, NEW t \in B!Range(trips) \cup {trip[s] : s \in B!Traded}, NEW k \in DOMAIN t.rungs
              PROVE  t.rungs[k] = k
  BY DEF B!RungsSoldOnce
<1>1. CASE t \in B!Range(trips)
  <2>1. PICK m \in DOMAIN trips : t = trips[m]
    BY <1>1 DEF B!Range
  <2>2. DOMAIN trips = 1..Len(trips)
    BY DEF TripsInOrder, IsSeq
  <2>. QED  BY <2>1, <2>2 DEF TripsInOrder
<1>2. CASE t \in {trip[s] : s \in B!Traded}
  <2>1. TripInOrder(t)
    BY <1>2 DEF TripsInOrder
  <2>. QED  BY <2>1 DEF TripInOrder
<1>. QED  BY <1>1, <1>2

(* Two runs of rungs that share none are one of which each is once.        *)
LEMMA OnceEach ==
    ASSUME NEW s \in Seq(Nat), NEW t \in Seq(Nat), L!IsInjective(s), L!IsInjective(t),
           \A k \in 1..Len(s), m \in 1..Len(t) : s[k] # t[m]
    PROVE  /\ s \o t \in Seq(Nat) /\ L!IsInjective(s \o t)
           /\ \A k \in 1..Len(s \o t) : \/ \E m \in 1..Len(s) : (s \o t)[k] = s[m]
                                        \/ \E m \in 1..Len(t) : (s \o t)[k] = t[m]
<1>1. /\ s \o t \in Seq(Nat) /\ Len(s \o t) = Len(s) + Len(t) /\ DOMAIN (s \o t) = 1..(Len(s) + Len(t))
      /\ Len(s) \in Nat /\ Len(t) \in Nat /\ DOMAIN s = 1..Len(s) /\ DOMAIN t = 1..Len(t)
      /\ \A k \in 1..(Len(s) + Len(t)) : (s \o t)[k] = IF k <= Len(s) THEN s[k] ELSE t[k - Len(s)]
  OBVIOUS
<1>. DEFINE a == Len(s)
            b == Len(t)
            u == s \o t
<1>2. /\ a \in Nat /\ b \in Nat /\ DOMAIN u = 1..(a + b)
      /\ \A k \in 1..(a + b) : u[k] = IF k <= a THEN s[k] ELSE t[k - a]
      /\ \A k, m \in 1..a : s[k] = s[m] => k = m
      /\ \A k, m \in 1..b : t[k] = t[m] => k = m
      /\ \A k \in 1..a, m \in 1..b : s[k] # t[m]
  BY <1>1 DEF L!IsInjective
<1>3. ASSUME NEW k \in 1..Len(u)
      PROVE  \/ \E m \in 1..Len(s) : u[k] = s[m]
             \/ \E m \in 1..Len(t) : u[k] = t[m]
  <2>1. k \in 1..(a + b)
    BY <1>1
  <2>2. k > a => k - a \in 1..b
    BY <1>2, <2>1
  <2>. HIDE DEF u
  <2>. QED  BY <1>2, <2>1, <2>2
<1>. HIDE DEF a, b, u
<1>4. ASSUME NEW k \in 1..(a + b), NEW m \in 1..(a + b), u[k] = u[m]
      PROVE  k = m
  <2>1. k > a => k - a \in 1..b
    BY <1>2
  <2>2. m > a => m - a \in 1..b
    BY <1>2
  <2>3. k <= a => k \in 1..a
    BY <1>2
  <2>4. m <= a => m \in 1..a
    BY <1>2
  <2>. DEFINE v == k - a
              w == m - a
  <2>9. /\ k > a => u[k] = t[v] /\ v \in 1..b /\ k = a + v /\ v \in Nat
        /\ m > a => u[m] = t[w] /\ w \in 1..b /\ m = a + w /\ w \in Nat
    BY <1>2, <2>1, <2>2
  <2>. HIDE DEF v, w
  <2>5. CASE k <= a /\ m <= a
    BY <1>2, <1>4, <2>3, <2>4, <2>5
  <2>6. CASE k > a /\ m > a
    BY <1>2, <1>4, <2>6, <2>9
  <2>7. CASE k <= a /\ m > a
    BY <1>2, <1>4, <2>3, <2>7, <2>9
  <2>8. CASE k > a /\ m <= a
    BY <1>2, <1>4, <2>4, <2>8, <2>9
  <2>. QED  BY <1>2, <2>5, <2>6, <2>7, <2>8
<1>5. L!IsInjective(u)
  BY <1>2, <1>4 DEF L!IsInjective
<1>. QED  BY <1>1, <1>3, <1>5 DEF u

(* The rungs the ladder has fired through: those of the record, and those  *)
(* of a sale that is still to be marked in it.                             *)
Fired == IF step = "mark" THEN rung ELSE IF record = <<>> THEN 0 ELSE record[1].taken

RungSeq(s, n) == s \in Seq(Nat) /\ L!IsInjective(s) /\ \A k \in 1..Len(s) : s[k] \in 1..n

Recorded == record = <<>> \/ \E r : record = <<r>> /\ "taken" \in DOMAIN r /\ r.taken \in Nat

(* The record on disk is the one in memory.  A closed position has sold    *)
(* nothing; of an open one every rung that was sold, and every rung of a   *)
(* sale whose outcome is unknown, was fired, and no rung is both.          *)
LadderInv ==
    /\ position \in Positions /\ exits \in position.exits
    /\ step \in {"exits", "mark", "adds"}
    /\ disk = record /\ Recorded
    /\ step = "mark" => rung \in Nat /\ (record # <<>> => record[1].taken <= rung)
    /\ record = <<>> => sold = <<>>
    /\ ~position.crashes =>
         /\ RungSeq(sold, Fired)
         /\ record # <<>> /\ unknown.side = "sell" =>
              /\ RungSeq(unknown.rungs, Fired)
              /\ \A k \in 1..Len(sold), m \in 1..Len(unknown.rungs) : sold[k] # unknown.rungs[m]

LEMMA FiredIs ==
    ASSUME LadderInv PROVE Fired \in Nat
BY DEF LadderInv, Fired, Recorded

LEMMA MoreFired ==
    ASSUME NEW m \in Nat, NEW n \in Nat, m <= n, NEW s, RungSeq(s, m)
    PROVE  RungSeq(s, n)
BY DEF RungSeq

(* The rungs of a sale are above those fired before.                       *)
LEMMA RungsAbove ==
    ASSUME LadderInv, record # <<>>, NEW r \in Nat, r > record[1].taken
    PROVE  /\ RungSeq(L!RungsTo(r), r)
           /\ \A k \in 1..Len(L!RungsTo(r)) : L!RungsTo(r)[k] > record[1].taken
<1>. DEFINE n == record[1].taken
            s == L!RungsTo(r)
<1>1. n \in Nat /\ r > n /\ s = [k \in 1..(r - n) |-> n + k]
  BY DEF LadderInv, Recorded, L!RungsTo, L!Rec
<1>. HIDE DEF n, s
<1>2. s \in Seq(Nat) /\ Len(s) = r - n /\ DOMAIN s = 1..(r - n) /\ r - n \in Nat
  <2>. DEFINE l == r - n
  <2>1. l \in Nat /\ s = [k \in 1..l |-> n + k] /\ \A k \in 1..l : n + k \in Nat
    BY <1>1
  <2>. HIDE DEF l
  <2>2. s \in [1..l -> Nat]
    BY <2>1
  <2>3. s \in Seq(Nat) /\ Len(s) = l /\ DOMAIN s = 1..l
    BY <2>1, <2>2
  <2>. QED  BY <2>1, <2>3 DEF l
<1>3. \A k \in 1..(r - n) : s[k] = n + k /\ n + k \in 1..r /\ n + k > n
  BY <1>1
<1>4. L!IsInjective(s)
  BY <1>1, <1>2, <1>3 DEF L!IsInjective
<1>5. RungSeq(s, r) /\ \A k \in 1..Len(s) : s[k] > n
  BY <1>2, <1>3, <1>4 DEF RungSeq
<1>. QED  BY <1>5 DEF s, n

LEMMA NothingSold ==
    ASSUME NEW n \in Nat PROVE RungSeq(<<>>, n)
BY DEF RungSeq, L!IsInjective

(* A record that keeps its rungs.                                          *)
SameRungs(r) == record # <<>> /\ r = <<r[1]>> /\ "taken" \in DOMAIN r[1] /\ r[1].taken = record[1].taken

(* What leaves the ladder where it stands: the record keeps its rungs, or  *)
(* is gone with what it sold, or was none and opens with nothing sold.     *)
LEMMA LadderKept ==
    ASSUME LadderInv, UNCHANGED <<position, rung>>, exits' \in position.exits,
           step' = step \/ (step # "mark" /\ step' \in {"exits", "adds"}),
           disk' = record',
           \/ UNCHANGED <<record, sold>>
           \/ SameRungs(record') /\ UNCHANGED sold
           \/ record' = <<>> /\ sold' = <<>>
           \/ record = <<>> /\ UNCHANGED sold /\ \E r : record' = <<r>> /\ "taken" \in DOMAIN r /\ r.taken = 0,
           \/ UNCHANGED unknown
           \/ unknown'.side # "sell"
           \/ unknown'.rungs = <<>>,
           record = <<>> => record' = <<>> \/ unknown'.side # "sell"
    PROVE  LadderInv'
<1>1. /\ position' \in Positions /\ exits' \in position'.exits /\ step' \in {"exits", "mark", "adds"}
      /\ Recorded' /\ (record' = <<>> => sold' = <<>>)
  BY DEF LadderInv, Recorded, SameRungs
<1>2. step' = "mark" => rung' \in Nat /\ (record' # <<>> => record'[1].taken <= rung')
  BY DEF LadderInv, Recorded, SameRungs
<1>3. Fired' \in Nat
  BY <1>1, <1>2 DEF Fired, Recorded
<1>4. record' # <<>> => Fired' = Fired \/ record = <<>>
  BY <1>1 DEF Fired, LadderInv, Recorded, SameRungs
<1>5. ASSUME ~position.crashes PROVE RungSeq(sold', Fired')
  <2>1. CASE sold' = <<>>
    BY <1>3, <2>1, NothingSold
  <2>2. CASE sold' # <<>>
    BY <1>1, <2>2, <1>4, <1>5 DEF LadderInv
  <2>. QED  BY <2>1, <2>2
<1>6. ASSUME ~position.crashes, record' # <<>>, unknown'.side = "sell"
      PROVE  /\ RungSeq(unknown'.rungs, Fired')
             /\ \A k \in 1..Len(sold'), m \in 1..Len(unknown'.rungs) : sold'[k] # unknown'.rungs[m]
  <2>1. CASE unknown'.rungs = <<>>
    BY <1>3, <2>1, NothingSold
  <2>2. CASE unknown' = unknown
    BY <1>6, <1>4, <2>2 DEF SameRungs, LadderInv
  <2>. QED  BY <1>6, <2>1, <2>2
<1>. QED  BY <1>1, <1>2, <1>5, <1>6 DEF LadderInv, RungSeq

LEMMA RecordOpens ==
    ASSUME LadderInv, NEW n, NEW px, L!RecordOpen(n, px)
    PROVE  /\ disk' = record' /\ record' # <<>>
           /\ SameRungs(record') \/ (record = <<>> /\ \E r : record' = <<r>> /\ "taken" \in DOMAIN r /\ r.taken = 0)
BY DEF LadderInv, Recorded, L!RecordOpen, L!Open, L!None, L!Rec, SameRungs

LEMMA PeakKept ==
    ASSUME LadderInv, record # <<>>
    PROVE  SameRungs(<<L!WithPeak>>)
BY DEF LadderInv, Recorded, SameRungs, L!WithPeak, L!Rec

LEMMA JudgeKept ==
    ASSUME LadderInv, record # <<>>, L!Judge
    PROVE  disk' = record' /\ SameRungs(record')
BY PeakKept DEF L!Judge

LEMMA ReduceKept ==
    ASSUME LadderInv, record # <<>>, NEW n, NEW rungs, L!Reduce(n, rungs)
    PROVE  /\ disk' = record'
           /\ \/ record' = <<>> /\ sold' = <<>>
              \/ SameRungs(record') /\ sold' = sold \o rungs
<1>1. CASE n >= record[1].qty
  BY <1>1 DEF L!Reduce, L!Closed, L!Rec, L!None
<1>2. CASE ~(n >= record[1].qty)
  <2>. DEFINE r == L!WithPeak
  <2>1. "taken" \in DOMAIN r /\ r.taken = record[1].taken
    BY PeakKept DEF SameRungs
  <2>. HIDE DEF r
  <2>2. record' = <<[r EXCEPT !.qty = @ - n]>> /\ disk' = record' /\ sold' = sold \o rungs
    BY <1>2 DEF L!Reduce, L!Rec, r
  <2>. QED  BY <1>2, <2>1, <2>2 DEF SameRungs
<1>. QED  BY <1>1, <1>2

LEMMA TickStep ==
    ASSUME LadderInv, NEW p, L!Tick(p) PROVE LadderInv'
BY LadderKept DEF L!Tick, LadderInv

LEMMA EditStep ==
    ASSUME LadderInv, NEW c \in position.exits, L!EditExits(c) PROVE LadderInv'
BY LadderKept DEF L!EditExits, LadderInv

LEMMA StrategyBuyStep ==
    ASSUME LadderInv, L!Buy PROVE LadderInv'
BY LadderKept, RecordOpens DEF L!Buy, LadderInv, L!NoOrder

LEMMA ExitFiresStep ==
    ASSUME LadderInv, L!ExitFires PROVE LadderInv'
<1>1. /\ record # <<>> /\ step = "exits" /\ step' = "adds" /\ UNCHANGED <<position, exits, rung>> /\ exits' \in position.exits
  BY DEF L!ExitFires, L!Checking, L!Open, L!None, LadderInv
<1>2. CASE L!Closed /\ UNCHANGED unknown
  BY <1>1, <1>2, LadderKept DEF L!Closed, L!None
<1>3. CASE unknown' = L!SellUnknown(L!Rec.qty, <<>>) /\ L!Judge /\ UNCHANGED sold
  BY <1>3, <1>1, JudgeKept, LadderKept DEF L!SellUnknown
<1>4. CASE L!Judge /\ UNCHANGED <<unknown, sold>>
  BY <1>1, <1>4, JudgeKept, LadderKept
<1>. QED  BY <1>2, <1>3, <1>4 DEF L!ExitFires

LEMMA RungFiresStep ==
    ASSUME L!LivePositionAssumption, LadderInv, L!RungFires PROVE LadderInv'
<1>. DEFINE n == record[1].taken
            r == L!Due.rung
            more == L!RungsTo(r)
<1>1. /\ record # <<>> /\ step = "exits" /\ UNCHANGED <<position, exits>> /\ exits' \in position.exits
      /\ position \in Positions /\ n \in Nat /\ Fired = n
  BY DEF L!RungFires, L!Checking, L!Open, L!None, LadderInv, Recorded, Fired
<1>2. r \in Nat /\ r > n
  <2>1. Len(L!SortedRungs(exits.ladder)) \in Nat
    BY DEF LadderInv, L!LivePositionAssumption
  <2>2. r = 0 \/ (r \in Nat /\ r > n)
    <3>1. r = L!NextPartial(exits, price, record[1].avg, n).rung
      BY DEF L!Due, L!Rec
    <3>. HIDE DEF r, n
    <3>. QED  BY <1>1, <2>1, <3>1, DueLive
  <2>3. r > 0
    BY DEF L!RungFires
  <2>. HIDE DEF r, n
  <2>. QED  BY <2>2, <2>3
<1>3. RungSeq(more, r) /\ \A k \in 1..Len(more) : more[k] > n
  BY <1>1, <1>2, RungsAbove
<1>. HIDE DEF r, more
<1>4. ASSUME disk' = record', SameRungs(record'), step' = "mark", rung' = r
      PROVE  Recorded' /\ record' # <<>> /\ record'[1].taken <= rung' /\ Fired' = r /\ n <= r
  <2>1. record' # <<>> /\ record'[1].taken = n
    BY <1>4 DEF SameRungs
  <2>2. Recorded' /\ Fired' = r
    BY <1>1, <1>4 DEF SameRungs, Recorded, Fired
  <2>. HIDE DEF n
  <2>. QED  BY <1>1, <1>2, <1>4, <2>1, <2>2
<1>5. ~position.crashes => RungSeq(sold, n) /\ RungSeq(sold, r) /\ \A k \in 1..Len(sold), m \in 1..Len(more) : sold[k] # more[m]
  <2>1. SUFFICES ASSUME ~position.crashes PROVE RungSeq(sold, n) /\ RungSeq(sold, r) /\ \A k \in 1..Len(sold), m \in 1..Len(more) : sold[k] # more[m]
    OBVIOUS
  <2>2. RungSeq(sold, n)
    BY <1>1, <2>1 DEF LadderInv
  <2>. HIDE DEF n
  <2>3. RungSeq(sold, r)
    <3>1. n \in Nat /\ r \in Nat /\ n <= r
      BY <1>1, <1>2
    <3>. QED  BY <2>2, <3>1, MoreFired
  <2>4. ASSUME NEW k \in 1..Len(sold), NEW m \in 1..Len(more) PROVE sold[k] # more[m]
    BY <1>3, <2>2, <1>1 DEF RungSeq
  <2>. QED  BY <2>2, <2>3, <2>4
<1>6. CASE L!Reduce(L!Size, more) /\ UNCHANGED unknown /\ step' = "mark" /\ rung' = r
  <2>1. CASE record' = <<>> /\ sold' = <<>> /\ disk' = record'
    BY <1>6, <1>2, <2>1, NothingSold, <1>1 DEF Fired, LadderInv, Recorded
  <2>2. CASE disk' = record' /\ SameRungs(record') /\ sold' = sold \o more
    <3>1. Recorded' /\ record' # <<>> /\ record'[1].taken <= rung' /\ Fired' = r /\ n <= r
      BY <1>4, <1>6, <2>2
    <3>2. ASSUME ~position.crashes
          PROVE  /\ RungSeq(sold', r)
                 /\ unknown'.side = "sell" =>
                      /\ RungSeq(unknown'.rungs, r)
                      /\ \A k \in 1..Len(sold'), m \in 1..Len(unknown'.rungs) : sold'[k] # unknown'.rungs[m]
      <4>1. /\ sold' \in Seq(Nat) /\ L!IsInjective(sold')
            /\ \A k \in 1..Len(sold') : \/ \E m \in 1..Len(sold) : sold'[k] = sold[m]
                                        \/ \E m \in 1..Len(more) : sold'[k] = more[m]
        <5>1. /\ sold \in Seq(Nat) /\ L!IsInjective(sold) /\ more \in Seq(Nat) /\ L!IsInjective(more)
              /\ \A k \in 1..Len(sold), m \in 1..Len(more) : sold[k] # more[m]
          BY <1>3, <1>5, <3>2 DEF RungSeq
        <5>. QED  BY <2>2, <5>1, OnceEach
      <4>2. RungSeq(sold', r)
        BY <1>3, <1>5, <3>2, <4>1 DEF RungSeq
      <4>3. ASSUME unknown.side = "sell"
            PROVE  /\ RungSeq(unknown.rungs, r)
                   /\ \A k \in 1..Len(sold'), m \in 1..Len(unknown.rungs) : sold'[k] # unknown.rungs[m]
        <5>1. /\ RungSeq(unknown.rungs, n)
              /\ \A k \in 1..Len(sold), m \in 1..Len(unknown.rungs) : sold[k] # unknown.rungs[m]
          BY <1>1, <3>2, <4>3 DEF LadderInv
        <5>. HIDE DEF n
        <5>2. RungSeq(unknown.rungs, r)
          BY <1>1, <1>2, <5>1, MoreFired
        <5>3. ASSUME NEW k \in 1..Len(more), NEW m \in 1..Len(unknown.rungs) PROVE more[k] # unknown.rungs[m]
          BY <1>3, <5>1, <1>1 DEF RungSeq
        <5>. QED  BY <4>1, <5>1, <5>2, <5>3
      <4>. QED  BY <1>6, <4>2, <4>3
    <3>. QED  BY <1>1, <1>2, <1>6, <2>2, <3>1, <3>2 DEF LadderInv
  <2>. QED  BY <1>1, <1>6, <2>1, <2>2, ReduceKept
<1>7. CASE unknown' = L!SellUnknown(L!Size, more) /\ L!Judge /\ UNCHANGED sold /\ step' = "mark" /\ rung' = r
  <2>1. disk' = record' /\ SameRungs(record') /\ unknown'.rungs = more
    BY <1>1, <1>7, JudgeKept DEF L!SellUnknown
  <2>2. Recorded' /\ record' # <<>> /\ record'[1].taken <= rung' /\ Fired' = r /\ n <= r
    BY <1>4, <1>7, <2>1
  <2>. QED  BY <1>1, <1>2, <1>3, <1>5, <1>7, <2>1, <2>2 DEF LadderInv
<1>8. CASE L!Judge /\ step' = "adds" /\ UNCHANGED <<unknown, rung, sold>>
  BY <1>1, <1>8, JudgeKept, LadderKept
<1>. QED  BY <1>6, <1>7, <1>8 DEF L!RungFires, r, more

LEMMA MarkStep ==
    ASSUME LadderInv, L!Mark PROVE LadderInv'
<1>1. /\ step = "mark" /\ step' = "adds" /\ disk' = record' /\ rung \in Nat /\ Fired = rung
      /\ UNCHANGED <<position, exits, unknown, sold>>
  BY DEF L!Mark, LadderInv, Fired
<1>2. CASE record = <<>>
  BY <1>1, <1>2, NothingSold DEF L!Mark, L!Open, L!None, LadderInv, Fired, Recorded
<1>3. CASE record # <<>>
  <2>1. PICK q : record = <<q>> /\ "taken" \in DOMAIN q
    BY <1>3 DEF LadderInv, Recorded
  <2>2. record' = <<[q EXCEPT !.taken = rung]>>
    BY <1>3, <2>1 DEF L!Mark, L!MarkAny, L!Open, L!None, L!Rec
  <2>3. Recorded' /\ record' # <<>> /\ Fired' = rung
    BY <1>1, <2>1, <2>2 DEF Recorded, Fired
  <2>. QED  BY <1>1, <1>3, <2>3 DEF LadderInv, RungSeq
<1>. QED  BY <1>2, <1>3

LEMMA ExitsHoldStep ==
    ASSUME LadderInv, L!ExitsHold PROVE LadderInv'
<1>1. /\ step = "exits" /\ step' = "adds" /\ UNCHANGED <<position, exits, rung, unknown, sold>> /\ exits' \in position.exits
  BY DEF L!ExitsHold, LadderInv
<1>2. CASE L!Checking
  BY <1>2, <1>1, JudgeKept, LadderKept DEF L!ExitsHold, L!Checking, L!Open, L!None
<1>3. CASE ~L!Checking
  BY <1>3, <1>1, LadderKept DEF L!ExitsHold, LadderInv
<1>. QED  BY <1>2, <1>3

LEMMA ScaleInStep ==
    ASSUME LadderInv, L!ScaleIn PROVE LadderInv'
<1>1. /\ step = "adds" /\ step' = "exits" /\ UNCHANGED <<position, exits, rung, sold>> /\ exits' \in position.exits
      /\ record # <<>> /\ disk = record
  BY DEF L!ScaleIn, L!ScaleInDue, L!Open, L!None, LadderInv
<1>2. CASE UNCHANGED <<record, disk, unknown>>
  BY <1>1, <1>2, LadderKept
<1>3. CASE L!RecordOpen(position.scaleIn.lot, price) /\ UNCHANGED unknown
  BY <1>1, <1>3, RecordOpens, LadderKept
<1>4. CASE unknown'.side # "sell" /\ UNCHANGED <<record, disk>>
  BY <1>1, <1>4, LadderKept
<1>. QED  BY <1>2, <1>3, <1>4 DEF L!ScaleIn

LEMMA ResolveStep ==
    ASSUME LadderInv, L!Resolve PROVE LadderInv'
<1>1. /\ record # <<>> /\ step # "mark" /\ unknown' = L!NoOrder /\ unknown'.side # "sell"
      /\ UNCHANGED <<position, exits, rung, step>> /\ exits' \in position.exits /\ disk = record
  BY DEF L!Resolve, L!Open, L!None, L!NoOrder, LadderInv
<1>2. CASE UNCHANGED <<record, disk, sold>>
  BY <1>1, <1>2, LadderKept
<1>3. CASE L!RecordOpen(unknown.qty, price) /\ UNCHANGED sold
  BY <1>1, <1>3, RecordOpens, LadderKept
<1>4. CASE L!Closed
  BY <1>1, <1>4, LadderKept DEF L!Closed, L!None
<1>5. CASE /\ unknown.side = "sell" /\ disk' = record' /\ sold' = sold \o unknown.rungs
           /\ record' = <<[L!Rec EXCEPT !.qty = @ - unknown.qty]>>
  <2>1. SameRungs(record')
    BY <1>1, <1>5 DEF LadderInv, Recorded, SameRungs, L!Rec
  <2>2. Recorded' /\ record' # <<>> /\ Fired' = Fired
    BY <1>1, <2>1 DEF LadderInv, Recorded, SameRungs, Fired
  <2>3. ASSUME ~position.crashes PROVE RungSeq(sold', Fired')
    <3>1. /\ RungSeq(sold, Fired) /\ RungSeq(unknown.rungs, Fired)
          /\ \A k \in 1..Len(sold), m \in 1..Len(unknown.rungs) : sold[k] # unknown.rungs[m]
      BY <1>1, <1>5, <2>3 DEF LadderInv
    <3>. DEFINE n == Fired
    <3>2. /\ RungSeq(sold, n) /\ RungSeq(unknown.rungs, n)
      BY <3>1
    <3>3. /\ sold' \in Seq(Nat) /\ L!IsInjective(sold')
          /\ \A k \in 1..Len(sold') : \/ \E m \in 1..Len(sold) : sold'[k] = sold[m]
                                      \/ \E m \in 1..Len(unknown.rungs) : sold'[k] = unknown.rungs[m]
      <4>. DEFINE u == unknown.rungs
      <4>1. sold \in Seq(Nat) /\ L!IsInjective(sold) /\ u \in Seq(Nat) /\ L!IsInjective(u)
        BY <3>2 DEF RungSeq
      <4>2. sold' = sold \o u /\ \A k \in 1..Len(sold), m \in 1..Len(u) : sold[k] # u[m]
        BY <1>5, <3>1
      <4>. HIDE DEF n, u
      <4>3. /\ sold \o u \in Seq(Nat) /\ L!IsInjective(sold \o u)
            /\ \A k \in 1..Len(sold \o u) : \/ \E m \in 1..Len(sold) : (sold \o u)[k] = sold[m]
                                           \/ \E m \in 1..Len(u) : (sold \o u)[k] = u[m]
        BY <4>1, <4>2, OnceEach
      <4>. QED  BY <4>2, <4>3 DEF u
    <3>. HIDE DEF n
    <3>4. RungSeq(sold', n)
      BY <3>2, <3>3 DEF RungSeq
    <3>. QED  BY <2>2, <3>4 DEF n
  <2>. QED  BY <1>1, <1>5, <2>2, <2>3 DEF LadderInv
<1>. QED  BY <1>2, <1>3, <1>4, <1>5 DEF L!Resolve

LEMMA PositionRestarts ==
    ASSUME LadderInv, L!Restart PROVE LadderInv'
<1>1. /\ record' = record /\ disk' = disk /\ disk = record /\ step' = "exits"
      /\ UNCHANGED <<position, exits, unknown, sold>>
      /\ step = "mark" => position.crashes
  BY DEF L!Restart, LadderInv
<1>2. step # "mark" => Fired' = Fired
  BY <1>1 DEF Fired
<1>. QED  BY <1>1, <1>2 DEF LadderInv, Recorded, RungSeq

LEMMA LiveStep ==
    ASSUME L!LivePositionAssumption, LadderInv, [L!Next]_lvars PROVE LadderInv'
<1>1. CASE L!NoAdd
  BY <1>1, LadderKept DEF L!NoAdd, LadderInv
<1>2. CASE L!RefusalAges
  BY <1>2, LadderKept DEF L!RefusalAges, LadderInv
<1>3. CASE UNCHANGED lvars
  BY <1>3, LadderKept DEF lvars, LadderInv
<1>. QED
  BY <1>1, <1>2, <1>3, TickStep, EditStep, StrategyBuyStep, ExitFiresStep, RungFiresStep, MarkStep, ExitsHoldStep,
     ScaleInStep, ResolveStep, PositionRestarts DEF L!Next

LEMMA LiveStarts == L!Init => LadderInv
<1>. SUFFICES ASSUME L!Init PROVE LadderInv
  OBVIOUS
<1>1. /\ position \in Positions /\ exits \in position.exits /\ step = "exits" /\ disk = record /\ record = <<>>
      /\ sold = <<>> /\ Fired = 0
  BY DEF L!Init, L!None, Fired
<1>2. RungSeq(sold, Fired)
  BY <1>1, NothingSold
<1>. QED  BY <1>1, <1>2 DEF LadderInv, Recorded

(* However long a ladder is, however a bar jumps it, whatever the broker   *)
(* does not tell and however often the process starts again between two    *)
(* steps, no rung of it is sold twice from one position; and a replay      *)
(* takes the rungs in their order, none left out.                          *)
THEOREM NoRungTwice == ReplaysSpec => []RungsSoldOnce
<1>. DEFINE Ladders == TripsInOrder /\ LadderInv
<1>1. ReplaysInit => Ladders
  BY ReplayStarts, LiveStarts DEF ReplaysInit
<1>2. Ladders /\ [ReplaysNext]_parts => Ladders'
  <2>1. Ladders /\ ReplaysNext => [B!Next]_btvars /\ [L!Next]_lvars
    BY DEF ReplaysNext
  <2>2. Ladders /\ UNCHANGED parts => [B!Next]_btvars /\ [L!Next]_lvars
    BY DEF parts
  <2>3. Ladders /\ [B!Next]_btvars /\ [L!Next]_lvars => Ladders'
    BY ReplaysAssumption, ReplayInOrder, LiveStep
  <2>. HIDE DEF Ladders
  <2>. QED  BY <2>1, <2>2, <2>3
<1>3. Ladders => RungsSoldOnce
  BY ReplayRungs DEF LadderInv, RungSeq, L!RungsSoldOnce, RungsSoldOnce
<1>. HIDE DEF Ladders
<1>. QED  BY <1>1, <1>2, <1>3, PTL DEF ReplaysSpec

-----------------------------------------------------------------------------
(* The screener's picks.                                                   *)

(* A finite set that is strictly ordered has a last member.                *)
LEMMA LastOf ==
    ASSUME NEW X, IsFiniteSet(X), X # {}, NEW R,
           \A x, y \in X : x # y => <<x, y>> \in R \/ <<y, x>> \in R,
           \A x, y, z \in X : <<x, y>> \in R /\ <<y, z>> \in R => <<x, z>> \in R
    PROVE  \E l \in X : \A x \in X \ {l} : <<x, l>> \in R
<1>. DEFINE HasLast(Y) == \E l \in Y : \A x \in Y \ {l} : <<x, l>> \in R
            bad == {n \in Nat : \E Y \in SUBSET X : Y # {} /\ Cardinality(Y) = n /\ ~HasLast(Y)}
<1>1. SUFFICES ASSUME ~HasLast(X) PROVE FALSE
  OBVIOUS
<1>2. Cardinality(X) \in bad
  BY <1>1, FS_CardinalityType
<1>3. PICK n \in bad : \A m \in bad : n <= m
  <2>1. bad \subseteq Nat
    OBVIOUS
  <2>. HIDE DEF bad
  <2>. QED  BY <1>2, <2>1, LeastOf
<1>4. PICK Y \in SUBSET X : Y # {} /\ Cardinality(Y) = n /\ ~HasLast(Y)
  OBVIOUS
<1>5. PICK y \in Y : TRUE
  BY <1>4
<1>. DEFINE Z == Y \ {y}
<1>6. IsFiniteSet(Y) /\ Cardinality(Z) = n - 1 /\ Cardinality(Z) \in Nat
  BY <1>4, <1>5, FS_Subset, FS_RemoveElement, FS_CardinalityType
<1>7. Z # {}
  BY <1>4, <1>5
<1>8. HasLast(Z)
  <2>1. Cardinality(Z) \notin bad
    BY <1>3, <1>6
  <2>2. Z \in SUBSET X
    BY <1>4
  <2>. QED  BY <1>6, <1>7, <2>1, <2>2
<1>9. PICK l \in Z : \A x \in Z \ {l} : <<x, l>> \in R
  BY <1>8
<1>10. CASE <<y, l>> \in R
  BY <1>9, <1>10, <1>4
<1>11. CASE <<l, y>> \in R
  <2>1. \A x \in Y \ {y} : <<x, y>> \in R
    BY <1>4, <1>5, <1>9, <1>11
  <2>. QED  BY <1>4, <1>5, <2>1
<1>. QED  BY <1>4, <1>5, <1>9, <1>10, <1>11

LEMMA Sizes ==
    ASSUME NEW X PROVE P!Cardinality(X) = Cardinality(X)
BY DEF P!Cardinality, Cardinality

(* What a pass has so far, and what its walk took.                         *)
Walked(taken) == taken \in SUBSET P!Candidates /\ P!RankAndCap(taken) /\ picks = taken \cup P!Kept

ScreenInv ==
    /\ pass \in Passes
    /\ IsFiniteSet(P!Judged) /\ P!Judged \subseteq P!Pool
    /\ \A s \in P!Judged : cheap[s] \in pass.ranks
    /\ DOMAIN probed \subseteq P!Judged
    /\ \A s \in DOMAIN probed : \E b \in pass.probe.backtests, r \in pass.probe.searches :
          probed[s] = [backtest |-> b, search |-> r]
    /\ P!Done => /\ P!Judged = P!Pool /\ (pass.probe.on => P!Probable \subseteq DOMAIN probed)
                 /\ \E taken : Walked(taken)

LEMMA PoolIs ==
    ASSUME P!ScreeningAssumption, pass \in Passes, NEW s \in P!Pool
    PROVE  /\ s \in Int
           /\ \E k \in DOMAIN pass.classes : pass.class[s] = pass.classes[k]
           /\ pass.class[s] \in DOMAIN pass.caps
<1>. DEFINE symbols == pass.universe \cup pass.current \cup (UNION {pass.own[c] : c \in DOMAIN pass.own})
                                    \cup (UNION {pass.starter[c] : c \in DOMAIN pass.starter})
<1>1. s \in symbols
  <2>1. \/ s \in pass.universe \cup pass.current
        \/ \E c \in P!SeedableClasses : s \in P!ClassPool(c)
    BY DEF P!Pool
  <2>2. ASSUME NEW k, s \in P!ClassPool(k) PROVE s \in symbols
    BY <2>2 DEF P!ClassPool
  <2>. QED  BY <2>1, <2>2
<1>2. /\ symbols \subseteq Int
      /\ \A t \in symbols : \E k \in DOMAIN pass.classes : pass.class[t] = pass.classes[k]
      /\ \A t \in symbols : pass.class[t] \in DOMAIN pass.caps
  BY DEF P!ScreeningAssumption
<1>. HIDE DEF symbols
<1>. QED  BY <1>1, <1>2

LEMMA NumbersAre ==
    ASSUME P!ScreeningAssumption, pass \in Passes
    PROVE  /\ pass.ranks \subseteq Int /\ pass.probe.minTrades \in Int
           /\ \A r \in pass.probe.backtests \cup pass.probe.searches : r.trades \in Int /\ r.exp \in Int /\ r.score \in Int
           /\ \A k, m \in DOMAIN pass.classes : pass.classes[k] = pass.classes[m] => k = m
           /\ DOMAIN pass.classes \subseteq Int
           /\ \A c \in DOMAIN pass.caps : pass.caps[c].most \in Int /\ pass.caps[c].perSector \in Int
BY DEF P!ScreeningAssumption

LEMMA RanksAre ==
    ASSUME P!ScreeningAssumption, ScreenInv, NEW s \in P!Judged
    PROVE  s \in Int /\ P!Tier(s) \in Nat /\ P!Rank(s) \in Int
<1>1. s \in Int /\ cheap[s] \in Int
  BY PoolIs, NumbersAre DEF ScreenInv
<1>2. P!Tier(s) \in Nat
  BY DEF P!Tier
<1>3. P!Trusted(s) => P!Measured(s).score \in Int
  <2>1. SUFFICES ASSUME s \in DOMAIN probed PROVE P!Measured(s).score \in Int
    BY DEF P!Trusted
  <2>2. PICK b \in pass.probe.backtests, r \in pass.probe.searches : probed[s] = [backtest |-> b, search |-> r]
    BY <2>1 DEF ScreenInv
  <2>3. b.score \in Int /\ r.score \in Int
    BY NumbersAre DEF ScreenInv
  <2>. QED  BY <2>2, <2>3 DEF P!Measured
<1>. QED  BY <1>1, <1>2, <1>3 DEF P!Rank

(* The walk's order is strict, and any two candidates have one.            *)
LEMMA WalkIsOrdered ==
    ASSUME P!ScreeningAssumption, ScreenInv
    PROVE  /\ \A s, t \in P!Judged : s # t => P!Earlier(s, t) \/ P!Earlier(t, s)
           /\ \A s, t, u \in P!Judged : P!Earlier(s, t) /\ P!Earlier(t, u) => P!Earlier(s, u)
<1>1. \A s \in P!Judged : s \in Int /\ P!Tier(s) \in Nat /\ P!Rank(s) \in Int
  BY RanksAre
<1>2. ASSUME NEW s \in P!Judged, NEW t \in P!Judged, s # t
      PROVE  P!Ahead(s, t) \/ P!Ahead(t, s)
  BY <1>1, <1>2 DEF P!Ahead
<1>3. ASSUME NEW s \in P!Judged, NEW t \in P!Judged, NEW u \in P!Judged, P!Ahead(s, t), P!Ahead(t, u)
      PROVE  P!Ahead(s, u)
  BY <1>1, <1>3 DEF P!Ahead
<1>4. /\ \A k, m \in DOMAIN pass.classes : pass.classes[k] = pass.classes[m] => k = m
      /\ DOMAIN pass.classes \subseteq Int
      /\ \A s \in P!Judged : \E k \in DOMAIN pass.classes : pass.class[s] = pass.classes[k]
  BY NumbersAre, PoolIs DEF ScreenInv
<1>5. ASSUME NEW s \in P!Judged, NEW t \in P!Judged, pass.class[s] # pass.class[t]
      PROVE  P!ClassBefore(pass.class[s], pass.class[t]) \/ P!ClassBefore(pass.class[t], pass.class[s])
  BY <1>4, <1>5 DEF P!ClassBefore
<1>6. ASSUME NEW a, NEW b, NEW c, P!ClassBefore(a, b), P!ClassBefore(b, c)
      PROVE  P!ClassBefore(a, c)
  BY <1>4, <1>6 DEF P!ClassBefore
<1>7. \A s, t \in P!Judged : s # t => P!Earlier(s, t) \/ P!Earlier(t, s)
  BY <1>2, <1>5 DEF P!Earlier
<1>8. \A s, t, u \in P!Judged : P!Earlier(s, t) /\ P!Earlier(t, u) => P!Earlier(s, u)
  <2>1. SUFFICES ASSUME NEW s \in P!Judged, NEW t \in P!Judged, NEW u \in P!Judged, P!Earlier(s, t), P!Earlier(t, u)
                 PROVE  P!Earlier(s, u)
    OBVIOUS
  <2>2. CASE P!ClassBefore(pass.class[s], pass.class[t]) /\ P!ClassBefore(pass.class[t], pass.class[u])
    BY <1>6, <2>2 DEF P!Earlier
  <2>3. CASE pass.class[s] = pass.class[t] /\ P!Ahead(s, t) /\ pass.class[t] = pass.class[u] /\ P!Ahead(t, u)
    BY <1>3, <2>3 DEF P!Earlier
  <2>4. CASE P!ClassBefore(pass.class[s], pass.class[t]) /\ pass.class[t] = pass.class[u]
    BY <2>4 DEF P!Earlier
  <2>5. CASE pass.class[s] = pass.class[t] /\ P!ClassBefore(pass.class[t], pass.class[u])
    BY <2>5 DEF P!Earlier
  <2>. QED  BY <2>1, <2>2, <2>3, <2>4, <2>5 DEF P!Earlier
<1>. QED  BY <1>7, <1>8

(* So any of the judged have one the walk comes to last.                   *)
LEMMA LastWalked ==
    ASSUME P!ScreeningAssumption, ScreenInv, NEW X, X \subseteq P!Judged, X # {}
    PROVE  \E l \in X : \A x \in X \ {l} : P!Earlier(x, l)
<1>. DEFINE R == {pair \in X \X X : P!Earlier(pair[1], pair[2])}
<1>1. \A x, y \in X : <<x, y>> \in R <=> P!Earlier(x, y)
  OBVIOUS
<1>2. IsFiniteSet(X)
  BY FS_Subset DEF ScreenInv
<1>3. /\ \A x, y \in X : x # y => P!Earlier(x, y) \/ P!Earlier(y, x)
      /\ \A x, y, z \in X : P!Earlier(x, y) /\ P!Earlier(y, z) => P!Earlier(x, z)
  BY WalkIsOrdered
<1>. HIDE DEF R
<1>4. \E l \in X : \A x \in X \ {l} : <<x, l>> \in R
  BY <1>1, <1>3, <1>2, LastOf
<1>. QED  BY <1>1, <1>4

(* What is found is what the walk took.                                    *)
LEMMA FoundIs ==
    ASSUME ScreenInv, NEW taken, Walked(taken)
    PROVE  /\ P!Found = taken /\ taken \subseteq P!Candidates /\ P!Candidates \subseteq P!Judged
           /\ IsFiniteSet(taken) /\ IsFiniteSet(P!Found)
           /\ \A s \in P!Candidates : cheap[s] > 0 /\ ~P!Loser(s) /\ ~P!Protected(s)
           /\ \A s \in P!Candidates : s \in taken <=> P!HasRoom(s, {t \in taken : P!Earlier(t, s)})
<1>1. /\ P!Candidates \subseteq P!Judged /\ taken \subseteq P!Candidates /\ picks = taken \cup P!Kept
      /\ \A s \in P!Candidates : cheap[s] > 0 /\ ~P!Loser(s) /\ ~P!Protected(s)
      /\ \A s \in P!Candidates : s \in taken <=> P!HasRoom(s, {t \in taken : P!Earlier(t, s)})
  BY DEF Walked, P!RankAndCap, P!Candidates, P!Survivors
<1>2. \A s \in P!Kept : P!Protected(s)
  BY DEF P!Kept, P!Protected
<1>3. P!Found = taken
  BY <1>1, <1>2 DEF P!Found
<1>4. IsFiniteSet(taken)
  BY <1>1, FS_Subset DEF ScreenInv
<1>. QED  BY <1>1, <1>3, <1>4

LEMMA SoundPicks ==
    ASSUME ScreenInv PROVE P!PicksAreSound
<1>. SUFFICES ASSUME P!Done
              PROVE  /\ P!Kept \subseteq picks
                     /\ \A s \in P!Found : cheap[s] > 0 /\ ~P!Loser(s)
                     /\ picks \subseteq P!Pool \cup P!Kept
  BY DEF P!PicksAreSound
<1>1. PICK taken : Walked(taken)
  BY DEF ScreenInv
<1>2. picks = taken \cup P!Kept /\ P!Judged \subseteq P!Pool
  BY <1>1 DEF Walked, ScreenInv
<1>. QED  BY <1>1, <1>2, FoundIs

(* Not one more of a class than its cap: the last one taken found room.    *)
LEMMA ClassFits ==
    ASSUME P!ScreeningAssumption, ScreenInv, NEW taken, Walked(taken),
           NEW c \in DOMAIN pass.caps, pass.caps[c].most > 0
    PROVE  Cardinality({s \in taken : pass.class[s] = c}) <= pass.caps[c].most
<1>. DEFINE X == {s \in taken : pass.class[s] = c}
            most == pass.caps[c].most
<1>1. most \in Int /\ most > 0
  BY NumbersAre DEF ScreenInv
<1>2. X \subseteq P!Judged /\ IsFiniteSet(X) /\ Cardinality(X) \in Nat
  BY FoundIs, FS_Subset, FS_CardinalityType
<1>3. CASE X = {}
  <2>1. Cardinality(X) = 0
    BY <1>3, FS_EmptySet
  <2>. HIDE DEF X, most
  <2>. QED  BY <1>1, <2>1 DEF X, most
<1>4. CASE X # {}
  <2>1. PICK l \in X : \A x \in X \ {l} : P!Earlier(x, l)
    <3>. HIDE DEF X
    <3>. QED  BY <1>2, <1>4, LastWalked
  <2>. DEFINE ahead == {t \in taken : P!Earlier(t, l)}
              peers == {t \in ahead : pass.class[t] = c}
  <2>2. l \in taken /\ pass.class[l] = c /\ P!HasRoom(l, ahead)
    BY <2>1, FoundIs
  <2>3. Cardinality(peers) < most
    BY <1>1, <2>2, Sizes DEF P!HasRoom
  <2>4. X \ {l} \subseteq peers
    BY <2>1
  <2>5. IsFiniteSet(peers)
    BY FoundIs, FS_Subset
  <2>. HIDE DEF peers, ahead, X, most
  <2>6. Cardinality(X \ {l}) <= Cardinality(peers) /\ Cardinality(peers) \in Nat
    BY <2>4, <2>5, FS_Subset, FS_CardinalityType
  <2>7. Cardinality(X \ {l}) = Cardinality(X) - 1
    BY <1>2, FS_RemoveElement
  <2>8. Cardinality(X) <= most
    BY <1>1, <1>2, <2>3, <2>6, <2>7
  <2>. QED  BY <2>8 DEF X, most
<1>. QED  BY <1>3, <1>4

(* What of a budget the held spend, and what a set of picks spends.        *)
HeldOf(key) == {s \in P!Judged \cap pass.held : pass.sector[s] # "none" /\ P!Key(s) = key}
Spends(taken, key) == {s \in taken : P!Capped(s) /\ P!Key(s) = key}

LEMMA SpentIs ==
    ASSUME ScreenInv, NEW taken, taken \subseteq P!Judged, NEW key
    PROVE  /\ IsFiniteSet(HeldOf(key) \cup Spends(taken, key))
           /\ P!SpentIn(taken, key) = Cardinality(HeldOf(key) \cup Spends(taken, key))
           /\ P!SpentIn(taken, key) \in Nat
<1>. DEFINE A == HeldOf(key)
            B1 == Spends(taken, key)
<1>1. A \subseteq P!Judged /\ B1 \subseteq P!Judged /\ A \cap B1 = {}
  BY DEF HeldOf, Spends, P!Capped
<1>2. IsFiniteSet(A) /\ IsFiniteSet(B1)
  BY <1>1, FS_Subset DEF ScreenInv
<1>3. P!SpentIn(taken, key) = Cardinality(A) + Cardinality(B1)
  BY Sizes DEF P!SpentIn, P!HeldIn, HeldOf, Spends
<1>. HIDE DEF A, B1
<1>4. IsFiniteSet(A \cup B1) /\ Cardinality(A \cup B1) = Cardinality(A) + Cardinality(B1) - Cardinality(A \cap B1)
  BY <1>2, FS_Union
<1>5. Cardinality(A \cap B1) = 0 /\ Cardinality(A) \in Nat /\ Cardinality(B1) \in Nat
  BY <1>1, <1>2, FS_EmptySet, FS_CardinalityType
<1>6. P!SpentIn(taken, key) = Cardinality(A \cup B1) /\ P!SpentIn(taken, key) \in Nat
  BY <1>3, <1>4, <1>5
<1>. QED  BY <1>4, <1>6 DEF A, B1

LEMMA SameKey ==
    ASSUME NEW s, NEW t
    PROVE  P!Key(s) = P!Key(t) <=>
             pass.sector[s] = pass.sector[t] /\ (pass.perClassSectors => pass.class[s] = pass.class[t])
BY DEF P!Key

(* Nor one more of a sector than its budget, the held ones counted.        *)
LEMMA SectorFits ==
    ASSUME P!ScreeningAssumption, ScreenInv, NEW taken, Walked(taken), NEW s \in taken, P!Capped(s),
           \A t \in HeldOf(P!Key(s)) \cup Spends(taken, P!Key(s)) :
              pass.caps[pass.class[t]].perSector = pass.caps[pass.class[s]].perSector
    PROVE  Cardinality(HeldOf(P!Key(s)) \cup Spends(taken, P!Key(s))) <= pass.caps[pass.class[s]].perSector
<1>. DEFINE key == P!Key(s)
            per == pass.caps[pass.class[s]].perSector
            X == Spends(taken, key)
            Y == HeldOf(key) \cup X
<1>1. taken \subseteq P!Judged /\ X \subseteq taken /\ s \in X /\ IsFiniteSet(Y) /\ Cardinality(Y) \in Nat
  BY FoundIs, SpentIs, FS_CardinalityType DEF Spends
<1>2. PICK l \in X : \A x \in X \ {l} : P!Earlier(x, l)
  <2>. HIDE DEF X
  <2>. QED  BY <1>1, LastWalked
<1>. DEFINE ahead == {t \in taken : P!Earlier(t, l)}
            Z == HeldOf(key) \cup Spends(ahead, key)
<1>3. P!Key(l) = key /\ P!Capped(l) /\ l \in taken /\ pass.caps[pass.class[l]].perSector = per
  BY <1>2 DEF Spends
<1>4. P!HasRoom(l, ahead)
  BY <1>3, FoundIs
<1>5. P!SpentIn(ahead, key) < per /\ per \in Int
  BY <1>3, <1>4, <1>1, PoolIs, NumbersAre DEF P!HasRoom, ScreenInv
<1>6. P!SpentIn(ahead, key) = Cardinality(Z) /\ IsFiniteSet(Z) /\ Cardinality(Z) \in Nat
  <2>1. ahead \subseteq P!Judged
    BY <1>1
  <2>. HIDE DEF ahead, key
  <2>. QED  BY <2>1, SpentIs, FS_CardinalityType
<1>7. Y \ {l} \subseteq Z
  BY <1>2 DEF Spends
<1>8. l \in Y
  BY <1>2
<1>. HIDE DEF Y, Z, X, per, key, ahead
<1>9. Cardinality(Y \ {l}) <= Cardinality(Z) /\ Cardinality(Y \ {l}) = Cardinality(Y) - 1
  BY <1>1, <1>6, <1>7, <1>8, FS_Subset, FS_RemoveElement
<1>10. Cardinality(Y) <= per
  BY <1>1, <1>5, <1>6, <1>9
<1>. QED  BY <1>10 DEF Y, X, key, per

LEMMA CapsFit ==
    ASSUME P!ScreeningAssumption, ScreenInv PROVE P!CapsAreKept
<1>. SUFFICES ASSUME P!Done PROVE P!CapsAreKept
  BY DEF P!CapsAreKept
<1>1. PICK taken : Walked(taken)
  BY DEF ScreenInv
<1>2. P!Found = taken /\ taken \subseteq P!Judged
  BY <1>1, FoundIs
<1>3. ASSUME NEW c \in DOMAIN pass.caps, pass.caps[c].most > 0
      PROVE  P!Cardinality({s \in P!Found : pass.class[s] = c}) <= pass.caps[c].most
  BY <1>1, <1>2, <1>3, ClassFits, Sizes
<1>4. ASSUME NEW s \in P!Found, P!Capped(s)
      PROVE  LET sharing == {t \in P!Judged : /\ t \in pass.held \/ (t \in P!Found /\ P!Capped(t))
                                              /\ pass.sector[t] = pass.sector[s]
                                              /\ pass.perClassSectors => pass.class[t] = pass.class[s]}
             IN \/ P!Cardinality(sharing) <= pass.caps[pass.class[s]].perSector
                \/ \E t \in sharing : pass.caps[pass.class[t]].perSector # pass.caps[pass.class[s]].perSector
  <2>. DEFINE sharing == {t \in P!Judged : /\ t \in pass.held \/ (t \in P!Found /\ P!Capped(t))
                                           /\ pass.sector[t] = pass.sector[s]
                                           /\ pass.perClassSectors => pass.class[t] = pass.class[s]}
              Y == HeldOf(P!Key(s)) \cup Spends(taken, P!Key(s))
  <2>1. pass.sector[s] # "none"
    BY <1>4 DEF P!Capped
  <2>2. sharing = Y
    BY <1>2, <2>1, SameKey DEF HeldOf, Spends
  <2>3. (\A t \in Y : pass.caps[pass.class[t]].perSector = pass.caps[pass.class[s]].perSector)
           => Cardinality(Y) <= pass.caps[pass.class[s]].perSector
    BY <1>1, <1>2, <1>4, SectorFits
  <2>. HIDE DEF sharing, Y
  <2>4. \/ P!Cardinality(sharing) <= pass.caps[pass.class[s]].perSector
        \/ \E t \in sharing : pass.caps[pass.class[t]].perSector # pass.caps[pass.class[s]].perSector
    BY <2>2, <2>3, Sizes
  <2>. QED  BY <2>4 DEF sharing
<1>. QED  BY <1>3, <1>4 DEF P!CapsAreKept

(* A candidate not taken found no room behind better ones.                 *)
LEMMA BestFirst ==
    ASSUME P!ScreeningAssumption, ScreenInv PROVE P!TheBestArePicked
<1>. SUFFICES ASSUME P!Done, NEW s \in P!Judged \ picks, cheap[s] > 0, ~P!Loser(s)
              PROVE  LET better == {t \in P!Found : pass.class[t] = pass.class[s] /\ P!Ahead(t, s)}
                         rivals == {t \in P!Judged : /\ t \in pass.held \/ t \in better \/
                                                        (t \in P!Found /\ pass.class[t] # pass.class[s])
                                                     /\ pass.sector[t] = pass.sector[s]}
                         cap == pass.caps[pass.class[s]]
                     IN \/ cap.most > 0 /\ P!Cardinality(better) >= cap.most
                        \/ P!Capped(s) /\ P!Cardinality(rivals) >= cap.perSector
  BY DEF P!TheBestArePicked
<1>. DEFINE better == {t \in P!Found : pass.class[t] = pass.class[s] /\ P!Ahead(t, s)}
            rivals == {t \in P!Judged : /\ t \in pass.held \/ t \in better \/
                                           (t \in P!Found /\ pass.class[t] # pass.class[s])
                                        /\ pass.sector[t] = pass.sector[s]}
            cap == pass.caps[pass.class[s]]
<1>1. PICK taken : Walked(taken)
  BY DEF ScreenInv
<1>. DEFINE ahead == {t \in taken : P!Earlier(t, s)}
<1>2. P!Found = taken /\ taken \subseteq P!Judged /\ IsFiniteSet(taken)
  BY <1>1, FoundIs
<1>3. ~P!HasRoom(s, ahead)
  BY <1>1, FoundIs DEF Walked, P!Kept, P!Protected, P!Candidates, P!Survivors
<1>4. cap.most \in Int /\ cap.perSector \in Int
  BY PoolIs, NumbersAre DEF ScreenInv
<1>5. {t \in ahead : pass.class[t] = pass.class[s]} \subseteq better
  <2>1. \A t \in taken : P!Earlier(t, s) /\ pass.class[t] = pass.class[s] => P!Ahead(t, s)
    BY NumbersAre DEF ScreenInv, P!ClassBefore, P!Earlier
  <2>. QED  BY <1>2, <2>1
<1>6. CASE cap.most > 0 /\ ~(P!Cardinality({t \in ahead : pass.class[t] = pass.class[s]}) < cap.most)
  <2>. DEFINE X == {t \in ahead : pass.class[t] = pass.class[s]}
  <2>1. IsFiniteSet(better)
    BY <1>2, FS_Subset
  <2>2. P!Cardinality(X) = Cardinality(X) /\ P!Cardinality(better) = Cardinality(better)
    BY Sizes
  <2>. HIDE DEF X, better, ahead
  <2>3. IsFiniteSet(X) /\ Cardinality(X) \in Nat /\ Cardinality(better) \in Nat /\ Cardinality(X) <= Cardinality(better)
    BY <1>5, <2>1, FS_Subset, FS_CardinalityType DEF X
  <2>4. ~(Cardinality(X) < cap.most)
    BY <1>6, <2>2 DEF X
  <2>. HIDE DEF cap
  <2>5. P!Cardinality(better) >= cap.most
    BY <1>4, <2>2, <2>3, <2>4
  <2>. QED  BY <1>6, <2>5 DEF better, cap
<1>7. CASE P!Capped(s) /\ ~(P!SpentIn(ahead, P!Key(s)) < cap.perSector)
  <2>. DEFINE Y == HeldOf(P!Key(s)) \cup Spends(ahead, P!Key(s))
  <2>1. Y \subseteq rivals
    BY SameKey, <1>2, <1>5 DEF HeldOf, Spends
  <2>2. IsFiniteSet(rivals)
    BY FS_Subset DEF ScreenInv
  <2>3. P!SpentIn(ahead, P!Key(s)) = Cardinality(Y)
    <3>1. ahead \subseteq P!Judged
      BY <1>2
    <3>. HIDE DEF ahead
    <3>. QED  BY <3>1, SpentIs
  <2>4. P!Cardinality(rivals) = Cardinality(rivals)
    BY Sizes
  <2>. HIDE DEF Y, rivals, ahead
  <2>5. IsFiniteSet(Y) /\ Cardinality(Y) \in Nat /\ Cardinality(rivals) \in Nat /\ Cardinality(Y) <= Cardinality(rivals)
    BY <2>1, <2>2, FS_Subset, FS_CardinalityType
  <2>6. ~(Cardinality(Y) < cap.perSector)
    BY <1>7, <2>3
  <2>. HIDE DEF cap
  <2>7. P!Cardinality(rivals) >= cap.perSector
    BY <1>4, <2>4, <2>5, <2>6
  <2>. QED  BY <1>7, <2>7 DEF rivals, cap
<1>. QED  BY <1>3, <1>6, <1>7 DEF P!HasRoom

LEMMA MeasuredRanks ==
    ASSUME P!ScreeningAssumption, ScreenInv PROVE P!MeasuredIsUsed
<1>. SUFFICES ASSUME NEW s \in DOMAIN probed,
                     probed[s].backtest.trades >= pass.probe.minTrades \/ probed[s].search.trades >= P!SearchFloor
              PROVE  P!Trusted(s) /\ \A t \in P!Judged : (cheap[t] > 0 /\ t \notin DOMAIN probed) => P!Ahead(s, t)
  BY DEF P!MeasuredIsUsed
<1>1. PICK b \in pass.probe.backtests, r \in pass.probe.searches : probed[s] = [backtest |-> b, search |-> r]
  BY DEF ScreenInv
<1>2. b.trades \in Int /\ r.trades \in Int /\ pass.probe.minTrades \in Int
  BY NumbersAre DEF ScreenInv
<1>3. P!SearchFloor >= pass.probe.minTrades /\ P!SearchFloor \in Int
  BY <1>2 DEF P!SearchFloor
<1>4. P!Measured(s).trades >= pass.probe.minTrades
  <2>1. CASE P!Searched(s)
    BY <1>1, <2>1, <1>2, <1>3 DEF P!Measured, P!Searched
  <2>2. CASE ~P!Searched(s)
    BY <1>1, <2>2 DEF P!Measured, P!Searched
  <2>. QED  BY <2>1, <2>2
<1>5. P!Trusted(s)
  BY <1>4 DEF P!Trusted
<1>6. ASSUME NEW t \in P!Judged, t \notin DOMAIN probed
      PROVE  P!Ahead(s, t)
  BY <1>5, <1>6 DEF P!Tier, P!Trusted, P!Ahead
<1>. QED  BY <1>5, <1>6

LEMMA ScreenStarts == P!Init => ScreenInv
<1>. SUFFICES ASSUME P!Init PROVE ScreenInv
  OBVIOUS
<1>1. pass \in Passes /\ P!Judged = {} /\ DOMAIN probed = {} /\ ~P!Done
  BY DEF P!Init, P!Judged, P!Done
<1>. QED  BY <1>1, FS_EmptySet DEF ScreenInv

LEMMA ScreenJudges ==
    ASSUME ScreenInv, P!Judge PROVE ScreenInv'
<1>1. PICK s \in P!Pool \ P!Judged, rank \in pass.ranks :
         /\ cheap' = [t \in P!Judged \cup {s} |-> IF t = s THEN rank ELSE cheap[t]]
         /\ UNCHANGED <<pass, probed, picks>>
  BY DEF P!Judge
<1>2. P!Judged' = P!Judged \cup {s} /\ P!Pool' = P!Pool /\ P!Done' = P!Done
  BY <1>1 DEF P!Judged, P!Pool, P!SeedableClasses, P!ClassPool, P!Done
<1>3. ~P!Done
  BY <1>1 DEF ScreenInv
<1>4. IsFiniteSet(P!Judged \cup {s})
  BY FS_AddElement DEF ScreenInv
<1>5. \A t \in P!Judged' : cheap'[t] \in pass'.ranks
  BY <1>1, <1>2 DEF ScreenInv
<1>6. P!Judged' \subseteq P!Pool' /\ IsFiniteSet(P!Judged')
  BY <1>2, <1>4 DEF ScreenInv
<1>7. /\ DOMAIN probed' \subseteq P!Judged'
      /\ \A t \in DOMAIN probed' : \E b \in pass'.probe.backtests, r \in pass'.probe.searches :
            probed'[t] = [backtest |-> b, search |-> r]
  BY <1>1, <1>2 DEF ScreenInv
<1>8. pass' \in Passes /\ ~P!Done'
  BY <1>1, <1>2, <1>3 DEF ScreenInv
<1>. QED  BY <1>5, <1>6, <1>7, <1>8 DEF ScreenInv

LEMMA ProbeStep ==
    ASSUME ScreenInv, P!Probe PROVE ScreenInv'
<1>1. PICK s \in P!Probable \ DOMAIN probed, b \in pass.probe.backtests, r \in pass.probe.searches :
         probed' = [t \in DOMAIN probed \cup {s} |-> IF t = s THEN [backtest |-> b, search |-> r] ELSE probed[t]]
  BY DEF P!Probe
<1>2. UNCHANGED <<pass, cheap, picks>> /\ pass.probe.on
  BY DEF P!Probe
<1>3. P!Judged' = P!Judged /\ P!Pool' = P!Pool /\ P!Done' = P!Done
  BY <1>2 DEF P!Judged, P!Pool, P!SeedableClasses, P!ClassPool, P!Done
<1>4. ~P!Done
  BY <1>1, <1>2 DEF ScreenInv
<1>5. DOMAIN probed' = DOMAIN probed \cup {s} /\ s \in P!Judged
  BY <1>1 DEF P!Probable
<1>6. \A t \in DOMAIN probed' : \E x \in pass.probe.backtests, y \in pass.probe.searches :
         probed'[t] = [backtest |-> x, search |-> y]
  BY <1>1, <1>5 DEF ScreenInv
<1>. QED  BY <1>2, <1>3, <1>4, <1>5, <1>6 DEF ScreenInv

LEMMA SelectStep ==
    ASSUME ScreenInv, P!Select PROVE ScreenInv'
<1>1. PICK taken \in SUBSET P!Candidates :
         /\ P!RankAndCap(taken)
         /\ picks' = taken \cup (IF pass.keepHeld THEN pass.held ELSE {})
                           \cup (IF pass.keepManual THEN pass.pinned ELSE {})
  BY DEF P!Select
<1>2. UNCHANGED <<pass, cheap, probed>> /\ P!Judged = P!Pool /\ (pass.probe.on => P!Probable \subseteq DOMAIN probed)
  BY DEF P!Select
<1>3. picks' = taken \cup P!Kept
  BY <1>1 DEF P!Kept
<1>4. /\ P!Judged' = P!Judged /\ P!Pool' = P!Pool /\ P!Probable' = P!Probable /\ P!Kept' = P!Kept
      /\ P!Candidates' = P!Candidates /\ P!RankAndCap(taken)' = P!RankAndCap(taken)
  <2>1. /\ P!Judged' = P!Judged /\ P!Pool' = P!Pool /\ P!Kept' = P!Kept
        /\ P!Probable' = P!Probable /\ P!Candidates' = P!Candidates
    BY <1>2 DEF P!Judged, P!Pool, P!SeedableClasses, P!ClassPool, P!Probable, P!Survivors, P!Protected, P!CheaplyAhead,
       P!Kept, P!Candidates, P!Loser, P!Trusted, P!Measured, P!Searched, P!SearchFloor, P!Ahead, P!Tier, P!Rank
  <2>2. P!RankAndCap(taken)' = P!RankAndCap(taken)
    BY <1>2, <2>1 DEF P!RankAndCap, P!HasRoom, P!Earlier, P!ClassBefore, P!Ahead, P!Tier, P!Rank, P!Capped, P!SpentIn,
       P!HeldIn, P!Key, P!Loser, P!Trusted, P!Measured, P!Searched, P!SearchFloor
  <2>. QED  BY <2>1, <2>2
<1>5. Walked(taken)'
  BY <1>1, <1>3, <1>4 DEF Walked
<1>. QED  BY <1>2, <1>4, <1>5 DEF ScreenInv

LEMMA ScreenWaits ==
    ASSUME ScreenInv, UNCHANGED pvars PROVE ScreenInv'
<1>1. UNCHANGED <<pass, cheap, probed, picks>>
  BY DEF pvars
<1>2. /\ P!Judged' = P!Judged /\ P!Pool' = P!Pool /\ P!Probable' = P!Probable /\ P!Kept' = P!Kept /\ P!Done' = P!Done
      /\ P!Candidates' = P!Candidates /\ \A taken : P!RankAndCap(taken)' = P!RankAndCap(taken)
  BY <1>1 DEF P!Judged, P!Pool, P!SeedableClasses, P!ClassPool, P!Probable, P!Survivors, P!Protected, P!CheaplyAhead,
     P!Kept, P!Candidates, P!Loser, P!Trusted, P!Measured, P!Searched, P!SearchFloor, P!RankAndCap, P!HasRoom,
     P!Earlier, P!ClassBefore, P!Ahead, P!Tier, P!Rank, P!Capped, P!SpentIn, P!HeldIn, P!Key, P!Done
<1>3. \A taken : Walked(taken) => Walked(taken)'
  BY <1>1, <1>2 DEF Walked
<1>. QED  BY <1>1, <1>2, <1>3 DEF ScreenInv

(* Whatever the filters and the probes answer, and however many classes,   *)
(* caps and sectors there are: a pass picks nothing that was refused or    *)
(* measured a loser, keeps every class and every sector within its cap,    *)
(* the held counted, leaves out nothing better than what it took, and      *)
(* ranks what was measured above what was not.                             *)
THEOREM PicksAreTheBest == ReplaysSpec => []PicksAreHonest
<1>1. ReplaysInit => ScreenInv
  BY ScreenStarts DEF ReplaysInit
<1>2. ScreenInv /\ [ReplaysNext]_parts => ScreenInv'
  BY ScreenJudges, ProbeStep, SelectStep, ScreenWaits DEF ReplaysNext, P!Next, parts
<1>3. ScreenInv => PicksAreHonest
  BY ReplaysAssumption, SoundPicks, CapsFit, BestFirst, MeasuredRanks DEF P!PicksAreHonest, PicksAreHonest
<1>. QED  BY <1>1, <1>2, <1>3, PTL DEF ReplaysSpec
=============================================================================
