------------------------------- MODULE Advisor -------------------------------
(***************************************************************************)
(* The two learned voters of the strategy: internal/ai's advisor, which    *)
(* asks a language model in the background, and internal/ml's predictor,   *)
(* which fits a model per symbol on its bars.                              *)
(*                                                                         *)
(* Advisor: an evaluation claims a refresh under the lock and a goroutine  *)
(* performs it: it waits for one of MaxConcurrent slots, asks, and stores  *)
(* the answer.  Instants are kept as ages, counted in ticks and capped     *)
(* where they no longer decide anything.  This is the live, non-blocking   *)
(* mode.  Predictor: time is counted in bars, of which the store keeps     *)
(* the last Window; one evaluation is one atomic step under its lock.      *)
(***************************************************************************)
EXTENDS Integers, FiniteSets

CONSTANTS
    Symbols,
    Refresh, MaxAge, Timeout,   \* refresh_interval, max_age and timeout, in ticks
    MaxConcurrent,
    MaxRequests,                \* the goroutines there is room for
    RetrainEvery, Window,       \* retrain_every, and the bars an evaluation sees
    Settings

\* what the constants have to be
AdvisorAssumption ==
    /\ {Refresh, MaxAge, Timeout, MaxConcurrent, MaxRequests, RetrainEvery, Window} \subseteq Nat \ {0}
    /\ Settings \subseteq
         [voter : {"ai", "ml"},
          moves : BOOLEAN,      \* the readings, or the periods, change
          forgets : BOOLEAN,    \* a symbol leaves the list and comes back
          back : BOOLEAN]       \* the clock may be set back, once

VARIABLES
    setting,
    reading,    \* the fingerprint of a symbol's readings; the periods its strategy uses
    cache,      \* ai: entries by symbol
    request,    \* ai: the refreshes under way
    model,      \* ml: entries by symbol
    stepped     \* the clock has been set back

vars == <<setting, reading, cache, request, model, stepped>>

Cap      == 1 + IF Refresh > MaxAge THEN Refresh ELSE MaxAge
Older(age, top) == IF age < top THEN age + 1 ELSE age

NoEntry == [inflight |-> FALSE, have |-> FALSE, mark |-> 0, asked |-> Cap, at |-> Cap]
NoModel(params) == [fitted |-> FALSE, failed |-> FALSE, params |-> params, on |-> params,
                    since |-> Window, age |-> 0]

Init ==
    /\ setting \in Settings
    /\ reading = [s \in Symbols |-> 0]
    /\ cache = [s \in Symbols |-> NoEntry] /\ request = {}
    /\ model = [s \in Symbols |-> NoModel(0)] /\ stepped = FALSE

-----------------------------------------------------------------------------
(* claim                                                                   *)
FromTheFuture(e) == ~e.inflight /\ (e.asked < 0 \/ (e.have /\ e.at < 0))

Seen(s) == IF FromTheFuture(cache[s]) THEN NoEntry ELSE cache[s]

Stale(e) == e.have /\ e.at > MaxAge

\* mutant: a verdict on unchanged readings is never asked for again (AI2-5)
DueWhenMoved(e, mark) ==
    ~e.inflight /\ e.asked >= Refresh /\ (~e.have \/ e.mark # mark)

Due(e, mark) ==
    ~e.inflight /\ e.asked >= Refresh /\ (~e.have \/ e.mark # mark \/ Stale(e))

NewId == CHOOSE i \in 1..MaxRequests : \A r \in request : r.id # i

(* An evaluation asks for symbol's verdict and starts a refresh if one is due. *)
Verdict(s) ==
    LET e == Seen(s) IN
    /\ setting.voter = "ai" /\ Due(e, reading[s]) /\ Cardinality(request) < MaxRequests
    /\ cache' = [cache EXCEPT ![s] = [e EXCEPT !.inflight = TRUE, !.asked = 0]]
    /\ request' = request \cup
         {[id |-> NewId, symbol |-> s, mark |-> reading[s], pc |-> "waiting", age |-> 0]}
    /\ UNCHANGED <<setting, reading, model, stepped>>

Asking == {r \in request : r.pc = "asking"}

(* refresh: a slot, or the timeout while waiting for one (recordFailure).  *)
TakeSlot(r) ==
    /\ r.pc = "waiting" /\ Cardinality(Asking) < MaxConcurrent
    /\ request' = (request \ {r}) \cup {[r EXCEPT !.pc = "asking"]}
    /\ UNCHANGED <<setting, reading, cache, model, stepped>>

RecordFailure(r) ==
    /\ r.pc = "waiting" /\ r.age = Timeout
    /\ request' = request \ {r}
    /\ cache' = [cache EXCEPT ![r.symbol].inflight = FALSE]
    /\ UNCHANGED <<setting, reading, model, stepped>>

(* The answer: a verdict stamped now, or an error; an entry dropped        *)
(* meanwhile takes neither.                                                *)
Answer(r) ==
    /\ r.pc = "asking" /\ request' = request \ {r}
    /\ \/ /\ r.age < Timeout
          /\ cache' = [cache EXCEPT ![r.symbol] =
               [@ EXCEPT !.inflight = FALSE, !.have = TRUE, !.mark = r.mark, !.at = 0]]
       \/ cache' = [cache EXCEPT ![r.symbol].inflight = FALSE]
    /\ UNCHANGED <<setting, reading, model, stepped>>

(* Forget.  An absent entry and a blank one are the same to every reader   *)
(* but an answer on its way, which Known tells apart.                      *)
Known(s) == cache[s] # NoEntry

AnswerNobody(r) ==
    /\ r.pc = "asking" /\ ~Known(r.symbol) /\ request' = request \ {r}
    /\ UNCHANGED <<setting, reading, cache, model, stepped>>

GiveUpForNobody(r) ==
    /\ r.pc = "waiting" /\ r.age = Timeout /\ ~Known(r.symbol) /\ request' = request \ {r}
    /\ UNCHANGED <<setting, reading, cache, model, stepped>>

Step(r) ==
    \/ TakeSlot(r)
    \/ Known(r.symbol) /\ (RecordFailure(r) \/ Answer(r))
    \/ AnswerNobody(r) \/ GiveUpForNobody(r)

Forget(s) ==
    /\ setting.forgets /\ Cardinality(request) < MaxRequests
    /\ \/ setting.voter = "ai" /\ cache' = [cache EXCEPT ![s] = NoEntry] /\ UNCHANGED model
       \/ setting.voter = "ml" /\ model' = [model EXCEPT ![s] = NoModel(reading[s])] /\ UNCHANGED cache
    /\ UNCHANGED <<setting, reading, request, stepped>>

(* Time passes; a request past its timeout has been cancelled.             *)
Tick ==
    /\ setting.voter = "ai" /\ \A r \in request : r.age < Timeout
    /\ cache' = [s \in Symbols |->
         [cache[s] EXCEPT !.asked = Older(@, Cap), !.at = Older(@, Cap)]]
    /\ request' = {[r EXCEPT !.age = @ + 1] : r \in request}
    /\ UNCHANGED <<setting, reading, model, stepped>>

(* The clock is set back, past the last question of every symbol.          *)
ClockBack ==
    /\ setting.voter = "ai" /\ setting.back /\ ~stepped /\ stepped' = TRUE
    /\ cache' = [s \in Symbols |->
         IF Known(s) THEN [cache[s] EXCEPT !.asked = -1, !.at = -1] ELSE cache[s]]
    /\ UNCHANGED <<setting, reading, request, model>>

Move(s) ==
    /\ setting.moves /\ reading' = [reading EXCEPT ![s] = 1 - @]
    /\ UNCHANGED <<setting, cache, request, model, stepped>>

-----------------------------------------------------------------------------
(* ml: modelFor.  since counts the bars in the window newer than the last  *)
(* fit, age those seen by the model that votes.                            *)
ModelEntry(s) == IF model[s].params = reading[s] THEN model[s] ELSE NoModel(reading[s])

CountBar(m) ==
    [m EXCEPT !.since = Older(@, Window), !.age = Older(@, RetrainEvery + 1)]

FitDue(m) ==
    /\ ~m.fitted \/ m.since >= RetrainEvery
    /\ ~(m.failed /\ m.since < RetrainEvery)

(* A bar completes and the symbol is evaluated: one decision.              *)
Bar(s) ==
    LET m == ModelEntry(s)
        n == [CountBar(m) EXCEPT !.since = IF m.fitted \/ m.failed THEN @ ELSE Window]
    IN /\ setting.voter = "ml"
       /\ \/ ~FitDue(n) /\ model' = [model EXCEPT ![s] = n]
          \/ FitDue(n) /\ model' = [model EXCEPT ![s] =
                [n EXCEPT !.fitted = TRUE, !.failed = FALSE, !.on = reading[s], !.since = 0, !.age = 0]]
          \/ FitDue(n) /\ model' = [model EXCEPT ![s] = [n EXCEPT !.failed = TRUE, !.since = 0]]
       /\ UNCHANGED <<setting, reading, cache, request, stepped>>

-----------------------------------------------------------------------------
Next ==
    \/ \E s \in Symbols : Verdict(s) \/ Forget(s) \/ Move(s) \/ Bar(s)
    \/ \E r \in request : Step(r)
    \/ Tick \/ ClockBack

Spec == Init /\ [][Next]_vars

(* Every symbol on the list is evaluated again and again, slots are handed *)
(* out, the model's client has a timeout.                                  *)
Fairness ==
    /\ WF_vars(Tick) /\ WF_vars(\E r \in request : Step(r))
    /\ \A s \in Symbols : WF_vars(Verdict(s))

FairSpec == Spec /\ Fairness

-----------------------------------------------------------------------------
(* At most one refresh per symbol, and an entry is in flight exactly while *)
(* there is one, so that none is wedged.                                   *)
OneRequest == ~setting.forgets =>
    \A s \in Symbols : Cardinality({r \in request : r.symbol = s})
                          = IF cache[s].inflight THEN 1 ELSE 0

(* A model votes at most RetrainEvery bars after its fit, unless a later   *)
(* fit failed; and a failed one is tried again as soon.                    *)
ModelsAreRefitted == \A s \in Symbols :
    LET m == model[s] IN
    /\ m.fitted /\ ~m.failed => m.age < RetrainEvery
    /\ m.fitted \/ m.failed => m.since < RetrainEvery

(* However quiet the market, every symbol is asked about again and again.  *)
ExpiredIsAskedAgain == \A s \in Symbols :
    []<>(setting.voter = "ai" => \E r \in request : r.symbol = s)
=============================================================================
