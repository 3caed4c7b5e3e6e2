----------------------------- MODULE PriceHistory -----------------------------
(***************************************************************************)
(* Historical candles: market.CachingHistory in front of                   *)
(* market.YahooHistory, as warmup, venuePrice, the screener and the        *)
(* optimizer share them, for one symbol and resolution.                    *)
(*                                                                         *)
(* A caller asks for the last so many ticks up to now.  A hit is one step; *)
(* a miss goes to Yahoo attempt by attempt and is stored when it returns,  *)
(* so callers overlap, a slow one may store after a later one, and each    *)
(* attempt may find the cooldown begun or ended by another.  The answer of *)
(* one request: enough bars, few, none (not retryable), or busy (429, 5xx  *)
(* or no connection).                                                      *)
(***************************************************************************)
EXTENDS Integers, FiniteSets

CONSTANTS
    Callers,
    Reach,          \* how far back each caller asks, in ticks
    TTL,            \* of the cache
    Cooldown,       \* yahooCooldown
    MaxRetries, Intervals,      \* the attempts of one fetch, of one Candles call
    Horizon         \* bound: the last tick

\* what the constants have to be
HistoryAssumption ==
    /\ {TTL, Cooldown, Intervals, Horizon} \subseteq Nat \ {0}
    /\ MaxRetries \in Nat /\ Reach \in [Callers -> Nat]
    /\ IsFiniteSet(Callers) /\ Callers # {}

VARIABLES
    now,
    entry,      \* the cache's entry
    caller,     \* the calls under way
    cooling,    \* ticks of cooldown left
    storm       \* requests sent since the cooldown began

vars == <<now, entry, caller, cooling, storm>>

NoEntry == [have |-> FALSE, from |-> 0, to |-> 0, fetchedAt |-> 0, data |-> "none"]
Idle    == [pc |-> "idle", from |-> 0, to |-> 0, interval |-> 1, attempt |-> 0,
            best |-> "none"]

Init ==
    /\ now = 1 /\ entry = NoEntry /\ caller = [c \in Callers |-> Idle]
    /\ cooling = 0 /\ storm = 0

-----------------------------------------------------------------------------
(* CachingHistory.Candles: both bounds of the window must be covered.      *)

Covers(e, from, to) ==
    /\ e.have /\ now - e.fetchedAt < TTL
    /\ from >= e.from /\ to <= e.to + TTL

Swept == IF entry.have /\ now - entry.fetchedAt > 20 * TTL THEN NoEntry ELSE entry

Hit(c) ==
    /\ caller[c].pc = "idle" /\ Covers(Swept, now - Reach[c], now)
    /\ entry' = Swept /\ UNCHANGED <<now, caller, cooling, storm>>

Miss(c) ==
    /\ caller[c].pc = "idle" /\ ~Covers(Swept, now - Reach[c], now) /\ entry' = Swept
    /\ caller' = [caller EXCEPT ![c] = [Idle EXCEPT !.pc = "fetch", !.from = now - Reach[c], !.to = now]]
    /\ UNCHANGED <<now, cooling, storm>>

(* Invalidate                                                              *)
Invalidate ==
    /\ entry.have /\ entry' = NoEntry
    /\ UNCHANGED <<now, caller, cooling, storm>>

-----------------------------------------------------------------------------

(* YahooHistory.Candles, from interval to coarser interval; fetch, from    *)
(* attempt to attempt.                                                     *)
Throttled(c) ==
    /\ caller[c].pc = "fetch"
    /\ caller' = [caller EXCEPT ![c] =
         IF cooling > 0 THEN [@ EXCEPT !.pc = "return"]
         ELSE [@ EXCEPT !.pc = "request"]]
    /\ UNCHANGED <<now, entry, cooling, storm>>

Send(c) ==
    /\ caller[c].pc = "request"
    /\ caller' = [caller EXCEPT ![c].pc = "answer"]
    /\ storm' = IF cooling > 0 THEN storm + 1 ELSE storm
    /\ UNCHANGED <<now, entry, cooling>>

NextInterval(k) ==
    IF k.interval < Intervals
    THEN [k EXCEPT !.pc = "fetch", !.interval = @ + 1, !.attempt = 0]
    ELSE [k EXCEPT !.pc = "return"]

(* The interval that serves the most bars so far; enough of them ends it.  *)
Best(k, enough) ==
    LET own == k.interval = 1
    IN IF enough THEN [k EXCEPT !.pc = "return", !.best = IF own THEN "own" ELSE "coarse"]
       ELSE NextInterval([k EXCEPT !.best = IF own THEN "own"
                                            ELSE IF @ = "none" THEN "coarse" ELSE @])

AnswerBars(c, enough) ==
    /\ caller[c].pc = "answer"
    /\ caller' = [caller EXCEPT ![c] = Best(@, enough)]
    /\ cooling' = 0 /\ storm' = 0
    /\ UNCHANGED <<now, entry>>

AnswerNone(c) ==
    /\ caller[c].pc = "answer"
    /\ caller' = [caller EXCEPT ![c] = NextInterval(@)]
    /\ UNCHANGED <<now, entry, cooling, storm>>

AnswerBusy(c) ==
    LET k == caller[c] IN
    /\ k.pc = "answer"
    /\ IF k.attempt < MaxRetries
       THEN /\ caller' = [caller EXCEPT ![c].pc = "request", ![c].attempt = @ + 1]
            /\ UNCHANGED <<cooling, storm>>
       ELSE /\ caller' = [caller EXCEPT ![c] = NextInterval(@)]
            /\ cooling' = Cooldown /\ storm' = IF cooling = 0 THEN 0 ELSE storm
    /\ UNCHANGED <<now, entry>>

(* Back in CachingHistory: store what came, under the window asked for.    *)
Return(c) ==
    LET k == caller[c] IN
    /\ k.pc = "return" /\ caller' = [caller EXCEPT ![c] = Idle]
    /\ entry' = IF k.best = "none" THEN entry
                ELSE [have |-> TRUE, from |-> k.from, to |-> k.to, fetchedAt |-> now, data |-> k.best]
    /\ UNCHANGED <<now, cooling, storm>>

Tick ==
    /\ now < Horizon /\ now' = now + 1
    /\ cooling' = IF cooling > 0 THEN cooling - 1 ELSE 0
    /\ storm' = IF cooling <= 1 THEN 0 ELSE storm
    /\ UNCHANGED <<entry, caller>>

Next ==
    \/ \E c \in Callers :
         \/ Hit(c) \/ Miss(c) \/ Throttled(c) \/ Send(c) \/ AnswerBars(c, TRUE) \/ AnswerBars(c, FALSE)
         \/ AnswerNone(c) \/ AnswerBusy(c) \/ Return(c)
    \/ Invalidate \/ Tick

Spec == Init /\ [][Next]_vars

-----------------------------------------------------------------------------
(* Whatever a caller asks for, an answer from the cache holds every bar of *)
(* the window but those of the last TTL, also when a slow fetch was stored *)
(* after a later one; it was fetched after the window's end, and is never  *)
(* what a fetch left that brought nothing.                                 *)
HitsHoldTheWindow == \A c \in Callers :
    Covers(entry, now - Reach[c], now) =>
        /\ entry.from <= now - Reach[c] /\ now - entry.to <= TTL
        /\ entry.to <= entry.fetchedAt /\ entry.data # "none"

(* During a cooldown no request is sent but by fetches that were under way *)
(* when it began, each within its own retries (the retry storm).           *)
CooldownStopsTheStorm == storm <= (Cardinality(Callers) - 1) * (MaxRetries + 1)
=============================================================================
