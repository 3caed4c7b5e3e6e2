--------------------------------- MODULE Bars ---------------------------------
(***************************************************************************)
(* One symbol's price state in internal/engine: the bar store (barstore.go,*)
(* bars.go), the price cache, the trailing-stop peak, and the currency     *)
(* rate all of them are kept at.                                           *)
(*                                                                         *)
(* The engine's loop ingests ticks and, in a sync, installs the rate the   *)
(* broker reports; a tracking goroutine resolves the rate of a symbol it   *)
(* adds and seeds its history.  setFXRate writes the rate and then         *)
(* rescales the bars, the cached price and the peaks, each under a lock of *)
(* its own.  A price is kept as the power of two it has been converted by, *)
(* a rate likewise, so that rescaling adds their difference; times are     *)
(* counted in bar intervals.                                               *)
(***************************************************************************)
EXTENDS Integers, Sequences, SequencesExt

CONSTANTS
    Capacity,       \* of a ring
    MaxFill,        \* maxFillSpan, in intervals
    Rates,          \* exponents of the rates that occur
    MaxTime, MaxChanges,    \* bounds
    Settings

\* what the constants have to be
BarsAssumption ==
    /\ Capacity \in Nat \ {0} /\ MaxFill \in Nat
    /\ Rates \subseteq Int /\ {MaxTime, MaxChanges} \subseteq Nat
    /\ Settings \subseteq
         [overlap : BOOLEAN,    \* a rate arrives while a tick or a history is being converted
          late : BOOLEAN]       \* history is seeded while ticks already build bars

VARIABLES
    setting,
    ring,           \* buf, head and n as in the code
    cur,            \* the bar being built
    rate,           \* fxRates; prices before the first are unconverted
    cached, peak, floor,    \* prices: the tick cache, e.peaks, openPos TrailFloor
    held,
    changing,       \* setFXRate, by actor: what is left to rescale, and by how much
    tick, history,  \* a price on its way in: the loop's tick, the tracker's candles
    tracker,
    pushed,         \* the times pushed since the last reset, the newest Capacity of them
    changes

vars == <<setting, ring, cur, rate, cached, peak, floor, held, changing, tick, history, tracker,
          pushed, changes>>

store  == <<ring, cur, pushed>>
levels == <<cached, peak, floor, held>>

None     == [time |-> 0, scale |-> 0]
NoPrice  == [scale |-> 0, have |-> FALSE]
Actors   == {"loop", "tracker"}
Settled  == [left |-> {}, by |-> 0]
Mixed    == 99
NewRing  == [buf |-> [i \in 0..(Capacity - 1) |-> None], head |-> 0, n |-> 0]

Init ==
    /\ setting \in Settings
    /\ ring = NewRing /\ cur = None /\ pushed = <<>>
    /\ rate = 0 /\ cached = NoPrice /\ peak = NoPrice /\ floor = NoPrice /\ held = FALSE
    /\ changing = [a \in Actors |-> Settled]
    /\ tick = [pc |-> "idle", time |-> 0, scale |-> 0]
    /\ history = [last |-> 0, scale |-> 0] /\ tracker = "off" /\ changes = MaxChanges

-----------------------------------------------------------------------------
(* The ring.                                                               *)
Push(r, bar) ==
    [buf |-> [r.buf EXCEPT ![r.head] = bar], head |-> (r.head + 1) % Capacity,
     n |-> IF r.n < Capacity THEN r.n + 1 ELSE r.n]

AppendLast(r, n) ==
    LET take  == IF n >= 0 /\ n < r.n THEN n ELSE r.n
        start == (r.head - take + Capacity) % Capacity
    IN [i \in 1..take |-> r.buf[(start + i - 1) % Capacity]]

TailOf(n) ==
    LET want == IF n > 0 THEN (IF cur # None THEN n - 1 ELSE n) ELSE -1
    IN AppendLast(ring, want) \o IF cur # None THEN <<cur>> ELSE <<>>

LastOf(s, n) == SubSeq(s, 1 + IF Len(s) > n THEN Len(s) - n ELSE 0, Len(s))

PushAll(bars) ==
    /\ ring' = FoldLeft(Push, ring, bars)
    /\ pushed' = LastOf(pushed \o [i \in DOMAIN bars |-> bars[i].time], Capacity)

-----------------------------------------------------------------------------
(* barBuilder.add                                                          *)
FillGap(next) ==
    LET gap == next - cur.time
    IN IF gap <= 1 \/ gap > MaxFill THEN <<>>
       ELSE [i \in 1..(gap - 1) |-> [time |-> cur.time + i, scale |-> cur.scale]]

(* A bar of ticks at two scales has none that is right.                    *)
AddTick(time, scale) ==
    IF cur = None THEN cur' = [time |-> time, scale |-> scale] /\ UNCHANGED <<ring, pushed>>
    ELSE IF time < cur.time THEN UNCHANGED store
    ELSE IF time = cur.time
    THEN /\ cur' = [cur EXCEPT !.scale = IF @ = scale THEN @ ELSE Mixed]
         /\ UNCHANGED <<ring, pushed>>
    ELSE PushAll(<<cur>> \o FillGap(time)) /\ cur' = [time |-> time, scale |-> scale]

-----------------------------------------------------------------------------
(* ingest: convert the print, then store it in the cache, the peak, a bar. *)
LoopFree    == tick.pc = "idle" /\ changing["loop"].left = {}
NobodyRates == \A a \in Actors : changing[a].left = {}

Quote(time) ==
    /\ tracker # "off" /\ LoopFree /\ (setting.overlap \/ NobodyRates)
    /\ setting.late \/ (tracker = "done" /\ (cur # None \/ time >= history.last))
    /\ tick' = [pc |-> "cache", time |-> time, scale |-> rate]
    /\ UNCHANGED <<setting, store, rate, levels, changing, history, tracker, changes>>

IngestPrice ==
    /\ tick.pc = "cache" /\ tick' = [tick EXCEPT !.pc = "bar"]
    /\ cached' = [scale |-> tick.scale, have |-> TRUE]
    /\ peak' \in {peak, IF held THEN [scale |-> tick.scale, have |-> TRUE] ELSE peak}
    /\ UNCHANGED <<setting, store, rate, floor, held, changing, history, tracker, changes>>

IngestBar ==
    /\ tick.pc = "bar" /\ tick' = [tick EXCEPT !.pc = "idle"]
    /\ AddTick(tick.time, tick.scale)
    /\ UNCHANGED <<setting, rate, levels, changing, history, tracker, changes>>

(* Buying records the peak and, once checkExits has run, a trail floor.    *)
Hold ==
    /\ ~held /\ cached.have /\ LoopFree /\ NobodyRates
    /\ held' = TRUE /\ peak' = cached /\ floor' = cached
    /\ UNCHANGED <<setting, store, rate, cached, changing, tick, history, tracker, changes>>

-----------------------------------------------------------------------------
(* setFXRate, by the loop in a sync and by the tracker.                    *)
Later == tick.pc = "idle" \/ setting.overlap

SetRate(a, new) ==
    /\ changing[a].left = {} /\ new # rate /\ changes > 0 /\ changes' = changes - 1
    /\ IF a = "loop" THEN LoopFree ELSE tracker = "rate"
    /\ Later /\ (setting.overlap \/ tracker # "seed")
    /\ rate' = new
    /\ changing' = [changing EXCEPT ![a] = [left |-> {"bars", "price", "peak"}, by |-> new - rate]]
    /\ UNCHANGED <<setting, store, levels, tick, history, tracker>>

Scaled(p, by) == IF p.have THEN [p EXCEPT !.scale = @ + by] ELSE p
ScaledBar(b, by) == IF b = None THEN b ELSE [b EXCEPT !.scale = @ + by]

Rescaled(a, what) ==
    /\ what \in changing[a].left
    /\ changing' = [changing EXCEPT ![a].left = @ \ {what}]
    /\ UNCHANGED <<setting, rate, held, pushed, tick, history, tracker, changes>>

RescaleBars(a) ==
    /\ Rescaled(a, "bars") /\ UNCHANGED <<cached, peak, floor>>
    /\ ring' = [ring EXCEPT !.buf = [i \in DOMAIN @ |-> ScaledBar(@[i], changing[a].by)]]
    /\ cur' = ScaledBar(cur, changing[a].by)

RescalePrice(a) ==
    /\ Rescaled(a, "price") /\ "bars" \notin changing[a].left /\ UNCHANGED <<ring, cur, peak, floor>>
    /\ cached' = Scaled(cached, changing[a].by)

\* mutant: the record's trail floor keeps the old rate (EN3-4)
RescalePeakOnly(a) ==
    /\ Rescaled(a, "peak") /\ changing[a].left = {"peak"} /\ UNCHANGED <<ring, cur, cached, floor>>
    /\ peak' = Scaled(peak, changing[a].by)

RescalePeak(a) ==
    /\ Rescaled(a, "peak") /\ changing[a].left = {"peak"} /\ UNCHANGED <<ring, cur, cached>>
    /\ peak' = Scaled(peak, changing[a].by) /\ floor' = Scaled(floor, changing[a].by)

-----------------------------------------------------------------------------
(* trackSymbols: register, resolve the rate, fetch history and convert it, *)
(* seed.  removeSymbol drops the bars.                                     *)
TrackSymbol ==
    /\ tracker = "off" /\ tracker' = "rate"
    /\ UNCHANGED <<setting, store, rate, levels, changing, tick, history, changes>>

Fetch(last) ==
    /\ tracker = "rate" /\ changing["tracker"].left = {}
    /\ setting.overlap \/ NobodyRates
    /\ tracker' = "seed" /\ history' = [last |-> last, scale |-> rate]
    /\ UNCHANGED <<setting, store, rate, levels, changing, tick, changes>>

NoHistory ==
    /\ tracker = "rate" /\ changing["tracker"].left = {} /\ tracker' = "done"
    /\ UNCHANGED <<setting, store, rate, levels, changing, tick, history, changes>>

SeedHistory ==
    /\ tracker = "seed" /\ tracker' = "done"
    /\ LET bars == [i \in 1..history.last |-> [time |-> i, scale |-> history.scale]]
       IN /\ ring' = FoldLeft(Push, NewRing, LastOf(bars, Capacity))
          /\ pushed' = LastOf([i \in DOMAIN bars |-> i], Capacity)
    /\ UNCHANGED <<setting, cur, rate, levels, changing, tick, history, changes>>

RemoveSymbol ==
    /\ tracker = "done" /\ ~held /\ LoopFree /\ NobodyRates /\ tracker' = "off"
    /\ ring' = NewRing /\ cur' = None /\ pushed' = <<>> /\ history' = [last |-> 0, scale |-> 0]
    /\ UNCHANGED <<setting, rate, levels, changing, tick, changes>>

Next ==
    \/ \E time \in 1..MaxTime : Quote(time)
    \/ IngestPrice \/ IngestBar \/ Hold
    \/ \E a \in Actors : \/ \E new \in Rates : SetRate(a, new)
                         \/ RescaleBars(a) \/ RescalePrice(a) \/ RescalePeak(a)
    \/ TrackSymbol \/ (\E last \in 1..2 : Fetch(last)) \/ NoHistory \/ SeedHistory \/ RemoveSymbol

Spec == Init /\ [][Next]_vars

-----------------------------------------------------------------------------
(* Once every rescale is through, whatever the order two of them took,     *)
(* every price the engine keeps is at the symbol's current rate.           *)
OneScale == NobodyRates /\ LoopFree /\ tracker # "seed" =>
    /\ \A p \in {cached, peak, floor} : p.have => p.scale = rate
    /\ \A i \in DOMAIN ring.buf : ring.buf[i] # None => ring.buf[i].scale = rate
    /\ cur # None => cur.scale = rate

(* The series is what was pushed, however often the ring has gone round,   *)
(* in increasing times and with every quiet interval filled; and a tail of *)
(* n is its newest n.                                                      *)
Times(s) == [i \in DOMAIN s |-> s[i].time]

SeriesIsWhole ==
    LET all == AppendLast(ring, -1) \o IF cur # None THEN <<cur>> ELSE <<>>
    IN /\ Times(AppendLast(ring, -1)) = pushed
       /\ \A n \in 1..(Capacity + 1) : TailOf(n) = LastOf(all, n)
       /\ ~setting.late => \A i \in 1..(Len(all) - 1) :
            LET gap == all[i + 1].time - all[i].time
            IN IF all[i].time <= history.last THEN gap >= 0 ELSE gap = 1 \/ gap > MaxFill
=============================================================================
