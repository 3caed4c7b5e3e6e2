---------------------------- MODULE LivePosition ----------------------------
(***************************************************************************)
(* One held symbol as the live engine protects and adds to it: ticks move  *)
(* the price and the peak, every evaluation checks the exits, then the     *)
(* scale-out ladder, then the scale-in step; settings are edited and the   *)
(* process restarts in between.  The record of the position is persisted   *)
(* at the points the code does it.  The rules are ExitRules, the ones the  *)
(* backtest uses; what every other gate of an order says is any outcome.   *)
(***************************************************************************)
EXTENDS ExitRules

CONSTANTS
    Setups,     \* what a run is about: see `setup`
    Jump        \* percent above the last tick that may be a bad print

VARIABLES
    setup,      \* [exits : set of exit settings, scaleIn, ticks : prices,
                \*  entries, edits, restarts : Nat, crashes : BOOLEAN]
    cfg,        \* the exit settings in force
    price,      \* the last tick, 0 before one
    pos,        \* the record of the position, <<>> when none is open
    peak,       \* the peak in memory
    disk,       \* the record as persisted
    step,       \* "exits", "mark", "adds": where the evaluation stands
    rung,       \* the rung a filled or unknown sale still has to mark
    unknown,    \* an order whose outcome the broker has not told
    refused,    \* the broker refused the last add, not long ago
    left,       \* how many entries, edits and restarts may come
    judged,     \* the trail last judged: [cfg, level], of this trip
    sold,       \* the rungs this trip has sold, in order
    addedAt     \* the prices this trip was scaled in at, in order

lvars == <<setup, cfg, price, pos, peak, disk, step, rung, unknown, refused, left, judged, sold, addedAt>>

\* How many rungs of a ladder are usable is a number.
LivePositionAssumption == \A s \in Setups : \A c \in s.exits : Len(SortedRungs(c.ladder)) \in Nat

None == <<>>
NoOrder == [side |-> "none", qty |-> 0, rungs |-> <<>>, held |-> 0]

Init ==
    /\ setup \in Setups
    /\ cfg \in setup.exits
    /\ price = 0 /\ pos = None /\ peak = 0 /\ disk = None
    /\ step = "exits" /\ rung = 0 /\ unknown = NoOrder /\ refused = FALSE
    /\ left = [entries |-> setup.entries, edits |-> setup.edits, restarts |-> setup.restarts]
    /\ judged = None /\ sold = <<>> /\ addedAt = <<>>

Open == pos /= None
Rec == pos[1]

-----------------------------------------------------------------------------
\* A tick far above the last one is not a peak before a second one confirms it.
Believed(p) == price = 0 \/ p * Hundred <= price * (Hundred + Jump)

\* ingest: the price, and while the symbol is held its peak
Tick(p) ==
    /\ p /= price
    /\ price' = p
    /\ peak' = IF Open /\ Believed(p) THEN Larger(peak, p) ELSE peak
    /\ UNCHANGED <<setup, cfg, pos, disk, step, rung, unknown, refused, left, judged, sold, addedAt>>

\* recordOpen: a first buy opens the record, any later one re-bases it
RecordOpen(n, at) ==
    LET cost == Rec.qty * Rec.avg + n * at
        avg == cost \div (Rec.qty + n)
        based == RebaseOnAdd(cfg, Rec.avg, Larger(Rec.peak, peak), FloorFor(cfg, Rec.floor, Rec.key), setup.atr, avg, at)
        now == IF ~Open
               THEN [qty |-> n, avg |-> at, peak |-> at, floor |-> 0, key |-> TrailKey(cfg), orig |-> n,
                     taken |-> 0, adds |-> 0]
               ELSE [qty |-> Rec.qty + n, avg |-> avg, peak |-> Larger(based.peak, at), floor |-> based.floor,
                     key |-> TrailKey(cfg), orig |-> Larger(Rec.orig, Rec.qty + n), taken |-> Rec.taken,
                     adds |-> Rec.adds + 1]
    IN  /\ pos' = <<now>> /\ disk' = <<now>>
        /\ peak' = IF Open THEN now.peak ELSE Larger(peak, at)

\* a buy of the strategy: it opens the position, or adds to it
Buy ==
    /\ left.entries > 0 /\ price > 0 /\ unknown = NoOrder
    /\ left' = [left EXCEPT !.entries = @ - 1]
    /\ RecordOpen(setup.lot, price)
    /\ UNCHANGED <<setup, cfg, price, step, rung, unknown, refused, judged, sold, addedAt>>

\* the level the exits judge by
JudgedPeak == Max({peak, price, Rec.avg})

LevelsAt ==
    WithTrailFloor(Compute(cfg, Rec.avg, JudgedPeak, setup.atr, 0), cfg, FloorFor(cfg, Rec.floor, Rec.key))

\* the record with the peak it is judged by
WithPeak == [Rec EXCEPT !.peak = Larger(@, JudgedPeak)]

\* what a check that leaves the position open leaves behind
Judge ==
    /\ pos' = <<WithPeak>> /\ disk' = pos' /\ peak' = JudgedPeak
    /\ judged' = <<[cfg |-> cfg, level |-> LevelsAt.trail]>>

\* nothing is left of the position, and its record is gone
Closed ==
    /\ pos' = None /\ disk' = None /\ peak' = 0
    /\ judged' = None /\ sold' = <<>> /\ addedAt' = <<>>

\* recordClose: n less of the record, sold as these rungs
Reduce(n, rungs) ==
    IF n >= Rec.qty THEN Closed
    ELSE /\ pos' = <<[WithPeak EXCEPT !.qty = @ - n]>> /\ disk' = pos' /\ peak' = JudgedPeak
         /\ judged' = <<[cfg |-> cfg, level |-> LevelsAt.trail]>> /\ sold' = sold \o rungs
         /\ UNCHANGED addedAt

Checking == step = "exits" /\ Open /\ price > 0 /\ cfg.on

Exits == Triggered(LevelsAt, price) /= "none"

Due == NextPartial(cfg, price, Rec.avg, Rec.taken)

Size == Tranche(Rec.orig, Due.pct, Rec.qty)

\* the rungs a sale up to this one takes
RungsTo(r) == [k \in 1 .. (r - Rec.taken) |-> Rec.taken + k]

\* no sale while one of unknown outcome may still take the holding
MaySell == unknown.side = "sell" => Rec.qty < unknown.held

SellUnknown(n, rungs) == [side |-> "sell", qty |-> n, rungs |-> rungs, held |-> Rec.qty]

\* An exit fires: the holding is offered.  The sale fills, its outcome stays
\* unknown, or nothing is sold (refused, deferred, one under way).
ExitFires ==
    /\ Checking /\ Exits
    /\ \/ MaySell /\ Closed /\ UNCHANGED unknown
       \/ MaySell /\ unknown = NoOrder /\ unknown' = SellUnknown(Rec.qty, <<>>) /\ Judge /\ UNCHANGED <<sold, addedAt>>
       \/ Judge /\ UNCHANGED <<unknown, sold, addedAt>>
    /\ step' = "adds"
    /\ UNCHANGED <<setup, cfg, price, rung, refused, left>>

\* A rung is due: its tranche is sold, or may have been; either way it is to
\* be marked.  Or nothing is sold, and it stays due.
RungFires ==
    /\ Checking /\ ~Exits /\ Due.rung > 0 /\ Size > 0
    /\ \/ /\ MaySell /\ Reduce(Size, RungsTo(Due.rung)) /\ UNCHANGED unknown
          /\ step' = "mark" /\ rung' = Due.rung
       \/ /\ MaySell /\ unknown = NoOrder /\ unknown' = SellUnknown(Size, RungsTo(Due.rung))
          /\ Judge /\ UNCHANGED <<sold, addedAt>>
          /\ step' = "mark" /\ rung' = Due.rung
       \/ Judge /\ step' = "adds" /\ UNCHANGED <<unknown, rung, sold, addedAt>>
    /\ UNCHANGED <<setup, cfg, price, refused, left>>

\* mutant: only a rung whose sale is known counts as taken
MarkKnown == unknown = NoOrder

\* an unconfirmed rung counts as taken too
MarkAny == TRUE

\* markPartialTaken: the ladder has fired through this rung
Mark ==
    /\ step = "mark"
    /\ pos' = IF Open /\ MarkAny THEN <<[Rec EXCEPT !.taken = rung]>> ELSE pos
    /\ disk' = pos'
    /\ step' = "adds" /\ rung' = 0
    /\ UNCHANGED <<setup, cfg, price, peak, unknown, refused, left, judged, sold, addedAt>>

\* nothing to exit and nothing due
ExitsHold ==
    /\ step = "exits" /\ (Checking => ~Exits /\ (Due.rung = 0 \/ Size = 0))
    /\ IF Checking THEN Judge ELSE UNCHANGED <<pos, disk, peak, judged>>
    /\ step' = "adds"
    /\ UNCHANGED <<setup, cfg, price, rung, unknown, refused, left, sold, addedAt>>

\* the price stands a step under the average, and another add is allowed
ScaleInDue ==
    /\ setup.scaleIn.on /\ Open /\ price > 0 /\ Rec.adds < setup.scaleIn.most
    /\ price * Hundred <= Rec.avg * (Hundred - setup.scaleIn.step)

\* The scale-in step: bought, of unknown outcome, refused, or gated off.
ScaleIn ==
    /\ step = "adds" /\ ScaleInDue /\ ~refused /\ unknown = NoOrder
    /\ \/ RecordOpen(setup.scaleIn.lot, price) /\ addedAt' = Append(addedAt, price) /\ UNCHANGED <<unknown, refused>>
       \/ /\ unknown' = [side |-> "buy", qty |-> setup.scaleIn.lot, rungs |-> <<>>, held |-> Rec.qty]
          /\ UNCHANGED <<pos, disk, peak, refused, addedAt>>
       \/ refused' = TRUE /\ UNCHANGED <<pos, disk, peak, unknown, addedAt>>
       \/ UNCHANGED <<pos, disk, peak, unknown, refused, addedAt>>
    /\ step' = "exits"
    /\ UNCHANGED <<setup, cfg, price, rung, left, judged, sold>>

NoAdd ==
    /\ step = "adds" /\ ~(ScaleInDue /\ ~refused /\ unknown = NoOrder)
    /\ step' = "exits"
    /\ UNCHANGED <<setup, cfg, price, pos, peak, disk, rung, unknown, refused, left, judged, sold, addedAt>>

\* half an hour after a refusal the add is tried again
RefusalAges ==
    /\ refused /\ refused' = FALSE
    /\ UNCHANGED <<setup, cfg, price, pos, peak, disk, step, rung, unknown, left, judged, sold, addedAt>>

-----------------------------------------------------------------------------
\* The order of unknown outcome is found to have filled, or not to have.
Resolve ==
    /\ unknown /= NoOrder /\ step /= "mark" /\ Open
    /\ unknown' = NoOrder
    /\ \/ UNCHANGED <<pos, disk, peak, judged, sold, addedAt>>
       \/ unknown.side = "buy" /\ RecordOpen(unknown.qty, price) /\ UNCHANGED <<judged, sold, addedAt>>
       \/ /\ unknown.side = "sell" /\ price > 0
          /\ IF unknown.qty >= Rec.qty
             THEN Closed
             ELSE /\ pos' = <<[Rec EXCEPT !.qty = @ - unknown.qty]>> /\ disk' = pos'
                  /\ sold' = sold \o unknown.rungs
                  /\ UNCHANGED <<peak, judged, addedAt>>
    /\ UNCHANGED <<setup, cfg, price, step, rung, refused, left>>

\* the exit settings are replaced
EditExits(c) ==
    /\ left.edits > 0 /\ c /= cfg
    /\ cfg' = c /\ left' = [left EXCEPT !.edits = @ - 1]
    /\ UNCHANGED <<setup, price, pos, peak, disk, step, rung, unknown, refused, judged, sold, addedAt>>

\* The process starts again from the record on disk.
Restart ==
    /\ left.restarts > 0 /\ (step = "mark" => setup.crashes)
    /\ left' = [left EXCEPT !.restarts = @ - 1]
    /\ pos' = disk /\ peak' = IF disk = None THEN 0 ELSE disk[1].peak
    /\ price' = 0 /\ refused' = FALSE /\ step' = "exits" /\ rung' = 0
    /\ UNCHANGED <<setup, cfg, disk, unknown, judged, sold, addedAt>>

Next ==
    \/ \E p \in setup.ticks : Tick(p)
    \/ \E c \in setup.exits : EditExits(c)
    \/ Buy \/ ExitFires \/ RungFires \/ Mark \/ ExitsHold \/ ScaleIn \/ NoAdd \/ RefusalAges
    \/ Resolve \/ Restart

Spec == Init /\ [][Next]_lvars

-----------------------------------------------------------------------------
(* The level a position's trail was judged by does not fall while the      *)
(* settings stand: a restart, an add and a scale-out keep it (the peak is  *)
(* persisted before it is used, an add leaves a floor).                    *)
TrailNeverFalls ==
    [][judged /= None /\ judged' /= None /\ judged'[1].cfg = judged[1].cfg
         => judged'[1].level >= judged[1].level]_lvars

(* Every rung is sold at most once per position, also when the broker does *)
(* not tell what became of one, and across restarts (markPartialTaken).    *)
RungsSoldOnce == ~setup.crashes => IsInjective(sold)

(* What scaleInDue's comment promises: every further add needs a further   *)
(* fall of the price.                                                      *)
AddsNeedAFurtherFall == \A k \in 1 .. Len(addedAt) - 1 : addedAt[k + 1] < addedAt[k]
=============================================================================
