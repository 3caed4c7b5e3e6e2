------------------------------ MODULE RiskLedger ------------------------------
(***************************************************************************)
(* The money limits of internal/risk (Manager) under the buy paths of      *)
(* internal/engine that use them: Engine.act, which runs in the            *)
(* evaluation loop, and Engine.ManualOrder, which runs in an HTTP handler. *)
(*                                                                         *)
(* The manager's mutex makes each of its methods one step.  A buy is       *)
(* several of them, with the broker's round trip in between:               *)
(*                                                                         *)
(*   snapshot -> Authorize -> ReserveBuy -> SubmitOrder -> Release         *)
(*            -> RecordBuy -> persistSpend -> recordOpen -> syncPortfolio  *)
(*                                                                         *)
(* Every symbol trades at one Price.  EffPrice is the price Authorize      *)
(* divides the cash headroom by: Price with the commission percentage,     *)
(* half the spread and the slippage.  A limit of 0 is switched off, as in  *)
(* the code.  MaxPerPosition also stands for the min_positions slot, which *)
(* is the same ceiling with another value.  Shares are whole numbers, so   *)
(* "less than 1 of notional" is quantity 0.                                *)
(***************************************************************************)
EXTENDS Integers, FiniteSets, Sums

CONSTANTS
    Symbols,           \* instruments
    Loop, Desk,        \* the buy paths: Engine.act and Engine.ManualOrder
    Price, EffPrice,   \* reference price and cost-adjusted price of a share
    FixedFee,          \* max(CommissionFlat, CommissionMin)
    MaxOrderValue, MaxDailySpend, CashReserve,
    PositionLimits,    \* what the other limits may be set to, as records
    InitialCash,
    Faults,            \* which of FaultKinds the environment may show
    MaxQty,            \* bound: largest quantity a path asks for
    Ids,               \* reservation ids; bound: that many outstanding at once
    MaxDay             \* bound: last trading day

FaultKinds == {"overlap", "syncFails", "earlyClear", "restart"}

ASSUME LedgerAssumption ==
    /\ Price \in Nat \ {0} /\ EffPrice \in Nat /\ Price <= EffPrice
    /\ FixedFee \in Nat
    /\ MaxOrderValue \in Nat /\ MaxDailySpend \in Nat /\ CashReserve \in Nat
    /\ PositionLimits \subseteq [perPosition : Nat, invested : Nat, positions : Nat]
    /\ InitialCash \in Nat
    /\ MaxQty \in Nat /\ MaxDay \in Nat \ {0}
    /\ Faults \subseteq FaultKinds
    /\ Loop # Desk
    /\ IsFiniteSet(Symbols) /\ IsFiniteSet(Ids)

VARIABLES
    limits,      \* the position limits this installation runs with
    clock,       \* the UTC day it is
    day,         \* Manager.day: the day spentToday accumulates against
    spentToday,  \* Manager.spentToday
    reserved,    \* Manager.reserved: reservation id -> [amount, symbol]
    saved,       \* the daily spend in the store: [day, amount]
    pf,          \* the cached portfolio: [cash, qty]
    openPos,     \* the engine's own record: symbol -> quantity
    parked,      \* the engine's unconfirmed buys: reservation id -> symbol
    path,        \* the buy each path is in the middle of
    orders,      \* buys working at the venue: id -> [symbol, left, fee]
    venueCash, venueQty  \* the account at the broker

ledger == <<day, spentToday, reserved>>
venue  == <<orders, venueCash, venueQty>>
vars   == <<limits, clock, day, spentToday, reserved, saved, pf, openPos,
            parked, path, orders, venueCash, venueQty>>

Paths == {Loop, Desk}

MaxPerPosition   == limits.perPosition
MaxTotalInvested == limits.invested
MaxOpenPositions == limits.positions

NoPath == [pc |-> "idle"]

-----------------------------------------------------------------------------
Without(f, S) == [x \in DOMAIN f \ S |-> f[x]]
With(f, x, v) == [y \in DOMAIN f \cup {x} |-> IF y = x THEN v ELSE f[y]]

(* reservedTotal, reservedFor and HasReservation. *)
ReservedTotal == Total([id \in DOMAIN reserved |-> reserved[id].amount])
ReservationsOf(s) == {id \in DOMAIN reserved : reserved[id].symbol = s}
ReservedFor(s) == Total([id \in ReservationsOf(s) |-> reserved[id].amount])

(* estimatedCost: what buying q is expected to cost in cash. *)
EstimatedCost(q) == q * EffPrice + FixedFee

(* rollDay, and the spend as the current day sees it. *)
SpentAsOfNow == IF day = clock THEN spentToday ELSE 0
RollDay == day' = clock

(* pendingExposure: the broker's positions, with the engine's own record   *)
(* where that is ahead of them.                                            *)
PendingExposure ==
    [cash |-> pf.cash,
     qty  |-> [s \in Symbols |-> IF openPos[s] > pf.qty[s] THEN openPos[s]
                                                          ELSE pf.qty[s]]]

Held(snap) == {s \in Symbols : snap.qty[s] > 0}
Invested(snap) == Price * Total(snap.qty)

(* pendingNewPositions: other symbols about to become positions. *)
PendingNewPositions(snap, s) ==
    {reserved[id].symbol : id \in DOMAIN reserved} \ (Held(snap) \cup {s})

(* buyCapRules: every limit as a ceiling on the quantity q of a buy of s.  *)
WithinCapsNoFee(snap, s, q) ==   \* mutant: the fixed fee is not set aside
    /\ q * Price <= MaxOrderValue
    /\ q * EffPrice <= MaxDailySpend - SpentAsOfNow - ReservedTotal
    /\ q * EffPrice <= snap.cash - ReservedTotal - CashReserve
WithinCapsNoReserved(snap, s, q) ==   \* mutant: reservations take no headroom
    /\ q * Price <= MaxTotalInvested - Invested(snap)
    /\ q * EffPrice <= snap.cash - CashReserve - FixedFee
WithinCaps(snap, s, q) ==
    LET position == snap.qty[s] * Price + ReservedFor(s) IN
    /\ MaxOrderValue > 0 => q * Price <= MaxOrderValue
    /\ MaxPerPosition > 0 => q * Price <= MaxPerPosition - position
    /\ MaxTotalInvested > 0 =>
         q * Price <= MaxTotalInvested - Invested(snap) - ReservedTotal
    /\ MaxDailySpend > 0 =>
         q * EffPrice <= MaxDailySpend - SpentAsOfNow - ReservedTotal - FixedFee
    /\ q * EffPrice <= snap.cash - ReservedTotal - CashReserve - FixedFee

(* Manager.Authorize clamps a request to the largest quantity the caps     *)
(* leave, and refuses when that is none or the position count is full.     *)
Authorized(snap, s, request, q) ==
    /\ q \in 1..request
    /\ WithinCaps(snap, s, q)
    /\ \A more \in (q+1)..request : ~WithinCaps(snap, s, more)
    /\ \/ MaxOpenPositions = 0
       \/ s \in Held(snap)
       \/ Cardinality(Held(snap)) + Cardinality(PendingNewPositions(snap, s))
            < MaxOpenPositions

(* Ids are never in use twice; the code counts up to make them so. *)
Reserve(id, s, q) ==
    /\ id \notin DOMAIN reserved \cup DOMAIN orders
    /\ reserved' = With(reserved, id, [amount |-> EstimatedCost(q), symbol |-> s])

Release(ids) == reserved' = Without(reserved, ids)

-----------------------------------------------------------------------------
Init ==
    /\ limits \in PositionLimits
    /\ clock = 1 /\ day = 1 /\ spentToday = 0
    /\ reserved = [id \in {} |-> {}]
    /\ saved = [day |-> 1, amount |-> 0]
    /\ pf = [cash |-> InitialCash, qty |-> [s \in Symbols |-> 0]]
    /\ openPos = [s \in Symbols |-> 0]
    /\ parked = [id \in {} |-> {}]
    /\ path = [p \in Paths |-> NoPath]
    /\ orders = [id \in {} |-> {}]
    /\ venueCash = InitialCash /\ venueQty = [s \in Symbols |-> 0]

(* Nobody serialises the loop with the HTTP handlers; without "overlap"    *)
(* nothing else happens to run while a buy is in progress.                 *)
Undisturbed == "overlap" \in Faults \/ \A p \in Paths : path[p] = NoPath

(* act refuses to pyramid and waits out an unconfirmed buy; ManualOrder,   *)
(* an explicit user action, does neither.                                  *)
LoopWouldEnter(s) ==
    /\ \A id \in DOMAIN parked : parked[id] # s
    /\ PendingExposure.qty[s] = 0
    /\ ReservationsOf(s) = {}

Begin(p, s, request) ==
    /\ path[p] = NoPath /\ Undisturbed
    /\ Cardinality(Ids \ (DOMAIN reserved \cup DOMAIN orders)) > Cardinality({q \in Paths : path[q] # NoPath})
    /\ p = Loop => LoopWouldEnter(s)
    /\ path' = [path EXCEPT ![p] = [pc |-> "sized", symbol |-> s,
                                    request |-> request, snap |-> PendingExposure]]
    /\ UNCHANGED <<limits, clock, ledger, saved, pf, openPos, parked, venue>>

Authorize(p) ==
    /\ path[p].pc = "sized"
    /\ RollDay
    /\ spentToday' = SpentAsOfNow
    /\ \/ \E q \in 1..path[p].request :
            /\ Authorized(path[p].snap, path[p].symbol, path[p].request, q)
            /\ path' = [path EXCEPT ![p] = [pc |-> "authorized",
                                            symbol |-> path[p].symbol, qty |-> q]]
       \/ /\ ~\E q \in 1..path[p].request :
                 Authorized(path[p].snap, path[p].symbol, path[p].request, q)
          /\ path' = [path EXCEPT ![p] = NoPath]
    /\ UNCHANGED <<limits, clock, reserved, saved, pf, openPos, parked, venue>>

(* The order-rate breaker stops the loop's clip before anything is held;   *)
(* it counts a manual order and never refuses one.                         *)
RateRefused(p) ==
    /\ p = Loop /\ path[p].pc = "authorized"
    /\ path' = [path EXCEPT ![p] = [pc |-> "sync"]]
    /\ UNCHANGED <<limits, clock, ledger, saved, pf, openPos, parked, venue>>

ReserveBuy(p, id) ==
    /\ path[p].pc = "authorized"
    /\ Reserve(id, path[p].symbol, path[p].qty)
    /\ path' = [path EXCEPT ![p] = [pc |-> "submitted", symbol |-> path[p].symbol,
                                    qty |-> path[p].qty, res |-> id]]
    /\ UNCHANGED <<limits, clock, day, spentToday, saved, pf, openPos, parked, venue>>

(* SubmitOrder returned an error: the order never reached the venue. *)
SubmitFailsKeeping(p) ==   \* mutant: the error path forgets Release
    /\ path[p].pc = "submitted"
    /\ path' = [path EXCEPT ![p] = NoPath]
    /\ UNCHANGED <<limits, clock, ledger, saved, pf, openPos, parked, venue>>
SubmitFails(p) ==
    /\ path[p].pc = "submitted"
    /\ Release({path[p].res})
    /\ path' = [path EXCEPT ![p] = NoPath]
    /\ UNCHANGED <<limits, clock, day, spentToday, saved, pf, openPos, parked, venue>>

(* What the venue may charge for k shares: at best the reference price, at *)
(* worst the price and fee the limits were computed with.                  *)
Charge(k, fee) == IF k = 0 THEN {0} ELSE {k * Price, k * EffPrice + fee}

VenueTakes(s, k, cost) ==
    /\ venueCash' = venueCash - cost
    /\ venueQty' = [venueQty EXCEPT ![s] = @ + k]

(* settledQty: the broker confirmed k of the order.  The reservation goes; *)
(* the spend is booked later.  When working is TRUE the rest of the order  *)
(* is still at the venue (workingRemainder).                               *)
SubmitConfirmed(p, k, cost, working) ==
    /\ path[p].pc = "submitted"
    /\ k <= path[p].qty
    /\ working => 0 < k /\ k < path[p].qty
    /\ cost \in Charge(k, FixedFee)
    /\ VenueTakes(path[p].symbol, k, cost)
    /\ Release({path[p].res})
    /\ path' = [path EXCEPT ![p] =
         IF k = 0 /\ p = Loop
         THEN [pc |-> "sync"]
         ELSE [pc |-> IF working /\ p = Loop THEN "remainder" ELSE "filled",
               symbol |-> path[p].symbol, qty |-> k, cost |-> cost,
               rem |-> IF working THEN path[p].qty - k ELSE 0]]
    /\ UNCHANGED <<limits, clock, day, spentToday, saved, pf, openPos, parked, orders>>

Working(s, q, fee) == [symbol |-> s, left |-> q, fee |-> fee]

(* The broker said nothing definite: flagUnconfirmed keeps the reservation *)
(* with the order.                                                         *)
SubmitUnconfirmed(p) ==
    /\ path[p].pc = "submitted"
    /\ parked' = With(parked, path[p].res, path[p].symbol)
    /\ orders' = With(orders, path[p].res, Working(path[p].symbol, path[p].qty, FixedFee))
    /\ path' = [path EXCEPT ![p] = [pc |-> "sync"]]
    /\ UNCHANGED <<limits, clock, ledger, saved, pf, openPos, venueCash, venueQty>>

(* The remainder of a partly filled order is reserved anew and flagged:    *)
(* by act inside submitPlan, before the filled part is booked; by          *)
(* ManualOrder after.                                                      *)
ReserveRemainder(p, id) ==
    /\ path[p].pc = "remainder"
    /\ Reserve(id, path[p].symbol, path[p].rem)
    /\ parked' = With(parked, id, path[p].symbol)
    /\ orders' = With(orders, id, Working(path[p].symbol, path[p].rem, 0))
    /\ path' = [path EXCEPT ![p] = IF p = Loop THEN [@ EXCEPT !.pc = "filled"]
                                               ELSE [pc |-> "sync"]]
    /\ UNCHANGED <<limits, clock, day, spentToday, saved, pf, openPos, venueCash, venueQty>>

(* Manager.RecordBuy.  ManualOrder also books a confirmed zero, and then   *)
(* Commission(0) is the fixed fee.                                         *)
RecordBuy(p) ==
    /\ path[p].pc = "filled"
    /\ RollDay
    /\ spentToday' = SpentAsOfNow + (IF path[p].qty = 0 THEN FixedFee ELSE path[p].cost)
    /\ path' = [path EXCEPT ![p].pc = "booked"]
    /\ UNCHANGED <<limits, clock, reserved, saved, pf, openPos, parked, venue>>

PersistSpend(p) ==
    /\ path[p].pc = "booked"
    /\ RollDay
    /\ spentToday' = SpentAsOfNow
    /\ saved' = [day |-> clock, amount |-> SpentAsOfNow]
    /\ path' = [path EXCEPT ![p].pc = "persisted"]
    /\ UNCHANGED <<limits, clock, reserved, pf, openPos, parked, venue>>

RecordOpen(p) ==
    /\ path[p].pc = "persisted"
    /\ openPos' = [openPos EXCEPT ![path[p].symbol] = @ + path[p].qty]
    /\ path' = [path EXCEPT ![p] = IF path[p].rem > 0 /\ p # Loop
                                   THEN [@ EXCEPT !.pc = "remainder"]
                                   ELSE [pc |-> "sync"]]
    /\ UNCHANGED <<limits, clock, ledger, saved, pf, parked, venue>>

(* syncPortfolio at the end of an order path.  A failed account call       *)
(* leaves the cache as it was.                                             *)
Sync(p) ==
    /\ path[p].pc = "sync"
    /\ \/ pf' = [cash |-> venueCash, qty |-> venueQty]
       \/ "syncFails" \in Faults /\ UNCHANGED pf
    /\ path' = [path EXCEPT ![p] = NoPath]
    /\ UNCHANGED <<limits, clock, ledger, saved, openPos, parked, venue>>

BuyStep(p) ==
    \/ \E s \in Symbols, request \in 1..MaxQty : Begin(p, s, request)
    \/ Authorize(p)
    \/ RateRefused(p)
    \/ \E id \in Ids : ReserveBuy(p, id) \/ ReserveRemainder(p, id)
    \/ SubmitFails(p)
    \/ \E k \in 0..MaxQty, working \in BOOLEAN :
         \E cost \in Charge(k, FixedFee) : SubmitConfirmed(p, k, cost, working)
    \/ SubmitUnconfirmed(p)
    \/ RecordBuy(p)
    \/ PersistSpend(p)
    \/ RecordOpen(p)
    \/ Sync(p)

-----------------------------------------------------------------------------
(* A working order comes to rest at the venue, k of it filled. *)
VenueResolves(id, k, cost) ==
    /\ k <= orders[id].left
    /\ cost \in Charge(k, orders[id].fee)
    /\ VenueTakes(orders[id].symbol, k, cost)
    /\ orders' = Without(orders, {id})
    /\ UNCHANGED <<limits, clock, ledger, saved, pf, openPos, parked, path>>

InSync == pf = [cash |-> venueCash, qty |-> venueQty]

(* ClearUnconfirmed: the operator has looked the order up at the broker,   *)
(* where it is over.  The reservation goes with the flag.                  *)
ClearUnconfirmed(id) ==
    /\ Undisturbed
    /\ id \notin DOMAIN orders
    /\ InSync \/ "earlyClear" \in Faults
    /\ parked' = Without(parked, {id})
    /\ Release({id})
    /\ UNCHANGED <<limits, clock, day, spentToday, saved, pf, openPos, path, venue>>

(* syncPortfolioIfStale at the top of an evaluation. *)
SyncIfStale ==
    /\ path[Loop] = NoPath /\ Undisturbed
    /\ ~InSync
    /\ pf' = [cash |-> venueCash, qty |-> venueQty]
    /\ UNCHANGED <<limits, clock, ledger, saved, openPos, parked, path, venue>>

(* A full exit of a settled position, with nothing else in flight: the     *)
(* other side of the ledger, which gives headroom back.  Sells reserve     *)
(* nothing and spend nothing.                                              *)
Exit(s) ==
    /\ \A p \in Paths : path[p] = NoPath
    /\ InSync /\ venueQty[s] > 0
    /\ venueQty' = [venueQty EXCEPT ![s] = 0]
    /\ venueCash' = venueCash + venueQty[s] * Price
    /\ pf' = [cash |-> venueCash', qty |-> venueQty']
    /\ openPos' = [openPos EXCEPT ![s] = 0]
    /\ UNCHANGED <<limits, clock, ledger, saved, parked, path, orders>>

Midnight ==
    /\ clock < MaxDay
    /\ clock' = clock + 1
    /\ UNCHANGED <<limits, ledger, saved, pf, openPos, parked, path, venue>>

(* A crash and a restart.  Reservations, unconfirmed orders and paths were *)
(* in memory only; an order being submitted may have arrived or not.       *)
(* Manager.Restore reads the stored spend, a stale day counting as none,   *)
(* the open positions come back as stored, the first sync reads the        *)
(* account.  Without "restart" this happens only with nothing in flight.   *)
Restart ==
    /\ \/ "restart" \in Faults
       \/ (\A p \in Paths : path[p] = NoPath) /\ DOMAIN parked = {} /\ DOMAIN orders = {}
    /\ \E arrived \in SUBSET {p \in Paths : path[p].pc = "submitted"} :
         orders' = [id \in DOMAIN orders \cup {path[p].res : p \in arrived} |->
                      IF id \in DOMAIN orders THEN orders[id]
                      ELSE LET p == CHOOSE q \in arrived : path[q].res = id
                           IN  Working(path[p].symbol, path[p].qty, FixedFee)]
    /\ day' = clock
    /\ spentToday' = IF saved.day = clock THEN saved.amount ELSE 0
    /\ reserved' = [id \in {} |-> {}]
    /\ parked' = [id \in {} |-> {}]
    /\ path' = [p \in Paths |-> NoPath]
    /\ pf' = [cash |-> venueCash, qty |-> venueQty]
    /\ UNCHANGED <<limits, clock, saved, openPos, venueCash, venueQty>>

Next ==
    \/ \E p \in Paths : BuyStep(p)
    \/ \E id \in DOMAIN orders, k \in 0..MaxQty :
         \E cost \in Charge(k, orders[id].fee) : VenueResolves(id, k, cost)
    \/ \E id \in DOMAIN parked : ClearUnconfirmed(id)
    \/ SyncIfStale
    \/ \E s \in Symbols : Exit(s)
    \/ Midnight
    \/ Restart

Spec == Init /\ [][Next]_vars

-----------------------------------------------------------------------------
Amounts == 0..EstimatedCost(MaxQty)
Snapshots == [cash : Int, qty : [Symbols -> Nat]]

PathStates ==
    {NoPath, [pc |-> "sync"]}
    \cup [pc : {"sized"}, symbol : Symbols, request : 1..MaxQty, snap : Snapshots]
    \cup [pc : {"authorized"}, symbol : Symbols, qty : 1..MaxQty]
    \cup [pc : {"submitted"}, symbol : Symbols, qty : 1..MaxQty, res : Ids]
    \cup [pc : {"remainder"}, symbol : Symbols,
          qty : 0..MaxQty, cost : Amounts, rem : 1..MaxQty]
    \cup [pc : {"filled", "booked", "persisted"}, symbol : Symbols,
          qty : 0..MaxQty, cost : Amounts, rem : 0..MaxQty]

(* Every variable has the shape the code gives it. *)
TypeOK ==
    /\ limits \in PositionLimits
    /\ clock \in 1..MaxDay /\ day \in 1..MaxDay
    /\ spentToday \in Nat
    /\ DOMAIN reserved \subseteq Ids
    /\ \A id \in DOMAIN reserved : reserved[id] \in [amount : Amounts, symbol : Symbols]
    /\ saved \in [day : 1..MaxDay, amount : Nat]
    /\ pf \in Snapshots
    /\ openPos \in [Symbols -> Nat]
    /\ DOMAIN parked \subseteq Ids
    /\ \A id \in DOMAIN parked : parked[id] \in Symbols
    /\ DOMAIN orders \subseteq Ids
    /\ \A id \in DOMAIN orders :
         orders[id] \in [symbol : Symbols, left : 1..MaxQty, fee : {0, FixedFee}]
    /\ path \in [Paths -> PathStates]
    /\ venueCash \in Int /\ venueQty \in [Symbols -> Nat]

(* max_daily_spend: what the ledger books on a day never exceeds the limit, *)
(* across partial fills, refused orders, midnight and restarts.             *)
SpentWithinCap == MaxDailySpend > 0 => SpentAsOfNow <= MaxDailySpend

(* cash_reserve: the account at the broker never falls below the floor,     *)
(* whatever the venue does with the orders the broker did not confirm.      *)
CashAboveReserve == InitialCash >= CashReserve => venueCash >= CashReserve

(* max_total_invested, max_per_position and max_open_positions hold of the  *)
(* account itself, not only of the snapshot Authorize judged.               *)
InvestedWithinCap ==
    MaxTotalInvested > 0 => Price * Total(venueQty) <= MaxTotalInvested
PositionWithinCap ==
    MaxPerPosition > 0 => \A s \in Symbols : Price * venueQty[s] <= MaxPerPosition
PositionsWithinCap ==
    MaxOpenPositions > 0 =>
        Cardinality({s \in Symbols : venueQty[s] > 0}) <= MaxOpenPositions

(* Every limit of the book holds of the account at the broker, not only of *)
(* the snapshot Authorize judged: cash, invested, per position, count.     *)
WithinEveryCap ==
    CashAboveReserve /\ InvestedWithinCap /\ PositionWithinCap /\ PositionsWithinCap

(* Headroom is neither leaked nor lost: a reservation is held exactly for   *)
(* the orders that are at the broker and for the unconfirmed ones.          *)
ReservationsMatchOrders ==
    DOMAIN reserved = DOMAIN parked \cup
                      {path[p].res : p \in {q \in Paths : path[q].pc = "submitted"}}

(* risk.go:236-240: a fill's reservation is released "once RecordBuy has    *)
(* booked the real spend", so no step drops headroom for shares that were   *)
(* bought and not booked.                                                   *)
ReleasedOnlyOnceBooked ==
    [][\A p \in Paths :
         (path[p].pc = "submitted" /\ path'[p].pc \in {"filled", "remainder"}
          /\ path'[p].qty > 0)
            => path[p].res \in DOMAIN reserved']_vars

(* risk.go:728-729: RecordBuy adds a filled buy's cash outlay.  Spend goes  *)
(* up only for shares that were bought.                                     *)
SpendOnlyForFills ==
    [][spentToday' > spentToday => \E p \in Paths : path[p].pc = "filled" /\ path[p].qty > 0]_vars
=============================================================================
