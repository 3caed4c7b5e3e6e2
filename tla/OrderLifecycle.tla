---------------------------- MODULE OrderLifecycle ----------------------------
(***************************************************************************)
(* The life of the orders of one symbol: internal/engine act,              *)
(* exitPosition, ManualOrder, submitPlan, the limit-order watchers, the    *)
(* resubmit guard (pendingSell), reconcile, the unconfirmed orders, the    *)
(* open-position record (openPos) and its adoption and forgetting -- over  *)
(* a broker that answers before it has finished.                           *)
(*                                                                         *)
(* Everything an order path does between two of its calls is one step; the *)
(* paths are the evaluation loop, the HTTP handlers of the operator and    *)
(* one watcher goroutine per resting limit order.  Quantities are numbers  *)
(* of shares; money is RiskLedger's, prices are left out.  Of a symbol's   *)
(* reservations only whose order holds one matters here.                   *)
(***************************************************************************)
EXTENDS Integers, Sequences, Sums

CONSTANTS
    Loop, Operator,     \* the evaluation loop, the HTTP handlers
    Watchers,           \* the watcher goroutines there may be at a time
    Settings,           \* configurations, brokers and environments, as records
    MaxQty              \* bound: shares held or on their way in

FaultKinds ==
    {"overlap",     \* paths meet
     "hurry",       \* the operator trades over a sell that has not landed, or buys
                    \* over a resting order
     "partial",     \* an answer may report part of an order, the rest working
     "latePartial", \* a working order may fill in parts after the answer
     "cancelFails", \* ... between a watcher's look and its cancel
     "staleList",   \* reconcile lists after a sell ended that the snapshot still shows
     "lostReply",   \* the broker takes an order and its answer is lost
     "syncFails",   \* the broker's positions cannot be read
     "clearEarly",  \* the operator clears an order that is still working
     "clearFilled", \* ... or one that has filled
     "hand",        \* the operator trades at the broker
     "crash"}

ASSUME LifecycleAssumption ==
    /\ Loop # Operator /\ Loop \notin Watchers /\ Operator \notin Watchers
    /\ IsFiniteSet(Watchers) /\ MaxQty \in Nat
    /\ Settings \subseteq
         [execution : {"market", "limit", "sliced"}, fallback : BOOLEAN, lister : BOOLEAN,
          faults : SUBSET FaultKinds, maxOrders : Nat]

VARIABLES
    setting,    \* the one of Settings this behaviour runs in
    real,       \* shares at the broker
    orders,     \* every order the broker took; filled and left are its own,
                \* booked is history: how much of the fill is in the record
    held,       \* the portfolio snapshot
    open,       \* openPos[symbol].Qty, 0 without a record
    guard,      \* pendingSell[symbol], 0 without a marker
    unknown,    \* e.unconfirmed, by order
    reserved,   \* buys whose reservation is held
    untracked,  \* untrackedSince: "no", "seen", or "due" when grace is over
    path,       \* what each path is in the middle of
    givenUp,    \* history: orders whose outcome was handed to a human
    byHand      \* history: shares sold at the broker by hand, still recorded

vars == <<setting, real, orders, held, open, guard, unknown, reserved, untracked, path,
          givenUp, byHand>>

venue  == <<real, orders>>
book   == <<open, guard, untracked>>
claims == <<unknown, reserved>>
ghosts == <<givenUp, byHand>>

Execution      == setting.execution  \* "sliced" is limit orders of one share
MarketFallback == setting.fallback   \* execution.market_fallback
Lister         == setting.lister     \* the broker can list and cancel orders
Faults         == setting.faults
MaxOrders      == setting.maxOrders  \* bound: orders sent

Paths == {Loop, Operator} \cup Watchers
Ids == DOMAIN orders

(* clips: what is still to be sent.  got: its orders, and how much of each  *)
(* was confirmed filled.  bad: those whose answer left something open.     *)
(* base: the holding it was decided on; in a sync, the one that was read.  *)
NoPath == [pc |-> "idle", kind |-> "none", side |-> "none", clips |-> <<>>,
           base |-> 0, got |-> <<>>, bad |-> {}, resting |-> FALSE, next |-> "idle"]

Idle(t) == path[t].pc = "idle"
AtRest(t) == path[t].pc \in {"idle", "resting"}
Quiet == "overlap" \in Faults \/ \A t \in Paths : AtRest(t)
Goto(t, pc) == path' = [path EXCEPT ![t].pc = pc]

Confirmed(p) == Total(p.got)
Noting(f, id, qty) == [i \in DOMAIN f \cup {id} |-> IF i = id THEN qty ELSE f[i]]

Larger(a, b) == IF a > b THEN a ELSE b
Smaller(a, b) == IF a < b THEN a ELSE b

Working(side) == {id \in Ids : orders[id].side = side /\ orders[id].left > 0}
Left(ids) == Total([id \in ids |-> orders[id].left])
Unbooked(side) ==
    Total([id \in {i \in Ids : orders[i].side = side} |->
              Larger(0, orders[id].filled - orders[id].booked)])
Unconfirmed(side) == {id \in unknown : orders[id].side = side}

(* A previous sell of this holding has not landed yet. *)
Blocked == guard > 0 /\ held >= guard

Within(qty) == real + Left(Working("buy")) + qty <= MaxQty /\ Len(orders) < MaxOrders

Clips(qty) == IF Execution = "sliced" THEN [i \in 1..qty |-> 1] ELSE <<qty>>


-----------------------------------------------------------------------------
Init ==
    /\ setting \in Settings
    /\ real = 0 /\ orders = <<>> /\ held = 0 /\ open = 0 /\ guard = 0
    /\ unknown = {} /\ reserved = {} /\ untracked = "no"
    /\ path = [t \in Paths |-> NoPath]
    /\ givenUp = {} /\ byHand = 0

Begin(t, kind, side, clips) ==
    path' = [path EXCEPT ![t] = [NoPath EXCEPT
                !.pc = "submit", !.kind = kind, !.side = side, !.clips = clips,
                !.base = held]]

(* A buy holds its reservation from before it is sent.                     *)
HasReservation == reserved # {} \/ \E t \in Paths : path[t].pc = "submit" /\ path[t].side = "buy"

(* act, a BUY signal: never over an unconfirmed or, without pyramiding, any *)
(* other position in sight -- a record the broker does not hold is not once *)
(* pendingFillGrace is over.                                                *)
ActBuy(qty) ==
    /\ Idle(Loop) /\ Quiet /\ Within(qty)
    /\ Unconfirmed("buy") = {} /\ held = 0 /\ ~HasReservation
    /\ Begin(Loop, "act", "buy", Clips(qty))
    /\ UNCHANGED <<setting, venue, held, book, claims, ghosts>>

(* act, a SELL signal sells the whole holding. *)
ActSell ==
    /\ Idle(Loop) /\ Quiet /\ held > 0 /\ ~Blocked /\ Len(orders) < MaxOrders
    /\ Begin(Loop, "act", "sell", Clips(held))
    /\ UNCHANGED <<setting, venue, held, book, claims, ghosts>>

ActSellNothing ==
    /\ Idle(Loop) /\ Quiet /\ held = 0 /\ guard > 0
    /\ guard' = 0
    /\ UNCHANGED <<setting, venue, held, open, untracked, claims, path, ghosts>>

(* exitPosition: a stop sells everything, a rung of the ladder a tranche. *)
Exit(qty) ==
    /\ Idle(Loop) /\ Quiet /\ qty <= held /\ ~Blocked /\ Len(orders) < MaxOrders
    /\ Begin(Loop, "exit", "sell", <<qty>>)
    /\ UNCHANGED <<setting, venue, held, book, claims, ghosts>>

(* ManualOrder asks neither the guard nor for the unconfirmed and resting  *)
(* orders.  An operator who is not Hasty waits for the guard and, with a   *)
(* buy, for the orders that rest.                                          *)
Hasty(side) == Blocked \/ (side = "buy" /\ \E w \in Watchers : ~Idle(w))

Manual(side, qty) ==
    /\ Idle(Operator) /\ Quiet
    /\ \/ side = "buy" /\ Within(qty)
       \/ /\ side = "sell" /\ qty <= held /\ Len(orders) < MaxOrders
    /\ "hurry" \in Faults \/ ~Hasty(side)
    /\ Begin(Operator, "manual", side, <<qty>>)
    /\ UNCHANGED <<setting, venue, held, book, claims, ghosts>>

-----------------------------------------------------------------------------
(* submitPlan: one SubmitOrder, and what its answer settles (settledQty).  *)
Limit(p) == p.kind = "act" /\ Execution # "market"

NextId == Len(orders) + 1

(* The broker takes the next clip of t, fills some and leaves some working. *)
Takes(t, fill, left) ==
    /\ orders' = Append(orders, [side |-> path[t].side, left |-> left,
                                 filled |-> fill, booked |-> 0])
    /\ real' = IF path[t].side = "buy" THEN real + fill ELSE real - fill

Answered(p, fill) ==
    [p EXCEPT !.clips = Tail(@), !.got = Noting(@, NextId, fill),
              !.pc = IF Len(p.clips) > 1 THEN "submit" ELSE "settle"]

Reserving(t) == IF path[t].side = "buy" THEN reserved \cup {NextId} ELSE reserved

(* The outcome is final: filled, or refused with what had filled. *)
SubmitFinal(t) ==
    /\ path[t].pc = "submit" /\ Len(orders) < MaxOrders
    /\ \E fill \in 0..Head(path[t].clips) :
          /\ Takes(t, fill, 0)
          /\ path' = [path EXCEPT ![t] = Answered(@, fill)]
    /\ UNCHANGED <<setting, held, book, claims, ghosts>>

(* A market order still works when the broker's wait is over; the part     *)
(* reported filled is confirmed, the reservation of a buy stays -- but not *)
(* when marketFallback takes that part for the whole.                      *)
SubmitOpen(t) ==
    /\ path[t].pc = "submit" /\ Len(orders) < MaxOrders /\ ~Limit(path[t])
    /\ \E fill \in 0..(Head(path[t].clips) - 1) :
          /\ fill > 0 => "partial" \in Faults
          /\ Takes(t, fill, Head(path[t].clips) - fill)
          /\ path' = [path EXCEPT ![t] = [Answered(path[t], fill) EXCEPT !.bad = @ \cup {NextId}]]
          /\ reserved' = IF path[t].kind = "watch" /\ fill > 0 THEN reserved ELSE Reserving(t)
    /\ UNCHANGED <<setting, held, book, unknown, ghosts>>

(* A limit clip rests, and a watcher is started for what is left of it. *)
SubmitResting(t, w) ==
    /\ path[t].pc = "submit" /\ Len(orders) < MaxOrders /\ Limit(path[t]) /\ Idle(w)
    /\ \E fill \in 0..(Head(path[t].clips) - 1) :
          LET left == Head(path[t].clips) - fill
          IN  /\ fill > 0 => "partial" \in Faults
              /\ Takes(t, fill, left)
              /\ path' = [path EXCEPT
                    ![t] = [Answered(@, fill) EXCEPT !.resting = TRUE],
                    ![w] = [NoPath EXCEPT !.pc = "resting", !.kind = "watch",
                              !.side = path[t].side, !.clips = <<left>>,
                              !.got = Noting(@, NextId, 0)]]
    /\ reserved' = Reserving(t)
    /\ UNCHANGED <<setting, held, book, unknown, ghosts>>

(* SubmitOrder fails: the first clip ends the order, a later one the plan. *)
GivesUp(t) ==
    path' = [path EXCEPT ![t] = IF DOMAIN @.got = {} THEN NoPath
                                ELSE [@ EXCEPT !.clips = <<>>, !.pc = "settle"]]

SubmitFails(t) ==
    /\ path[t].pc = "submit"
    /\ GivesUp(t)
    /\ UNCHANGED <<setting, venue, held, book, claims, ghosts>>

(* ... or so it seems: the request timed out after the broker had it. *)
ReplyLost(t) ==
    /\ path[t].pc = "submit" /\ "lostReply" \in Faults /\ Len(orders) < MaxOrders
    /\ Takes(t, 0, Head(path[t].clips))
    /\ GivesUp(t)
    /\ UNCHANGED <<setting, held, book, claims, ghosts>>

(* The order-rate breaker cuts the plan short; it stops no exit. *)
RateRefused(t) ==
    /\ path[t].pc = "submit" /\ path[t].kind = "act"
    /\ path' = [path EXCEPT ![t].clips = <<>>, ![t].pc = "settle"]
    /\ UNCHANGED <<setting, venue, held, book, claims, ghosts>>

-----------------------------------------------------------------------------
(* What each path does with the answers.                                   *)

(* The marker a sell leaves: the holding at submit while its outcome is    *)
(* open; exitPosition leaves it after a fill, the others take it away.     *)
SettledGuard(p) ==
    IF p.bad # {}
    THEN CASE p.kind = "act"                          -> p.base - Confirmed(p)
           [] p.kind = "watch" /\ Confirmed(p) > 0    -> 0
           [] OTHER                                   -> p.base
    ELSE IF (p.kind = "exit" /\ Confirmed(p) > 0) \/ p.resting THEN p.base ELSE 0

Settle(t) ==
    /\ path[t].pc = "settle"
    /\ LET p == path[t]
       IN  /\ guard' = IF p.side = "sell" THEN SettledGuard(p) ELSE guard
           /\ unknown' = IF p.kind = "act" \/ Confirmed(p) = 0 THEN unknown \cup p.bad ELSE unknown
           /\ Goto(t, IF Confirmed(p) > 0 THEN "book" ELSE "sync")
    /\ UNCHANGED <<setting, venue, held, open, untracked, reserved, ghosts>>

(* recordOpen drops the marker of any earlier sell. *)
RecordOpen(qty) == open' = open + qty /\ guard' = 0
RecordClose(qty) == open' = Larger(0, open - qty) /\ guard' = guard

Booked(fills) ==
    orders' = [id \in Ids |-> IF id \in DOMAIN fills
                              THEN [orders[id] EXCEPT !.booked = @ + fills[id]]
                              ELSE orders[id]]

Book(t) ==
    /\ path[t].pc = "book"
    /\ LET p == path[t]
       IN  /\ IF p.side = "buy" THEN RecordOpen(Confirmed(p)) ELSE RecordClose(Confirmed(p))
           /\ Booked(p.got)
           /\ Goto(t, IF p.bad # {} /\ p.kind \in {"exit", "manual"} THEN "flag" ELSE "sync")
    /\ UNCHANGED <<setting, real, held, untracked, claims, ghosts>>

(* exitPosition and ManualOrder report the working rest of a partly filled *)
(* order last, and move the marker to the holding without the fill.        *)
FlagUnmoved(t) ==   \* mutant: the marker stays at the holding with the fill
    /\ path[t].pc = "flag"
    /\ guard' = IF path[t].side = "sell" THEN path[t].base ELSE guard
    /\ unknown' = unknown \cup path[t].bad
    /\ Goto(t, "sync")
    /\ UNCHANGED <<setting, venue, held, open, untracked, reserved, ghosts>>
Flag(t) ==
    /\ path[t].pc = "flag"
    /\ guard' = IF path[t].side = "sell" THEN path[t].base - Confirmed(path[t]) ELSE guard
    /\ unknown' = unknown \cup path[t].bad
    /\ Goto(t, "sync")
    /\ UNCHANGED <<setting, venue, held, open, untracked, reserved, ghosts>>

-----------------------------------------------------------------------------
(* syncPortfolio                                                           *)

StartSync ==
    /\ Idle(Loop) /\ Quiet
    /\ Goto(Loop, "sync")
    /\ UNCHANGED <<setting, venue, held, book, claims, ghosts>>

Synced(t) ==
    path' = [path EXCEPT ![t] =
                IF path[t].next = "idle" THEN NoPath ELSE [@ EXCEPT !.pc = path[t].next]]

SyncRead(t) ==
    /\ path[t].pc = "sync"
    /\ path' = [path EXCEPT ![t].base = real, ![t].pc = "apply"]
    /\ UNCHANGED <<setting, venue, held, book, claims, ghosts>>

SyncFails(t) ==
    /\ path[t].pc = "sync" /\ "syncFails" \in Faults
    /\ Synced(t)
    /\ UNCHANGED <<setting, venue, held, book, claims, ghosts>>

(* AdoptHeldPosition's refusals: a buy of the symbol is in flight. *)
BuyInFlight ==
    \/ \E w \in Watchers : ~Idle(w)
    \/ Unconfirmed("buy") # {} \/ HasReservation

(* The snapshot is replaced; then adoptUntrackedHoldings adopts what no    *)
(* record, no sell and no buy has claimed since before the grace.          *)
SyncNeverDue(t) ==   \* mutant: every sync starts the grace anew
    /\ path[t].pc = "apply"
    /\ held' = path[t].base
    /\ open' = open
    /\ untracked' = IF held' > 0 /\ open = 0 /\ guard = 0 THEN "seen" ELSE "no"
    /\ Synced(t)
    /\ UNCHANGED <<setting, venue, guard, claims, ghosts>>
SyncApply(t) ==
    /\ path[t].pc = "apply"
    /\ held' = path[t].base
    /\ LET candidate == held' > 0 /\ open = 0 /\ guard = 0
       IN  /\ open' = IF candidate /\ untracked = "due" /\ ~BuyInFlight THEN held' ELSE open
           /\ untracked' = IF candidate /\ untracked # "due" THEN "seen" ELSE "no"
    /\ Synced(t)
    /\ UNCHANGED <<setting, venue, guard, claims, ghosts>>

GraceElapses ==
    /\ untracked = "seen" /\ untracked' = "due"
    /\ UNCHANGED <<setting, venue, held, open, guard, claims, path, ghosts>>

(* reconcile: no sell is working, so the marker has done its job.  It is    *)
(* cleared although the snapshot may be older than the end of that sell.   *)
ReconcileList ==
    /\ Idle(Loop) /\ Quiet /\ Lister /\ guard > 0
    /\ Working("sell") = {} /\ ("staleList" \in Faults \/ held <= real)
    /\ Goto(Loop, "reconcile")
    /\ UNCHANGED <<setting, venue, held, book, claims, ghosts>>

ReconcileKeeps ==   \* mutant: the marker stays
    /\ path[Loop].pc = "reconcile"
    /\ Goto(Loop, "idle")
    /\ UNCHANGED <<setting, venue, held, book, claims, ghosts>>
ReconcileClear ==
    /\ path[Loop].pc = "reconcile"
    /\ guard' = 0
    /\ Goto(Loop, "idle")
    /\ UNCHANGED <<setting, venue, held, open, untracked, claims, ghosts>>

-----------------------------------------------------------------------------
(* watchLimitOrder, from the moment its timer fires                        *)

Clip(w) == CHOOSE id \in DOMAIN path[w].got : TRUE

(* Gone from the working set: filled or cancelled, nobody can say. *)
WakeGoneSilently(w) ==   \* mutant: an order that is gone is not reported
    /\ path[w].pc = "resting" /\ Quiet /\ Lister /\ orders[Clip(w)].left = 0
    /\ path' = [path EXCEPT ![w] = NoPath]
    /\ UNCHANGED <<setting, venue, held, book, claims, ghosts>>
WakeGone(w) ==
    /\ path[w].pc = "resting" /\ Quiet /\ Lister /\ orders[Clip(w)].left = 0
    /\ unknown' = unknown \cup {Clip(w)}
    /\ path' = [path EXCEPT ![w] = NoPath]
    /\ UNCHANGED <<setting, venue, held, book, reserved, ghosts>>

WakeOpen(w) ==
    /\ path[w].pc = "resting" /\ Quiet /\ Lister /\ orders[Clip(w)].left > 0
    /\ Goto(w, "cancel")
    /\ UNCHANGED <<setting, venue, held, book, claims, ghosts>>

(* A broker that can neither list nor cancel: the order is left working. *)
WakeLeaves(w) ==
    /\ path[w].pc = "resting" /\ Quiet /\ ~Lister
    /\ path' = [path EXCEPT ![w] = NoPath]
    /\ UNCHANGED <<setting, venue, held, book, claims, ghosts>>

CancelOk(w) ==
    /\ path[w].pc = "cancel" /\ orders[Clip(w)].left > 0
    /\ orders' = [orders EXCEPT ![Clip(w)].left = 0]
    /\ reserved' = reserved \ {Clip(w)}
    /\ Goto(w, "cancelled")
    /\ UNCHANGED <<setting, real, held, book, unknown, ghosts>>

CancelFails(w) ==
    /\ path[w].pc = "cancel" /\ "cancelFails" \in Faults
    /\ path' = [path EXCEPT ![w] = NoPath]
    /\ UNCHANGED <<setting, venue, held, book, claims, ghosts>>

(* restMu: one watcher at a time syncs, measures, books and re-sends. *)
Lock(w) ==
    /\ path[w].pc = "cancelled"
    /\ \A v \in Watchers : path[v].pc \in {"idle", "resting", "cancel", "cancelled"}
    /\ path' = [path EXCEPT ![w].pc = "sync", ![w].next = "measure"]
    /\ UNCHANGED <<setting, venue, held, book, claims, ghosts>>

(* filledWhileResting, soldWhileResting: how far the record and the        *)
(* holding are apart, as far as no other order of that side can be meant.  *)
Known(w) == (\A v \in Watchers \ {w} : Idle(v)) /\ Unconfirmed(path[w].side) = {}

MeasuredWhole(w) == Head(path[w].clips)   \* mutant: the clip counts as filled
Measured(w) ==
    LET apart == IF path[w].side = "buy" THEN held - open ELSE open - held
    IN  Smaller(Larger(apart, 0), Head(path[w].clips))

(* marketFallback re-sends what is left, a buy only past the gates. *)
Resend(w, filled) ==
    IF path[w].side = "buy" THEN Head(path[w].clips) - filled
    ELSE Smaller(Head(path[w].clips), held)

GoesOn(w, filled) ==
    LET resent == [NoPath EXCEPT !.pc = "submit", !.kind = "watch", !.side = path[w].side,
                     !.clips = <<Resend(w, filled)>>, !.base = held]
        lastSync == [NoPath EXCEPT !.pc = "sync"]
    IN  IF MarketFallback /\ Resend(w, filled) > 0
        THEN \/ path' = [path EXCEPT ![w] = resent]
             \/ path[w].side = "buy" /\ path' = [path EXCEPT ![w] = NoPath]
        ELSE path' = [path EXCEPT ![w] = lastSync]

Measure(w) ==
    /\ path[w].pc = "measure" /\ Known(w)
    /\ LET filled == Measured(w)
       IN  /\ Booked(Noting(<<>>, Clip(w), filled))
           /\ IF filled = 0 THEN UNCHANGED <<open, guard>>
              ELSE IF path[w].side = "buy" THEN RecordOpen(filled) ELSE RecordClose(filled)
           /\ GoesOn(w, filled)
    /\ UNCHANGED <<setting, real, held, untracked, claims, ghosts>>

(* It cannot be known: a buy is dropped, a sell is re-sent all the same. *)
MeasureUnknown(w) ==
    /\ path[w].pc = "measure" /\ ~Known(w)
    /\ IF path[w].side = "buy" THEN path' = [path EXCEPT ![w] = NoPath] ELSE GoesOn(w, 0)
    /\ givenUp' = givenUp \cup {Clip(w)}
    /\ UNCHANGED <<setting, venue, held, book, claims, byHand>>

-----------------------------------------------------------------------------
(* The operator's other requests                                           *)

ClearUnconfirmed(id) ==
    /\ Idle(Operator) /\ Quiet /\ id \in unknown
    /\ "clearEarly" \in Faults \/ orders[id].left = 0
    /\ "clearFilled" \in Faults \/ orders[id].filled = orders[id].booked
    /\ unknown' = unknown \ {id} /\ reserved' = reserved \ {id}
    /\ givenUp' = givenUp \cup {id}
    /\ UNCHANGED <<setting, venue, held, book, path, byHand>>

(* AdoptHeldPosition reads the holding and looks for buys in flight ... *)
Adopt ==
    /\ Idle(Operator) /\ Quiet /\ held > 0 /\ open = 0 /\ ~BuyInFlight
    /\ path' = [path EXCEPT ![Operator] = [NoPath EXCEPT !.pc = "adopt", !.base = held]]
    /\ UNCHANGED <<setting, venue, held, book, claims, ghosts>>

(* ... and writes the record unless there is one. *)
AdoptWrite ==
    /\ path[Operator].pc = "adopt"
    /\ open' = IF open = 0 THEN path[Operator].base ELSE open
    /\ path' = [path EXCEPT ![Operator] = NoPath]
    /\ UNCHANGED <<setting, venue, held, guard, untracked, claims, ghosts>>

(* ForgetOpenPosition, for a position closed outside the bot. *)
Forget ==
    /\ Idle(Operator) /\ Quiet /\ open > 0 /\ held = 0 /\ byHand > 0
    /\ open' = 0 /\ guard' = 0 /\ byHand' = 0
    /\ UNCHANGED <<setting, venue, held, untracked, claims, path, givenUp>>

-----------------------------------------------------------------------------
(* The broker, the operator at the broker, and the end of the process      *)

(* At any moment, but between a watcher's look at an order and its cancel. *)
MayFill(id) ==
    \/ "cancelFails" \in Faults
    \/ \A w \in Watchers : ~(path[w].pc = "cancel" /\ id \in DOMAIN path[w].got)

VenueFill(id) ==
    /\ orders[id].left > 0 /\ MayFill(id)
    /\ \E n \in 1..orders[id].left :
          /\ n < orders[id].left => "latePartial" \in Faults
          /\ orders' = [orders EXCEPT ![id].left = @ - n, ![id].filled = @ + n]
          /\ real' = IF orders[id].side = "buy" THEN real + n ELSE real - n
    /\ UNCHANGED <<setting, held, book, claims, path, ghosts>>

VenueCancels(id) ==
    /\ orders[id].left > 0 /\ MayFill(id)
    /\ orders' = [orders EXCEPT ![id].left = 0]
    /\ UNCHANGED <<setting, real, held, book, claims, path, ghosts>>

BoughtByHand ==
    /\ "hand" \in Faults /\ Within(1)
    /\ real' = real + 1
    /\ UNCHANGED <<setting, orders, held, book, claims, path, ghosts>>

SoldByHand ==
    /\ "hand" \in Faults /\ byHand < MaxQty /\ real > Left(Working("sell"))
    /\ real' = real - 1 /\ byHand' = byHand + 1
    /\ UNCHANGED <<setting, orders, held, book, claims, path, givenUp>>

(* Only the record is in the database; the orders are at the broker.  The  *)
(* next process starts with a sync.                                        *)
Crash ==
    /\ "crash" \in Faults
    /\ held' = 0 /\ guard' = 0 /\ untracked' = "no"
    /\ unknown' = {} /\ reserved' = {}
    /\ path' = [t \in Paths |-> IF t = Loop THEN [NoPath EXCEPT !.pc = "sync"] ELSE NoPath]
    /\ givenUp' = Ids
    /\ UNCHANGED <<setting, venue, open, byHand>>

-----------------------------------------------------------------------------
PathStep(t) ==
    \/ SubmitFinal(t) \/ SubmitOpen(t) \/ (\E w \in Watchers : SubmitResting(t, w))
    \/ SubmitFails(t) \/ ReplyLost(t) \/ RateRefused(t)
    \/ Settle(t) \/ Book(t) \/ Flag(t)
    \/ SyncRead(t) \/ SyncFails(t) \/ SyncApply(t)

WatcherStep(w) ==
    \/ WakeGone(w) \/ WakeOpen(w) \/ WakeLeaves(w)
    \/ CancelOk(w) \/ CancelFails(w) \/ Lock(w)
    \/ Measure(w) \/ MeasureUnknown(w)

Next ==
    \/ \E qty \in 1..MaxQty :
          \/ ActBuy(qty) \/ Exit(qty)
          \/ \E side \in {"buy", "sell"} : Manual(side, qty)
    \/ ActSell \/ ActSellNothing
    \/ \E t \in Paths : PathStep(t)
    \/ \E w \in Watchers : WatcherStep(w)
    \/ StartSync \/ ReconcileList \/ ReconcileClear \/ GraceElapses
    \/ \E id \in Ids : ClearUnconfirmed(id) \/ VenueFill(id) \/ VenueCancels(id)
    \/ Adopt \/ AdoptWrite \/ Forget
    \/ BoughtByHand \/ SoldByHand \/ Crash

Spec == Init /\ [][Next]_vars

(* The evaluation ticker never stops: syncs and reconciles come again and  *)
(* again, and whatever is begun goes on.                                   *)
FairSpec ==
    /\ Spec
    /\ SF_vars(StartSync) /\ SF_vars(ReconcileList) /\ WF_vars(ReconcileClear)
    /\ \A t \in Paths : WF_vars(PathStep(t))
    /\ \A w \in Watchers : WF_vars(WatcherStep(w))
    /\ WF_vars(AdoptWrite) /\ WF_vars(GraceElapses)

-----------------------------------------------------------------------------
OrderStates == [side : {"buy", "sell"}, left : Nat, filled : Nat, booked : Nat]

(* Every variable has the shape the code gives it. *)
TypeOK ==
    /\ setting \in Settings
    /\ real \in Int /\ held \in Int /\ open \in Nat /\ guard \in Nat /\ byHand \in Nat
    /\ orders \in Seq(OrderStates) /\ Len(orders) <= MaxOrders
    /\ unknown \subseteq Ids /\ reserved \subseteq Ids /\ givenUp \subseteq Ids
    /\ untracked \in {"no", "seen", "due"}
    /\ \A t \in Paths :
          /\ path[t].base \in Int /\ DOMAIN path[t].got \subseteq Ids /\ path[t].bad \subseteq Ids
          /\ path[t].pc \in {"submit", "settle"} => path[t].side \in {"buy", "sell"}

(* What may happen in a behaviour: the code's own steps, a hasty operator  *)
(* and a stale listing; market orders under everything paths can do to     *)
(* each other; market orders of one path at a time.                        *)
Calm == Faults \subseteq {"hurry", "staleList"}
Contended ==
    /\ Execution = "market"
    /\ Faults \subseteq {"overlap", "hurry", "partial", "latePartial", "staleList", "syncFails"}
Prompt == Execution = "market" /\ Faults \subseteq {"partial", "clearEarly", "clearFilled"}

(* exitPosition: "don't stack duplicate sell orders".  Whatever the loop,  *)
(* the operator and the watchers have working, the shares are there: where *)
(* the operator asks the guard ManualOrder does not ask (~Hasty), no       *)
(* listing is newer than the snapshot, every answer comes, and nobody but  *)
(* the bot sells.                                                          *)
SellsCovered == Left(Working("sell")) <= real
NoStackedSells == (Faults = {} /\ Execution # "sliced") \/ Prompt => SellsCovered

(* recordOpen and recordClose: the record never shows shares that are not  *)
(* there, but for sales that are about to be booked or were made by hand:  *)
(* through stacked sells, early clears, lost replies, trades at the        *)
(* broker, forgetting, adoption, cancels that cross with a fill, crashes.  *)
NoPhantomShares ==
    Faults \cap {"overlap", "syncFails", "latePartial"} = {}
        => open <= real + Unbooked("sell") + byHand

(* "Booking a guess is exactly the phantom-loss risk settledQty exists to  *)
(* avoid": nothing is booked for an order that did not fill.               *)
BookedAsFilled ==
    Calm \/ Contended => \A id \in Ids : orders[id].booked <= orders[id].filled

Handles(t) == DOMAIN path[t].got

(* Every order that works or has filled is booked, or someone sees to it:  *)
(* a path, a watcher, or the operator it was reported to.                  *)
EveryFillAccounted ==
    \A id \in Ids \ givenUp :
        orders[id].left > 0 \/ orders[id].filled # orders[id].booked =>
            id \in unknown \/ \E t \in Paths : id \in Handles(t)
NoFillLost == Lister /\ (Calm \/ Contended) => EveryFillAccounted

(* A reservation outlives its order only when the operator knows of it.    *)
ReservedForReason ==
    Lister /\ (Calm \/ Contended) =>
        \A id \in reserved : id \in unknown \/ \E t \in Paths : id \in Handles(t)

(* Every order ends in the books: booked for what filled and no more, none *)
(* of its shares forgotten, its reservation gone with it; the books have   *)
(* their shape, no record below zero.                                      *)
OrdersAccountedFor == TypeOK /\ BookedAsFilled /\ NoFillLost /\ ReservedForReason

(* The marker guards a sell that may still land; when there is none left,  *)
(* exits come back.                                                        *)
SellOutstanding == Working("sell") # {} \/ \E t \in Paths : path[t].side = "sell"
ExitsComeBack ==
    (Lister /\ Blocked /\ ~SellOutstanding) ~> (~Blocked \/ SellOutstanding)

(* adoptUntrackedHoldings: a holding nobody has a record of gets one, but  *)
(* for as long as a buy is in flight or a sell has not landed.             *)
Untracked == held > 0 /\ open = 0
Explained == BuyInFlight \/ guard > 0
HoldingsGetTracked == (Untracked /\ ~Explained) ~> (~Untracked \/ Explained)

(* adoptGrace: "An unconfirmed order never resolves on its own [...], so   *)
(* it is adopted once the grace elapses".                                  *)
UnconfirmedGetsTracked == Untracked ~> ~Untracked
=============================================================================
