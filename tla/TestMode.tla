-------------------------------- MODULE TestMode --------------------------------
(***************************************************************************)
(* The training window of internal/engine (testmode.go): e.brk is swapped  *)
(* for a simulated broker, orders are simulated until the window ends, and *)
(* then the real broker, the real position records and the real daily      *)
(* spend come back.  README.md: "Nothing simulated outlives the window."   *)
(*                                                                         *)
(* Three threads share this state: the evaluation loop, the operator's     *)
(* HTTP handlers and the watcher of a resting limit order.  A step is what *)
(* happens under one lock or in one call of a broker or the store; path    *)
(* says what each thread does next and what it holds in its locals.        *)
(*                                                                         *)
(* One symbol; one share costs one unit.  Broker 0 is the real one, the    *)
(* others are the simulators made so far.  The account a broker keeps is   *)
(* its number of shares.  book is the quantity of e.openPos; the peaks,    *)
(* round trips and pending-sell marks that are set aside and put back with *)
(* it are left out.  Whether the protections find a loss is left open:     *)
(* HaltControl has their arithmetic.                                       *)
(***************************************************************************)
EXTENDS Integers

CONSTANTS
    Loop, Operator, Watcher,   \* the threads
    Environments               \* what may happen in a behaviour, and bounds

EventKinds == {"overlap", "slices", "again", "restart"}

ASSUME TestModeAssumption ==
    /\ Environments \subseteq [events : SUBSET EventKinds, maxOrders : Nat,
                               maxSims : Nat \ {0}, maxDay : Nat \ {0}]
    /\ Loop # Operator /\ Loop # Watcher /\ Operator # Watcher

VARIABLES
    setting,             \* the environment this behaviour runs in
    today,               \* the UTC day
    account,             \* the shares in each broker's account
    sims,                \* how many simulators were made
    orders,              \* how many orders were started
    realSpent,           \* history: what buys at the real broker cost today
    brk,                 \* e.brk
    active, deadline,    \* e.testModeActive and e.testModeDeadline
    saved,               \* testModeRealBrk, testModeBook and the spend set aside
    book, spend,         \* e.openPos, and the risk manager's spend and its day
    row, storedSpend,    \* both in the store
    view,                \* the portfolio: shares, and the broker they came from
    trading, halted,     \* e.tradingEnabled, and a standing protection halt
    path

vars == <<setting, today, account, sims, orders, realSpent, brk, active, deadline,
          saved, book, spend, row, storedSpend, view, trading, halted, path>>

events == setting.events

world    == <<setting, today, sims, orders>>
accounts == <<account, realSpent>>
window   == <<brk, active, deadline, saved>>
store    == <<row, storedSpend>>
controls == <<trading, halted>>

Threads  == {Loop, Operator, Watcher}
NoSpend  == [day |-> 0, amount |-> 0]
NoWindow == [brk |-> -1, book |-> 0, spend |-> NoSpend]

(* side, left and filled are of the order in hand and at is the broker it  *)
(* was sent to; ending marks the steps of EndTestMode and next where its   *)
(* caller goes on; seed is what EnableTestMode has read so far.            *)
Rest == [pc |-> "idle", side |-> "buy", left |-> 0, filled |-> 0, at |-> 0,
         ending |-> FALSE, next |-> "idle", seed |-> NoWindow]

Idle(t) == path[t].pc \in {"idle", "resting"}
AllIdle == \A t \in Threads : Idle(t)

(* Nothing serialises the threads; without "overlap" they happen not to meet. *)
Quiet == "overlap" \in events \/ AllIdle

Go(t, pc) == path' = [path EXCEPT ![t].pc = pc]

(* risk.Manager.SpentToday: spend of an earlier day is none. *)
Amount(s) == IF s.day = today THEN s.amount ELSE 0
Spending(amount) == [day |-> today, amount |-> amount]

(* tradingOn *)
TradingOn == trading \/ active

(* A fill at the real broker that has not reached the books and the store. *)
Unbooked(t) ==
    /\ path[t].at = 0 /\ path[t].filled > 0 /\ ~path[t].ending
    /\ path[t].pc \in {"guard", "submit", "book", "persistSpend", "track", "persistRow"}
Booked == \A t \in Threads : ~Unbooked(t)

-----------------------------------------------------------------------------
Init ==
    /\ setting \in Environments
    /\ today = 1 /\ sims = 0 /\ orders = 0 /\ realSpent = 0
    /\ \E held \in 0..1 :
          /\ account = [b \in 0..setting.maxSims |-> IF b = 0 THEN held ELSE 0]
          /\ book = held /\ row = held /\ view = [of |-> 0, shares |-> held]
    /\ brk = 0 /\ active = FALSE /\ deadline = "none" /\ saved = NoWindow
    /\ spend = NoSpend /\ storedSpend = NoSpend
    /\ trading \in BOOLEAN /\ halted = FALSE
    /\ path = [t \in Threads |-> Rest]

-----------------------------------------------------------------------------
(* Orders                                                                  *)

Order(t, side, clips) ==
    /\ Idle(t) /\ Quiet
    /\ orders < setting.maxOrders /\ orders' = orders + 1
    /\ side = "sell" => view.shares >= clips
    /\ path' = [path EXCEPT ![t] = [Rest EXCEPT !.pc = "guard", !.side = side, !.left = clips]]
    /\ UNCHANGED <<setting, today, sims, accounts, window, book, spend, store, view, controls>>

(* act, for a signal or a protective exit. *)
Act(side, clips) == TradingOn /\ Order(Loop, side, clips)

(* ManualOrder: an explicit order needs no trading switch. *)
Manual(side) == Order(Operator, side, 1)

(* guardOrderRate lets the next clip through ... *)
Guard(t) ==
    /\ path[t].pc = "guard"
    /\ Go(t, "submit")
    /\ UNCHANGED <<world, accounts, window, book, spend, store, view, controls>>

(* ... or trips the breaker, which only automated orders can, and which    *)
(* ends the window at once.  submitPlan stops; what it sent is booked.     *)
(* Without "slices" every plan is one clip.                                *)
GuardTrips ==
    /\ path[Loop].pc = "guard"
    /\ trading' = FALSE
    /\ path' = [path EXCEPT ![Loop].pc = IF active THEN "end" ELSE "book",
                            ![Loop].ending = active, ![Loop].next = "book"]
    /\ UNCHANGED <<world, accounts, window, book, spend, store, view, halted>>

(* A clip goes to the broker e.brk is at this moment.  The simulator fills *)
(* it at once, and so do we for the real one; a broker sells no more than  *)
(* it holds.                                                               *)
Submit(t) ==
    /\ path[t].pc = "submit"
    /\ LET p    == path[t]
           buys == p.side = "buy"
           ok   == buys \/ account[brk] > 0
           done == [p EXCEPT !.left = @ - 1, !.filled = @ + 1, !.at = brk]
       IN  /\ account' = IF ok THEN [account EXCEPT ![brk] = @ + (IF buys THEN 1 ELSE -1)]
                               ELSE account
           /\ realSpent' = realSpent + (IF buys /\ brk = 0 THEN 1 ELSE 0)
           /\ path' = [path EXCEPT ![t] =
                 IF ok THEN [done EXCEPT !.pc = IF done.left > 0 THEN "guard" ELSE "book"]
                       ELSE [p EXCEPT !.pc = "book"]]
    /\ UNCHANGED <<world, window, book, spend, store, view, controls>>

(* A limit order rests with its watcher; in a window limit orders are      *)
(* planned as market orders (planningExecutionConfig).                     *)
SubmitLimit ==
    /\ path[Loop].pc = "submit" /\ brk = 0
    /\ path[Loop].left = 1 /\ path[Loop].filled = 0
    /\ path[Watcher].pc = "idle"
    /\ path' = [path EXCEPT ![Watcher] = [path[Loop] EXCEPT !.pc = "resting"],
                            ![Loop] = [Rest EXCEPT !.pc = "sync"]]
    /\ UNCHANGED <<world, accounts, window, book, spend, store, view, controls>>

(* watchLimitOrder wakes: its order has filled, or it cancels it.  It      *)
(* counts as a watcher until it has booked what filled.                    *)
Wake ==
    /\ path[Watcher].pc = "resting" /\ Quiet
    /\ \/ /\ path[Watcher].side = "buy" \/ account[0] > 0
          /\ account' = [account EXCEPT ![0] = @ + (IF path[Watcher].side = "buy" THEN 1 ELSE -1)]
          /\ realSpent' = realSpent + (IF path[Watcher].side = "buy" THEN 1 ELSE 0)
          /\ path' = [path EXCEPT ![Watcher].pc = "book", ![Watcher].filled = 1]
       \/ Go(Watcher, "sync") /\ UNCHANGED accounts
    /\ UNCHANGED <<world, window, book, spend, store, view, controls>>

-----------------------------------------------------------------------------
(* Booking                                                                 *)

(* RecordBuy for a buy; a sell's record carries Simulated, and one that is *)
(* not goes to the protections, which may halt.                            *)
Book(t) ==
    /\ path[t].pc = "book"
    /\ LET p == path[t]
       IN  IF p.filled = 0 THEN Go(t, "sync") /\ UNCHANGED <<spend, controls>>
           ELSE IF p.side = "buy"
           THEN /\ spend' = Spending(Amount(spend) + p.filled)
                /\ Go(t, "persistSpend") /\ UNCHANGED controls
           ELSE /\ halted' \in IF active THEN {halted} ELSE {halted, TRUE}
                /\ trading' = (trading /\ (halted' => halted))
                /\ Go(t, "track") /\ UNCHANGED spend
    /\ UNCHANGED <<world, accounts, window, book, store, view>>

After(t, bookedBy, endedBy) == Go(t, IF path[t].ending THEN endedBy ELSE bookedBy)

(* persistSpend and persistOpenPosition write nothing during a window. *)
PersistSpend(t) ==
    /\ path[t].pc = "persistSpend"
    /\ storedSpend' = IF active THEN storedSpend ELSE Spending(Amount(spend))
    /\ After(t, "track", "persistRow")
    /\ UNCHANGED <<world, accounts, window, book, spend, row, view, controls>>

(* recordOpen and recordClose; a record sold out is gone. *)
Track(t) ==
    /\ path[t].pc = "track"
    /\ book' = IF path[t].side = "buy" THEN book + path[t].filled
               ELSE IF path[t].filled > book THEN 0 ELSE book - path[t].filled
    /\ Go(t, "persistRow")
    /\ UNCHANGED <<world, accounts, window, spend, store, view, controls>>

PersistRow(t) ==
    /\ path[t].pc = "persistRow"
    /\ row' = IF active THEN row ELSE book
    /\ Go(t, "sync")
    /\ UNCHANGED <<world, accounts, window, book, spend, storedSpend, view, controls>>

(* syncPortfolio; its two reads of the broker are one here. *)
Sync(t) ==
    /\ path[t].pc = "sync"
    /\ view' = [of |-> brk, shares |-> account[brk]]
    /\ Go(t, "observe")
    /\ UNCHANGED <<world, accounts, window, book, spend, store, controls>>

Done(t) ==
    LET p == path[t]
    IN  path' = [path EXCEPT ![t] =
                   IF p.ending /\ p.next # "idle"
                   THEN [p EXCEPT !.ending = FALSE, !.pc = p.next, !.next = "idle"]
                   ELSE Rest]

(* checkDrawdown: not during a window. *)
ObserveAlways(t) ==   \* mutant: the simulated equity is observed too
    /\ path[t].pc = "observe"
    /\ halted' \in {halted, TRUE}
    /\ trading' = (trading /\ (halted' => halted))
    /\ Done(t)
    /\ UNCHANGED <<world, accounts, window, book, spend, store, view>>
Observe(t) ==
    /\ path[t].pc = "observe"
    /\ halted' \in IF active THEN {halted} ELSE {halted, TRUE}
    /\ trading' = (trading /\ (halted' => halted))
    /\ Done(t)
    /\ UNCHANGED <<world, accounts, window, book, spend, store, view>>

-----------------------------------------------------------------------------
(* The window                                                              *)

(* EnableTestMode refuses under a halt and reads the real account.  It     *)
(* does not ask whether a window is open; without "again" nobody starts    *)
(* one in another.  At startup the process calls it too.                   *)
Enable(timed) ==
    /\ Idle(Operator) /\ Quiet /\ sims < setting.maxSims
    /\ ~halted
    /\ "again" \in events \/ ~active
    /\ path' = [path EXCEPT ![Operator] =
          [Rest EXCEPT !.pc = "spendRead", !.left = account[brk], !.at = brk,
                       !.next = IF timed THEN "timed" ELSE "idle"]]
    /\ UNCHANGED <<world, accounts, window, book, spend, store, view, controls>>

(* It reads the day's spend ... *)
EnableReads ==
    /\ path[Operator].pc = "spendRead"
    /\ path' = [path EXCEPT ![Operator].pc = "install",
          ![Operator].seed = [NoWindow EXCEPT !.spend = Spending(Amount(spend))]]
    /\ UNCHANGED <<world, accounts, window, book, spend, store, view, controls>>

(* ... and, unless a real limit order rests, sets the book aside and puts  *)
(* the simulator in the broker's place.                                    *)
Install ==
    /\ path[Operator].pc = "install"
    /\ IF path[Watcher].pc # "idle"
       THEN /\ path' = [path EXCEPT ![Operator] = Rest]
            /\ UNCHANGED <<sims, account, window>>
       ELSE /\ sims' = sims + 1
            /\ account' = [account EXCEPT ![sims'] = path[Operator].left]
            /\ saved' = [path[Operator].seed EXCEPT !.brk = path[Operator].at, !.book = book]
            /\ brk' = sims' /\ active' = TRUE
            /\ deadline' = IF path[Operator].next = "timed" THEN "running" ELSE "none"
            /\ path' = [path EXCEPT ![Operator] = [Rest EXCEPT !.pc = "sync"]]
    /\ UNCHANGED <<setting, today, orders, realSpent, book, spend, store, view, controls>>

(* POST /api/testmode/stop *)
Stop ==
    /\ Idle(Operator) /\ Quiet
    /\ path' = [path EXCEPT ![Operator] = [Rest EXCEPT !.pc = "end", !.ending = TRUE]]
    /\ UNCHANGED <<world, accounts, window, book, spend, store, view, controls>>

(* evaluate, from its top: checkTestModeExpiry, then the sync. *)
TickPatient ==   \* mutant: nobody looks at the deadline
    /\ Idle(Loop) /\ Quiet
    /\ path' = [path EXCEPT ![Loop] = [Rest EXCEPT !.pc = "sync"]]
    /\ UNCHANGED <<world, accounts, window, book, spend, store, view, controls>>
Tick ==
    /\ Idle(Loop) /\ Quiet
    /\ path' = [path EXCEPT ![Loop] =
          IF active /\ deadline = "passed"
          THEN [Rest EXCEPT !.pc = "end", !.ending = TRUE, !.next = "sync"]
          ELSE [Rest EXCEPT !.pc = "sync"]]
    /\ UNCHANGED <<world, accounts, window, book, spend, store, view, controls>>

(* EndTestMode, under the lock: nothing to do without a window.  The spend *)
(* set aside stays in a local.                                             *)
EndKeepingBroker(t) ==   \* mutant: the simulator stays where it is
    /\ path[t].pc = "end"
    /\ IF active
       THEN /\ book' = saved.book
            /\ active' = FALSE /\ deadline' = "none" /\ saved' = NoWindow
            /\ path' = [path EXCEPT ![t].pc = "giveBack", ![t].seed = saved]
            /\ UNCHANGED brk
       ELSE Done(t) /\ UNCHANGED <<book, window>>
    /\ UNCHANGED <<world, accounts, spend, store, view, controls>>
End(t) ==
    /\ path[t].pc = "end"
    /\ IF active
       THEN /\ book' = saved.book /\ brk' = saved.brk
            /\ active' = FALSE /\ deadline' = "none" /\ saved' = NoWindow
            /\ path' = [path EXCEPT ![t].pc = "giveBack", ![t].seed = saved]
       ELSE Done(t) /\ UNCHANGED <<book, window>>
    /\ UNCHANGED <<world, accounts, spend, store, view, controls>>

(* risk.Manager.Restore: a figure of an earlier day is dropped. *)
GiveBackNothing(t) ==   \* mutant: the simulated spend stays
    /\ path[t].pc = "giveBack"
    /\ Go(t, "persistSpend")
    /\ UNCHANGED <<world, accounts, window, book, spend, store, view, controls>>
GiveBack(t) ==
    /\ path[t].pc = "giveBack"
    /\ spend' = Spending(Amount(path[t].seed.spend))
    /\ Go(t, "persistSpend")
    /\ UNCHANGED <<world, accounts, window, book, store, view, controls>>

-----------------------------------------------------------------------------
SetTrading(on) ==
    /\ Idle(Operator) /\ Quiet
    /\ trading' = on
    /\ UNCHANGED <<world, accounts, window, book, spend, store, view, halted, path>>

(* POST /api/protections/resume *)
Resume ==
    /\ Idle(Operator) /\ Quiet /\ halted
    /\ halted' = FALSE /\ trading' = TRUE
    /\ UNCHANGED <<world, accounts, window, book, spend, store, view, path>>

DeadlinePasses ==
    /\ deadline = "running"
    /\ deadline' = "passed"
    /\ UNCHANGED <<world, accounts, brk, active, saved, book, spend, store, view, controls, path>>

(* A fill counts for the day it is booked on. *)
Midnight ==
    /\ today < setting.maxDay /\ Booked
    /\ today' = today + 1 /\ realSpent' = 0
    /\ UNCHANGED <<setting, account, sims, orders, window, book, spend, store, view, controls, path>>

(* The process dies and the next one restores what is stored.  Real fills  *)
(* and real orders that are under way are OrderLifecycle's subject.        *)
Restart ==
    /\ "restart" \in events /\ Booked /\ path[Watcher].pc = "idle"
    /\ account' = [b \in 0..setting.maxSims |-> IF b = 0 THEN account[0] ELSE 0]
    /\ sims' = 0
    /\ brk' = 0 /\ active' = FALSE /\ deadline' = "none" /\ saved' = NoWindow
    /\ book' = row /\ spend' = Spending(Amount(storedSpend))
    /\ view' = [of |-> 0, shares |-> 0]
    /\ trading' \in IF halted THEN {FALSE} ELSE BOOLEAN
    /\ path' = [t \in Threads |-> Rest]
    /\ UNCHANGED <<setting, today, orders, realSpent, store, halted>>

ThreadStep(t) ==
    \/ Guard(t) \/ Submit(t) \/ Book(t) \/ PersistSpend(t) \/ Track(t)
    \/ PersistRow(t) \/ Sync(t) \/ Observe(t) \/ End(t) \/ GiveBack(t)

Next ==
    \/ \E side \in {"buy", "sell"}, clips \in IF "slices" \in events THEN 1..2 ELSE {1} :
          Act(side, clips)
    \/ \E side \in {"buy", "sell"} : Manual(side)
    \/ \E t \in Threads : ThreadStep(t)
    \/ GuardTrips \/ SubmitLimit \/ Wake
    \/ \E timed \in BOOLEAN : Enable(timed)
    \/ EnableReads \/ Install \/ Stop \/ Tick
    \/ \E on \in BOOLEAN : SetTrading(on)
    \/ Resume \/ DeadlinePasses \/ Midnight \/ Restart

Spec == Init /\ [][Next]_vars

(* The evaluation ticker comes again and again, and a thread in the middle *)
(* of something goes on.                                                   *)
FairSpec ==
    /\ Spec
    /\ SF_vars(Tick)
    /\ \A t \in Threads : WF_vars(ThreadStep(t))
    /\ WF_vars(EnableReads \/ Install)

-----------------------------------------------------------------------------
Steps == {"idle", "resting", "guard", "submit", "book", "persistSpend", "track",
          "persistRow", "sync", "observe", "spendRead", "install", "end", "giveBack"}

Brokers == 0..setting.maxSims
Spends  == [day : Nat, amount : Nat]
Windows == [brk : Brokers \cup {-1}, book : Nat, spend : Spends]
Locals  == [pc : Steps, side : {"buy", "sell"}, left : Nat, filled : Nat,
            at : Brokers, ending : BOOLEAN,
            next : {"idle", "book", "sync", "timed"}, seed : Windows]

(* Every variable has the shape the code gives it. *)
TypeOK ==
    /\ setting \in Environments
    /\ today \in Nat /\ orders \in Nat /\ realSpent \in Nat
    /\ sims \in 0..setting.maxSims
    /\ account \in [Brokers -> Nat]
    /\ brk \in Brokers /\ active \in BOOLEAN
    /\ deadline \in {"none", "running", "passed"} /\ saved \in Windows
    /\ book \in Nat /\ spend \in Spends /\ row \in Nat /\ storedSpend \in Spends
    /\ view \in [of : Brokers, shares : Nat]
    /\ trading \in BOOLEAN /\ halted \in BOOLEAN
    /\ path \in [Threads -> Locals]

(* The threads do not meet, plans are one clip, windows do not nest. *)
Orderly == events \subseteq {"restart"}

(* README.md, "Nothing simulated outlives the window": with no window open *)
(* the position records are what the real account holds and the day's      *)
(* spend is what was really spent.                                         *)
BookIsReal == ~active /\ AllIdle => book = account[0] /\ Amount(spend) = realSpent

(* The same, when a window is neither restarted nor ended from within a    *)
(* sliced order, and the handlers happen not to meet.                      *)
NothingSimulatedOutlives == Orderly => BookIsReal

(* persistSpend and persistOpenPosition: at every step, in a window and    *)
(* out of it, the store has the real records and the real spend, so a      *)
(* process killed anywhere in a simulation comes back with them.           *)
StoreHoldsReal == Orderly /\ Booked => row = account[0] /\ Amount(storedSpend) = realSpent

(* A window leaves no trace: not in memory once it is over, and never in   *)
(* the store.                                                              *)
WindowIsUndone == NothingSimulatedOutlives /\ StoreHoldsReal

(* EndTestMode "restores the real broker": without a window orders go to   *)
(* the real broker, within one they do not.                                *)
BrokerFollowsWindow == active <=> brk # 0

(* The same where nobody starts a window in another, even when the         *)
(* handlers meet.                                                          *)
BrokerRestored == "again" \notin events => BrokerFollowsWindow

(* checkDrawdown and feedProtections: "the simulated book's equity has no  *)
(* bearing" on the real account.  A halt is raised on what came from the   *)
(* real broker.                                                            *)
HaltIsReal ==
    Orderly /\ halted' /\ ~halted =>
       \A t \in Threads : /\ path[t].pc = "observe" => view.of = 0
                          /\ path[t].pc = "book" => path[t].at = 0

(* "It will not start while a protection halt is active": no window is     *)
(* ever open over a halt.                                                  *)
NoWindowOverHalt == "overlap" \notin events => ~(active /\ halted)

(* Simulations and halts keep apart: none is opened over a halt, and none  *)
(* raises one.                                                             *)
HaltsAreReal == [][HaltIsReal /\ NoWindowOverHalt']_vars

(* "It reverts to the real broker on its own when duration expires",       *)
(* whatever the handlers do meanwhile.                                     *)
WindowEnds == deadline = "passed" ~> ~active
=============================================================================
