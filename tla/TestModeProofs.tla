---------------------------- MODULE TestModeProofs ----------------------------
(***************************************************************************)
(* Proofs about TestMode, for every environment.                           *)
(***************************************************************************)
EXTENDS TestMode, TLAPS

(* An order under way has a clip left to send; EndTestMode never has a     *)
(* deadline to set.                                                        *)
Fits(p) ==
    /\ p.pc \in {"guard", "submit", "resting"} => p.left > 0
    /\ p.ending => p.next # "timed"
LocalsFit == \A t \in Threads : Fits(path[t])

Enabling == path[Operator].pc \in {"spendRead", "install"}

(* EnableTestMode has room for one more simulator, and a window knows the  *)
(* broker it took the place of.                                            *)
RoomLeft  == Enabling => sims < setting.maxSims
SetAside  == active => saved.brk \in Brokers

(* Where nobody starts a window in another, that broker is the real one.   *)
RealAside ==
    "again" \notin events =>
        /\ active <=> brk # 0
        /\ active => saved.brk = 0
        /\ Enabling => ~active /\ path[Operator].at = 0

(* All of it but the shapes of the other variables. *)
Kept == path' \in [Threads -> Locals] /\ LocalsFit' /\ RoomLeft' /\ SetAside' /\ RealAside'

Inv == TypeOK /\ LocalsFit /\ RoomLeft /\ SetAside /\ RealAside

-----------------------------------------------------------------------------
LEMMA SettingTyped ==
    ASSUME TypeOK
    PROVE  /\ setting.maxSims \in Nat \ {0} /\ setting.maxOrders \in Nat
           /\ setting.maxDay \in Nat \ {0}
BY TestModeAssumption DEF TypeOK

LEMMA RestTyped == ASSUME TypeOK PROVE Rest \in Locals /\ NoWindow \in Windows
BY SettingTyped DEF Rest, Locals, NoWindow, Windows, NoSpend, Spends, Steps, Brokers

LEMMA AmountTyped ==
    ASSUME TypeOK, NEW s \in Spends
    PROVE  Amount(s) \in Nat /\ \A n \in Nat : Spending(n) \in Spends
BY DEF Amount, Spending, Spends, TypeOK

LEMMA SettingKept ==
    ASSUME UNCHANGED setting
    PROVE  Brokers' = Brokers /\ Windows' = Windows /\ Locals' = Locals
BY DEF Brokers, Windows, Locals

LEMMA InitInv == Init => Inv
<1> SUFFICES ASSUME Init PROVE Inv
  OBVIOUS
<1>1. setting.maxSims \in Nat \ {0}
  BY TestModeAssumption DEF Init
<1>2. Rest \in Locals /\ NoWindow \in Windows
  BY <1>1 DEF Rest, Locals, NoWindow, Windows, NoSpend, Spends, Steps, Brokers
<1>3. TypeOK
  <2>1. account \in [Brokers -> Nat] /\ book \in Nat /\ row \in Nat
    BY DEF Init, Brokers
  <2>2. 0 \in Brokers /\ sims \in 0..setting.maxSims
    BY <1>1 DEF Init, Brokers
  <2>3. view \in [of : Brokers, shares : Nat]
    BY <2>2 DEF Init
  <2>4. NoSpend \in Spends
    BY DEF NoSpend, Spends
  <2>5. path \in [Threads -> Locals] /\ saved \in Windows
    BY <1>2 DEF Init
  <2>6. setting \in Environments /\ brk = 0 /\ spend = NoSpend /\ storedSpend = NoSpend
    BY DEF Init
  <2>7. /\ today \in Nat /\ orders \in Nat /\ realSpent \in Nat /\ active \in BOOLEAN
        /\ deadline \in {"none", "running", "passed"}
        /\ trading \in BOOLEAN /\ halted \in BOOLEAN
    BY DEF Init
  <2>. QED  BY <2>1, <2>2, <2>3, <2>4, <2>5, <2>6, <2>7 DEF TypeOK
<1>4. /\ \A t \in Threads : path[t] = Rest
      /\ Operator \in Threads
  BY DEF Init, Threads
<1>5. brk = 0 /\ ~active
  BY DEF Init
<1>6. LocalsFit
  BY <1>4 DEF LocalsFit, Fits, Rest
<1>7. ~Enabling
  BY <1>4 DEF Enabling, Rest
<1>. QED  BY <1>3, <1>5, <1>6, <1>7 DEF Inv, RoomLeft, SetAside, RealAside

-----------------------------------------------------------------------------
(* Most steps move one thread on and leave the window, the simulators and  *)
(* the setting alone.                                                      *)
LEMMA ThreadMoves ==
    ASSUME Inv, NEW t \in Threads, NEW p \in Locals,
           path' = [path EXCEPT ![t] = p],
           Fits(p), p.pc \notin {"spendRead", "install"},
           UNCHANGED <<setting, sims, brk, active, saved>>
    PROVE  Kept
<1>1. path' \in [Threads -> Locals]
  BY DEF Inv, TypeOK
<1>2. LocalsFit'
  BY DEF Inv, LocalsFit, TypeOK
<1>3. path'[Operator].pc \in {"spendRead", "install"} => path'[Operator] = path[Operator]
  BY DEF Inv, TypeOK, Threads
<1>4. RoomLeft' /\ SetAside' /\ RealAside'
  BY <1>3 DEF Inv, RoomLeft, SetAside, RealAside, Enabling, Brokers, events
<1>. QED  BY <1>1, <1>2, <1>4 DEF Kept

(* The locals of a thread with some of them replaced. *)
LEMMA LocalFields ==
    ASSUME TypeOK, NEW t \in Threads
    PROVE  /\ path[t] \in Locals
           /\ path[t].pc \in Steps /\ path[t].side \in {"buy", "sell"}
           /\ path[t].left \in Nat /\ path[t].filled \in Nat /\ path[t].at \in Brokers
           /\ path[t].ending \in BOOLEAN
           /\ path[t].next \in {"idle", "book", "sync", "timed"}
           /\ path[t].seed \in Windows
BY DEF TypeOK, Locals

LEMMA Going ==
    ASSUME Inv, NEW t \in Threads, NEW pc \in Steps, Go(t, pc),
           pc \in {"guard", "submit", "resting"} => path[t].left > 0,
           pc \notin {"spendRead", "install"},
           UNCHANGED <<setting, sims, brk, active, saved>>
    PROVE  Kept
<1> DEFINE p == [path[t] EXCEPT !.pc = pc]
<1>1. p \in Locals /\ p.pc = pc /\ Fits(p)
  BY LocalFields DEF Inv, Locals, LocalsFit, Fits
<1>2. path' = [path EXCEPT ![t] = p]
  BY DEF Go
<1> HIDE DEF p
<1>. QED  BY <1>1, <1>2, ThreadMoves

LEMMA Finishing ==
    ASSUME Inv, NEW t \in Threads, Done(t),
           UNCHANGED <<setting, sims, brk, active, saved>>
    PROVE  Kept
<1> DEFINE p == [path[t] EXCEPT !.ending = FALSE, !.pc = path[t].next, !.next = "idle"]
<1>1. CASE path[t].ending /\ path[t].next # "idle"
  <2>1. path' = [path EXCEPT ![t] = p]
    BY <1>1 DEF Done
  <2>2. path[t].next \in {"book", "sync"}
    BY <1>1, LocalFields DEF Inv, LocalsFit, Fits
  <2>3. p \in Locals /\ p.pc = path[t].next /\ Fits(p)
    BY <2>2, LocalFields DEF Inv, Locals, Fits, Steps
  <2> HIDE DEF p
  <2>. QED  BY <2>1, <2>2, <2>3, ThreadMoves
<1>2. CASE ~(path[t].ending /\ path[t].next # "idle")
  BY <1>2, RestTyped, ThreadMoves DEF Done, Inv, Rest, Fits
<1>. QED  BY <1>1, <1>2

-----------------------------------------------------------------------------
(* The steps of a thread. *)
LEMMA GuardStep ==
    ASSUME Inv, NEW t \in Threads, Guard(t)
    PROVE  Inv'
<1> USE DEF world, accounts, window, store, controls
<1>1. Kept
  BY Going DEF Guard, Steps, Inv, LocalsFit, Fits
<1>2. TypeOK'
  BY <1>1, SettingKept DEF Guard, Inv, TypeOK, Kept
<1>. QED  BY <1>1, <1>2 DEF Inv, Kept

LEMMA SubmitStep ==
    ASSUME Inv, NEW t \in Threads, Submit(t)
    PROVE  Inv'
<1> USE DEF world, accounts, window, store, controls
<1> DEFINE buys == path[t].side = "buy"
           p    == path[t]
           done == [p EXCEPT !.left = @ - 1, !.filled = @ + 1, !.at = brk]
           sent == [done EXCEPT !.pc = IF done.left > 0 THEN "guard" ELSE "book"]
<1>1. p \in Locals /\ p.left \in Nat \ {0} /\ Fits(p) /\ p.pc = "submit"
  BY LocalFields DEF Submit, Inv, LocalsFit, Fits
<1>2. done \in Locals /\ done.left = p.left - 1 /\ done.ending = p.ending /\ done.next = p.next
  <2>1. brk \in Brokers
    BY DEF Inv, TypeOK
  <2>2. p.left - 1 \in Nat /\ p.filled + 1 \in Nat
    BY <1>1, LocalFields DEF Inv
  <2>3. done = [p EXCEPT !.left = p.left - 1, !.filled = p.filled + 1, !.at = brk]
    OBVIOUS
  <2> HIDE DEF p, done
  <2>4. done \in Locals
    BY <1>1, <2>1, <2>2, <2>3 DEF Locals
  <2>5. done.left = p.left - 1 /\ done.ending = p.ending /\ done.next = p.next
    BY <1>1, <2>3 DEF Locals
  <2>. QED  BY <2>4, <2>5
<1>3. /\ sent \in Locals /\ sent.pc \in {"guard", "book"} /\ Fits(sent)
  BY <1>1, <1>2 DEF Locals, Steps, Fits
<1>4. [p EXCEPT !.pc = "book"] \in Locals /\ Fits([p EXCEPT !.pc = "book"])
  BY <1>1 DEF Locals, Steps, Fits
<1>5. Kept
  <2>1. CASE buys \/ account[brk] > 0
    <3>1. path' = [path EXCEPT ![t] = sent]
      BY <2>1 DEF Submit
    <3> HIDE DEF sent
    <3>. QED  BY <1>3, <3>1, ThreadMoves DEF Submit
  <2>2. CASE ~(buys \/ account[brk] > 0)
    BY <2>2, <1>1, <1>4, ThreadMoves DEF Submit, Locals
  <2>. QED  BY <2>1, <2>2
<1>6. account' \in [Brokers -> Nat] /\ realSpent' \in Nat
  BY DEF Inv, TypeOK, Submit
<1>7. TypeOK'
  BY <1>5, <1>6, SettingKept DEF Submit, Inv, TypeOK, Kept
<1>. QED  BY <1>5, <1>7 DEF Inv, Kept

LEMMA BookStep ==
    ASSUME Inv, NEW t \in Threads, Book(t)
    PROVE  Inv'
<1> USE DEF world, accounts, window, store, controls
<1>1. Kept
  BY Going DEF Book, Steps
<1>2. spend' \in Spends
  <2>1. spend \in Spends /\ path[t].filled \in Nat
    BY LocalFields DEF Inv, TypeOK
  <2>2. Amount(spend) + path[t].filled \in Nat
    BY <2>1, AmountTyped DEF Inv
  <2>3. Spending(Amount(spend) + path[t].filled) \in Spends
    BY <2>1, <2>2, AmountTyped DEF Inv
  <2>. QED  BY <2>1, <2>3 DEF Book
<1>3. TypeOK'
  BY <1>1, <1>2, SettingKept DEF Book, Inv, TypeOK, Kept
<1>. QED  BY <1>1, <1>3 DEF Inv, Kept

LEMMA PersistSpendStep ==
    ASSUME Inv, NEW t \in Threads, PersistSpend(t)
    PROVE  Inv'
<1> USE DEF world, accounts, window, store, controls
<1>1. Kept
  BY Going DEF PersistSpend, After, Steps
<1>2. storedSpend' \in Spends
  BY AmountTyped DEF PersistSpend, Inv, TypeOK
<1>3. TypeOK'
  BY <1>1, <1>2, SettingKept DEF PersistSpend, Inv, TypeOK, Kept
<1>. QED  BY <1>1, <1>3 DEF Inv, Kept

LEMMA TrackStep ==
    ASSUME Inv, NEW t \in Threads, Track(t)
    PROVE  Inv'
<1> USE DEF world, accounts, window, store, controls
<1>1. Kept
  BY Going DEF Track, Steps
<1>2. book' \in Nat
  BY LocalFields DEF Track, Inv, TypeOK
<1>3. TypeOK'
  BY <1>1, <1>2, SettingKept DEF Track, Inv, TypeOK, Kept
<1>. QED  BY <1>1, <1>3 DEF Inv, Kept

LEMMA PersistRowStep ==
    ASSUME Inv, NEW t \in Threads, PersistRow(t)
    PROVE  Inv'
<1> USE DEF world, accounts, window, store, controls
<1>1. Kept
  BY Going DEF PersistRow, Steps
<1>2. TypeOK'
  BY <1>1, SettingKept DEF PersistRow, Inv, TypeOK, Kept
<1>. QED  BY <1>1, <1>2 DEF Inv, Kept

LEMMA SyncStep ==
    ASSUME Inv, NEW t \in Threads, Sync(t)
    PROVE  Inv'
<1> USE DEF world, accounts, window, store, controls
<1>1. Kept
  BY Going DEF Sync, Steps
<1>2. TypeOK'
  BY <1>1, SettingKept DEF Sync, Inv, TypeOK, Kept
<1>. QED  BY <1>1, <1>2 DEF Inv, Kept

LEMMA ObserveStep ==
    ASSUME Inv, NEW t \in Threads, Observe(t)
    PROVE  Inv'
<1> USE DEF world, accounts, window, store, controls
<1>1. Kept
  BY Finishing DEF Observe
<1>2. TypeOK'
  BY <1>1, SettingKept DEF Observe, Inv, TypeOK, Kept
<1>. QED  BY <1>1, <1>2 DEF Inv, Kept

LEMMA GiveBackStep ==
    ASSUME Inv, NEW t \in Threads, GiveBack(t)
    PROVE  Inv'
<1> USE DEF world, accounts, window, store, controls
<1>1. Kept
  BY Going DEF GiveBack, Steps
<1>2. spend' \in Spends
  BY AmountTyped, LocalFields DEF GiveBack, Windows, Inv
<1>3. TypeOK'
  BY <1>1, <1>2, SettingKept DEF GiveBack, Inv, TypeOK, Kept
<1>. QED  BY <1>1, <1>3 DEF Inv, Kept

LEMMA EndStep ==
    ASSUME Inv, NEW t \in Threads, End(t)
    PROVE  Inv'
<1> USE DEF world, accounts, window, store, controls
<1>1. CASE ~active
  BY <1>1, Finishing, SettingKept DEF End, Inv, TypeOK, Kept
<1>2. CASE active
  <2> DEFINE p == [path[t] EXCEPT !.pc = "giveBack", !.seed = saved]
  <2>1. saved \in Windows /\ saved.brk \in Brokers /\ saved.book \in Nat
    BY <1>2 DEF Inv, TypeOK, SetAside, Windows
  <2>2. p \in Locals /\ p.pc = "giveBack" /\ Fits(p)
    BY <2>1, LocalFields DEF Inv, Locals, LocalsFit, Fits, Steps
  <2>3. path' = [path EXCEPT ![t] = p]
    BY <1>2 DEF End
  <2> HIDE DEF p
  <2>4. path' \in [Threads -> Locals]
    BY <2>2, <2>3 DEF Inv, TypeOK
  <2>5. LocalsFit'
    BY <2>2, <2>3 DEF Inv, TypeOK, LocalsFit
  <2>6. Enabling' => Enabling /\ path'[Operator] = path[Operator]
    BY <2>2, <2>3 DEF Enabling, Inv, TypeOK, Threads
  <2>7. RoomLeft' /\ SetAside'
    BY <1>2, <2>6 DEF End, Inv, RoomLeft, SetAside
  <2>8. RealAside'
    BY <1>2, <2>6 DEF End, Inv, RealAside, events
  <2>9. TypeOK'
    BY <1>2, <2>1, <2>4, RestTyped, SettingKept DEF End, Inv, TypeOK
  <2>. QED  BY <2>4, <2>5, <2>7, <2>8, <2>9 DEF Inv
<1>. QED  BY <1>1, <1>2

-----------------------------------------------------------------------------
(* The steps that start something, and those of the world. *)
LEMMA OrderStep ==
    ASSUME Inv, NEW t \in Threads, NEW side \in {"buy", "sell"}, NEW clips \in 1..2,
           Order(t, side, clips)
    PROVE  Inv'
<1> USE DEF world, accounts, window, store, controls
<1> DEFINE p == [Rest EXCEPT !.pc = "guard", !.side = side, !.left = clips]
<1>1. Rest \in Locals /\ Rest.ending = FALSE /\ clips \in Nat /\ clips > 0
  BY RestTyped DEF Inv, Rest
<1>2. p \in Locals /\ p.pc = "guard" /\ p.left = clips /\ p.ending = FALSE
  BY <1>1 DEF Locals, Steps
<1>3. path' = [path EXCEPT ![t] = p]
  BY DEF Order
<1> HIDE DEF p
<1>4. Kept
  BY <1>1, <1>2, <1>3, ThreadMoves DEF Order, Fits
<1>5. TypeOK'
  BY <1>4, SettingKept DEF Order, Inv, TypeOK, Kept
<1>. QED  BY <1>4, <1>5 DEF Inv, Kept

LEMMA GuardTripsStep ==
    ASSUME Inv, GuardTrips
    PROVE  Inv'
<1> USE DEF world, accounts, window, store, controls
<1> DEFINE p == [path[Loop] EXCEPT !.pc = IF active THEN "end" ELSE "book",
                                  !.ending = active, !.next = "book"]
<1>1. Loop \in Threads /\ active \in BOOLEAN
  BY DEF Threads, Inv, TypeOK
<1>2. p \in Locals /\ p.pc \in {"end", "book"} /\ Fits(p)
  BY <1>1, LocalFields DEF Inv, Locals, Steps, Fits
<1>3. path' = [path EXCEPT ![Loop] = p]
  BY DEF GuardTrips
<1> HIDE DEF p
<1>4. Kept
  BY <1>1, <1>2, <1>3, ThreadMoves DEF GuardTrips
<1>5. TypeOK'
  BY <1>4, SettingKept DEF GuardTrips, Inv, TypeOK, Kept
<1>. QED  BY <1>4, <1>5 DEF Inv, Kept

LEMMA SubmitLimitStep ==
    ASSUME Inv, SubmitLimit
    PROVE  Inv'
<1> USE DEF world, accounts, window, store, controls
<1> DEFINE p == [path[Loop] EXCEPT !.pc = "resting"]
           q == [Rest EXCEPT !.pc = "sync"]
<1>1. Loop \in Threads /\ Watcher \in Threads /\ Operator \in Threads /\ Loop # Watcher
      /\ Operator # Loop /\ Operator # Watcher
  BY TestModeAssumption DEF Threads
<1>2. p \in Locals /\ Fits(p) /\ p.pc = "resting"
  BY <1>1, LocalFields DEF SubmitLimit, Inv, Locals, Steps, LocalsFit, Fits
<1>3. q \in Locals /\ Fits(q) /\ q.pc = "sync"
  BY RestTyped DEF Inv, Rest, Locals, Steps, Fits
<1>4. path' = [path EXCEPT ![Watcher] = p, ![Loop] = q]
  BY DEF SubmitLimit
<1> HIDE DEF p, q
<1>5. path' \in [Threads -> Locals] /\ path'[Operator] = path[Operator]
  BY <1>1, <1>2, <1>3, <1>4 DEF Inv, TypeOK
<1>6. LocalsFit'
  BY <1>2, <1>3, <1>4 DEF Inv, TypeOK, LocalsFit
<1>7. RoomLeft' /\ SetAside'
  BY <1>5, SettingKept DEF SubmitLimit, Inv, RoomLeft, SetAside, Enabling
<1>8. RealAside'
  BY <1>5 DEF SubmitLimit, Inv, RealAside, Enabling, events
<1>9. TypeOK'
  BY <1>5, SettingKept DEF SubmitLimit, Inv, TypeOK
<1>. QED  BY <1>6, <1>7, <1>8, <1>9 DEF Inv

LEMMA WakeStep ==
    ASSUME Inv, Wake
    PROVE  Inv'
<1> USE DEF world, accounts, window, store, controls
<1> DEFINE p == [path[Watcher] EXCEPT !.pc = "book", !.filled = 1]
           buys == path[Watcher].side = "buy"
<1>1. Watcher \in Threads
  BY DEF Threads
<1>2. p \in Locals /\ Fits(p) /\ p.pc = "book"
  BY <1>1, LocalFields DEF Inv, Locals, Steps, LocalsFit, Fits
<1>3. Kept
  <2>1. CASE Go(Watcher, "sync")
    BY <2>1, <1>1, Going DEF Wake, Steps
  <2>2. CASE path' = [path EXCEPT ![Watcher] = p]
    <3> HIDE DEF p
    <3>. QED  BY <2>2, <1>1, <1>2, ThreadMoves DEF Wake
  <2>3. path' = [path EXCEPT ![Watcher] = p] \/ Go(Watcher, "sync")
    BY DEF Wake
  <2>. QED  BY <2>1, <2>2, <2>3
<1>4. account' \in [Brokers -> Nat] /\ realSpent' \in Nat
  <2>1. account \in [Brokers -> Nat] /\ realSpent \in Nat
    BY DEF Inv, TypeOK
  <2>2. 0 \in Brokers
    BY SettingTyped DEF Inv, Brokers
  <2>3. account[0] \in Nat
    BY <2>1, <2>2
  <2>4. CASE buys
    BY <2>1, <2>2, <2>3, <2>4 DEF Wake
  <2>5. CASE ~buys
    BY <2>1, <2>2, <2>3, <2>5 DEF Wake
  <2>. QED  BY <2>4, <2>5
<1>5. TypeOK'
  BY <1>3, <1>4, SettingKept DEF Wake, Inv, TypeOK, Kept
<1>. QED  BY <1>3, <1>5 DEF Inv, Kept

LEMMA EnableStep ==
    ASSUME Inv, NEW timed \in BOOLEAN, Enable(timed)
    PROVE  Inv'
<1> USE DEF world, accounts, window, store, controls
<1> DEFINE p == [Rest EXCEPT !.pc = "spendRead", !.left = account[brk], !.at = brk,
                             !.next = IF timed THEN "timed" ELSE "idle"]
<1>1. Operator \in Threads /\ brk \in Brokers /\ account[brk] \in Nat
  BY DEF Threads, Inv, TypeOK
<1>2. p \in Locals /\ p.pc = "spendRead" /\ p.at = brk /\ Fits(p)
  BY <1>1, RestTyped DEF Inv, Rest, Locals, Steps, Fits
<1>3. path' = [path EXCEPT ![Operator] = p]
  BY DEF Enable
<1> HIDE DEF p
<1>4. path' \in [Threads -> Locals] /\ path'[Operator] = p
  BY <1>1, <1>2, <1>3 DEF Inv, TypeOK
<1>5. LocalsFit'
  BY <1>2, <1>3 DEF Inv, TypeOK, LocalsFit
<1>6. RoomLeft' /\ SetAside'
  BY SettingKept DEF Enable, Inv, RoomLeft, SetAside
<1>7. RealAside'
  BY <1>2, <1>4 DEF Enable, Inv, RealAside, events
<1>8. TypeOK'
  BY <1>4, SettingKept DEF Enable, Inv, TypeOK
<1>. QED  BY <1>5, <1>6, <1>7, <1>8 DEF Inv

LEMMA EnableReadsStep ==
    ASSUME Inv, EnableReads
    PROVE  Inv'
<1> USE DEF world, accounts, window, store, controls
<1> DEFINE seed == [NoWindow EXCEPT !.spend = Spending(Amount(spend))]
           p == [path[Operator] EXCEPT !.pc = "install", !.seed = seed]
<1>1. Operator \in Threads
  BY DEF Threads
<1>2. Spending(Amount(spend)) \in Spends
  BY AmountTyped DEF Inv, TypeOK
<1>3. seed \in Windows
  BY <1>2, RestTyped DEF Inv, Windows
<1>4. path' = [path EXCEPT ![Operator] = p]
  BY DEF EnableReads
<1> HIDE DEF seed
<1>5. p \in Locals /\ p.pc = "install" /\ p.at = path[Operator].at /\ Fits(p)
  BY <1>1, <1>3, LocalFields DEF Inv, Locals, Steps, LocalsFit, Fits
<1> HIDE DEF p
<1>6. path' \in [Threads -> Locals] /\ path'[Operator] = p
  BY <1>1, <1>4, <1>5 DEF Inv, TypeOK
<1>7. LocalsFit'
  BY <1>4, <1>5 DEF Inv, TypeOK, LocalsFit
<1>8. Enabling
  BY DEF EnableReads, Enabling
<1>9. RoomLeft' /\ SetAside'
  BY <1>8, SettingKept DEF EnableReads, Inv, RoomLeft, SetAside
<1>10. RealAside'
  BY <1>5, <1>6, <1>8 DEF EnableReads, Inv, RealAside, events
<1>11. TypeOK'
  BY <1>6, SettingKept DEF EnableReads, Inv, TypeOK
<1>. QED  BY <1>7, <1>9, <1>10, <1>11 DEF Inv

LEMMA InstallStep ==
    ASSUME Inv, Install
    PROVE  Inv'
<1> USE DEF world, accounts, window, store, controls
<1>1. Operator \in Threads /\ Enabling
  BY DEF Threads, Install, Enabling
<1>2. CASE path[Watcher].pc # "idle"
  BY <1>1, <1>2, RestTyped, ThreadMoves, SettingKept DEF Install, Inv, Rest, Fits, TypeOK, Kept
<1>3. CASE path[Watcher].pc = "idle"
  <2> DEFINE p == [Rest EXCEPT !.pc = "sync"]
             o == path[Operator]
             aside == [o.seed EXCEPT !.brk = o.at, !.book = book]
  <2>1. p \in Locals /\ p.pc = "sync" /\ Fits(p)
    BY RestTyped DEF Inv, Rest, Locals, Steps, Fits
  <2>2. o.seed \in Windows /\ o.at \in Brokers /\ o.left \in Nat
    BY <1>1, LocalFields DEF Inv
  <2>3. aside \in Windows /\ aside.brk = o.at
    BY <2>2 DEF Inv, TypeOK, Windows
  <2>4. path' = [path EXCEPT ![Operator] = p] /\ saved' = aside
    BY <1>3 DEF Install
  <2> HIDE DEF p, aside
  <2>5. path' \in [Threads -> Locals] /\ path'[Operator].pc = "sync"
    BY <1>1, <2>1, <2>4 DEF Inv, TypeOK
  <2>6. LocalsFit'
    BY <2>1, <2>4 DEF Inv, TypeOK, LocalsFit
  <2>7. sims' \in 1..setting.maxSims
    BY <1>1, <1>3, SettingTyped DEF Install, Inv, TypeOK, RoomLeft
  <2>8. active' /\ brk' = sims' /\ brk' # 0 /\ brk' \in Brokers
    BY <1>3, <2>7 DEF Install, Brokers
  <2>9. account' \in [Brokers -> Nat]
    BY <1>3, <2>2 DEF Install, Inv, TypeOK
  <2>10. ~Enabling'
    BY <2>5 DEF Enabling
  <2>11. RoomLeft' /\ SetAside'
    BY <2>2, <2>3, <2>4, <2>10, SettingKept DEF Install, RoomLeft, SetAside
  <2>12. RealAside'
    BY <1>1, <2>3, <2>4, <2>8, <2>10 DEF Install, Inv, RealAside, events
  <2>13. TypeOK'
    BY <1>3, <2>3, <2>4, <2>5, <2>7, <2>8, <2>9, SettingKept DEF Install, Inv, TypeOK
  <2>. QED  BY <2>6, <2>11, <2>12, <2>13 DEF Inv
<1>. QED  BY <1>2, <1>3

LEMMA StopStep ==
    ASSUME Inv, Stop
    PROVE  Inv'
<1> USE DEF world, accounts, window, store, controls
<1> DEFINE p == [Rest EXCEPT !.pc = "end", !.ending = TRUE]
           q == [Rest EXCEPT !.pc = "end", !.ending = TRUE, !.next = "sync"]
           r == [Rest EXCEPT !.pc = "sync"]
<1>1. Operator \in Threads
  BY DEF Threads
<1>2. /\ p \in Locals /\ p.pc = "end" /\ Fits(p)
      /\ q \in Locals /\ q.pc = "end" /\ Fits(q)
      /\ r \in Locals /\ r.pc = "sync" /\ Fits(r)
  BY RestTyped DEF Inv, Rest, Locals, Steps, Fits
<1>3. \E new \in {p, q, r} : path' = [path EXCEPT ![Operator] = new]
  BY DEF Stop
<1> HIDE DEF p, q, r
<1>4. Kept
  BY <1>1, <1>2, <1>3, ThreadMoves DEF Stop
<1>5. TypeOK'
  BY <1>4, SettingKept DEF Stop, Inv, TypeOK, Kept
<1>. QED  BY <1>4, <1>5 DEF Inv, Kept

LEMMA TickStep ==
    ASSUME Inv, Tick
    PROVE  Inv'
<1> USE DEF world, accounts, window, store, controls
<1> DEFINE p == [Rest EXCEPT !.pc = "end", !.ending = TRUE]
           q == [Rest EXCEPT !.pc = "end", !.ending = TRUE, !.next = "sync"]
           r == [Rest EXCEPT !.pc = "sync"]
<1>1. Loop \in Threads
  BY DEF Threads
<1>2. /\ p \in Locals /\ p.pc = "end" /\ Fits(p)
      /\ q \in Locals /\ q.pc = "end" /\ Fits(q)
      /\ r \in Locals /\ r.pc = "sync" /\ Fits(r)
  BY RestTyped DEF Inv, Rest, Locals, Steps, Fits
<1>3. \E new \in {p, q, r} : path' = [path EXCEPT ![Loop] = new]
  BY DEF Tick
<1> HIDE DEF p, q, r
<1>4. Kept
  BY <1>1, <1>2, <1>3, ThreadMoves DEF Tick
<1>5. TypeOK'
  BY <1>4, SettingKept DEF Tick, Inv, TypeOK, Kept
<1>. QED  BY <1>4, <1>5 DEF Inv, Kept

LEMMA SwitchStep ==
    ASSUME Inv, SetTrading(TRUE) \/ SetTrading(FALSE) \/ Resume \/ DeadlinePasses \/ Midnight
    PROVE  Inv'
<1> USE DEF world, accounts, window, store, controls
<1>1. path' = path /\ UNCHANGED <<setting, sims, brk, active, saved>>
  BY DEF SetTrading, Resume, DeadlinePasses, Midnight
<1>2. LocalsFit' /\ RoomLeft' /\ SetAside' /\ RealAside'
  BY <1>1, SettingKept
     DEF Inv, LocalsFit, Fits, RoomLeft, SetAside, RealAside, Enabling, events
<1>3. CASE SetTrading(TRUE) \/ SetTrading(FALSE) \/ Resume
  BY <1>1, <1>2, <1>3, SettingKept DEF SetTrading, Resume, Inv, TypeOK
<1>4. CASE DeadlinePasses
  BY <1>1, <1>2, <1>4, SettingKept DEF DeadlinePasses, Inv, TypeOK
<1>5. CASE Midnight
  BY <1>1, <1>2, <1>5, SettingKept DEF Midnight, Inv, TypeOK
<1>. QED  BY <1>3, <1>4, <1>5

LEMMA RestartStep ==
    ASSUME Inv, Restart
    PROVE  Inv'
<1> USE DEF world, accounts, window, store, controls
<1>1. \A t \in Threads : path'[t] = Rest
  BY DEF Restart
<1>2. Operator \in Threads
  BY DEF Threads
<1>3. path' \in [Threads -> Locals] /\ NoWindow \in Windows
  BY RestTyped DEF Restart, Inv
<1>4. ~Enabling'
  BY <1>1, <1>2 DEF Enabling, Rest
<1>5. LocalsFit'
  BY <1>1 DEF LocalsFit, Fits, Rest
<1>6. ~active' /\ brk' = 0
  BY DEF Restart
<1>7. RoomLeft' /\ SetAside' /\ RealAside'
  BY <1>4, <1>6 DEF RoomLeft, SetAside, RealAside
<1>8. 0 \in Brokers /\ 0 \in 0..setting.maxSims
  BY SettingTyped DEF Inv, Brokers
<1>9. account' \in [Brokers -> Nat]
  BY <1>8 DEF Inv, TypeOK, Restart, Brokers
<1>10. spend' \in Spends
  BY AmountTyped DEF Restart, Inv, TypeOK
<1>11. view' \in [of : Brokers, shares : Nat]
  BY <1>8 DEF Restart
<1>12. TypeOK'
  BY <1>3, <1>8, <1>9, <1>10, <1>11, SettingKept DEF Restart, Inv, TypeOK
<1>. QED  BY <1>5, <1>7, <1>12 DEF Inv

LEMMA StutterStep ==
    ASSUME Inv, UNCHANGED vars
    PROVE  Inv'
<1>1. TypeOK'
  BY SettingKept DEF vars, Inv, TypeOK
<1>2. LocalsFit' /\ RoomLeft' /\ SetAside' /\ RealAside'
  BY SettingKept
     DEF vars, Inv, LocalsFit, Fits, RoomLeft, SetAside, RealAside, Enabling, events
<1>. QED  BY <1>1, <1>2 DEF Inv

-----------------------------------------------------------------------------
LEMMA StepInv == Inv /\ [Next]_vars => Inv'
<1> SUFFICES ASSUME Inv, [Next]_vars PROVE Inv'
  OBVIOUS
<1>1. CASE \E side \in {"buy", "sell"}, clips \in 1..2 : Act(side, clips)
  BY <1>1, OrderStep DEF Act, Threads
<1>2. CASE \E side \in {"buy", "sell"} : Manual(side)
  BY <1>2, OrderStep DEF Manual, Threads
<1>3. CASE \E t \in Threads : ThreadStep(t)
  BY <1>3, GuardStep, SubmitStep, BookStep, PersistSpendStep, TrackStep, PersistRowStep,
     SyncStep, ObserveStep, EndStep, GiveBackStep DEF ThreadStep
<1>4. CASE GuardTrips \/ SubmitLimit \/ Wake
  BY <1>4, GuardTripsStep, SubmitLimitStep, WakeStep
<1>5. CASE \E timed \in BOOLEAN : Enable(timed)
  BY <1>5, EnableStep
<1>6. CASE EnableReads \/ Install \/ Stop \/ Tick
  BY <1>6, EnableReadsStep, InstallStep, StopStep, TickStep
<1>7. CASE \E on \in BOOLEAN : SetTrading(on)
  BY <1>7, SwitchStep
<1>8. CASE Resume \/ DeadlinePasses \/ Midnight \/ Restart
  BY <1>8, SwitchStep, RestartStep
<1>9. CASE UNCHANGED vars
  BY <1>9, StutterStep
<1>. QED
  BY <1>1, <1>2, <1>3, <1>4, <1>5, <1>6, <1>7, <1>8, <1>9 DEF Next

(* Every variable keeps its shape, in every environment: no account is     *)
(* ever oversold and no window is put back that was not set aside.         *)
THEOREM TypeCorrect == Spec => []TypeOK
<1>1. Inv => TypeOK
  BY DEF Inv
<1>. QED  BY <1>1, InitInv, StepInv, PTL DEF Spec

(* EndTestMode restores the real broker: where nobody starts a window in   *)
(* another, orders go to the real broker exactly when no window is open,   *)
(* however the loop, the watcher, the handlers and restarts interleave.    *)
THEOREM RealBrokerComesBack == Spec => []BrokerRestored
<1>1. Inv => BrokerRestored
  BY DEF Inv, RealAside, BrokerRestored, BrokerFollowsWindow
<1>. QED  BY <1>1, InitInv, StepInv, PTL DEF Spec

-----------------------------------------------------------------------------
(* Where handlers do not meet, one thread at a time is in the middle of    *)
(* something, and no halt stands while a window is open or being opened.   *)
Apart == "overlap" \notin events

OneBusy == \A s, t \in Threads : ~Idle(s) /\ ~Idle(t) => s = t

NoHaltIn == halted => ~active /\ ~Enabling

ApartInv == OneBusy /\ NoHaltIn

(* Thread t moves while the others rest.                                   *)
Alone(t) == \A s \in Threads \ {t} : Idle(s) /\ path'[s] = path[s]

LEMMA ThreadNames == Loop \in Threads /\ Operator \in Threads /\ Watcher \in Threads
BY DEF Threads

LEMMA GoFields ==
    ASSUME TypeOK, NEW t \in Threads, NEW pc, Go(t, pc)
    PROVE  /\ path'[t].pc = pc /\ path'[t].side = path[t].side /\ path'[t].left = path[t].left
           /\ path'[t].filled = path[t].filled /\ path'[t].at = path[t].at
           /\ path'[t].ending = path[t].ending /\ path'[t].next = path[t].next
           /\ path'[t].seed = path[t].seed
           /\ \A s \in Threads \ {t} : path'[s] = path[s]
BY DEF TypeOK, Locals, Go

LEMMA DoneFields ==
    ASSUME TypeOK, LocalsFit, NEW t \in Threads, Done(t)
    PROVE  /\ \A s \in Threads \ {t} : path'[s] = path[s]
           /\ \/ path'[t] = Rest
              \/ /\ path[t].ending /\ path'[t].pc \in {"book", "sync"}
                 /\ path'[t].ending = FALSE /\ path'[t].filled = path[t].filled
                 /\ path'[t].seed = path[t].seed
<1>1. CASE path[t].ending /\ path[t].next # "idle"
  BY <1>1, LocalFields DEF Done, TypeOK, LocalsFit, Fits, Locals
<1>2. CASE ~(path[t].ending /\ path[t].next # "idle")
  BY <1>2 DEF Done, TypeOK
<1>. QED  BY <1>1, <1>2

LEMMA OthersRest ==
    ASSUME OneBusy, NEW t \in Threads, ~Idle(t)
    PROVE  \A s \in Threads \ {t} : Idle(s)
BY DEF OneBusy

LEMMA QuietRest ==
    ASSUME Apart, Quiet
    PROVE  AllIdle
BY DEF Apart, Quiet

LEMMA ThreadStepAlone ==
    ASSUME TypeOK, LocalsFit, OneBusy, NEW t \in Threads, ThreadStep(t)
    PROVE  ~Idle(t) /\ Alone(t)
<1>1. ~Idle(t)
  BY DEF ThreadStep, Guard, Submit, Book, PersistSpend, Track, PersistRow, Sync, Observe,
     End, GiveBack, Idle
<1>2. \A s \in Threads \ {t} : path'[s] = path[s]
  <2>1. CASE Guard(t) \/ Book(t) \/ PersistSpend(t) \/ Track(t) \/ PersistRow(t) \/ Sync(t)
             \/ GiveBack(t)
    BY <2>1, GoFields DEF Guard, Book, PersistSpend, Track, PersistRow, Sync, GiveBack, After
  <2>2. CASE Submit(t)
    BY <2>2 DEF Submit, TypeOK
  <2>3. CASE Observe(t)
    BY <2>3, DoneFields DEF Observe
  <2>4. CASE End(t)
    BY <2>4, DoneFields DEF End, TypeOK
  <2>. QED  BY <2>1, <2>2, <2>3, <2>4 DEF ThreadStep
<1>. QED  BY <1>1, <1>2, OthersRest DEF Alone

(* The steps that begin something find all threads at rest.                *)
Plans == IF "slices" \in events THEN 1..2 ELSE {1}

Ordering(t) ==
    /\ t \in {Loop, Operator}
    /\ \E side \in {"buy", "sell"}, clips \in Plans : Order(t, side, clips)

Opening(t) == t = Operator /\ \E timed \in BOOLEAN : Enable(timed)

Begins(t) ==
    \/ Ordering(t) \/ Opening(t)
    \/ t = Operator /\ Stop
    \/ t = Loop /\ Tick
    \/ t = Watcher /\ Wake

LEMMA BeginsAlone ==
    ASSUME TypeOK, Apart, NEW t \in Threads, Begins(t)
    PROVE  AllIdle /\ Alone(t)
<1>1. AllIdle
  BY QuietRest DEF Begins, Ordering, Opening, Order, Enable, Stop, Tick, Wake
<1>2. \A s \in Threads \ {t} : path'[s] = path[s]
  <2>1. CASE Ordering(t)
    BY <2>1 DEF Ordering, Order, TypeOK
  <2>2. CASE Opening(t) \/ (t = Operator /\ Stop)
    <3>1. t = Operator /\ \E p : path' = [path EXCEPT ![Operator] = p]
      BY <2>2 DEF Opening, Enable, Stop
    <3>. QED  BY <3>1 DEF TypeOK
  <2>3. CASE t = Loop /\ Tick
    BY <2>3 DEF Tick, TypeOK
  <2>4. CASE t = Watcher /\ Wake
    BY <2>4, GoFields DEF Wake, TypeOK
  <2>. QED  BY <2>1, <2>2, <2>3, <2>4 DEF Begins
<1>. QED  BY <1>1, <1>2 DEF Alone, AllIdle

LEMMA OperatorAlone ==
    ASSUME TypeOK, OneBusy, EnableReads \/ Install
    PROVE  Alone(Operator)
<1>1. ~Idle(Operator)
  BY DEF EnableReads, Install, Idle
<1>2. \A s \in Threads \ {Operator} : path'[s] = path[s]
  BY DEF EnableReads, Install, TypeOK
<1>. QED  BY <1>1, <1>2, OthersRest, ThreadNames DEF Alone

LEMMA TripsAlone ==
    ASSUME TypeOK, OneBusy, GuardTrips
    PROVE  Alone(Loop)
<1>1. ~Idle(Loop)
  BY DEF GuardTrips, Idle
<1>2. \A s \in Threads \ {Loop} : path'[s] = path[s]
  BY DEF GuardTrips, TypeOK
<1>. QED  BY <1>1, <1>2, OthersRest, ThreadNames DEF Alone

(* A limit order passes from the loop to its watcher.                      *)
LEMMA HandOver ==
    ASSUME TypeOK, OneBusy, SubmitLimit
    PROVE  /\ path'[Watcher] = [path[Loop] EXCEPT !.pc = "resting"]
           /\ path'[Loop] = [Rest EXCEPT !.pc = "sync"]
           /\ \A s \in Threads \ {Loop} : Idle(s)
           /\ \A s \in Threads \ {Loop, Watcher} : path'[s] = path[s]
<1>1. ~Idle(Loop)
  BY DEF SubmitLimit, Idle
<1>2. \A s \in Threads \ {Loop} : Idle(s)
  BY <1>1, OthersRest, ThreadNames
<1>3. Loop # Watcher
  BY TestModeAssumption
<1>. QED  BY <1>2, <1>3, ThreadNames DEF SubmitLimit, TypeOK

(* Every step is one of these.                                             *)
StepKinds ==
    \/ \E t \in Threads : Begins(t) \/ ThreadStep(t)
    \/ GuardTrips \/ SubmitLimit \/ EnableReads \/ Install
    \/ SetTrading(TRUE) \/ SetTrading(FALSE) \/ Resume \/ DeadlinePasses \/ Midnight
    \/ UNCHANGED vars
    \/ Restart

LEMMA StepIsOfAKind ==
    ASSUME [Next]_vars
    PROVE  StepKinds
<1>1. CASE \E side \in {"buy", "sell"}, clips \in Plans : Act(side, clips)
  BY <1>1, ThreadNames DEF Act, Begins, Ordering, StepKinds
<1>2. CASE \E side \in {"buy", "sell"} : Manual(side)
  <2>1. PICK side \in {"buy", "sell"} : Order(Operator, side, 1)
    BY <1>2 DEF Manual
  <2>2. Begins(Operator)
    BY <2>1 DEF Begins, Ordering, Plans
  <2>. QED  BY <2>2, ThreadNames DEF StepKinds
<1>3. CASE \E t \in Threads : ThreadStep(t)
  BY <1>3 DEF StepKinds
<1>4. CASE GuardTrips \/ SubmitLimit \/ EnableReads \/ Install \/ Restart
  BY <1>4 DEF StepKinds
<1>5. CASE (\E timed \in BOOLEAN : Enable(timed)) \/ Stop \/ Tick \/ Wake
  BY <1>5, ThreadNames DEF Begins, Opening, StepKinds
<1>6. CASE (\E on \in BOOLEAN : SetTrading(on)) \/ Resume \/ DeadlinePasses \/ Midnight
           \/ UNCHANGED vars
  BY <1>6 DEF StepKinds
<1>. QED
  BY <1>1, <1>2, <1>3, <1>4, <1>5, <1>6 DEF Next, Plans

LEMMA EventsStay ==
    ASSUME [Next]_vars
    PROVE  events' = events
BY DEF events, Next, vars, world, Act, Manual, Order, ThreadStep, Guard, Submit, Book,
   PersistSpend, Track, PersistRow, Sync, Observe, End, GiveBack, GuardTrips, SubmitLimit,
   Wake, Enable, EnableReads, Install, Stop, Tick, SetTrading, Resume, DeadlinePasses,
   Midnight, Restart

LEMMA InitApartInv == Init => ApartInv
BY DEF Init, ApartInv, OneBusy, NoHaltIn, Idle, Rest

LEMMA AloneOneBusy ==
    ASSUME NEW t \in Threads, Alone(t)
    PROVE  OneBusy'
<1>1. \A s \in Threads \ {t} : Idle(s)'
  BY DEF Alone, Idle
<1>. QED  BY <1>1 DEF OneBusy

LEMMA StepOneBusy ==
    ASSUME TypeOK, LocalsFit, OneBusy, Apart, StepKinds
    PROVE  OneBusy'
<1>1. CASE \E t \in Threads : Begins(t) \/ ThreadStep(t)
  BY <1>1, BeginsAlone, ThreadStepAlone, AloneOneBusy
<1>2. CASE GuardTrips \/ EnableReads \/ Install
  BY <1>2, TripsAlone, OperatorAlone, AloneOneBusy, ThreadNames
<1>3. CASE SubmitLimit
  <2>1. \A s \in Threads \ {Loop} : Idle(s)'
    BY <1>3, HandOver, LocalFields, ThreadNames DEF Locals, Idle
  <2>. QED  BY <2>1 DEF OneBusy
<1>4. CASE \/ SetTrading(TRUE) \/ SetTrading(FALSE) \/ Resume \/ DeadlinePasses \/ Midnight
           \/ UNCHANGED vars
  BY <1>4 DEF SetTrading, Resume, DeadlinePasses, Midnight, vars, OneBusy, Idle
<1>5. CASE Restart
  BY <1>5 DEF Restart, OneBusy, Idle, Rest
<1>. QED  BY <1>1, <1>2, <1>3, <1>4, <1>5 DEF StepKinds

(* No step that the threads share opens a window.                          *)
LEMMA ThreadStepOpensNothing ==
    ASSUME Inv, OneBusy, NEW t \in Threads, ThreadStep(t)
    PROVE  ~Enabling' /\ (active' => active)
<1> USE DEF window
<1>t. TypeOK /\ LocalsFit
  BY DEF Inv
<1>1. path'[t].pc \notin {"spendRead", "install"} /\ (active' => active)
  <2>1. CASE Guard(t) \/ Book(t) \/ PersistSpend(t) \/ Track(t) \/ PersistRow(t) \/ Sync(t)
             \/ GiveBack(t)
    <3>1. /\ \E pc \in Steps \ {"spendRead", "install"} : Go(t, pc)
          /\ active' = active
      BY <2>1 DEF Guard, Book, PersistSpend, Track, PersistRow, Sync, GiveBack, After, Steps
    <3>. QED  BY <1>t, <3>1, GoFields
  <2>2. CASE Submit(t)
    BY <1>t, <2>2, LocalFields DEF Submit, TypeOK, Locals
  <2>3. CASE Observe(t)
    <3>1. Done(t) /\ active' = active
      BY <2>3 DEF Observe
    <3>2. path'[t] = Rest \/ path'[t].pc \in {"book", "sync"}
      BY <1>t, <3>1, DoneFields
    <3>. QED  BY <3>1, <3>2 DEF Rest
  <2>4. CASE End(t) /\ active
    BY <1>t, <2>4, LocalFields DEF End, TypeOK, Locals
  <2>5. CASE End(t) /\ ~active
    <3>1. Done(t) /\ active' = active
      BY <2>5 DEF End
    <3>2. path'[t] = Rest \/ path'[t].pc \in {"book", "sync"}
      BY <1>t, <3>1, DoneFields
    <3>. QED  BY <3>1, <3>2 DEF Rest
  <2>. QED  BY <2>1, <2>2, <2>3, <2>4, <2>5 DEF ThreadStep
<1>2. Alone(t)
  BY <1>t, ThreadStepAlone
<1>3. ~Enabling'
  BY <1>1, <1>2, ThreadNames DEF Enabling, Alone, Idle
<1>. QED  BY <1>1, <1>3

LEMMA StepNoHaltIn ==
    ASSUME Inv, ApartInv, Apart, StepKinds
    PROVE  NoHaltIn'
<1> USE DEF window, controls
<1>t. TypeOK /\ LocalsFit /\ OneBusy /\ NoHaltIn
  BY DEF Inv, ApartInv
<1>1. ASSUME NEW t \in Threads, Begins(t)
      PROVE  NoHaltIn'
  <2>1. UNCHANGED <<halted, active>>
    BY <1>1 DEF Begins, Ordering, Opening, Order, Enable, Stop, Tick, Wake
  <2>2. Alone(t) /\ AllIdle
    BY <1>1, <1>t, BeginsAlone
  <2>3. CASE Opening(t)
    BY <2>1, <2>3 DEF Opening, Enable, NoHaltIn
  <2>4. CASE ~Opening(t)
    <3>1. path'[t].pc \in {"guard", "end", "sync", "book"}
      <4>1. CASE Ordering(t)
        BY <1>t, <4>1, RestTyped DEF Ordering, Order, TypeOK, Locals
      <4>2. CASE Stop /\ t = Operator
        BY <1>t, <4>2, RestTyped DEF Stop, TypeOK, Locals
      <4>3. CASE Tick /\ t = Loop
        BY <1>t, <4>3 DEF Tick, TypeOK, Rest
      <4>4. CASE Wake /\ t = Watcher
        BY <1>t, <4>4, GoFields, LocalFields DEF Wake, TypeOK, Locals
      <4>. QED  BY <1>1, <2>4, <4>1, <4>2, <4>3, <4>4 DEF Begins
    <3>2. ~Enabling'
      BY <2>2, <3>1, ThreadNames DEF Enabling, Alone, Idle
    <3>. QED  BY <1>t, <2>1, <3>2 DEF NoHaltIn
  <2>. QED  BY <2>3, <2>4
<1>2. ASSUME NEW t \in Threads, ThreadStep(t)
      PROVE  NoHaltIn'
  <2>1. ~Enabling' /\ (active' => active)
    BY <1>2, <1>t, ThreadStepOpensNothing
  <2>2. halted' => halted \/ (~active /\ active' = active)
    BY <1>2, <1>t DEF ThreadStep, Guard, Submit, Book, PersistSpend, Track, PersistRow, Sync,
       Observe, End, GiveBack, TypeOK
  <2>. QED  BY <1>t, <2>1, <2>2 DEF NoHaltIn
<1>3. CASE GuardTrips
  BY <1>3, <1>t, TripsAlone, ThreadNames, TestModeAssumption DEF Enabling, Alone, Idle, NoHaltIn, GuardTrips
<1>4. CASE SubmitLimit
  <2>1. ~Enabling'
    BY <1>4, <1>t, HandOver, ThreadNames, TestModeAssumption DEF Enabling, Idle
  <2>. QED  BY <1>4, <1>t, <2>1 DEF NoHaltIn, SubmitLimit
<1>5. CASE EnableReads \/ Install
  BY <1>5, <1>t DEF EnableReads, Install, Enabling, NoHaltIn
<1>6. CASE \/ SetTrading(TRUE) \/ SetTrading(FALSE) \/ Resume \/ DeadlinePasses \/ Midnight
           \/ UNCHANGED vars
  BY <1>6, <1>t DEF SetTrading, Resume, DeadlinePasses, Midnight, vars, NoHaltIn, Enabling
<1>7. CASE Restart
  BY <1>7, ThreadNames DEF Restart, Enabling, Rest, NoHaltIn
<1>. QED  BY <1>1, <1>2, <1>3, <1>4, <1>5, <1>6, <1>7 DEF StepKinds

-----------------------------------------------------------------------------
(* In orderly running an order is one clip.  What it filled is of the      *)
(* broker of the day, since no window opens or closes before it is booked. *)
OneClip(p) ==
    /\ p.filled \in {0, 1}
    /\ p.pc \in {"guard", "submit", "resting"} =>
           p.left = 1 /\ p.filled = 0 /\ p.at = 0 /\ ~p.ending
    /\ p.pc \in {"idle", "spendRead", "install"} => p.filled = 0
    /\ p.ending => p.filled = 0
    /\ p.filled = 1 => (p.at = 0 <=> ~active)
    /\ p.pc = "track" => p.filled = 1
    /\ p.pc = "persistSpend" /\ ~p.ending => p.filled = 1 /\ p.side = "buy"
    /\ p.pc = "persistRow" /\ ~p.ending => p.filled = 1
    /\ p.pc \in {"end", "giveBack"} => p.ending
    /\ p.ending /\ p.pc \in {"giveBack", "persistSpend", "persistRow"} => ~active
    /\ p.pc = "observe" => view.of = brk
    /\ p.seed.spend.day <= today

(* A limit order rests with its watcher alone, and no window opens on it.  *)
WatcherRests ==
    /\ \A t \in Threads : path[t].pc = "resting" => t = Watcher
    /\ path[Watcher].pc # "idle" => ~active

Days == spend.day <= today /\ storedSpend.day <= today /\ saved.spend.day <= today

ClipsInv == (\A t \in Threads : OneClip(path[t])) /\ WatcherRests /\ Days

OrderlyInv == Inv /\ ApartInv /\ ClipsInv

LEMMA OrderlyMeans ==
    ASSUME Orderly
    PROVE  Apart /\ "slices" \notin events /\ "again" \notin events
BY DEF Orderly, Apart

LEMMA InitClipsInv == Init => ClipsInv
BY DEF Init, ClipsInv, OneClip, WatcherRests, Days, Rest, NoWindow, NoSpend

LEMMA RestClip ==
    ASSUME today \in Nat
    PROVE  OneClip(Rest) /\ Rest.pc = "idle"
BY DEF OneClip, Rest, NoWindow, NoSpend

(* A thread at rest stays in order whatever the others do.                 *)
LEMMA RestingClip ==
    ASSUME TypeOK, TypeOK', NEW s \in Threads, Idle(s), path'[s] = path[s],
           OneClip(path[s]), today' >= today
    PROVE  OneClip(path[s])'
<1>1. /\ path[s].seed.spend.day \in Nat /\ today \in Nat /\ today' \in Nat
  BY LocalFields DEF TypeOK, Windows, Spends
<1>. QED  BY <1>1 DEF OneClip, Idle

LEMMA ClipsFromOne ==
    ASSUME OrderlyInv, TypeOK', NEW t \in Threads, Alone(t), today' = today,
           OneClip(path[t])',
           path'[t].pc = "resting" => t = Watcher,
           path'[Watcher].pc # "idle" => ~active',
           Days'
    PROVE  ClipsInv'
<1>1. TypeOK /\ today' >= today
  BY DEF OrderlyInv, Inv, TypeOK
<1>2. \A s \in Threads \ {t} : OneClip(path[s])'
  BY <1>1, RestingClip DEF OrderlyInv, ClipsInv, Alone
<1>3. \A s \in Threads : OneClip(path[s])'
  BY <1>2
<1>4. WatcherRests'
  BY DEF OrderlyInv, ClipsInv, WatcherRests, Alone
<1>. QED  BY <1>3, <1>4 DEF ClipsInv

LEMMA SpendDays ==
    ASSUME TypeOK, NEW s \in Spends
    PROVE  Amount(s) \in Nat /\ \A n \in Nat : Spending(n).day = today
BY AmountTyped DEF Spending

LEMMA BeginsClips ==
    ASSUME OrderlyInv, TypeOK', Orderly, NEW t \in Threads, Begins(t)
    PROVE  ClipsInv'
<1> USE DEF window, world, store, accounts
<1>0. TypeOK /\ ClipsInv /\ today \in Nat /\ Apart
  BY OrderlyMeans DEF OrderlyInv, Inv, TypeOK
<1>1. Alone(t) /\ AllIdle
  BY <1>0, BeginsAlone
<1>2. /\ UNCHANGED <<today, active, brk, view, spend, storedSpend, saved>>
  BY DEF Begins, Ordering, Opening, Order, Enable, Stop, Tick, Wake
<1>3. Days'
  BY <1>0, <1>2 DEF ClipsInv, Days
<1>4. Rest.seed.spend.day = 0
  BY DEF Rest, NoWindow, NoSpend
<1>5. ASSUME NEW side \in {"buy", "sell"}, Order(t, side, 1)
      PROVE  OneClip(path[t])' /\ path'[t].pc \in {"guard"}
  BY <1>0, <1>5, <1>2, <1>4 DEF Order, TypeOK, Rest, OneClip
<1>6. ASSUME NEW timed \in BOOLEAN, Enable(timed), t = Operator
      PROVE  OneClip(path[t])' /\ path'[t].pc = "spendRead"
  BY <1>0, <1>6, <1>2, <1>4 DEF Enable, TypeOK, Rest, OneClip
<1>7. ASSUME (Stop /\ t = Operator) \/ (Tick /\ t = Loop)
      PROVE  OneClip(path[t])' /\ path'[t].pc \in {"end", "sync"}
  <2>1. \/ path'[t] = [Rest EXCEPT !.pc = "end", !.ending = TRUE]
        \/ path'[t] = [Rest EXCEPT !.pc = "end", !.ending = TRUE, !.next = "sync"]
        \/ path'[t] = [Rest EXCEPT !.pc = "sync"]
    BY <1>0, <1>7 DEF Stop, Tick, TypeOK
  <2>2. /\ path'[t].pc \in {"end", "sync"} /\ path'[t].filled = 0
        /\ path'[t].seed = Rest.seed /\ (path'[t].pc = "end" => path'[t].ending)
    BY <2>1 DEF Rest
  <2>. QED  BY <1>0, <1>2, <1>4, <2>2 DEF OneClip
<1>8. ASSUME Wake, t = Watcher
      PROVE  OneClip(path[t])' /\ path'[t].pc \in {"book", "sync"} /\ ~active
  BY <1>0, <1>8, GoFields, LocalFields, <1>2 DEF Wake, ClipsInv, OneClip, WatcherRests, TypeOK, Locals
<1>9. OneClip(path[t])' /\ path'[t].pc # "resting"
      /\ (t = Watcher => ~active)
  <2>1. CASE Ordering(t)
    <3>1. PICK side \in {"buy", "sell"}, clips \in Plans : Order(t, side, clips)
      BY <2>1 DEF Ordering
    <3>2. clips = 1
      BY OrderlyMeans DEF Plans
    <3>. QED  BY <1>5, <2>1, <3>1, <3>2, TestModeAssumption DEF Ordering
  <2>2. CASE Opening(t)
    BY <1>6, <2>2, TestModeAssumption DEF Opening
  <2>3. CASE (Stop /\ t = Operator) \/ (Tick /\ t = Loop)
    BY <1>7, <2>3, TestModeAssumption
  <2>4. CASE Wake /\ t = Watcher
    BY <1>8, <2>4
  <2>. QED  BY <2>1, <2>2, <2>3, <2>4 DEF Begins
<1>10. path'[Watcher].pc # "idle" => ~active'
  BY <1>0, <1>1, <1>2, <1>9, ThreadNames DEF ClipsInv, WatcherRests, Alone
<1>. QED  BY <1>1, <1>2, <1>3, <1>9, <1>10, ClipsFromOne

LEMMA ThreadStepClips ==
    ASSUME OrderlyInv, TypeOK', Orderly, NEW t \in Threads, ThreadStep(t)
    PROVE  ClipsInv'
<1> USE DEF window, world, store, accounts, controls
<1>0. /\ TypeOK /\ LocalsFit /\ OneBusy /\ ClipsInv /\ today \in Nat /\ Inv
      /\ spend \in Spends /\ storedSpend \in Spends
  BY DEF OrderlyInv, ApartInv, Inv, TypeOK
<1>1. Alone(t) /\ ~Idle(t)
  BY <1>0, ThreadStepAlone
<1>2. today' = today /\ (active' => active)
  BY <1>0, ThreadStepOpensNothing DEF ThreadStep, Guard, Submit, Book, PersistSpend, Track,
     PersistRow, Sync, Observe, End, GiveBack
<1>3. OneClip(path[t])
  BY <1>0 DEF ClipsInv
<1>4. active <=> brk # 0
  BY <1>0, OrderlyMeans DEF Inv, RealAside
<1>5. path[t] \in Locals
  BY <1>0, LocalFields
<1>6. Days'
  <2>1. spend' = spend \/ spend'.day = today
    <3>1. ASSUME NEW n, spend' = Spending(n)
          PROVE  spend'.day = today
      BY <3>1 DEF Spending
    <3>2. CASE Book(t)
      BY <3>2, <3>1 DEF Book
    <3>3. CASE GiveBack(t)
      BY <3>3 DEF GiveBack, Spending
    <3>4. CASE ~Book(t) /\ ~GiveBack(t)
      BY <3>4 DEF ThreadStep, Guard, Submit, PersistSpend, Track, PersistRow, Sync, Observe, End
    <3>. QED  BY <3>2, <3>3, <3>4
  <2>2. storedSpend' = storedSpend \/ storedSpend'.day = today
    <3>1. CASE PersistSpend(t)
      BY <3>1 DEF PersistSpend, Spending
    <3>2. CASE ~PersistSpend(t)
      BY <3>2 DEF ThreadStep, Guard, Submit, Book, Track, PersistRow, Sync, Observe, End, GiveBack
    <3>. QED  BY <3>1, <3>2
  <2>3. saved' = saved \/ saved' = NoWindow
    BY DEF ThreadStep, Guard, Submit, Book, PersistSpend, Track, PersistRow, Sync, Observe, End,
       GiveBack
  <2>4. NoWindow.spend.day = 0
    BY DEF NoWindow, NoSpend
  <2>. QED  BY <1>0, <1>2, <2>1, <2>2, <2>3, <2>4 DEF ClipsInv, Days
<1>7. OneClip(path[t])' /\ path'[t].pc # "resting"
  <2>1. CASE Guard(t)
    BY <2>1, <1>0, <1>2, <1>3, GoFields DEF Guard, OneClip
  <2>2. CASE Submit(t)
    <3>1. UNCHANGED <<active, brk, view>> /\ path[t].pc = "submit"
      BY <2>2 DEF Submit
    <3>2. path[t].left = 1 /\ path[t].filled = 0 /\ path[t].at = 0 /\ ~path[t].ending
      BY <1>3, <3>1 DEF OneClip
    <3> DEFINE done == [path[t] EXCEPT !.left = @ - 1, !.filled = @ + 1, !.at = brk]
    <3>3. /\ done.left = 0 /\ done.filled = 1 /\ done.at = brk /\ ~done.ending
          /\ done.seed = path[t].seed /\ done \in Locals
      <4>1. done = [path[t] EXCEPT !.left = 0, !.filled = 1, !.at = brk] /\ brk \in Brokers
        BY <1>0, <3>2 DEF TypeOK
      <4> HIDE DEF done
      <4>. QED  BY <1>5, <3>2, <4>1 DEF Locals
    <3>4. \/ path'[t] = [done EXCEPT !.pc = IF done.left > 0 THEN "guard" ELSE "book"]
          \/ path'[t] = [path[t] EXCEPT !.pc = "book"]
      BY <1>0, <2>2 DEF Submit, TypeOK
    <3> HIDE DEF done
    <3>5. /\ path'[t].pc = "book" /\ ~path'[t].ending /\ path'[t].seed = path[t].seed
          /\ path'[t].filled = 0 \/ (path'[t].filled = 1 /\ path'[t].at = brk)
      BY <1>5, <3>2, <3>3, <3>4 DEF Locals
    <3>. QED  BY <1>2, <1>3, <1>4, <3>1, <3>5 DEF OneClip
  <2>3. CASE Book(t)
    <3>1. UNCHANGED <<active, brk, view>> /\ path[t].pc = "book"
      BY <2>3 DEF Book
    <3>2. \/ path[t].filled = 0 /\ Go(t, "sync")
          \/ path[t].filled # 0 /\ path[t].side = "buy" /\ Go(t, "persistSpend")
          \/ path[t].filled # 0 /\ path[t].side # "buy" /\ Go(t, "track")
      BY <2>3 DEF Book
    <3>. QED  BY <1>0, <1>2, <1>3, <3>1, <3>2, GoFields DEF OneClip
  <2>4. CASE PersistSpend(t)
    BY <2>4, <1>0, <1>2, <1>3, GoFields DEF PersistSpend, After, OneClip
  <2>5. CASE Track(t)
    BY <2>5, <1>0, <1>2, <1>3, GoFields DEF Track, OneClip
  <2>6. CASE PersistRow(t)
    BY <2>6, <1>0, <1>2, <1>3, GoFields DEF PersistRow, OneClip
  <2>7. CASE Sync(t)
    BY <2>7, <1>0, <1>2, <1>3, GoFields DEF Sync, OneClip
  <2>8. ASSUME Done(t), UNCHANGED <<active, brk, view>>
        PROVE  OneClip(path[t])' /\ path'[t].pc # "resting"
    <3>1. CASE path'[t] = Rest
      BY <1>0, <1>2, <3>1 DEF Rest, NoWindow, NoSpend, OneClip
    <3>2. CASE /\ path[t].ending /\ path'[t].pc \in {"book", "sync"}
               /\ path'[t].ending = FALSE /\ path'[t].filled = path[t].filled
               /\ path'[t].seed = path[t].seed
      BY <1>2, <1>3, <3>2 DEF OneClip
    <3>. QED  BY <1>0, <2>8, <3>1, <3>2, DoneFields
  <2>9. CASE Observe(t)
    BY <2>8, <2>9 DEF Observe
  <2>10. CASE End(t)
    <3>1. CASE ~active
      BY <2>8, <2>10, <3>1 DEF End
    <3>2. CASE active
      BY <1>0, <2>10, <3>2, <1>5, <1>2, <1>3 DEF End, TypeOK, Locals, ClipsInv, Days, OneClip
    <3>. QED  BY <3>1, <3>2
  <2>11. CASE GiveBack(t)
    BY <2>11, <1>0, <1>2, <1>3, GoFields DEF GiveBack, OneClip
  <2>. QED
    BY <2>1, <2>2, <2>3, <2>4, <2>5, <2>6, <2>7, <2>9, <2>10, <2>11 DEF ThreadStep
<1>8. path'[Watcher].pc # "idle" => ~active'
  BY <1>0, <1>1, <1>2, ThreadNames DEF ClipsInv, WatcherRests, Alone, Idle
<1>. QED  BY <1>1, <1>2, <1>6, <1>7, <1>8, ClipsFromOne

LEMMA OtherClips ==
    ASSUME OrderlyInv, TypeOK', Orderly,
           \/ GuardTrips \/ SubmitLimit \/ EnableReads \/ Install \/ Restart
           \/ SetTrading(TRUE) \/ SetTrading(FALSE) \/ Resume \/ DeadlinePasses \/ Midnight
           \/ UNCHANGED vars
    PROVE  ClipsInv'
<1> USE DEF window, world, store, accounts, controls
<1>0. /\ TypeOK /\ LocalsFit /\ OneBusy /\ ClipsInv /\ today \in Nat
      /\ spend \in Spends /\ storedSpend \in Spends /\ Inv
      /\ Loop # Operator /\ Loop # Watcher /\ Operator # Watcher
  BY TestModeAssumption DEF OrderlyInv, ApartInv, Inv, TypeOK
<1>1. active <=> brk # 0
  BY <1>0, OrderlyMeans DEF Inv, RealAside
<1>2. \A t \in Threads : OneClip(path[t]) /\ path[t] \in Locals
  BY <1>0, LocalFields DEF ClipsInv
<1>r. /\ Rest.pc = "idle" /\ Rest.filled = 0 /\ Rest.ending = FALSE /\ Rest.seed.spend.day = 0
      /\ NoWindow.spend.day = 0 /\ Rest.side = "buy"
  BY DEF Rest, NoWindow, NoSpend
<1>3. CASE GuardTrips
  <2>1. UNCHANGED <<today, active, brk, view, spend, storedSpend, saved>>
        /\ path[Loop].pc = "guard"
    BY <1>3 DEF GuardTrips
  <2>2. path'[Loop] = [path[Loop] EXCEPT !.pc = IF active THEN "end" ELSE "book",
                                        !.ending = active, !.next = "book"]
    BY <1>0, <1>3, ThreadNames DEF GuardTrips, TypeOK
  <2>3. /\ path'[Loop].pc = (IF active THEN "end" ELSE "book") /\ path'[Loop].ending = active
        /\ path'[Loop].filled = path[Loop].filled /\ path'[Loop].seed = path[Loop].seed
    BY <1>2, <2>2, ThreadNames DEF Locals
  <2>4. OneClip(path[Loop])
    BY <1>2, ThreadNames
  <2>5. OneClip(path[Loop])'
    BY <2>1, <2>3, <2>4 DEF OneClip
  <2>6. path'[Watcher].pc # "idle" => ~active'
    BY <1>0, <1>3, <2>1, TripsAlone, ThreadNames DEF ClipsInv, WatcherRests, Alone
  <2>. QED
    BY <1>0, <1>3, <2>1, <2>3, <2>5, <2>6, TripsAlone, ThreadNames, ClipsFromOne DEF ClipsInv, Days
<1>4. CASE SubmitLimit
  <2>1. UNCHANGED <<today, active, brk, view, spend, storedSpend, saved>> /\ ~active
        /\ path[Loop].pc = "submit"
    BY <1>1, <1>4 DEF SubmitLimit
  <2>2. OneClip(path[Loop])
    BY <1>2, ThreadNames
  <2>3. /\ path'[Watcher].pc = "resting" /\ path'[Watcher].left = path[Loop].left
        /\ path'[Watcher].filled = path[Loop].filled /\ path'[Watcher].at = path[Loop].at
        /\ path'[Watcher].ending = path[Loop].ending /\ path'[Watcher].seed = path[Loop].seed
    BY <1>0, <1>2, <1>4, HandOver, ThreadNames DEF Locals
  <2>4. OneClip(path[Watcher])'
    BY <2>1, <2>2, <2>3 DEF OneClip
  <2>5. path'[Loop] = [Rest EXCEPT !.pc = "sync"]
    BY <1>0, <1>4, HandOver
  <2>6. path'[Loop].pc = "sync" /\ path'[Loop].filled = 0 /\ path'[Loop].seed = Rest.seed
    BY <2>5 DEF Rest
  <2>7. OneClip(path[Loop])'
    BY <1>0, <1>r, <2>1, <2>6 DEF OneClip
  <2>8. \A s \in Threads \ {Loop, Watcher} : Idle(s) /\ path'[s] = path[s]
    BY <1>0, <1>4, HandOver
  <2>9. \A s \in Threads \ {Loop, Watcher} : OneClip(path[s])'
    BY <1>0, <1>2, <2>1, <2>8, RestingClip
  <2>10. \A s \in Threads : OneClip(path[s])'
    BY <2>4, <2>7, <2>9
  <2>11. WatcherRests'
    BY <1>0, <2>1, <2>6, <2>8 DEF ClipsInv, WatcherRests
  <2>. QED  BY <1>0, <2>1, <2>10, <2>11 DEF ClipsInv, Days
<1>5. CASE EnableReads
  <2>1. UNCHANGED <<today, active, brk, view, spend, storedSpend, saved>>
        /\ path[Operator].pc = "spendRead"
    BY <1>5 DEF EnableReads
  <2> DEFINE seed == [NoWindow EXCEPT !.spend = Spending(Amount(spend))]
  <2>2. path'[Operator] = [path[Operator] EXCEPT !.pc = "install", !.seed = seed]
    BY <1>0, <1>5, ThreadNames DEF EnableReads, TypeOK
  <2>3. seed.spend.day = today
    BY DEF Spending, NoWindow
  <2> HIDE DEF seed
  <2>4. /\ path'[Operator].pc = "install" /\ path'[Operator].seed = seed
        /\ path'[Operator].filled = path[Operator].filled
        /\ path'[Operator].ending = path[Operator].ending
    BY <1>2, <2>2, ThreadNames DEF Locals
  <2>5. OneClip(path[Operator])
    BY <1>2, ThreadNames
  <2>6. OneClip(path[Operator])'
    BY <1>0, <2>1, <2>3, <2>4, <2>5 DEF OneClip
  <2>7. path'[Watcher].pc # "idle" => ~active'
    BY <1>0, <1>5, <2>1, OperatorAlone, ThreadNames DEF ClipsInv, WatcherRests, Alone
  <2>. QED
    BY <1>0, <1>5, <2>1, <2>4, <2>6, <2>7, OperatorAlone, ThreadNames, ClipsFromOne
    DEF ClipsInv, Days
<1>6. CASE Install
  <2>1. UNCHANGED <<today, view, spend, storedSpend>> /\ path[Operator].pc = "install"
    BY <1>6 DEF Install
  <2>2. path'[Operator] = Rest \/ path'[Operator] = [Rest EXCEPT !.pc = "sync"]
    BY <1>0, <1>6, ThreadNames DEF Install, TypeOK
  <2>3. /\ path'[Operator].pc \in {"idle", "sync"} /\ path'[Operator].filled = 0
        /\ path'[Operator].seed.spend.day = 0 /\ ~path'[Operator].ending
    BY <1>r, <2>2 DEF Rest
  <2>4. OneClip(path[Operator])'
    BY <1>0, <2>1, <2>3 DEF OneClip
  <2>5. saved' = saved \/ saved'.spend = path[Operator].seed.spend
    BY <1>2, ThreadNames, <1>6 DEF Locals, Install, Windows
  <2>6. Days'
    BY <1>0, <1>2, <2>1, <2>5, ThreadNames DEF ClipsInv, Days, OneClip
  <2>7. path'[Watcher] = path[Watcher]
    BY <1>0, <1>6, OperatorAlone, ThreadNames DEF Alone
  <2>8. path'[Watcher].pc # "idle" => ~active'
    BY <1>0, <1>6, <2>7 DEF Install, ClipsInv, WatcherRests
  <2>. QED
    BY <1>0, <1>6, <2>1, <2>3, <2>4, <2>6, <2>8, OperatorAlone, ThreadNames, ClipsFromOne
<1>7. CASE Restart
  <2>1. \A t \in Threads : path'[t] = Rest
    BY <1>7 DEF Restart
  <2>2. today' = today /\ ~active' /\ saved' = NoWindow /\ storedSpend' = storedSpend
    BY <1>7 DEF Restart
  <2>3. spend'.day = today
    BY <1>7 DEF Restart, Spending
  <2>4. Days'
    BY <1>0, <1>r, <2>2, <2>3 DEF ClipsInv, Days
  <2>5. \A t \in Threads : OneClip(path[t])'
    BY <1>0, <1>r, <2>1, <2>2 DEF OneClip
  <2>6. WatcherRests'
    BY <1>r, <2>1, <2>2 DEF WatcherRests
  <2>. QED  BY <2>4, <2>5, <2>6 DEF ClipsInv
<1>8. CASE \/ SetTrading(TRUE) \/ SetTrading(FALSE) \/ Resume \/ DeadlinePasses \/ Midnight
           \/ UNCHANGED vars
  <2>1. /\ path' = path /\ UNCHANGED <<active, brk, view, spend, storedSpend, saved>>
        /\ today' \in {today, today + 1}
    BY <1>0, <1>8 DEF SetTrading, Resume, DeadlinePasses, Midnight, vars
  <2>2. /\ spend.day \in Nat /\ storedSpend.day \in Nat /\ saved.spend.day \in Nat
        /\ \A t \in Threads : path[t].seed.spend.day \in Nat
    BY <1>0, <1>2 DEF TypeOK, Spends, Windows, Locals
  <2>3. \A t \in Threads : OneClip(path[t])'
    BY <1>0, <1>2, <2>1, <2>2 DEF OneClip
  <2>4. WatcherRests' /\ Days'
    BY <1>0, <2>1, <2>2 DEF ClipsInv, WatcherRests, Days
  <2>. QED  BY <2>3, <2>4 DEF ClipsInv
<1>. QED  BY <1>3, <1>4, <1>5, <1>6, <1>7, <1>8

LEMMA StepOrderlyInv ==
    ASSUME OrderlyInv, [Next]_vars, Orderly
    PROVE  OrderlyInv'
<1>1. Inv' /\ TypeOK' /\ TypeOK /\ LocalsFit
  BY StepInv DEF OrderlyInv, Inv
<1>2. ApartInv'
  BY <1>1, OrderlyMeans, StepIsOfAKind, StepOneBusy, StepNoHaltIn DEF OrderlyInv, ApartInv
<1>3. ClipsInv'
  BY <1>1, StepIsOfAKind, BeginsClips, ThreadStepClips, OtherClips DEF StepKinds
<1>. QED  BY <1>1, <1>2, <1>3 DEF OrderlyInv

-----------------------------------------------------------------------------
(* What a thread that filled at the real broker still owes the books.      *)
Move(p) == IF p.side = "buy" THEN 1 ELSE -1
Cost(p) == IF p.side = "buy" THEN 1 ELSE 0

Owing(p) ==
    /\ p.pc \in {"book", "persistSpend", "track"} => book = row /\ account[0] = row + Move(p)
    /\ p.pc = "persistRow" => account[0] = book
    /\ realSpent = Amount(spend) + (IF p.pc = "book" THEN Cost(p) ELSE 0)
    /\ p.pc # "persistSpend" => Amount(storedSpend) = Amount(spend)

(* The real records, while only thread t is in the middle of something:    *)
(* set aside during a window, in the store unless t owes them, in memory   *)
(* when no window is open and t is not just giving the spend back.         *)
Real(t) ==
    /\ active => saved.book = account[0] /\ Amount(saved.spend) = realSpent
    /\ ~Unbooked(t) => row = account[0] /\ Amount(storedSpend) = realSpent
    /\ ~Unbooked(t) /\ ~active =>
           book = account[0] /\ (path[t].pc # "giveBack" => Amount(spend) = realSpent)
    /\ path[t].pc \in {"giveBack", "install"} => Amount(path[t].seed.spend) = realSpent
    /\ Unbooked(t) => Owing(path[t])

RecordsInv == \A t \in Threads : (\A s \in Threads \ {t} : Idle(s)) => Real(t)

LEMMA InitRecordsInv == Init => RecordsInv
<1>. SUFFICES ASSUME Init, NEW t \in Threads PROVE Real(t)
  BY DEF RecordsInv
<1>1. path[t] = Rest /\ Rest.pc = "idle" /\ Rest.filled = 0
  BY DEF Init, Rest
<1>2. 0 \in 0..setting.maxSims
  BY TestModeAssumption DEF Init
<1>3. row = account[0] /\ book = account[0]
  BY <1>2 DEF Init
<1>4. ~active /\ realSpent = 0 /\ Amount(spend) = 0 /\ Amount(storedSpend) = 0
  BY DEF Init, Amount, NoSpend
<1>. QED  BY <1>1, <1>3, <1>4 DEF Real, Unbooked

LEMMA IdleOwesNothing ==
    ASSUME NEW t \in Threads, Idle(t)
    PROVE  ~Unbooked(t) /\ path[t].pc \notin {"giveBack", "install"}
BY DEF Idle, Unbooked

LEMMA RecordsFromOne ==
    ASSUME NEW t \in Threads, Alone(t), Real(t)'
    PROVE  RecordsInv'
<1>. SUFFICES ASSUME NEW u \in Threads, \A s \in Threads \ {u} : Idle(s)' PROVE Real(u)'
  BY DEF RecordsInv
<1>1. CASE u = t
  BY <1>1
<1>2. CASE u # t
  BY <1>2 DEF Alone, Idle, Unbooked, Real
<1>. QED  BY <1>1, <1>2

(* A step that moves no money and leaves nothing owing.                    *)
LEMMA MoneyStays ==
    ASSUME NEW t \in Threads, Real(t), ~Unbooked(t), ~Unbooked(t)',
           path[t].pc # "giveBack", path'[t].pc \notin {"giveBack", "install"},
           UNCHANGED <<today, account, realSpent, active, saved, book, spend, row, storedSpend>>
    PROVE  Real(t)'
BY DEF Real, Amount

LEMMA SpendingAmount ==
    ASSUME NEW s, NEW n, s = Spending(n)
    PROVE  Amount(s) = n
BY DEF Spending, Amount

(* An order that reaches the real broker is owed to the books.             *)
LEMMA FillOwes ==
    ASSUME OrderlyInv, NEW t \in Threads, Real(t), ~Unbooked(t), ~active,
           path[t].pc # "giveBack", path'[t].pc = "book", path'[t].side = path[t].side,
           account'[0] = account[0] + Move(path[t]), realSpent' = realSpent + Cost(path[t]),
           UNCHANGED <<today, active, saved, book, spend, row, storedSpend>>,
           path'[t].filled = 1, path'[t].at = 0, ~path'[t].ending
    PROVE  Real(t)'
<1>1. Unbooked(t)'
  BY DEF Unbooked
<1>2. book = row /\ row = account[0] /\ Amount(spend) = realSpent /\ Amount(storedSpend) = realSpent
  BY DEF Real
<1>3. Amount(spend)' = Amount(spend) /\ Amount(storedSpend)' = Amount(storedSpend)
  BY DEF Amount
<1>4. Owing(path[t])'
  BY <1>2, <1>3 DEF Owing, Move, Cost
<1>. QED  BY <1>1, <1>4 DEF Real

LEMMA BeginsRecords ==
    ASSUME OrderlyInv, OrderlyInv', RecordsInv, Orderly, NEW t \in Threads, Begins(t)
    PROVE  RecordsInv'
<1> USE DEF window, world, store, accounts, controls
<1>0. /\ TypeOK /\ Apart /\ ClipsInv /\ ClipsInv' /\ path[t] \in Locals
  BY OrderlyMeans, LocalFields DEF OrderlyInv, Inv, TypeOK
<1>1. AllIdle /\ Alone(t)
  BY <1>0, BeginsAlone
<1>2. Real(t) /\ Idle(t)
  BY <1>1 DEF RecordsInv, AllIdle
<1>3. ~Unbooked(t) /\ path[t].pc \notin {"giveBack", "install"}
  BY <1>2, IdleOwesNothing
<1>4. CASE Ordering(t) \/ Opening(t) \/ (t = Operator /\ Stop) \/ (t = Loop /\ Tick)
  <2>1. UNCHANGED <<today, account, realSpent, active, saved, book, spend, row, storedSpend>>
    BY <1>4 DEF Ordering, Opening, Order, Enable, Stop, Tick
  <2>2. path'[t].pc \in {"guard", "spendRead", "end", "sync"} /\ path'[t].filled = 0
    <3>1. CASE Ordering(t)
      <4>1. PICK side \in {"buy", "sell"}, clips \in Plans : Order(t, side, clips)
        BY <3>1 DEF Ordering
      <4>2. path'[t] = [Rest EXCEPT !.pc = "guard", !.side = side, !.left = clips]
        BY <1>0, <4>1 DEF Order, TypeOK
      <4>. QED  BY <4>2 DEF Rest
    <3>2. CASE Opening(t)
      <4>1. PICK timed \in BOOLEAN : t = Operator /\ Enable(timed)
        BY <3>2 DEF Opening
      <4>2. path'[t] = [Rest EXCEPT !.pc = "spendRead", !.left = account[brk], !.at = brk,
                       !.next = IF timed THEN "timed" ELSE "idle"]
        BY <1>0, <4>1 DEF Enable, TypeOK
      <4>. QED  BY <4>2 DEF Rest
    <3>3. CASE (t = Operator /\ Stop) \/ (t = Loop /\ Tick)
      <4>1. \/ path'[t] = [Rest EXCEPT !.pc = "end", !.ending = TRUE]
            \/ path'[t] = [Rest EXCEPT !.pc = "end", !.ending = TRUE, !.next = "sync"]
            \/ path'[t] = [Rest EXCEPT !.pc = "sync"]
        BY <1>0, <3>3 DEF Stop, Tick, TypeOK
      <4>. QED  BY <4>1 DEF Rest
    <3>. QED  BY <1>4, <3>1, <3>2, <3>3
  <2>3. ~Unbooked(t)'
    BY <2>2 DEF Unbooked
  <2>4. Real(t)'
    BY <1>2, <1>3, <2>1, <2>2, <2>3, MoneyStays
  <2>. QED  BY <1>1, <2>4, RecordsFromOne
<1>5. CASE t = Watcher /\ Wake
  <2>1. /\ UNCHANGED <<today, active, saved, book, spend, row, storedSpend>>
        /\ path[t].pc = "resting"
    BY <1>5 DEF Wake
  <2>2. ~active /\ path[t].at = 0 /\ ~path[t].ending /\ path[t].filled = 0
    BY <1>0, <1>5, <2>1 DEF ClipsInv, OneClip, WatcherRests
  <2>3. CASE Go(Watcher, "sync") /\ UNCHANGED accounts
    <3>1. path'[t].pc = "sync" /\ ~Unbooked(t)'
      BY <1>0, <1>5, <2>3, GoFields DEF Unbooked
    <3>. QED  BY <1>1, <1>2, <1>3, <2>1, <2>3, <3>1, MoneyStays, RecordsFromOne
  <2>4. CASE /\ path' = [path EXCEPT ![Watcher].pc = "book", ![Watcher].filled = 1]
             /\ account' = [account EXCEPT ![0] = @ + (IF path[t].side = "buy" THEN 1 ELSE -1)]
             /\ realSpent' = realSpent + (IF path[t].side = "buy" THEN 1 ELSE 0)
    <3>1. path'[t] = [path[t] EXCEPT !.pc = "book", !.filled = 1]
      BY <1>0, <1>5, <2>4 DEF TypeOK
    <3>2. /\ path'[t].pc = "book" /\ path'[t].filled = 1 /\ path'[t].at = 0
          /\ ~path'[t].ending /\ path'[t].side = path[t].side
      BY <1>0, <2>2, <3>1 DEF Locals
    <3>3. account'[0] = account[0] + Move(path[t]) /\ realSpent' = realSpent + Cost(path[t])
      BY <1>0, SettingTyped, <2>4 DEF TypeOK, Brokers, Move, Cost
    <3>4. Real(t)'
      BY <1>2, <1>3, <2>1, <2>2, <3>2, <3>3, FillOwes
    <3>. QED  BY <1>1, <3>4, RecordsFromOne
  <2>. QED  BY <1>5, <2>3, <2>4 DEF Wake
<1>. QED  BY <1>4, <1>5 DEF Begins

LEMMA ThreadStepRecords ==
    ASSUME OrderlyInv, OrderlyInv', RecordsInv, Orderly, NEW t \in Threads, ThreadStep(t)
    PROVE  RecordsInv'
<1> USE DEF window, world, store, accounts, controls
<1>0. /\ TypeOK /\ LocalsFit /\ OneBusy /\ Inv /\ path[t] \in Locals
      /\ OneClip(path[t]) /\ OneClip(path[t])'
      /\ account \in [Brokers -> Nat] /\ 0 \in Brokers /\ realSpent \in Nat /\ book \in Nat
  <2>1. TypeOK /\ LocalsFit /\ OneBusy /\ Inv
    BY DEF OrderlyInv, ApartInv, Inv
  <2>2. OneClip(path[t])
    BY DEF OrderlyInv, ClipsInv
  <2>3. OneClip(path[t])'
    BY DEF OrderlyInv, ClipsInv
  <2>4. account \in [Brokers -> Nat] /\ realSpent \in Nat /\ book \in Nat
    BY <2>1 DEF TypeOK
  <2>5. 0 \in Brokers
    BY <2>1, SettingTyped DEF Brokers
  <2>. QED  BY <2>1, <2>2, <2>3, <2>4, <2>5, LocalFields
<1>1. Alone(t)
  BY <1>0, ThreadStepAlone
<1>2. Real(t)
  BY <1>1 DEF RecordsInv, Alone
<1>3. active <=> brk # 0
  BY <1>0, OrderlyMeans DEF Inv, RealAside
<1>4. \A s \in Spends : Amount(s) \in Nat
  BY <1>0, AmountTyped
<1>5. Real(t)'
  <2>1. ASSUME ~Unbooked(t), path[t].pc # "giveBack",
               path'[t].pc \in {"idle", "submit", "sync", "observe", "book"}, path'[t].filled = 0,
               UNCHANGED <<today, account, realSpent, active, saved, book, spend, row, storedSpend>>
        PROVE  Real(t)'
    BY <2>1, <1>2, MoneyStays DEF Unbooked
  <2>2. CASE Guard(t)
    BY <2>2, <1>0, <2>1, GoFields DEF Guard, OneClip, Unbooked
  <2>3. CASE Submit(t)
    <3>1. /\ path[t].pc = "submit"
          /\ UNCHANGED <<today, active, saved, book, spend, row, storedSpend>>
      BY <2>3 DEF Submit
    <3>2. path[t].left = 1 /\ path[t].filled = 0 /\ path[t].at = 0 /\ ~path[t].ending
      BY <1>0, <3>1 DEF OneClip
    <3>3. ~Unbooked(t)
      BY <3>2 DEF Unbooked
    <3> DEFINE done == [path[t] EXCEPT !.left = @ - 1, !.filled = @ + 1, !.at = brk]
               ok   == path[t].side = "buy" \/ account[brk] > 0
    <3>4. CASE ~ok
      <4>1. path'[t] = [path[t] EXCEPT !.pc = "book"] /\ account' = account /\ realSpent' = realSpent
        BY <1>0, <2>3, <3>4 DEF Submit, TypeOK
      <4>2. path'[t].pc = "book" /\ path'[t].filled = 0
        BY <1>0, <3>2, <4>1 DEF Locals
      <4>. QED  BY <2>1, <3>1, <3>3, <4>1, <4>2
    <3>5. CASE ok
      <4>1. /\ path'[t] = [done EXCEPT !.pc = IF done.left > 0 THEN "guard" ELSE "book"]
            /\ account' = [account EXCEPT ![brk] = @ + Move(path[t])]
            /\ realSpent' = realSpent + (IF path[t].side = "buy" /\ brk = 0 THEN 1 ELSE 0)
        BY <1>0, <2>3, <3>5 DEF Submit, TypeOK, Move
      <4>2. done.left = 0 /\ done \in Locals /\ done.at = brk /\ done.filled = 1
            /\ ~done.ending /\ done.side = path[t].side
        <5>1. done = [path[t] EXCEPT !.left = 0, !.filled = 1, !.at = brk] /\ brk \in Brokers
          BY <1>0, <3>2 DEF TypeOK
        <5> HIDE DEF done
        <5>. QED  BY <1>0, <3>2, <5>1 DEF Locals
      <4> HIDE DEF done
      <4>3. /\ path'[t].pc = "book" /\ path'[t].filled = 1 /\ path'[t].at = brk
            /\ ~path'[t].ending /\ path'[t].side = path[t].side
        BY <4>1, <4>2 DEF Locals
      <4>4. CASE brk = 0
        <5>1. account'[0] = account[0] + Move(path[t]) /\ realSpent' = realSpent + Cost(path[t])
          BY <1>0, <4>1, <4>4 DEF Cost
        <5>. QED  BY <1>2, <1>3, <3>1, <3>3, <4>3, <4>4, <5>1, FillOwes
      <4>5. CASE brk # 0
        <5>1. account'[0] = account[0] /\ realSpent' = realSpent /\ active /\ ~Unbooked(t)'
          BY <1>0, <1>3, <4>1, <4>3, <4>5 DEF Unbooked
        <5>. QED  BY <1>2, <3>1, <3>3, <4>3, <5>1 DEF Real, Amount
      <4>. QED  BY <4>4, <4>5
    <3>. QED  BY <3>4, <3>5
  <2>4. CASE Book(t)
    <3>1. /\ path[t].pc = "book" /\ path[t].filled \in {0, 1}
          /\ UNCHANGED <<today, account, realSpent, active, saved, book, row, storedSpend>>
      BY <1>0, <2>4 DEF Book, OneClip
    <3>2. CASE path[t].filled = 0
      BY <2>4, <3>2, <1>0, <2>1, <3>1, GoFields DEF Book, Unbooked
    <3>3. CASE path[t].filled = 1
      <4>1. ~path[t].ending /\ (path[t].at = 0 <=> ~active)
        BY <1>0, <3>3 DEF OneClip
      <4>2. /\ path[t].side = "buy" => spend' = Spending(Amount(spend) + 1) /\ Go(t, "persistSpend")
            /\ path[t].side # "buy" => spend' = spend /\ Go(t, "track")
        <5>1. path[t].filled # 0 /\ path[t].filled = 1
          BY <3>3
        <5>2. path[t].side = "buy" =>
                 spend' = Spending(Amount(spend) + path[t].filled) /\ Go(t, "persistSpend")
          BY <2>4, <5>1 DEF Book
        <5>3. path[t].side # "buy" => spend' = spend /\ Go(t, "track")
          BY <2>4, <5>1 DEF Book
        <5>. QED  BY <5>1, <5>2, <5>3
      <4>3. /\ path'[t].pc = IF path[t].side = "buy" THEN "persistSpend" ELSE "track"
            /\ path'[t].filled = 1 /\ path'[t].at = path[t].at /\ ~path'[t].ending
            /\ path'[t].side = path[t].side
        BY <1>0, <3>3, <4>1, <4>2, GoFields
      <4>4. CASE active
        BY <4>1, <4>3, <4>4, <1>2, <3>1 DEF Unbooked, Real, Amount
      <4>5. CASE ~active
        <5>1. Unbooked(t) /\ Unbooked(t)'
          BY <3>1, <3>3, <4>1, <4>3, <4>5 DEF Unbooked
        <5>2. Owing(path[t])
          BY <1>2, <5>1 DEF Real
        <5>3. Amount(spend)' = Amount(spend) + Cost(path[t])
          <6>1. CASE path[t].side = "buy"
            BY <4>2, <6>1, SpendingAmount, <3>1 DEF Amount, Cost
          <6>2. CASE path[t].side # "buy"
            BY <1>0, <1>4, <3>1, <4>2, <6>2 DEF TypeOK, Amount, Cost
          <6>. QED  BY <6>1, <6>2
        <5>4. Amount(storedSpend)' = Amount(storedSpend)
          BY <3>1 DEF Amount
        <5>5. Amount(spend) \in Nat
          BY <1>0, <1>4 DEF TypeOK
        <5>6. Owing(path[t])'
          BY <3>1, <4>3, <5>2, <5>3, <5>4, <5>5 DEF Owing, Move, Cost
        <5>. QED  BY <3>1, <4>3, <4>5, <5>1, <5>6 DEF Real
      <4>. QED  BY <4>4, <4>5
    <3>. QED  BY <3>1, <3>2, <3>3
  <2>5. CASE PersistSpend(t)
    <3>1. /\ path[t].pc = "persistSpend"
          /\ UNCHANGED <<today, account, realSpent, active, saved, book, spend, row>>
          /\ storedSpend' = IF active THEN storedSpend ELSE Spending(Amount(spend))
      BY <2>5 DEF PersistSpend
    <3>2. Amount(spend)' = Amount(spend) /\ Amount(saved.spend)' = Amount(saved.spend)
      BY <3>1 DEF Amount
    <3>3. Amount(storedSpend)' = IF active THEN Amount(storedSpend) ELSE Amount(spend)
      BY <3>1, SpendingAmount DEF Amount
    <3>4. CASE path[t].ending
      <4>1. path'[t].pc = "persistRow" /\ path'[t].filled = path[t].filled
        BY <1>0, <2>5, <3>4, GoFields DEF PersistSpend, After
      <4>2. path[t].filled = 0 /\ ~active
        BY <1>0, <3>1, <3>4 DEF OneClip
      <4>3. ~Unbooked(t) /\ ~Unbooked(t)'
        BY <4>1, <4>2 DEF Unbooked
      <4>. QED  BY <1>2, <3>1, <3>2, <3>3, <4>1, <4>2, <4>3 DEF Real
    <3>5. CASE ~path[t].ending
      <4>1. /\ path'[t].pc = "track" /\ path'[t].filled = path[t].filled
            /\ path'[t].at = path[t].at /\ ~path'[t].ending /\ path'[t].side = path[t].side
        BY <1>0, <2>5, <3>5, GoFields DEF PersistSpend, After
      <4>2. path[t].filled = 1 /\ path[t].side = "buy" /\ (path[t].at = 0 <=> ~active)
        BY <1>0, <3>1, <3>5 DEF OneClip
      <4>3. CASE active
        <5>1. ~Unbooked(t) /\ ~Unbooked(t)'
          BY <4>1, <4>2, <4>3 DEF Unbooked
        <5>. QED  BY <1>2, <3>1, <3>2, <3>3, <4>1, <4>3, <5>1 DEF Real
      <4>4. CASE ~active
        <5>1. Unbooked(t) /\ Unbooked(t)'
          BY <3>1, <3>5, <4>1, <4>2, <4>4 DEF Unbooked
        <5>2. Owing(path[t])
          BY <1>2, <5>1 DEF Real
        <5>3. Owing(path[t])'
          BY <3>1, <3>2, <3>3, <4>1, <4>4, <5>2 DEF Owing, Move
        <5>. QED  BY <3>1, <4>1, <4>4, <5>1, <5>3 DEF Real
      <4>. QED  BY <4>3, <4>4
    <3>. QED  BY <3>4, <3>5
  <2>6. CASE Track(t)
    <3>1. /\ path[t].pc = "track" /\ Go(t, "persistRow")
          /\ UNCHANGED <<today, account, realSpent, active, saved, spend, row, storedSpend>>
          /\ book' = IF path[t].side = "buy" THEN book + path[t].filled
                     ELSE IF path[t].filled > book THEN 0 ELSE book - path[t].filled
      BY <2>6 DEF Track
    <3>2. path[t].filled = 1 /\ ~path[t].ending /\ (path[t].at = 0 <=> ~active)
      BY <1>0, <3>1 DEF OneClip
    <3>3. /\ path'[t].pc = "persistRow" /\ path'[t].filled = 1
          /\ path'[t].at = path[t].at /\ ~path'[t].ending
      BY <1>0, <3>1, <3>2, GoFields
    <3>4. /\ Amount(spend)' = Amount(spend) /\ Amount(storedSpend)' = Amount(storedSpend)
          /\ Amount(saved.spend)' = Amount(saved.spend)
      BY <3>1 DEF Amount
    <3>5. CASE active
      BY <3>2, <3>3, <3>5, <1>2, <3>1, <3>4 DEF Unbooked, Real
    <3>6. CASE ~active
      <4>1. Unbooked(t) /\ Unbooked(t)'
        BY <3>1, <3>2, <3>3, <3>6 DEF Unbooked
      <4>2. Owing(path[t])
        BY <1>2, <4>1 DEF Real
      <4>3. account[0] \in Nat
        BY <1>0
      <4>4. book' = account[0]
        BY <1>0, <3>1, <3>2, <4>2, <4>3 DEF Owing, Move
      <4>5. Owing(path[t])'
        BY <3>1, <3>3, <3>4, <4>2, <4>4 DEF Owing
      <4>. QED  BY <3>1, <3>3, <3>6, <4>1, <4>5 DEF Real
    <3>. QED  BY <3>5, <3>6
  <2>7. CASE PersistRow(t)
    <3>1. /\ path[t].pc = "persistRow" /\ Go(t, "sync")
          /\ UNCHANGED <<today, account, realSpent, active, saved, book, spend, storedSpend>>
          /\ row' = IF active THEN row ELSE book
      BY <2>7 DEF PersistRow
    <3>2. path'[t].pc = "sync" /\ ~Unbooked(t)'
      BY <1>0, <3>1, GoFields DEF Unbooked
    <3>3. /\ Amount(spend)' = Amount(spend) /\ Amount(storedSpend)' = Amount(storedSpend)
          /\ Amount(saved.spend)' = Amount(saved.spend)
      BY <3>1 DEF Amount
    <3>4. CASE Unbooked(t)
      <4>1. Owing(path[t]) /\ ~active
        BY <1>0, <1>2, <3>1, <3>4 DEF Real, Unbooked, OneClip
      <4>2. Amount(spend) \in Nat
        BY <1>0, <1>4 DEF TypeOK
      <4>. QED  BY <1>2, <3>1, <3>2, <3>3, <4>1, <4>2 DEF Real, Owing
    <3>5. CASE ~Unbooked(t)
      BY <1>2, <3>1, <3>2, <3>3, <3>5 DEF Real
    <3>. QED  BY <3>4, <3>5
  <2>8. CASE Sync(t)
    BY <2>8, <1>0, GoFields, <1>2, MoneyStays DEF Sync, Unbooked
  <2>9. CASE Observe(t) \/ (End(t) /\ ~active)
    <3>1. /\ Done(t) /\ path[t].pc \in {"observe", "end"}
          /\ UNCHANGED <<today, account, realSpent, active, saved, book, spend, row, storedSpend>>
      BY <2>9 DEF Observe, End
    <3>2. path'[t].pc \in {"idle", "book", "sync"} /\ path'[t].filled = 0
      <4>1. Rest.pc = "idle" /\ Rest.filled = 0
        BY DEF Rest
      <4>. QED  BY <1>0, <3>1, <4>1, DoneFields DEF OneClip
    <3>3. ~Unbooked(t)
      BY <3>1 DEF Unbooked
    <3>. QED  BY <2>1, <3>1, <3>2, <3>3
  <2>10. CASE End(t) /\ active
    BY <2>10, <1>0, <1>2 DEF End, TypeOK, Locals, Unbooked, Real, Amount
  <2>11. CASE GiveBack(t)
    <3>1. /\ path[t].pc = "giveBack" /\ Go(t, "persistSpend")
          /\ UNCHANGED <<today, account, realSpent, active, saved, book, row, storedSpend>>
          /\ spend' = Spending(Amount(path[t].seed.spend))
      BY <2>11 DEF GiveBack
    <3>2. path[t].ending /\ ~active
      BY <1>0, <3>1 DEF OneClip
    <3>3. path'[t].pc = "persistSpend" /\ path'[t].ending
      BY <1>0, <3>1, <3>2, GoFields
    <3>4. ~Unbooked(t) /\ ~Unbooked(t)'
      BY <3>1, <3>2, <3>3 DEF Unbooked
    <3>5. Amount(spend') = realSpent
      BY <1>2, <3>1, SpendingAmount DEF Real
    <3>. QED  BY <1>2, <3>1, <3>2, <3>3, <3>4, <3>5 DEF Real, Amount
  <2>. QED
    BY <2>2, <2>3, <2>4, <2>5, <2>6, <2>7, <2>8, <2>9, <2>10, <2>11 DEF ThreadStep
<1>. QED  BY <1>1, <1>5, RecordsFromOne

LEMMA OtherRecords ==
    ASSUME OrderlyInv, OrderlyInv', RecordsInv, Orderly,
           \/ GuardTrips \/ SubmitLimit \/ EnableReads \/ Install \/ Restart
           \/ SetTrading(TRUE) \/ SetTrading(FALSE) \/ Resume \/ DeadlinePasses \/ Midnight
           \/ UNCHANGED vars
    PROVE  RecordsInv'
<1> USE DEF window, world, store, accounts, controls
<1>0. /\ TypeOK /\ LocalsFit /\ OneBusy /\ Inv
      /\ Loop \in Threads /\ Operator \in Threads /\ Watcher \in Threads
      /\ Loop # Operator /\ Loop # Watcher /\ Operator # Watcher
  BY ThreadNames, TestModeAssumption DEF OrderlyInv, ApartInv, Inv
<1>1. \A t \in Threads : path[t] \in Locals
  BY <1>0, LocalFields
<1>2. \A t \in Threads : OneClip(path[t])
  BY DEF OrderlyInv, ClipsInv
<1>3. Rest.pc = "idle" /\ Rest.filled = 0
  BY DEF Rest
<1>4. CASE GuardTrips
  <2>1. /\ path[Loop].pc = "guard"
        /\ UNCHANGED <<today, account, realSpent, active, saved, book, spend, row, storedSpend>>
    BY <1>4 DEF GuardTrips
  <2>2. path'[Loop] = [path[Loop] EXCEPT !.pc = IF active THEN "end" ELSE "book",
                                        !.ending = active, !.next = "book"]
    BY <1>0, <1>4 DEF GuardTrips, TypeOK
  <2>3. /\ path'[Loop].pc \in {"end", "book"} /\ path'[Loop].filled = path[Loop].filled
    BY <1>0, <1>1, <2>2 DEF Locals
  <2>4. path[Loop].filled = 0
    BY <1>0, <1>2, <2>1 DEF OneClip
  <2>5. ~Unbooked(Loop) /\ ~Unbooked(Loop)'
    BY <2>3, <2>4 DEF Unbooked
  <2>6. Alone(Loop)
    BY <1>0, <1>4, TripsAlone
  <2>7. Real(Loop)
    BY <1>0, <2>6 DEF RecordsInv, Alone
  <2>8. Real(Loop)'
    BY <1>0, <2>1, <2>3, <2>5, <2>7, MoneyStays
  <2>. QED  BY <1>0, <2>6, <2>8, RecordsFromOne
<1>5. CASE SubmitLimit
  <2>1. /\ path[Loop].pc = "submit"
        /\ UNCHANGED <<today, account, realSpent, active, saved, book, spend, row, storedSpend>>
    BY <1>5 DEF SubmitLimit
  <2>2. \A s \in Threads \ {Loop} : Idle(s)
    BY <1>0, <1>5, HandOver
  <2>3. Real(Loop)
    BY <1>0, <2>2 DEF RecordsInv
  <2>4. path[Loop].filled = 0
    BY <1>0, <1>2, <2>1 DEF OneClip
  <2>5. ~Unbooked(Loop)
    BY <2>4 DEF Unbooked
  <2>6. path'[Loop].pc = "sync"
    BY <1>0, <1>5, HandOver DEF Rest
  <2>7. ~Unbooked(Loop)'
    BY <2>6 DEF Unbooked
  <2>8. Real(Loop)'
    BY <1>0, <2>1, <2>3, <2>5, <2>6, <2>7, MoneyStays
  <2>9. ~Idle(Loop)'
    BY <2>6 DEF Idle
  <2>. QED  BY <1>0, <2>8, <2>9 DEF RecordsInv
<1>6. CASE EnableReads
  <2>1. /\ path[Operator].pc = "spendRead"
        /\ UNCHANGED <<today, account, realSpent, active, saved, book, spend, row, storedSpend>>
    BY <1>6 DEF EnableReads
  <2>2. Alone(Operator)
    BY <1>0, <1>6, OperatorAlone
  <2>3. Real(Operator)
    BY <1>0, <2>2 DEF RecordsInv, Alone
  <2>4. ~active
    BY <1>0, <2>1, OrderlyMeans DEF Inv, RealAside, Enabling
  <2> DEFINE seed == [NoWindow EXCEPT !.spend = Spending(Amount(spend))]
  <2>5. path'[Operator] = [path[Operator] EXCEPT !.pc = "install", !.seed = seed]
    BY <1>0, <1>6 DEF EnableReads, TypeOK
  <2>6. seed.spend = Spending(Amount(spend))
    BY DEF NoWindow
  <2> HIDE DEF seed
  <2>7. path'[Operator].pc = "install" /\ path'[Operator].seed = seed
    BY <1>0, <1>1, <2>5 DEF Locals
  <2>8. ~Unbooked(Operator) /\ ~Unbooked(Operator)'
    BY <2>1, <2>7 DEF Unbooked
  <2>9. Amount(spend) = realSpent
    BY <2>1, <2>3, <2>4, <2>8 DEF Real
  <2>10. Amount(seed.spend) = realSpent
    BY <2>6, <2>9, SpendingAmount
  <2>11. Real(Operator)'
    BY <2>1, <2>3, <2>4, <2>7, <2>8, <2>9, <2>10 DEF Real, Amount
  <2>. QED  BY <1>0, <2>2, <2>11, RecordsFromOne
<1>7. CASE Install
  <2>1. /\ path[Operator].pc = "install"
        /\ UNCHANGED <<today, realSpent, book, spend, row, storedSpend>>
    BY <1>7 DEF Install
  <2>2. Alone(Operator)
    BY <1>0, <1>7, OperatorAlone
  <2>3. Real(Operator)
    BY <1>0, <2>2 DEF RecordsInv, Alone
  <2>4. ~active
    BY <1>0, <2>1, OrderlyMeans DEF Inv, RealAside, Enabling
  <2>5. path'[Operator] = Rest \/ path'[Operator] = [Rest EXCEPT !.pc = "sync"]
    BY <1>0, <1>7 DEF Install, TypeOK
  <2>6. path'[Operator].pc \in {"idle", "sync"}
    BY <1>3, <2>5 DEF Rest
  <2>7. ~Unbooked(Operator) /\ ~Unbooked(Operator)'
    BY <2>1, <2>6 DEF Unbooked
  <2>8. /\ row = account[0] /\ Amount(storedSpend) = realSpent /\ book = account[0]
        /\ Amount(spend) = realSpent /\ Amount(path[Operator].seed.spend) = realSpent
    BY <2>1, <2>3, <2>4, <2>7 DEF Real
  <2>9. account'[0] = account[0]
        /\ \/ active' = active
           \/ saved'.book = book /\ saved'.spend = path[Operator].seed.spend
    <3>1. CASE path[Watcher].pc # "idle"
      BY <1>7, <3>1 DEF Install
    <3>2. CASE path[Watcher].pc = "idle"
      <4>1. sims \in Nat /\ sims' = sims + 1 /\ account \in [Brokers -> Nat]
            /\ account' = [account EXCEPT ![sims'] = path[Operator].left]
        BY <1>0, <1>7, <3>2, SettingTyped DEF Install, TypeOK
      <4>2. account'[0] = account[0]
        BY <1>0, <4>1, SettingTyped DEF Brokers
      <4>3. path[Operator].seed \in Windows
        BY <1>0, <1>1 DEF Locals
      <4>4. saved' = [path[Operator].seed EXCEPT !.brk = path[Operator].at, !.book = book]
        BY <1>7, <3>2 DEF Install
      <4>. QED  BY <4>2, <4>3, <4>4 DEF Windows
    <3>. QED  BY <3>1, <3>2
  <2>10. Real(Operator)'
    BY <2>1, <2>8, <2>4, <2>9, <2>6, <2>7 DEF Amount, Real
  <2>. QED  BY <1>0, <2>2, <2>10, RecordsFromOne
<1>8. CASE Restart
  <2>1. \A t \in Threads : path'[t] = Rest
    BY <1>8 DEF Restart
  <2>2. /\ ~active' /\ book' = row /\ spend' = Spending(Amount(storedSpend))
        /\ UNCHANGED <<today, realSpent, row, storedSpend>>
        /\ Booked
    BY <1>8 DEF Restart
  <2>3. account'[0] = account[0]
    BY <1>0, <1>8, SettingTyped DEF Restart
  <2>4. row = account[0] /\ Amount(storedSpend) = realSpent
    <3>1. PICK t \in Threads : \A s \in Threads \ {t} : Idle(s)
      BY <1>0 DEF OneBusy
    <3>. QED  BY <2>2, <3>1 DEF RecordsInv, Real, Booked
  <2>5. Amount(spend') = Amount(storedSpend)
    BY <2>2, SpendingAmount
  <2>6. Amount(spend)' = realSpent' /\ Amount(storedSpend)' = realSpent'
    BY <2>2, <2>4, <2>5 DEF Amount
  <2>7. \A t \in Threads : path'[t].pc = "idle" /\ ~Unbooked(t)'
    BY <1>3, <2>1 DEF Unbooked
  <2>. QED  BY <2>2, <2>3, <2>4, <2>6, <2>7 DEF RecordsInv, Real
<1>9. CASE Midnight
  <2>1. /\ path' = path /\ today' = today + 1 /\ realSpent' = 0 /\ Booked
        /\ UNCHANGED <<account, active, saved, book, spend, row, storedSpend>>
    BY <1>9 DEF Midnight
  <2>2. /\ today \in Nat /\ spend \in Spends /\ storedSpend \in Spends /\ saved \in Windows
        /\ \A t \in Threads : path[t].seed \in Windows
    BY <1>0, <1>1 DEF TypeOK, Locals
  <2>3. \A s \in Spends : s.day <= today => s.day # today'
    BY <2>1, <2>2 DEF Spends
  <2>4. /\ Amount(spend)' = 0 /\ Amount(storedSpend)' = 0 /\ Amount(saved.spend)' = 0
    BY <2>1, <2>2, <2>3 DEF OrderlyInv, ClipsInv, Days, Amount, Windows
  <2>5. \A t \in Threads : Amount(path[t].seed.spend)' = 0
    BY <1>2, <2>1, <2>2, <2>3 DEF OneClip, Amount, Windows
  <2>6. \A t \in Threads : ~Unbooked(t) /\ ~Unbooked(t)' /\ (Idle(t)' <=> Idle(t))
    BY <2>1 DEF Booked, Unbooked, Idle
  <2>7. ASSUME NEW t \in Threads, Real(t)
        PROVE  Real(t)'
    BY <2>1, <2>4, <2>5, <2>6, <2>7 DEF Real
  <2>. QED  BY <2>6, <2>7 DEF RecordsInv
<1>10. CASE \/ SetTrading(TRUE) \/ SetTrading(FALSE) \/ Resume \/ DeadlinePasses
            \/ UNCHANGED vars
  <2>1. /\ path' = path
        /\ UNCHANGED <<today, account, realSpent, active, saved, book, spend, row, storedSpend>>
    BY <1>10 DEF SetTrading, Resume, DeadlinePasses, vars
  <2>. QED  BY <2>1 DEF RecordsInv, Real, Idle, Unbooked, Owing, Amount
<1>. QED  BY <1>4, <1>5, <1>6, <1>7, <1>8, <1>9, <1>10

LEMMA StepRecordsInv ==
    ASSUME OrderlyInv, OrderlyInv', RecordsInv, Orderly, [Next]_vars
    PROVE  RecordsInv'
BY StepIsOfAKind, BeginsRecords, ThreadStepRecords, OtherRecords DEF StepKinds

-----------------------------------------------------------------------------
(* Together, each part in the environments it holds in.                    *)
WindowInv ==
    /\ Inv
    /\ Apart => ApartInv
    /\ Orderly => ClipsInv /\ RecordsInv

LEMMA InitWindowInv == Init => WindowInv
BY InitInv, InitApartInv, InitClipsInv, InitRecordsInv DEF WindowInv

LEMMA StepWindowInv == WindowInv /\ [Next]_vars => WindowInv'
<1> SUFFICES ASSUME WindowInv, [Next]_vars PROVE WindowInv'
  OBVIOUS
<1>1. Inv' /\ Inv /\ TypeOK /\ LocalsFit
  BY StepInv DEF WindowInv, Inv
<1>2. (Apart' <=> Apart) /\ (Orderly' <=> Orderly)
  BY EventsStay DEF Apart, Orderly
<1>3. ASSUME Apart
      PROVE  ApartInv'
  BY <1>3, StepIsOfAKind, <1>1, StepOneBusy, StepNoHaltIn DEF WindowInv, ApartInv
<1>4. ASSUME Orderly
      PROVE  ClipsInv' /\ RecordsInv'
  BY <1>4, OrderlyMeans, StepOrderlyInv, StepRecordsInv DEF WindowInv, OrderlyInv
<1>. QED  BY <1>1, <1>2, <1>3, <1>4 DEF WindowInv

(* "Nothing simulated outlives the window": once no window is open and no  *)
(* thread is in the middle of something, e.openPos is what the real        *)
(* account holds and the day's spend what was really spent; and at every   *)
(* step the store has both, but for a real fill that is being booked.  In  *)
(* orderly running, for any number of orders, windows, days and restarts.  *)
THEOREM WindowLeavesNoTrace == Spec => []WindowIsUndone
<1>1. WindowInv => WindowIsUndone
  <2> SUFFICES ASSUME WindowInv, Orderly
               PROVE  BookIsReal /\ (Booked => row = account[0] /\ Amount(storedSpend) = realSpent)
    BY DEF WindowIsUndone, NothingSimulatedOutlives, StoreHoldsReal
  <2>1. RecordsInv /\ OneBusy
    BY OrderlyMeans DEF WindowInv, ApartInv
  <2>2. ASSUME ~active, AllIdle
        PROVE  book = account[0] /\ Amount(spend) = realSpent
    BY <2>1, <2>2, ThreadNames, IdleOwesNothing DEF RecordsInv, AllIdle, Real
  <2>3. ASSUME Booked
        PROVE  row = account[0] /\ Amount(storedSpend) = realSpent
    <3>1. PICK t \in Threads : \A s \in Threads \ {t} : Idle(s)
      BY <2>1, ThreadNames DEF OneBusy
    <3>. QED  BY <2>1, <2>3, <3>1 DEF RecordsInv, Real, Booked
  <2>. QED  BY <2>2, <2>3 DEF BookIsReal
<1>. QED  BY <1>1, InitWindowInv, StepWindowInv, PTL DEF Spec

(* Simulations and halts keep apart: where handlers do not meet no window  *)
(* is ever open over a halt, and in orderly running whatever raises a halt *)
(* was measured at, or filled by, the real broker.                         *)
THEOREM HaltsStayReal == Spec => HaltsAreReal
<1>1. WindowInv /\ WindowInv' /\ [Next]_vars => [HaltIsReal /\ NoWindowOverHalt']_vars
  <2> SUFFICES ASSUME WindowInv, WindowInv', [Next]_vars
               PROVE  HaltIsReal /\ NoWindowOverHalt'
    OBVIOUS
  <2>1. NoWindowOverHalt'
    BY DEF WindowInv, Apart, ApartInv, NoHaltIn, NoWindowOverHalt
  <2>2. HaltIsReal
    <3> SUFFICES ASSUME Orderly, halted', ~halted, NEW u \in Threads
                 PROVE  /\ path[u].pc = "observe" => view.of = 0
                        /\ path[u].pc = "book" => path[u].at = 0
      BY DEF HaltIsReal
    <3>1. /\ Inv /\ OneBusy /\ StepKinds /\ "again" \notin events
          /\ \A t \in Threads : OneClip(path[t])
      BY OrderlyMeans, StepIsOfAKind DEF WindowInv, ApartInv, ClipsInv
    <3>2. PICK t \in Threads : Book(t) \/ Observe(t)
      <4>1. ASSUME NEW t \in Threads, Begins(t)
            PROVE  FALSE
        BY <4>1 DEF Begins, Ordering, Opening, Order, Enable, Stop, Tick, Wake, controls
      <4>2. ~(\/ GuardTrips \/ SubmitLimit \/ EnableReads \/ Install \/ Restart
              \/ SetTrading(TRUE) \/ SetTrading(FALSE) \/ Resume \/ DeadlinePasses \/ Midnight
              \/ UNCHANGED vars)
        BY DEF GuardTrips, SubmitLimit, EnableReads, Install, Restart, SetTrading, Resume,
           DeadlinePasses, Midnight, vars, controls
      <4>3. ASSUME NEW t \in Threads, ThreadStep(t)
            PROVE  Book(t) \/ Observe(t)
        BY <4>3 DEF ThreadStep, Guard, Submit, PersistSpend, Track, PersistRow, Sync, End,
           GiveBack, controls
      <4>. QED  BY <3>1, <4>1, <4>2, <4>3 DEF StepKinds
    <3>3. ~Idle(t) /\ (u # t => Idle(u))
      BY <3>1, <3>2 DEF Book, Observe, Idle, OneBusy
    <3>4. ~active /\ (path[t].pc = "book" => path[t].filled # 0)
      BY <3>2 DEF Book, Observe, controls
    <3>5. brk = 0
      BY <3>1, <3>4 DEF Inv, RealAside
    <3>6. /\ path[t].pc = "observe" => view.of = brk
          /\ path[t].pc = "book" => path[t].filled = 1 /\ path[t].at = 0
      BY <3>1, <3>4 DEF OneClip
    <3>. QED  BY <3>3, <3>5, <3>6 DEF Idle
  <2>. QED  BY <2>1, <2>2
<1>. QED  BY <1>1, InitWindowInv, StepWindowInv, PTL DEF Spec, HaltsAreReal
=============================================================================
