------------------------------- MODULE Watchlist -------------------------------
(***************************************************************************)
(* The symbols the engine of internal/engine trades: the watchlist and the *)
(* operator's picks (engine.go, trackSymbols and removeSymbol), the        *)
(* screening pass that redraws the watchlist (screen.go), the drop after a *)
(* losing run (losstune.go, dropsymbol.go) and the start that puts it all  *)
(* back (cmd/bot/main.go) -- and what hangs on a symbol being tracked: its *)
(* tick feed, its bars and the trailing-stop peak of a position in it.     *)
(*                                                                         *)
(* Three threads share this state: the evaluation loop, the operator's     *)
(* HTTP handlers and the screening pass, which runs off the loop for       *)
(* minutes.  A step is what happens under one lock or in one call of the   *)
(* provider, the store or the broker; path says what each thread does next *)
(* and what it holds in its locals.                                        *)
(*                                                                         *)
(* A position is bought whole (two shares) and sold whole or in two        *)
(* tranches; orders, markers and bookings are simplified to what tracking  *)
(* a symbol depends on (OrderLifecycle has them).  Prices are levels, with *)
(* 1 the entry of every position that has no record.  Warm-up, names and   *)
(* tickers change nothing here, and what a screen finds is left open:      *)
(* which candidates pass, which could not be measured, and which of the    *)
(* passing ones the ranking, the probe and the sector budget leave.        *)
(***************************************************************************)
EXTENDS Integers, FiniteSets

CONSTANTS
    Symbols,
    Loop, Operator, Pass,      \* the threads
    Environments               \* configuration, what may happen, and bounds

(* overlap: threads edit the watchlist at the same time; midpass: while a  *)
(* pass screens, symbols are bought, turn out to have been bought by the   *)
(* process before, are picked, given up, or have an unconfirmed buy cleared; *)
(* midclose: while a sale is booked, its symbol is bought again;           *)
(* heldRemoved: the operator removes a symbol he holds;                    *)
(* earlyClear: he clears an unconfirmed buy before the portfolio shows it; *)
(* omits: the broker's positions lack one; crash: the process dies between *)
(* any two steps; fileFails: config.yaml cannot be edited.                 *)
EventKinds == {"overlap", "midpass", "midclose", "heldRemoved", "earlyClear", "omits", "crash",
               "fileFails"}

ASSUME WatchlistAssumption ==
    /\ Environments \subseteq
         [events : SUBSET EventKinds,
          named : SUBSET Symbols,        \* watchlist: of config.yaml, at first
          universe : SUBSET Symbols,     \* screener.universe, {}: the watchlist
          keepManual : BOOLEAN,          \* screener.keep_manual
          keepHeld : BOOLEAN,            \* screener.keep_held
          maxSymbols : Nat,              \* screener.max_symbols, 0: no cap
          dropAfter : Nat,               \* protections.drop_after_losses
          topPrice : [Symbols -> Nat \ {0}], maxRequests : Nat, maxBuys : Nat, maxStarts : Nat]
    /\ Loop # Operator /\ Loop # Pass /\ Operator # Pass

VARIABLES
    setting,                     \* the environment this behaviour runs in
    watchlist, pinned,           \* e.watchlist and e.pinned
    bars, subscribed,            \* the bar builders, and the provider's symbols
    storedList, storedPins,      \* in the store
    named,                       \* watchlist: of config.yaml
    price,
    shares,                      \* held at the broker
    cached,                      \* held in the engine's portfolio
    buying,                      \* what the engine knows of a buy in flight
    landed,                      \* whether that buy has filled at the broker
    recorded,                    \* the peak in the position's record, 0: none
    peaks,                       \* e.peaks, 0: none
    streak,                      \* e.lossStreaks
    picked, gone,                \* history: the operator's picks; given up
    requests, buys, starts,      \* how many so far
    path

vars == <<setting, watchlist, pinned, bars, subscribed, storedList, storedPins, named,
          price, shares, cached, buying, landed, recorded, peaks, streak, picked, gone,
          requests, buys, starts, path>>

lists    == <<watchlist, pinned>>
feed     == <<bars, subscribed>>
store    == <<storedList, storedPins>>
position == <<shares, cached, buying, landed, recorded>>
history  == <<picked, gone>>
counts   == <<requests, buys, starts>>

events == setting.events

Threads == {Loop, Operator, Pass}

(* syms and snap are what trackSymbols and removeSymbol work on and the    *)
(* list they are about to save, dropping which of the two it is and next   *)
(* where their caller goes on; trade and whole are of the order in hand;   *)
(* the others are of a pass.                                               *)
Rest == [pc |-> "idle", syms |-> {}, snap |-> {}, dropping |-> FALSE, next |-> "idle",
         trade |-> {}, whole |-> TRUE, current |-> {}, held |-> {}, pins |-> {},
         adds |-> {}, drops |-> {}]

Idle(t) == path[t].pc = "idle"
Go(t, pc) == path' = [path EXCEPT ![t].pc = pc]
Return(t) ==
    LET p == path[t]
    IN  path' = [path EXCEPT ![t] = [p EXCEPT !.pc = p.next, !.syms = {}, !.snap = {},
                                              !.dropping = FALSE, !.next = "idle"]]

Editing(t) ==
    path[t].pc \in {"apply", "readPins", "savePins", "addBars", "subscribe", "removeBars",
                    "unsubscribe", "readList", "saveList", "clearStreak", "editFile"}
(* Nothing serialises the edits; without "overlap" they happen not to meet. *)
MayEdit(t) == "overlap" \in events \/ \A u \in Threads \ {t} : ~Editing(u)

Higher(m, n) == IF m < n THEN n ELSE m

(* heldSymbols reads the portfolio, and then everything that is about to   *)
(* become a holding.                                                       *)
InPortfolio == {s \in Symbols : cached[s] > 0}
OnRecord == {s \in Symbols : recorded[s] > 0 \/ buying[s] \in {"resting", "unconfirmed"}}

-----------------------------------------------------------------------------
Init ==
    /\ setting \in Environments
    /\ named = setting.named
    /\ pinned = named /\ storedPins = named /\ picked = named
    /\ watchlist = named /\ storedList = named /\ bars = named /\ subscribed = named
    /\ price = [s \in Symbols |-> 1]
    /\ shares = [s \in Symbols |-> 0] /\ cached = shares
    /\ buying = [s \in Symbols |-> "none"] /\ landed = [s \in Symbols |-> FALSE]
    /\ recorded = [s \in Symbols |-> 0] /\ peaks = [s \in Symbols |-> 0]
    /\ streak = [s \in Symbols |-> 0]
    /\ gone = {} /\ requests = 0 /\ buys = 0 /\ starts = 0
    /\ path = [t \in Threads |-> Rest]

-----------------------------------------------------------------------------
(* Tracking and dropping symbols                                           *)

(* trackSymbols, under the lock: AddSymbols pins, AddScreened does not.    *)
TrackSymbols(t, syms, pin, next) ==
    LET fresh == syms \ watchlist
        more  == IF fresh = {} THEN next ELSE "addBars"
    IN  /\ watchlist' = watchlist \cup syms
        /\ pinned' = IF pin THEN pinned \cup syms ELSE pinned
        /\ path' = [path EXCEPT ![t] =
               [@ EXCEPT !.pc = IF pin THEN "readPins" ELSE more,
                         !.syms = fresh, !.dropping = FALSE, !.next = next,
                         !.adds = {}]]

(* removeSymbol, under the lock: RemoveSymbol takes the pin, dropFromScreen *)
(* leaves it.                                                              *)
RemoveSymbolAndPin(t, s, unpin, next) ==   \* mutant: every drop takes the pin
    /\ watchlist' = watchlist \ {s}
    /\ pinned' = pinned \ {s}
    /\ peaks' = [peaks EXCEPT ![s] = 0]
    /\ path' = [path EXCEPT ![t] =
           [@ EXCEPT !.pc = "readPins", !.syms = {s}, !.dropping = TRUE, !.next = next,
                     !.drops = path[t].drops \ {s}]]
RemoveSymbol(t, s, unpin, next) ==
    /\ watchlist' = watchlist \ {s}
    /\ pinned' = IF unpin THEN pinned \ {s} ELSE pinned
    /\ peaks' = [peaks EXCEPT ![s] = 0]
    /\ path' = [path EXCEPT ![t] =
           [@ EXCEPT !.pc = "readPins", !.syms = {s}, !.dropping = TRUE, !.next = next,
                     !.drops = path[t].drops \ {s}]]

(* persistPinned: a copy, and then the write.                              *)
ReadPins(t) ==
    /\ path[t].pc = "readPins"
    /\ path' = [path EXCEPT ![t].pc = "savePins", ![t].snap = pinned]
    /\ UNCHANGED <<setting, lists, feed, store, named, price, position, peaks, streak,
                   history, counts>>

SavePins(t) ==
    /\ path[t].pc = "savePins"
    /\ storedPins' = path[t].snap
    /\ IF path[t].dropping THEN Go(t, "removeBars")
       ELSE IF path[t].syms = {} THEN Return(t) ELSE Go(t, "addBars")
    /\ UNCHANGED <<setting, lists, feed, storedList, named, price, position, peaks, streak,
                   history, counts>>

AddBars(t) ==
    /\ path[t].pc = "addBars"
    /\ bars' = bars \cup path[t].syms
    /\ Go(t, "subscribe")
    /\ UNCHANGED <<setting, lists, subscribed, store, named, price, position, peaks, streak,
                   history, counts>>

Subscribe(t) ==
    /\ path[t].pc = "subscribe"
    /\ subscribed' = subscribed \cup path[t].syms
    /\ Go(t, "readList")
    /\ UNCHANGED <<setting, lists, bars, store, named, price, position, peaks, streak,
                   history, counts>>

RemoveBars(t) ==
    /\ path[t].pc = "removeBars"
    /\ bars' = bars \ path[t].syms
    /\ Go(t, "unsubscribe")
    /\ UNCHANGED <<setting, lists, subscribed, store, named, price, position, peaks, streak,
                   history, counts>>

Unsubscribe(t) ==
    /\ path[t].pc = "unsubscribe"
    /\ subscribed' = subscribed \ path[t].syms
    /\ Go(t, "readList")
    /\ UNCHANGED <<setting, lists, bars, store, named, price, position, peaks, streak,
                   history, counts>>

(* SaveWatchlist(e.Watchlist()): a copy, and then the write.               *)
ReadList(t) ==
    /\ path[t].pc = "readList"
    /\ path' = [path EXCEPT ![t].pc = "saveList", ![t].snap = watchlist]
    /\ UNCHANGED <<setting, lists, feed, store, named, price, position, peaks, streak,
                   history, counts>>

SaveList(t) ==
    /\ path[t].pc = "saveList"
    /\ storedList' = path[t].snap
    /\ Return(t)
    /\ UNCHANGED <<setting, lists, feed, storedPins, named, price, position, peaks, streak,
                   history, counts>>

(* POST /api/watchlist.  What a pass read as untracked it cannot drop.     *)
Add(s) ==
    /\ Idle(Operator) /\ MayEdit(Operator)
    /\ requests < setting.maxRequests /\ requests' = requests + 1
    /\ "midpass" \in events \/ Idle(Pass) \/ s \notin path[Pass].current
    /\ TrackSymbols(Operator, {s}, TRUE, "idle")
    /\ picked' = picked \cup {s} /\ gone' = gone \ {s}
    /\ UNCHANGED <<setting, feed, store, named, price, position, peaks, streak, buys, starts>>

(* DELETE /api/watchlist/:symbol, which does not ask whether s is held.    *)
Remove(s) ==
    /\ Idle(Operator) /\ MayEdit(Operator)
    /\ requests < setting.maxRequests /\ requests' = requests + 1
    /\ "heldRemoved" \in events \/ (cached[s] = 0 /\ recorded[s] = 0 /\ buying[s] = "none")
    /\ RemoveSymbol(Operator, s, TRUE, "idle")
    /\ picked' = picked \ {s}
    /\ UNCHANGED <<setting, feed, store, named, price, position, streak, gone, buys, starts>>

-----------------------------------------------------------------------------
(* The screening pass: rescreen, on its ticker or for RescreenNow.  One    *)
(* runs at a time.                                                         *)

PassStarts ==
    /\ Idle(Pass)
    /\ "midpass" \in events \/ \A s \in Symbols : buying[s] # "sent"
    /\ path' = [path EXCEPT ![Pass].pc = "readPortfolio", ![Pass].current = watchlist]
    /\ UNCHANGED <<setting, lists, feed, store, named, price, position, peaks, streak,
                   history, counts>>

(* heldSymbols: the snapshot, then under e.mu the records and the buys.    *)
ReadPortfolio ==
    /\ path[Pass].pc = "readPortfolio"
    /\ path' = [path EXCEPT ![Pass].pc = "readRecords", ![Pass].held = InPortfolio]
    /\ UNCHANGED <<setting, lists, feed, store, named, price, position, peaks, streak,
                   history, counts>>

ReadRecordsOnlyHeld ==   \* mutant: the records and the buys are not read
    /\ path[Pass].pc = "readRecords"
    /\ path' = [path EXCEPT ![Pass].pc = "screen", ![Pass].held = @,
                            ![Pass].pins = pinned]
    /\ UNCHANGED <<setting, lists, feed, store, named, price, position, peaks, streak,
                   history, counts>>
ReadRecords ==
    /\ path[Pass].pc = "readRecords"
    /\ path' = [path EXCEPT ![Pass].pc = "screen", ![Pass].held = @ \cup OnRecord,
                            ![Pass].pins = pinned]
    /\ UNCHANGED <<setting, lists, feed, store, named, price, position, peaks, streak,
                   history, counts>>

(* Screener.pool: without a universe of its own the watchlist is filtered. *)
Pool(current) == IF setting.universe = {} THEN current ELSE setting.universe

(* Screener.protected: tracked whatever the verdict, and outside the cap.  *)
Protected(held, pins) ==
    (IF setting.keepHeld THEN held ELSE {}) \cup (IF setting.keepManual THEN pins ELSE {})

(* Screen, and diffUniverse: what is held or could not be measured is not  *)
(* dropped, and what is held comes back.  Without verdicts nothing changes. *)
ScreenForgetful ==   \* mutant: what is held is added only if selected
    /\ path[Pass].pc = "screen"
    /\ LET p == path[Pass]
           pool == Pool(p.current)
           protected == Protected(p.held, p.pins)
       IN  \E passing \in SUBSET pool :
           \E unmeasured \in SUBSET (pool \ passing) :
           \E ranked \in SUBSET (passing \ protected) :
              LET wanted == ranked \cup protected
                  adds   == IF pool = {} THEN {} ELSE wanted \ p.current
                  drops  == IF pool = {} THEN {} ELSE p.current \ (wanted \cup p.held \cup unmeasured)
              IN  /\ setting.maxSymbols > 0 => Cardinality(ranked) <= setting.maxSymbols
                  /\ path' = [path EXCEPT ![Pass] =
                         IF adds \cup drops = {} THEN Rest
                         ELSE [p EXCEPT !.pc = "change", !.adds = adds, !.drops = drops]]
    /\ UNCHANGED <<setting, lists, feed, store, named, price, position, peaks, streak,
                   history, counts>>
Screen ==
    /\ path[Pass].pc = "screen"
    /\ LET p == path[Pass]
           pool == Pool(p.current)
           protected == Protected(p.held, p.pins)
       IN  \E passing \in SUBSET pool :
           \E unmeasured \in SUBSET (pool \ passing) :
           \E ranked \in SUBSET (passing \ protected) :
              LET wanted == ranked \cup protected \cup p.held
                  adds   == IF pool = {} THEN {} ELSE wanted \ p.current
                  drops  == IF pool = {} THEN {} ELSE p.current \ (wanted \cup unmeasured)
              IN  /\ setting.maxSymbols > 0 => Cardinality(ranked) <= setting.maxSymbols
                  /\ path' = [path EXCEPT ![Pass] =
                         IF adds \cup drops = {} THEN Rest
                         ELSE [p EXCEPT !.pc = "change", !.adds = adds, !.drops = drops]]
    /\ UNCHANGED <<setting, lists, feed, store, named, price, position, peaks, streak,
                   history, counts>>

(* dropFromScreen, one symbol after the other ...                          *)
PassDrops(s) ==
    /\ path[Pass].pc \in {"change", "apply"} /\ s \in path[Pass].drops
    /\ path[Pass].pc = "change" => MayEdit(Pass)
    /\ RemoveSymbol(Pass, s, FALSE, "apply")
    /\ UNCHANGED <<setting, feed, store, named, price, position, streak, history, counts>>

(* ... and then AddScreened with what is new.                              *)
PassAdds ==
    /\ path[Pass].pc \in {"change", "apply"} /\ path[Pass].drops = {} /\ path[Pass].adds # {}
    /\ path[Pass].pc = "change" => MayEdit(Pass)
    /\ TrackSymbols(Pass, path[Pass].adds, FALSE, "apply")
    /\ gone' = gone \ (path[Pass].adds \ path[Pass].pins)
    /\ UNCHANGED <<setting, feed, store, named, price, position, peaks, streak, picked, counts>>

PassEnds ==
    /\ path[Pass].pc = "apply" /\ path[Pass].drops = {} /\ path[Pass].adds = {}
    /\ path' = [path EXCEPT ![Pass] = Rest]
    /\ UNCHANGED <<setting, lists, feed, store, named, price, position, peaks, streak,
                   history, counts>>

-----------------------------------------------------------------------------
(* Positions                                                               *)

(* What a sale that is not yet booked is of.                               *)
Booking == UNION {path[t].trade : t \in {u \in Threads : path[u].pc \notin {"sent", "sync"}}}

(* act, for a symbol of the watchlist; ManualOrder, for any.               *)
Buy(t, s) ==
    /\ t \in {Loop, Operator} /\ Idle(t)
    /\ buys < setting.maxBuys /\ buys' = buys + 1
    /\ shares[s] = 0 /\ cached[s] = 0 /\ recorded[s] = 0 /\ buying[s] = "none"
    /\ t = Loop => s \in watchlist
    /\ "midpass" \in events \/ Idle(Pass)
    /\ "midclose" \in events \/ s \notin Booking
    /\ buying' = [buying EXCEPT ![s] = "sent"]
    /\ path' = [path EXCEPT ![t].pc = "sent", ![t].trade = {s}]
    /\ UNCHANGED <<setting, lists, feed, store, named, price, shares, cached, landed, recorded,
                   peaks, streak, history, requests, starts>>

(* The broker fills it, whatever the engine knows of it by then.           *)
Fills(s) ==
    /\ buying[s] # "none" /\ ~landed[s]
    /\ buying[s] = "lost" => "midpass" \in events
    /\ shares' = [shares EXCEPT ![s] = 2]
    /\ landed' = [landed EXCEPT ![s] = buying[s] # "lost"]
    /\ buying' = [buying EXCEPT ![s] = IF @ = "lost" THEN "none" ELSE @]
    /\ UNCHANGED <<setting, lists, feed, store, named, price, cached, recorded, peaks, streak,
                   history, counts, path>>

(* The answer: a fill goes on record (recordOpen) ...                      *)
Confirmed(t) ==
    /\ path[t].pc = "sent" /\ Go(t, "sync")
    /\ \E s \in path[t].trade :
          /\ landed[s]
          /\ recorded' = [recorded EXCEPT ![s] = price[s]]
          /\ peaks' = [peaks EXCEPT ![s] = Higher(@, price[s])]
          /\ buying' = [buying EXCEPT ![s] = "none"]
          /\ landed' = [landed EXCEPT ![s] = FALSE]
    /\ UNCHANGED <<setting, lists, feed, store, named, price, shares, cached, streak, history,
                   counts>>

(* ... an order that did not fill is refused or rests under a watcher, and *)
(* one whose outcome is not known is flagged.                              *)
Unconfirmed(t, outcome) ==
    /\ path[t].pc = "sent" /\ Go(t, "sync")
    /\ \E s \in path[t].trade :
          /\ outcome \in {"none", "resting"} => ~landed[s]
          /\ buying' = [buying EXCEPT ![s] = outcome]
    /\ UNCHANGED <<setting, lists, feed, store, named, price, shares, cached, landed, recorded,
                   peaks, streak, history, counts>>

(* watchLimitOrder at the timeout: cancelled, or gone for a reason unknown. *)
WatcherWakes(s) ==
    /\ buying[s] = "resting"
    /\ buying' = [buying EXCEPT ![s] = IF landed[s] THEN "unconfirmed" ELSE "none"]
    /\ UNCHANGED <<setting, lists, feed, store, named, price, shares, cached, landed, recorded,
                   peaks, streak, history, counts, path>>

(* ClearUnconfirmed, once the order is dead or its shares are in the       *)
(* portfolio -- or before.                                                 *)
Clear(s) ==
    /\ Idle(Operator) /\ buying[s] = "unconfirmed"
    /\ "earlyClear" \in events \/ cached[s] > 0 \/ ~landed[s]
    /\ "midpass" \in events \/ Idle(Pass)
    /\ buying' = [buying EXCEPT ![s] = "none"]
    /\ landed' = [landed EXCEPT ![s] = FALSE]
    /\ UNCHANGED <<setting, lists, feed, store, named, price, shares, cached, recorded, peaks,
                   streak, history, counts, path>>

(* A sell of the cached holding or of a tranche of it; an exit of the loop *)
(* or a manual order.                                                      *)
Sell(t, s, whole) ==
    LET qty == IF whole THEN cached[s] ELSE 1
    IN  /\ t \in {Loop, Operator} /\ Idle(t)
        /\ cached[s] > 0 /\ (~whole => cached[s] = 2)
        /\ shares[s] >= qty
        /\ shares' = [shares EXCEPT ![s] = @ - qty]
        /\ path' = [path EXCEPT ![t].pc = "sold", ![t].trade = {s}, ![t].whole = whole]
        /\ UNCHANGED <<setting, lists, feed, store, named, price, cached, buying, landed,
                       recorded, peaks, streak, history, counts>>

(* record, and in it noteRealizedClose: a close without a record has no    *)
(* outcome, a win or a switched-off trigger clears the run, a loss extends *)
(* it, and at the limit the symbol is dropped unless the portfolio still   *)
(* shows it.  The count is saved with every change.                        *)
NoteRealizedClose(t, lost) ==
    /\ path[t].pc = "sold"
    /\ \E s \in path[t].trade :
          IF recorded[s] = 0
          THEN UNCHANGED streak /\ Go(t, "closed")
          ELSE LET run == IF lost /\ setting.dropAfter > 0 THEN streak[s] + 1 ELSE 0
               IN  /\ streak' = [streak EXCEPT ![s] = run]
                   /\ Go(t, IF run > 0 /\ run >= setting.dropAfter /\ cached[s] = 0
                            THEN "drop" ELSE "closed")
    /\ UNCHANGED <<setting, lists, feed, store, named, price, position, peaks, history, counts>>

(* dropAfterLosses: RemoveSymbol, the run, and the file.                   *)
Drop(t) ==
    /\ path[t].pc = "drop" /\ MayEdit(t)
    /\ "midpass" \in events \/ Idle(Pass)
    /\ \E s \in path[t].trade :
          /\ RemoveSymbol(t, s, TRUE, "clearStreak")
          /\ picked' = picked \ {s} /\ gone' = gone \cup {s}
    /\ UNCHANGED <<setting, feed, store, named, price, position, streak, counts>>

ClearStreak(t) ==
    /\ path[t].pc = "clearStreak" /\ Go(t, "editFile")
    /\ streak' = [s \in Symbols |-> IF s \in path[t].trade THEN 0 ELSE streak[s]]
    /\ UNCHANGED <<setting, lists, feed, store, named, price, position, peaks, history, counts>>

CommentOut(t) ==
    /\ path[t].pc = "editFile" /\ Go(t, "closed")
    /\ \/ named' = named \ path[t].trade
       \/ "fileFails" \in events /\ UNCHANGED named
    /\ UNCHANGED <<setting, lists, feed, store, price, position, peaks, streak, history, counts>>

(* recordClose.                                                            *)
RecordClose(t) ==
    /\ path[t].pc = "closed" /\ Go(t, "sync")
    /\ LET closed == {s \in path[t].trade : path[t].whole /\ recorded[s] > 0}
       IN  /\ recorded' = [s \in Symbols |-> IF s \in closed THEN 0 ELSE recorded[s]]
           /\ peaks' = [s \in Symbols |-> IF s \in closed THEN 0 ELSE peaks[s]]
    /\ UNCHANGED <<setting, lists, feed, store, named, price, shares, cached, buying, landed,
                   streak, history, counts>>

(* syncPortfolio: the positions, the adoption of holdings that had no      *)
(* record for long enough, and the peaks of what is not held.              *)
Selling == UNION {path[t].trade : t \in {u \in Threads : path[u].pc \in {"sold", "drop", "closed"}}}

SyncPortfolio(seen, adopted) ==
    /\ cached' = [s \in Symbols |-> IF s \in seen THEN shares[s] ELSE 0]
    /\ recorded' = [s \in Symbols |-> IF s \in adopted THEN price[s] ELSE recorded[s]]
    /\ peaks' = [s \in Symbols |-> IF s \in adopted THEN price[s]
                                   ELSE IF cached'[s] = 0 THEN 0 ELSE peaks[s]]

(* At the end of every order and by the evaluation.                        *)
Sync(t) ==
    /\ path[t].pc = "sync" \/ (t = Loop /\ Idle(Loop))
    /\ path' = [path EXCEPT ![t].pc = "idle", ![t].trade = {}, ![t].whole = TRUE]
    /\ \E seen \in IF "omits" \in events THEN SUBSET Symbols ELSE {Symbols} :
       \E adopted \in SUBSET {s \in seen \ Selling :
                                shares[s] > 0 /\ recorded[s] = 0 /\ buying[s] \in {"none", "lost"}} :
          SyncPortfolio(seen, adopted)
    /\ UNCHANGED <<setting, lists, feed, store, named, price, shares, buying, landed, streak,
                   history, counts>>

(* checkExits raises the peak and its copy in the record, from a fresh     *)
(* tick or the broker's price ...                                          *)
CheckExits(s) ==
    LET peak == Higher(peaks[s], price[s])
    IN  /\ Idle(Loop) /\ cached[s] > 0
        /\ peaks' = [peaks EXCEPT ![s] = peak]
        /\ recorded' = [recorded EXCEPT ![s] = IF @ = 0 THEN 0 ELSE Higher(@, peak)]
        /\ UNCHANGED <<setting, lists, feed, store, named, price, shares, cached, buying, landed,
                       streak, history, counts, path>>

(* ... and ratchetPeak raises it with a tick.                              *)
Tick(s) ==
    /\ s \in subscribed /\ cached[s] > 0
    /\ peaks' = [peaks EXCEPT ![s] = Higher(@, price[s])]
    /\ UNCHANGED <<setting, lists, feed, store, named, price, position, streak, history, counts,
                   path>>

PriceMoves(s, level) ==
    /\ level # price[s] /\ price' = [price EXCEPT ![s] = level]
    /\ UNCHANGED <<setting, lists, feed, store, named, position, peaks, streak, history, counts,
                   path>>

(* ForgetOpenPosition, of a record whose shares are gone.                  *)
Forget(s) ==
    /\ Idle(Operator) /\ recorded[s] > 0 /\ cached[s] = 0 /\ shares[s] = 0
    /\ recorded' = [recorded EXCEPT ![s] = 0] /\ peaks' = [peaks EXCEPT ![s] = 0]
    /\ UNCHANGED <<setting, lists, feed, store, named, price, shares, cached, buying, landed,
                   streak, history, counts, path>>

-----------------------------------------------------------------------------
(* The next process: Restore, AddScreened with what config and the store   *)
(* name, AddSymbols with what config names, and the first sync of Run.  It *)
(* knows the records, their peaks and the losing runs, and no order.  A    *)
(* request that was cut off is picked or not, as the store has it.         *)
RestartWithoutPeaks ==   \* mutant: the records do not bring the peaks back
    /\ starts < setting.maxStarts /\ starts' = starts + 1
    /\ "crash" \in events \/ \A t \in Threads : Idle(t)
    /\ pinned' = storedPins \cup named /\ storedPins' = pinned'
    /\ watchlist' = storedList \cup named /\ storedList' = watchlist'
    /\ bars' = watchlist' /\ subscribed' = watchlist'
    /\ picked' = IF \E t \in Threads : Editing(t) THEN pinned' ELSE picked \cup named
    /\ buying' = [s \in Symbols |-> IF buying[s] # "none" /\ ~landed[s] THEN "lost" ELSE "none"]
    /\ landed' = [s \in Symbols |-> FALSE]
    /\ cached' = shares
    /\ peaks' = [s \in Symbols |-> 0]
    /\ path' = [t \in Threads |-> Rest]
    /\ UNCHANGED <<setting, named, price, shares, recorded, streak, gone, requests, buys>>
Restart ==
    /\ starts < setting.maxStarts /\ starts' = starts + 1
    /\ "crash" \in events \/ \A t \in Threads : Idle(t)
    /\ pinned' = storedPins \cup named /\ storedPins' = pinned'
    /\ watchlist' = storedList \cup named /\ storedList' = watchlist'
    /\ bars' = watchlist' /\ subscribed' = watchlist'
    /\ picked' = IF \E t \in Threads : Editing(t) THEN pinned' ELSE picked \cup named
    /\ buying' = [s \in Symbols |-> IF buying[s] # "none" /\ ~landed[s] THEN "lost" ELSE "none"]
    /\ landed' = [s \in Symbols |-> FALSE]
    /\ cached' = shares
    /\ peaks' = [s \in Symbols |-> IF shares[s] = 0 THEN 0 ELSE recorded[s]]
    /\ path' = [t \in Threads |-> Rest]
    /\ UNCHANGED <<setting, named, price, shares, recorded, streak, gone, requests, buys>>

ThreadStep(t) ==
    \/ ReadPins(t) \/ SavePins(t) \/ AddBars(t) \/ Subscribe(t) \/ RemoveBars(t)
    \/ Unsubscribe(t) \/ ReadList(t) \/ SaveList(t)
    \/ Confirmed(t) \/ \E outcome \in {"none", "resting", "unconfirmed"} : Unconfirmed(t, outcome)
    \/ \E lost \in BOOLEAN : NoteRealizedClose(t, lost)
    \/ Drop(t) \/ ClearStreak(t) \/ CommentOut(t) \/ RecordClose(t) \/ Sync(t)

PassStep ==
    \/ PassStarts \/ ReadPortfolio \/ ReadRecords \/ Screen
    \/ \E s \in Symbols : PassDrops(s)
    \/ PassAdds \/ PassEnds

Next ==
    \/ \E t \in Threads : ThreadStep(t)
    \/ PassStep
    \/ \E s \in Symbols :
          \/ Add(s) \/ Remove(s) \/ Clear(s) \/ Forget(s)
          \/ \E t \in {Loop, Operator} : Buy(t, s) \/ \E whole \in BOOLEAN : Sell(t, s, whole)
          \/ Fills(s) \/ WatcherWakes(s) \/ CheckExits(s) \/ Tick(s)
          \/ \E level \in 1..setting.topPrice[s] : PriceMoves(s, level)
    \/ Restart

Spec == Init /\ [][Next]_vars

(* A thread in the middle of something goes on, the evaluation ticker      *)
(* syncs again and again, and so does the screening ticker start passes.   *)
FairSpec ==
    Spec /\ WF_vars(ThreadStep(Loop)) /\ WF_vars(ThreadStep(Operator))
         /\ WF_vars(ThreadStep(Pass) \/ PassStep)

-----------------------------------------------------------------------------
(* Every variable has the shape the code gives it, and nothing is oversold. *)
TypeOK ==
    /\ setting \in Environments
    /\ {watchlist, pinned, bars, subscribed, storedList, storedPins, named, picked, gone}
         \subseteq SUBSET Symbols
    /\ price \in [Symbols -> Nat \ {0}]
    /\ shares \in [Symbols -> 0..2] /\ cached \in [Symbols -> 0..2]
    /\ buying \in [Symbols -> {"none", "sent", "resting", "unconfirmed", "lost"}]
    /\ landed \in [Symbols -> BOOLEAN]
    /\ recorded \in [Symbols -> Nat] /\ peaks \in [Symbols -> Nat] /\ streak \in [Symbols -> Nat]
    /\ {requests, buys, starts} \subseteq Nat
    /\ DOMAIN path = Threads
    /\ \A t \in Threads :
          UNION {path[t].syms, path[t].snap, path[t].trade, path[t].current, path[t].held,
                 path[t].pins, path[t].adds, path[t].drops} \subseteq Symbols

(* trackSymbols and removeSymbol: when no edit is under way the watchlist, *)
(* the tick feed, the bars and the store agree on what is tracked, and the *)
(* pins, in memory and stored, are the operator's picks -- whatever was    *)
(* screened, dropped, restarted or cut off before.                         *)
ListsAgree ==
    "overlap" \notin events /\ (\A t \in Threads : ~Editing(t)) =>
        /\ subscribed = watchlist /\ bars = watchlist /\ storedList = watchlist
        /\ pinned = picked /\ storedPins = picked

Owned(s) == (shares[s] > 0 /\ cached[s] > 0) \/ buying[s] \in {"resting", "unconfirmed"}

(* README.md: "Symbols you hold are never dropped, whatever the filters    *)
(* say", a buy not yet confirmed and a resting order included -- and the   *)
(* drop after a losing run never strands a position either.                *)
HeldIsSpared ==
    [][events \subseteq {"fileFails"} =>
          \A s \in watchlist \ watchlist' : ~Owned(s)]_vars

(* README.md: with keep_manual the operator's entries are "never dropped"  *)
(* by the screener, across restarts too.                                   *)
PickIsSpared ==
    [][setting.keepManual /\ events \cap {"midpass", "overlap"} = {}
         /\ path[Pass].pc \in {"change", "apply"} /\ path'[Pass].pc = "readPins"
         => (watchlist \ watchlist') \cap picked = {}]_vars

(* Neither a pass nor a losing run drops what is held or was picked.       *)
OwnedIsSpared == HeldIsSpared /\ PickIsSpared

(* README.md: the file is edited so that a symbol given up is not "undone  *)
(* by the next restart": only the operator or a ranking brings it back.    *)
GivenUpStaysGone ==
    events \cap {"overlap", "midpass", "crash", "fileFails"} = {} /\ (\A t \in Threads : ~Editing(t)) =>
        gone \cap UNION {watchlist, pinned, storedList, storedPins, named} = {}

(* What is tracked, fed and stored agrees, and nothing given up is in it.  *)
ListsAreTrue == ListsAgree /\ GivenUpStaysGone

(* A position's trail never falls behind the high-water mark its record    *)
(* keeps "so it survives restarts".                                        *)
TrailKeepsPeak ==
    events \subseteq {"crash", "fileFails"} =>
        \A s \in Symbols : recorded[s] > 0 /\ cached[s] > 0 => peaks[s] >= recorded[s]

(* README.md: "a held symbol that is missing from the watchlist is added   *)
(* back on the next pass", however it was lost.                            *)
HeldGetsTracked ==
    \A s \in Symbols :
        shares[s] > 0 /\ s \notin watchlist /\ setting.universe # {} /\ "omits" \notin events
          ~> (s \in watchlist \/ shares[s] = 0)

(* README.md: "After that many consecutive losing closes the symbol is     *)
(* removed from the watchlist", at the latest "on the close after the      *)
(* position is flat".  A position closes in two tranches at most, so with  *)
(* two more losses than the limit one of them came after it was flat.      *)
GivesUp ==
    (\A t \in Threads : Idle(t)) =>
        \A s \in watchlist :
            shares[s] = 0 /\ recorded[s] = 0 /\ setting.dropAfter > 0 =>
                streak[s] < setting.dropAfter + 2
=============================================================================
