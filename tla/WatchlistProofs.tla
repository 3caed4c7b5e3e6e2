---------------------------- MODULE WatchlistProofs ----------------------------
(***************************************************************************)
(* Proofs about Watchlist, for every set of symbols and any number of      *)
(* buys, requests and restarts.                                            *)
(***************************************************************************)
EXTENDS Watchlist, TLAPS

-----------------------------------------------------------------------------
(* What the threads hold                                                   *)

Rec(p) ==
    p = [pc |-> p.pc, syms |-> p.syms, snap |-> p.snap, dropping |-> p.dropping,
         next |-> p.next, trade |-> p.trade, whole |-> p.whole, current |-> p.current,
         held |-> p.held, pins |-> p.pins, adds |-> p.adds, drops |-> p.drops]

PathShape == path = [t \in Threads |-> path[t]] /\ \A t \in Threads : Rec(path[t])

Others(t) == \A u \in Threads \ {t} : path'[u] = path[u]

(* The three parts of what a thread holds: for an edit of the lists, for a *)
(* trade, and for a pass.                                                  *)
SameEdit(q, p) ==
    q.syms = p.syms /\ q.snap = p.snap /\ q.dropping = p.dropping /\ q.next = p.next
SameTrade(q, p) == q.trade = p.trade /\ q.whole = p.whole
SamePass(q, p) ==
    /\ q.current = p.current /\ q.held = p.held /\ q.pins = p.pins
    /\ q.adds = p.adds /\ q.drops = p.drops

LEMMA Update ==
    ASSUME PathShape, NEW t \in Threads, NEW r, Rec(r), path' = [path EXCEPT ![t] = r]
    PROVE  Others(t) /\ path'[t] = r /\ PathShape'
BY DEF PathShape, Others

LEMMA RestIs ==
    /\ Rec(Rest) /\ Rest.pc = "idle" /\ Rest.trade = {} /\ Rest.drops = {}
    /\ Rest.pins = {} /\ Rest.syms = {} /\ Rest.held = {}
BY DEF Rec, Rest

-----------------------------------------------------------------------------
(* What each step does to them                                             *)

LEMMA GoIs ==
    ASSUME PathShape, NEW t \in Threads, NEW pc, Go(t, pc)
    PROVE  /\ Others(t) /\ PathShape'
           /\ path'[t].pc = pc /\ SameEdit(path'[t], path[t]) /\ SameTrade(path'[t], path[t])
           /\ SamePass(path'[t], path[t])
<1> DEFINE p == path[t]
           r == [p EXCEPT !.pc = pc]
<1>1. path' = [path EXCEPT ![t] = r]
  BY DEF Go
<1>2. Rec(p)
  BY DEF PathShape, Threads
<1>3. r = [p EXCEPT !.pc = pc]
  OBVIOUS
<1> HIDE DEF p, r
<1>4. r = [pc |-> pc, syms |-> p.syms, snap |-> p.snap, dropping |-> p.dropping, next |-> p.next,
            trade |-> p.trade, whole |-> p.whole, current |-> p.current, held |-> p.held,
            pins |-> p.pins, adds |-> p.adds, drops |-> p.drops]
  BY <1>2, <1>3 DEF Rec
<1>5. /\ Rec(r)
      /\ r.pc = pc /\ SameEdit(r, p) /\ SameTrade(r, p) /\ SamePass(r, p)
  BY <1>4 DEF Rec, SameEdit, SameTrade, SamePass
<1>6. Others(t) /\ path'[t] = r /\ PathShape'
  BY <1>1, <1>5, Update DEF Threads
<1>. QED  BY <1>5, <1>6 DEF p

LEMMA ReturnIs ==
    ASSUME PathShape, NEW t \in Threads, Return(t)
    PROVE  /\ Others(t) /\ PathShape'
           /\ path'[t].pc =  path[t].next /\ path'[t].syms = {} /\ path'[t].snap = {}
           /\ path'[t].dropping = FALSE /\ path'[t].next = "idle" /\ SameTrade(path'[t], path[t])
           /\ SamePass(path'[t], path[t])
<1> DEFINE p == path[t]
           r == [p EXCEPT !.pc =  p.next, !.syms = {}, !.snap = {}, !.dropping = FALSE,
                      !.next = "idle"]
<1>1. path' = [path EXCEPT ![t] = r]
  BY DEF Return
<1>2. Rec(p)
  BY DEF PathShape, Threads
<1>3. r = [p EXCEPT !.pc =  p.next, !.syms = {}, !.snap = {}, !.dropping = FALSE,
                      !.next = "idle"]
  OBVIOUS
<1> HIDE DEF p, r
<1>4. r = [pc |->  p.next, syms |-> {}, snap |-> {}, dropping |-> FALSE, next |-> "idle",
            trade |-> p.trade, whole |-> p.whole, current |-> p.current, held |-> p.held,
            pins |-> p.pins, adds |-> p.adds, drops |-> p.drops]
  BY <1>2, <1>3 DEF Rec
<1>5. /\ Rec(r)
      /\ r.pc =  p.next /\ r.syms = {} /\ r.snap = {} /\ r.dropping = FALSE /\ r.next = "idle"
      /\ SameTrade(r, p) /\ SamePass(r, p)
  BY <1>4 DEF Rec, SameEdit, SameTrade, SamePass
<1>6. Others(t) /\ path'[t] = r /\ PathShape'
  BY <1>1, <1>5, Update DEF Threads
<1>. QED  BY <1>5, <1>6 DEF p

LEMMA ReadPinsIs ==
    ASSUME PathShape, NEW t \in Threads, ReadPins(t)
    PROVE  /\ Others(t) /\ PathShape'
           /\ path'[t].pc = "savePins" /\ path'[t].snap = pinned /\ path'[t].syms = path[t].syms
           /\ path'[t].dropping = path[t].dropping /\ path'[t].next = path[t].next
           /\ SameTrade(path'[t], path[t]) /\ SamePass(path'[t], path[t])
<1> DEFINE p == path[t]
           r == [p EXCEPT !.pc = "savePins", !.snap = pinned]
<1>1. path' = [path EXCEPT ![t] = r]
  BY DEF ReadPins
<1>2. Rec(p)
  BY DEF PathShape, Threads
<1>3. r = [p EXCEPT !.pc = "savePins", !.snap = pinned]
  OBVIOUS
<1> HIDE DEF p, r
<1>4. r = [pc |-> "savePins", syms |-> p.syms, snap |-> pinned, dropping |-> p.dropping,
            next |-> p.next, trade |-> p.trade, whole |-> p.whole, current |-> p.current,
            held |-> p.held, pins |-> p.pins, adds |-> p.adds, drops |-> p.drops]
  BY <1>2, <1>3 DEF Rec
<1>5. /\ Rec(r)
      /\ r.pc = "savePins" /\ r.snap = pinned /\ r.syms = p.syms /\ r.dropping = p.dropping
      /\ r.next = p.next /\ SameTrade(r, p) /\ SamePass(r, p)
  BY <1>4 DEF Rec, SameEdit, SameTrade, SamePass
<1>6. Others(t) /\ path'[t] = r /\ PathShape'
  BY <1>1, <1>5, Update DEF Threads
<1>. QED  BY <1>5, <1>6 DEF p

LEMMA ReadListIs ==
    ASSUME PathShape, NEW t \in Threads, ReadList(t)
    PROVE  /\ Others(t) /\ PathShape'
           /\ path'[t].pc = "saveList" /\ path'[t].snap = watchlist
           /\ path'[t].syms = path[t].syms /\ path'[t].dropping = path[t].dropping
           /\ path'[t].next = path[t].next /\ SameTrade(path'[t], path[t])
           /\ SamePass(path'[t], path[t])
<1> DEFINE p == path[t]
           r == [p EXCEPT !.pc = "saveList", !.snap = watchlist]
<1>1. path' = [path EXCEPT ![t] = r]
  BY DEF ReadList
<1>2. Rec(p)
  BY DEF PathShape, Threads
<1>3. r = [p EXCEPT !.pc = "saveList", !.snap = watchlist]
  OBVIOUS
<1> HIDE DEF p, r
<1>4. r = [pc |-> "saveList", syms |-> p.syms, snap |-> watchlist, dropping |-> p.dropping,
            next |-> p.next, trade |-> p.trade, whole |-> p.whole, current |-> p.current,
            held |-> p.held, pins |-> p.pins, adds |-> p.adds, drops |-> p.drops]
  BY <1>2, <1>3 DEF Rec
<1>5. /\ Rec(r)
      /\ r.pc = "saveList" /\ r.snap = watchlist /\ r.syms = p.syms /\ r.dropping = p.dropping
      /\ r.next = p.next /\ SameTrade(r, p) /\ SamePass(r, p)
  BY <1>4 DEF Rec, SameEdit, SameTrade, SamePass
<1>6. Others(t) /\ path'[t] = r /\ PathShape'
  BY <1>1, <1>5, Update DEF Threads
<1>. QED  BY <1>5, <1>6 DEF p

LEMMA TrackIs ==
    ASSUME PathShape, NEW t \in Threads, NEW syms, NEW pin, NEW next,
           TrackSymbols(t, syms, pin, next)
    PROVE  /\ Others(t) /\ PathShape'
           /\ path'[t].pc = (IF pin THEN "readPins" ELSE IF syms \ watchlist = {} THEN next ELSE "addBars")
           /\ path'[t].syms = syms \ watchlist /\ path'[t].dropping = FALSE
           /\ path'[t].next = next /\ path'[t].adds = {} /\ path'[t].snap = path[t].snap
           /\ SameTrade(path'[t], path[t]) /\ path'[t].current = path[t].current
           /\ path'[t].held = path[t].held /\ path'[t].pins = path[t].pins
           /\ path'[t].drops = path[t].drops
<1> DEFINE p == path[t]
           first == IF pin THEN "readPins" ELSE IF syms \ watchlist = {} THEN next ELSE "addBars"
           r == [p EXCEPT !.pc = first, !.syms = syms \ watchlist, !.dropping = FALSE, !.next = next,
                      !.adds = {}]
<1>1. path' = [path EXCEPT ![t] = r]
  BY DEF TrackSymbols
<1>2. Rec(p)
  BY DEF PathShape, Threads
<1>3. r = [p EXCEPT !.pc = first, !.syms = syms \ watchlist, !.dropping = FALSE, !.next = next,
                      !.adds = {}]
  OBVIOUS
<1> HIDE DEF p, r, first
<1>4. r = [pc |-> first, syms |-> syms \ watchlist, snap |-> p.snap, dropping |-> FALSE,
            next |-> next, trade |-> p.trade, whole |-> p.whole, current |-> p.current,
            held |-> p.held, pins |-> p.pins, adds |-> {}, drops |-> p.drops]
  BY <1>2, <1>3 DEF Rec
<1>5. /\ Rec(r)
      /\ r.pc = first /\ r.syms = syms \ watchlist /\ r.dropping = FALSE /\ r.next = next
      /\ r.adds = {} /\ r.snap = p.snap /\ SameTrade(r, p) /\ r.current = p.current
      /\ r.held = p.held /\ r.pins = p.pins /\ r.drops = p.drops
  BY <1>4 DEF Rec, SameEdit, SameTrade, SamePass
<1>6. Others(t) /\ path'[t] = r /\ PathShape'
  BY <1>1, <1>5, Update DEF Threads
<1>. QED  BY <1>5, <1>6 DEF p, first

LEMMA RemoveIs ==
    ASSUME PathShape, NEW t \in Threads, NEW s, NEW unpin, NEW next,
           RemoveSymbol(t, s, unpin, next)
    PROVE  /\ Others(t) /\ PathShape'
           /\ path'[t].pc = "readPins" /\ path'[t].syms = {s} /\ path'[t].dropping = TRUE
           /\ path'[t].next = next /\ path'[t].drops =  path[t].drops \ {s}
           /\ path'[t].snap = path[t].snap /\ SameTrade(path'[t], path[t])
           /\ path'[t].current = path[t].current /\ path'[t].held = path[t].held
           /\ path'[t].pins = path[t].pins /\ path'[t].adds = path[t].adds
<1> DEFINE p == path[t]
           r == [p EXCEPT !.pc = "readPins", !.syms = {s}, !.dropping = TRUE, !.next = next,
                      !.drops =  p.drops \ {s}]
<1>1. path' = [path EXCEPT ![t] = r]
  BY DEF RemoveSymbol
<1>2. Rec(p)
  BY DEF PathShape, Threads
<1>3. r = [p EXCEPT !.pc = "readPins", !.syms = {s}, !.dropping = TRUE, !.next = next,
                      !.drops =  p.drops \ {s}]
  OBVIOUS
<1> HIDE DEF p, r
<1>4. r = [pc |-> "readPins", syms |-> {s}, snap |-> p.snap, dropping |-> TRUE, next |-> next,
            trade |-> p.trade, whole |-> p.whole, current |-> p.current, held |-> p.held,
            pins |-> p.pins, adds |-> p.adds, drops |->  p.drops \ {s}]
  BY <1>2, <1>3 DEF Rec
<1>5. /\ Rec(r)
      /\ r.pc = "readPins" /\ r.syms = {s} /\ r.dropping = TRUE /\ r.next = next
      /\ r.drops =  p.drops \ {s} /\ r.snap = p.snap /\ SameTrade(r, p) /\ r.current = p.current
      /\ r.held = p.held /\ r.pins = p.pins /\ r.adds = p.adds
  BY <1>4 DEF Rec, SameEdit, SameTrade, SamePass
<1>6. Others(t) /\ path'[t] = r /\ PathShape'
  BY <1>1, <1>5, Update DEF Threads
<1>. QED  BY <1>5, <1>6 DEF p

LEMMA PassStartsIs ==
    ASSUME PathShape, PassStarts
    PROVE  /\ Others(Pass) /\ PathShape'
           /\ path'[Pass].pc = "readPortfolio" /\ path'[Pass].current = watchlist
           /\ SameEdit(path'[Pass], path[Pass]) /\ SameTrade(path'[Pass], path[Pass])
           /\ path'[Pass].held = path[Pass].held /\ path'[Pass].pins = path[Pass].pins
           /\ path'[Pass].adds = path[Pass].adds /\ path'[Pass].drops = path[Pass].drops
<1> DEFINE p == path[Pass]
           r == [p EXCEPT !.pc = "readPortfolio", !.current = watchlist]
<1>1. path' = [path EXCEPT ![Pass] = r]
  BY DEF PassStarts
<1>2. Rec(p)
  BY DEF PathShape, Threads
<1>3. r = [p EXCEPT !.pc = "readPortfolio", !.current = watchlist]
  OBVIOUS
<1> HIDE DEF p, r
<1>4. r = [pc |-> "readPortfolio", syms |-> p.syms, snap |-> p.snap, dropping |-> p.dropping,
            next |-> p.next, trade |-> p.trade, whole |-> p.whole, current |-> watchlist,
            held |-> p.held, pins |-> p.pins, adds |-> p.adds, drops |-> p.drops]
  BY <1>2, <1>3 DEF Rec
<1>5. /\ Rec(r)
      /\ r.pc = "readPortfolio" /\ r.current = watchlist /\ SameEdit(r, p) /\ SameTrade(r, p)
      /\ r.held = p.held /\ r.pins = p.pins /\ r.adds = p.adds /\ r.drops = p.drops
  BY <1>4 DEF Rec, SameEdit, SameTrade, SamePass
<1>6. Others(Pass) /\ path'[Pass] = r /\ PathShape'
  BY <1>1, <1>5, Update DEF Threads
<1>. QED  BY <1>5, <1>6 DEF p

LEMMA ReadPortfolioIs ==
    ASSUME PathShape, ReadPortfolio
    PROVE  /\ Others(Pass) /\ PathShape'
           /\ path'[Pass].pc = "readRecords" /\ path'[Pass].held = InPortfolio
           /\ SameEdit(path'[Pass], path[Pass]) /\ SameTrade(path'[Pass], path[Pass])
           /\ path'[Pass].current = path[Pass].current /\ path'[Pass].pins = path[Pass].pins
           /\ path'[Pass].adds = path[Pass].adds /\ path'[Pass].drops = path[Pass].drops
<1> DEFINE p == path[Pass]
           r == [p EXCEPT !.pc = "readRecords", !.held = InPortfolio]
<1>1. path' = [path EXCEPT ![Pass] = r]
  BY DEF ReadPortfolio
<1>2. Rec(p)
  BY DEF PathShape, Threads
<1>3. r = [p EXCEPT !.pc = "readRecords", !.held = InPortfolio]
  OBVIOUS
<1> HIDE DEF p, r
<1>4. r = [pc |-> "readRecords", syms |-> p.syms, snap |-> p.snap, dropping |-> p.dropping,
            next |-> p.next, trade |-> p.trade, whole |-> p.whole, current |-> p.current,
            held |-> InPortfolio, pins |-> p.pins, adds |-> p.adds, drops |-> p.drops]
  BY <1>2, <1>3 DEF Rec
<1>5. /\ Rec(r)
      /\ r.pc = "readRecords" /\ r.held = InPortfolio /\ SameEdit(r, p) /\ SameTrade(r, p)
      /\ r.current = p.current /\ r.pins = p.pins /\ r.adds = p.adds /\ r.drops = p.drops
  BY <1>4 DEF Rec, SameEdit, SameTrade, SamePass
<1>6. Others(Pass) /\ path'[Pass] = r /\ PathShape'
  BY <1>1, <1>5, Update DEF Threads
<1>. QED  BY <1>5, <1>6 DEF p

LEMMA ReadRecordsIs ==
    ASSUME PathShape, ReadRecords
    PROVE  /\ Others(Pass) /\ PathShape'
           /\ path'[Pass].pc = "screen" /\ path'[Pass].held =  path[Pass].held \cup OnRecord
           /\ path'[Pass].pins = pinned /\ SameEdit(path'[Pass], path[Pass])
           /\ SameTrade(path'[Pass], path[Pass]) /\ path'[Pass].current = path[Pass].current
           /\ path'[Pass].adds = path[Pass].adds /\ path'[Pass].drops = path[Pass].drops
<1> DEFINE p == path[Pass]
           r == [p EXCEPT !.pc = "screen", !.held =  p.held \cup OnRecord, !.pins = pinned]
<1>1. path' = [path EXCEPT ![Pass] = r]
  BY DEF ReadRecords
<1>2. Rec(p)
  BY DEF PathShape, Threads
<1>3. r = [p EXCEPT !.pc = "screen", !.held =  p.held \cup OnRecord, !.pins = pinned]
  OBVIOUS
<1> HIDE DEF p, r
<1>4. r = [pc |-> "screen", syms |-> p.syms, snap |-> p.snap, dropping |-> p.dropping,
            next |-> p.next, trade |-> p.trade, whole |-> p.whole, current |-> p.current,
            held |->  p.held \cup OnRecord, pins |-> pinned, adds |-> p.adds, drops |-> p.drops]
  BY <1>2, <1>3 DEF Rec
<1>5. /\ Rec(r)
      /\ r.pc = "screen" /\ r.held =  p.held \cup OnRecord /\ r.pins = pinned /\ SameEdit(r, p)
      /\ SameTrade(r, p) /\ r.current = p.current /\ r.adds = p.adds /\ r.drops = p.drops
  BY <1>4 DEF Rec, SameEdit, SameTrade, SamePass
<1>6. Others(Pass) /\ path'[Pass] = r /\ PathShape'
  BY <1>1, <1>5, Update DEF Threads
<1>. QED  BY <1>5, <1>6 DEF p

LEMMA BuyIs ==
    ASSUME PathShape, NEW t \in Threads, NEW s, Buy(t, s)
    PROVE  /\ Others(t) /\ PathShape'
           /\ path'[t].pc = "sent" /\ path'[t].trade = {s} /\ SameEdit(path'[t], path[t])
           /\ path'[t].whole = path[t].whole /\ SamePass(path'[t], path[t])
<1> DEFINE p == path[t]
           r == [p EXCEPT !.pc = "sent", !.trade = {s}]
<1>1. path' = [path EXCEPT ![t] = r]
  BY DEF Buy
<1>2. Rec(p)
  BY DEF PathShape, Threads
<1>3. r = [p EXCEPT !.pc = "sent", !.trade = {s}]
  OBVIOUS
<1> HIDE DEF p, r
<1>4. r = [pc |-> "sent", syms |-> p.syms, snap |-> p.snap, dropping |-> p.dropping,
            next |-> p.next, trade |-> {s}, whole |-> p.whole, current |-> p.current,
            held |-> p.held, pins |-> p.pins, adds |-> p.adds, drops |-> p.drops]
  BY <1>2, <1>3 DEF Rec
<1>5. /\ Rec(r)
      /\ r.pc = "sent" /\ r.trade = {s} /\ SameEdit(r, p) /\ r.whole = p.whole /\ SamePass(r, p)
  BY <1>4 DEF Rec, SameEdit, SameTrade, SamePass
<1>6. Others(t) /\ path'[t] = r /\ PathShape'
  BY <1>1, <1>5, Update DEF Threads
<1>. QED  BY <1>5, <1>6 DEF p

LEMMA SellIs ==
    ASSUME PathShape, NEW t \in Threads, NEW s, NEW whole, Sell(t, s, whole)
    PROVE  /\ Others(t) /\ PathShape'
           /\ path'[t].pc = "sold" /\ path'[t].trade = {s} /\ path'[t].whole = whole
           /\ SameEdit(path'[t], path[t]) /\ SamePass(path'[t], path[t])
<1> DEFINE p == path[t]
           r == [p EXCEPT !.pc = "sold", !.trade = {s}, !.whole = whole]
<1>1. path' = [path EXCEPT ![t] = r]
  BY DEF Sell
<1>2. Rec(p)
  BY DEF PathShape, Threads
<1>3. r = [p EXCEPT !.pc = "sold", !.trade = {s}, !.whole = whole]
  OBVIOUS
<1> HIDE DEF p, r
<1>4. r = [pc |-> "sold", syms |-> p.syms, snap |-> p.snap, dropping |-> p.dropping,
            next |-> p.next, trade |-> {s}, whole |-> whole, current |-> p.current,
            held |-> p.held, pins |-> p.pins, adds |-> p.adds, drops |-> p.drops]
  BY <1>2, <1>3 DEF Rec
<1>5. /\ Rec(r)
      /\ r.pc = "sold" /\ r.trade = {s} /\ r.whole = whole /\ SameEdit(r, p) /\ SamePass(r, p)
  BY <1>4 DEF Rec, SameEdit, SameTrade, SamePass
<1>6. Others(t) /\ path'[t] = r /\ PathShape'
  BY <1>1, <1>5, Update DEF Threads
<1>. QED  BY <1>5, <1>6 DEF p

LEMMA SyncIs ==
    ASSUME PathShape, NEW t \in Threads, Sync(t)
    PROVE  /\ Others(t) /\ PathShape'
           /\ path'[t].pc = "idle" /\ path'[t].trade = {} /\ path'[t].whole = TRUE
           /\ SameEdit(path'[t], path[t]) /\ SamePass(path'[t], path[t])
<1> DEFINE p == path[t]
           r == [p EXCEPT !.pc = "idle", !.trade = {}, !.whole = TRUE]
<1>1. path' = [path EXCEPT ![t] = r]
  BY DEF Sync
<1>2. Rec(p)
  BY DEF PathShape, Threads
<1>3. r = [p EXCEPT !.pc = "idle", !.trade = {}, !.whole = TRUE]
  OBVIOUS
<1> HIDE DEF p, r
<1>4. r = [pc |-> "idle", syms |-> p.syms, snap |-> p.snap, dropping |-> p.dropping,
            next |-> p.next, trade |-> {}, whole |-> TRUE, current |-> p.current, held |-> p.held,
            pins |-> p.pins, adds |-> p.adds, drops |-> p.drops]
  BY <1>2, <1>3 DEF Rec
<1>5. /\ Rec(r)
      /\ r.pc = "idle" /\ r.trade = {} /\ r.whole = TRUE /\ SameEdit(r, p) /\ SamePass(r, p)
  BY <1>4 DEF Rec, SameEdit, SameTrade, SamePass
<1>6. Others(t) /\ path'[t] = r /\ PathShape'
  BY <1>1, <1>5, Update DEF Threads
<1>. QED  BY <1>5, <1>6 DEF p

-----------------------------------------------------------------------------
(* Where the threads are                                                   *)

Chain == {"readPins", "savePins", "addBars", "subscribe", "removeBars", "unsubscribe",
          "readList", "saveList"}
PassSteps == {"idle", "readPortfolio", "readRecords", "screen", "change", "apply"}
TradeSteps == {"idle", "sent", "sync", "sold", "drop", "closed", "clearStreak", "editFile"}
Traders == {Loop, Operator}

TraderOK(p) ==
    /\ p.pc \in TradeSteps \cup Chain
    /\ p.trade \subseteq Symbols /\ \A r, s \in p.trade : r = s
    /\ p.pc = "idle" => p.trade = {}
    /\ p.pc \in Chain => p.next = "clearStreak" \/ (p.next = "idle" /\ p.trade = {})
PasserOK(p) ==
    /\ p.pc \in PassSteps \cup Chain /\ p.trade = {}
    /\ p.pc \in Chain => p.next = "apply"
    /\ p.pc = "idle" => p.pins = {}

PathInv == PathShape /\ (\A t \in Traders : TraderOK(path[t])) /\ PasserOK(path[Pass])

LEMMA ThreadsAre == Threads = Traders \cup {Pass} /\ Pass \notin Traders
BY WatchlistAssumption DEF Threads, Traders

(* A step of trackSymbols or removeSymbol after their lock.                *)
Edits(t) ==
    LET p == path[t]
        q == path'[t] IN
    \/ /\ q.pc = p.next /\ UNCHANGED feed
       /\ \/ p.pc = "savePins" /\ ~p.dropping /\ p.syms = {}
             /\ storedPins' = p.snap /\ storedList' = storedList
          \/ p.pc = "saveList" /\ storedList' = p.snap /\ storedPins' = storedPins
    \/ /\ q.pc \in Chain /\ q.syms = p.syms /\ q.dropping = p.dropping /\ q.next = p.next
       /\ \/ p.pc = "readPins" /\ q.pc = "savePins" /\ q.snap = pinned /\ UNCHANGED <<feed, store>>
          \/ p.pc = "savePins" /\ q.pc = (IF p.dropping THEN "removeBars" ELSE "addBars")
             /\ storedPins' = p.snap /\ UNCHANGED <<feed, storedList>>
          \/ p.pc = "addBars" /\ q.pc = "subscribe" /\ bars' = bars \cup p.syms
             /\ UNCHANGED <<subscribed, store>>
          \/ p.pc = "subscribe" /\ q.pc = "readList" /\ subscribed' = subscribed \cup p.syms
             /\ UNCHANGED <<bars, store>>
          \/ p.pc = "removeBars" /\ q.pc = "unsubscribe" /\ bars' = bars \ p.syms
             /\ UNCHANGED <<subscribed, store>>
          \/ p.pc = "unsubscribe" /\ q.pc = "readList" /\ subscribed' = subscribed \ p.syms
             /\ UNCHANGED <<bars, store>>
          \/ p.pc = "readList" /\ q.pc = "saveList" /\ q.snap = watchlist
             /\ UNCHANGED <<feed, store>>

ChainStep(t) ==
    /\ Others(t) /\ PathShape' /\ path[t].pc \in Chain
    /\ SameTrade(path'[t], path[t]) /\ SamePass(path'[t], path[t])
    /\ Edits(t)
    /\ UNCHANGED <<setting, lists, named, price, position, peaks, streak, history, counts>>

LEMMA ChainSteps ==
    ASSUME PathShape, NEW t \in Threads,
           \/ ReadPins(t) \/ SavePins(t) \/ AddBars(t) \/ Subscribe(t) \/ RemoveBars(t)
           \/ Unsubscribe(t) \/ ReadList(t) \/ SaveList(t)
    PROVE  ChainStep(t)
<1> USE DEF Chain, SameEdit
<1>1. CASE ReadPins(t)
  BY <1>1, ReadPinsIs DEF ChainStep, Edits, ReadPins
<1>2. CASE SavePins(t)
  <2>1. CASE path[t].dropping
    BY <1>2, <2>1, GoIs DEF SavePins, ChainStep, Edits
  <2>2. CASE ~path[t].dropping /\ path[t].syms = {}
    BY <1>2, <2>2, ReturnIs DEF SavePins, ChainStep, Edits
  <2>3. CASE ~path[t].dropping /\ path[t].syms # {}
    BY <1>2, <2>3, GoIs DEF SavePins, ChainStep, Edits
  <2>. QED  BY <2>1, <2>2, <2>3
<1>3. CASE AddBars(t)
  BY <1>3, GoIs DEF ChainStep, Edits, AddBars
<1>4. CASE Subscribe(t)
  BY <1>4, GoIs DEF ChainStep, Edits, Subscribe
<1>5. CASE RemoveBars(t)
  BY <1>5, GoIs DEF ChainStep, Edits, RemoveBars
<1>6. CASE Unsubscribe(t)
  BY <1>6, GoIs DEF ChainStep, Edits, Unsubscribe
<1>7. CASE ReadList(t)
  BY <1>7, ReadListIs DEF ChainStep, Edits, ReadList
<1>8. CASE SaveList(t)
  BY <1>8, ReturnIs DEF ChainStep, Edits, SaveList
<1>. QED  BY <1>1, <1>2, <1>3, <1>4, <1>5, <1>6, <1>7, <1>8

(* What a pass decides: it drops nothing it read as held, nor as a pick.   *)
LEMMA ScreenIs ==
    ASSUME PathShape, Screen
    PROVE  /\ Others(Pass) /\ PathShape'
           /\ \/ path'[Pass] = Rest
              \/ /\ path'[Pass].pc = "change"
                 /\ SameEdit(path'[Pass], path[Pass]) /\ SameTrade(path'[Pass], path[Pass])
                 /\ path'[Pass].current = path[Pass].current
                 /\ path'[Pass].held = path[Pass].held /\ path'[Pass].pins = path[Pass].pins
                 /\ path'[Pass].drops \subseteq path[Pass].current \ path[Pass].held
                 /\ setting.keepManual => path'[Pass].drops \cap path[Pass].pins = {}
<1> DEFINE p == path[Pass]
<1>1. PICK adds, drops :
        /\ drops \subseteq p.current \ p.held
        /\ setting.keepManual => drops \cap p.pins = {}
        /\ path' = [path EXCEPT ![Pass] =
                      IF adds \cup drops = {} THEN Rest
                      ELSE [p EXCEPT !.pc = "change", !.adds = adds, !.drops = drops]]
  <2>1. PICK passing, unmeasured, ranked :
          LET pool == Pool(p.current)
              protected == Protected(p.held, p.pins)
              wanted == ranked \cup protected \cup p.held
              adds   == IF pool = {} THEN {} ELSE wanted \ p.current
              drops  == IF pool = {} THEN {} ELSE p.current \ (wanted \cup unmeasured)
          IN  path' = [path EXCEPT ![Pass] =
                         IF adds \cup drops = {} THEN Rest
                         ELSE [p EXCEPT !.pc = "change", !.adds = adds, !.drops = drops]]
    BY DEF Screen
  <2> DEFINE pool == Pool(p.current)
             protected == Protected(p.held, p.pins)
             wanted == ranked \cup protected \cup p.held
             adds   == IF pool = {} THEN {} ELSE wanted \ p.current
             drops  == IF pool = {} THEN {} ELSE p.current \ (wanted \cup unmeasured)
  <2>2. path' = [path EXCEPT ![Pass] =
                   IF adds \cup drops = {} THEN Rest
                   ELSE [p EXCEPT !.pc = "change", !.adds = adds, !.drops = drops]]
    BY <2>1
  <2>3. setting.keepManual => p.pins \subseteq protected
    BY DEF Protected
  <2>4. drops \subseteq p.current \ p.held /\ (setting.keepManual => drops \cap p.pins = {})
    BY <2>3
  <2> HIDE DEF adds, drops
  <2>. QED  BY <2>2, <2>4
<1>2. Rec(p) /\ Pass \in Threads
  BY DEF PathShape, Threads
<1> HIDE DEF p
<1>3. CASE adds \cup drops = {}
  BY <1>1, <1>3, <1>2, RestIs, Update
<1>4. CASE adds \cup drops # {}
  <2> DEFINE r == [p EXCEPT !.pc = "change", !.adds = adds, !.drops = drops]
  <2>1. path' = [path EXCEPT ![Pass] = r]
    BY <1>1, <1>4
  <2>2. r = [p EXCEPT !.pc = "change", !.adds = adds, !.drops = drops]
    OBVIOUS
  <2> HIDE DEF r
  <2>3. r = [pc |-> "change", syms |-> p.syms, snap |-> p.snap, dropping |-> p.dropping,
             next |-> p.next, trade |-> p.trade, whole |-> p.whole, current |-> p.current,
             held |-> p.held, pins |-> p.pins, adds |-> adds, drops |-> drops]
    BY <1>2, <2>2 DEF Rec
  <2>4. /\ Rec(r) /\ r.pc = "change" /\ SameEdit(r, p) /\ SameTrade(r, p)
        /\ r.current = p.current /\ r.held = p.held /\ r.pins = p.pins /\ r.drops = drops
    BY <2>3 DEF Rec, SameEdit, SameTrade
  <2>5. Others(Pass) /\ path'[Pass] = r /\ PathShape'
    BY <1>2, <2>1, <2>4, Update
  <2>. QED  BY <1>1, <2>4, <2>5 DEF p
<1>. QED  BY <1>3, <1>4

LEMMA PassEndsIs ==
    ASSUME PathShape, PassEnds
    PROVE  Others(Pass) /\ PathShape' /\ path'[Pass] = Rest
BY RestIs, Update DEF PassEnds, Threads

LEMMA RestartIs ==
    ASSUME Restart
    PROVE  PathShape' /\ \A t \in Threads : path'[t] = Rest
BY RestIs DEF Restart, PathShape

(* A step of a trade, which leaves the lists alone but for the file.       *)
Trading(t) ==
    /\ t \in Traders /\ Others(t) /\ PathShape'
    /\ SameEdit(path'[t], path[t]) /\ SamePass(path'[t], path[t])
    /\ path[t].pc \in TradeSteps /\ path'[t].pc \in TradeSteps \ {"clearStreak"}
    /\ path'[t].pc = "editFile" <=> path[t].pc = "clearStreak"
    /\ path'[t].pc = "editFile" => path'[t].trade = path[t].trade
    /\ path'[t].trade \subseteq Symbols /\ \A r, s \in path'[t].trade : r = s
    /\ path'[t].pc = "idle" => path'[t].trade = {}
    /\ \/ named' = named /\ (path[t].pc = "editFile" => "fileFails" \in events)
       \/ path[t].pc = "editFile" /\ named' = named \ path[t].trade
    /\ UNCHANGED <<setting, lists, feed, store, history>>

Still == UNCHANGED <<setting, lists, feed, store, named, history, path>>

LEMMA TradeMoves ==
    ASSUME PathInv, NEW t \in Threads, NEW pc,
           path[t].pc \in TradeSteps \ {"idle"}, path[t].pc \notin {"clearStreak", "editFile"},
           pc \in TradeSteps \ {"clearStreak", "editFile", "idle"}, Go(t, pc),
           UNCHANGED <<setting, lists, feed, store, named, history>>
    PROVE  Trading(t)
<1>1. t \in Traders
  BY ThreadsAre DEF PathInv, PasserOK, PassSteps, Chain, TradeSteps
<1>2. TraderOK(path[t]) /\ PathShape
  BY <1>1 DEF PathInv
<1>. QED  BY <1>1, <1>2, GoIs DEF Trading, TraderOK, SameTrade

LEMMA TradeSteps1 ==
    ASSUME PathInv, NEW t \in Threads,
           \/ Confirmed(t) \/ \E outcome \in {"none", "resting", "unconfirmed"} : Unconfirmed(t, outcome)
           \/ \E lost \in BOOLEAN : NoteRealizedClose(t, lost)
           \/ ClearStreak(t) \/ CommentOut(t) \/ RecordClose(t) \/ Sync(t)
    PROVE  Trading(t)
<1>0. PathShape /\ (t \in Traders => TraderOK(path[t])) /\ (t \notin Traders => t = Pass)
  BY ThreadsAre DEF PathInv
<1>1. CASE Confirmed(t)
  BY <1>1, TradeMoves DEF Confirmed, TradeSteps
<1>2. ASSUME NEW outcome, Unconfirmed(t, outcome) PROVE Trading(t)
  BY <1>2, TradeMoves DEF Unconfirmed, TradeSteps
<1>3. ASSUME NEW lost, NoteRealizedClose(t, lost) PROVE Trading(t)
  <2>1. PICK s \in path[t].trade : Go(t, "closed") \/ Go(t, "drop")
    BY <1>3 DEF NoteRealizedClose
  <2>. QED  BY <1>3, <2>1, TradeMoves DEF NoteRealizedClose, TradeSteps
<1>4. CASE ClearStreak(t)
  <2>1. t \in Traders
    BY <1>4, <1>0 DEF PathInv, PasserOK, PassSteps, Chain, ClearStreak
  <2>. QED  BY <1>0, <1>4, <2>1, GoIs
            DEF ClearStreak, Trading, TraderOK, SameTrade, TradeSteps
<1>5. CASE CommentOut(t)
  <2>1. t \in Traders
    BY <1>5, <1>0 DEF PathInv, PasserOK, PassSteps, Chain, CommentOut
  <2>. QED  BY <1>0, <1>5, <2>1, GoIs
            DEF CommentOut, Trading, TraderOK, SameTrade, TradeSteps
<1>6. CASE RecordClose(t)
  BY <1>6, TradeMoves DEF RecordClose, TradeSteps
<1>7. CASE Sync(t)
  <2>1. t \in Traders /\ path[t].pc \in {"sync", "idle"}
    BY <1>7, <1>0 DEF Sync, Traders, Idle, PathInv, PasserOK, PassSteps, Chain
  <2>. QED  BY <1>0, <1>7, <2>1, SyncIs DEF Sync, Trading, TradeSteps
<1>. QED  BY <1>1, <1>2, <1>3, <1>4, <1>5, <1>6, <1>7

LEMMA TradeSteps2 ==
    ASSUME PathInv, NEW s \in Symbols, NEW t \in Traders,
           Buy(t, s) \/ \E whole \in BOOLEAN : Sell(t, s, whole)
    PROVE  Trading(t)
<1>0. PathShape /\ t \in Threads
  BY ThreadsAre DEF PathInv
<1>1. CASE Buy(t, s)
  <2>1. path[t].pc = "idle" /\ UNCHANGED <<setting, lists, feed, store, named, history>>
    BY <1>1 DEF Buy, Idle
  <2>2. /\ Others(t) /\ PathShape' /\ path'[t].pc = "sent" /\ path'[t].trade = {s}
        /\ SameEdit(path'[t], path[t]) /\ SamePass(path'[t], path[t])
    BY <1>0, <1>1, BuyIs
  <2>. QED  BY <2>1, <2>2 DEF Trading, TradeSteps
<1>2. ASSUME NEW whole, Sell(t, s, whole) PROVE Trading(t)
  <2>1. path[t].pc = "idle" /\ UNCHANGED <<setting, lists, feed, store, named, history>>
    BY <1>2 DEF Sell, Idle
  <2>2. /\ Others(t) /\ PathShape' /\ path'[t].pc = "sold" /\ path'[t].trade = {s}
        /\ SameEdit(path'[t], path[t]) /\ SamePass(path'[t], path[t])
    BY <1>0, <1>2, SellIs
  <2>. QED  BY <2>1, <2>2 DEF Trading, TradeSteps
<1>. QED  BY <1>1, <1>2

LEMMA StillSteps ==
    ASSUME NEW s \in Symbols,
           \/ Clear(s) \/ Forget(s) \/ Fills(s) \/ WatcherWakes(s) \/ CheckExits(s) \/ Tick(s)
           \/ \E level \in 1..setting.topPrice[s] : PriceMoves(s, level)
    PROVE  Still
BY DEF Still, Clear, Forget, Fills, WatcherWakes, CheckExits, Tick, PriceMoves

(* The lock of removeSymbol, for each of its callers.                      *)
Removing(t, s, unpin, next) ==
    /\ Others(t) /\ PathShape'
    /\ path'[t].pc = "readPins" /\ path'[t].syms = {s} /\ path'[t].dropping = TRUE
    /\ path'[t].next = next /\ SameTrade(path'[t], path[t])
    /\ path'[t].pins = path[t].pins /\ path'[t].held = path[t].held
    /\ path'[t].current = path[t].current /\ path'[t].drops = path[t].drops \ {s}
    /\ \/ path[t].pc = "apply"
       \/ MayEdit(t) /\ path[t].pc \in {"idle", "drop", "change"}
    /\ watchlist' = watchlist \ {s} /\ pinned' = (IF unpin THEN pinned \ {s} ELSE pinned)
    /\ UNCHANGED <<setting, feed, store, named>>

(* That of trackSymbols.                                                   *)
Tracking(t, syms, pin, next) ==
    /\ Others(t) /\ PathShape'
    /\ path'[t].pc = (IF pin THEN "readPins" ELSE IF syms \ watchlist = {} THEN next ELSE "addBars")
    /\ path'[t].syms = syms \ watchlist /\ path'[t].dropping = FALSE
    /\ path'[t].next = next /\ SameTrade(path'[t], path[t])
    /\ path'[t].pins = path[t].pins /\ path'[t].held = path[t].held
    /\ path'[t].current = path[t].current /\ path'[t].drops = path[t].drops
    /\ \/ path[t].pc = "apply"
       \/ MayEdit(t) /\ path[t].pc \in {"idle", "change"}
    /\ watchlist' = watchlist \cup syms /\ pinned' = (IF pin THEN pinned \cup syms ELSE pinned)
    /\ UNCHANGED <<setting, feed, store, named>>

Adding(s) ==
    /\ Tracking(Operator, {s}, TRUE, "idle") /\ path[Operator].pc = "idle"
    /\ "midpass" \in events \/ Idle(Pass) \/ s \notin path[Pass].current
    /\ picked' = picked \cup {s} /\ gone' = gone \ {s}
PassAdding ==
    /\ Tracking(Pass, path[Pass].adds, FALSE, "apply") /\ path[Pass].pc \in {"change", "apply"}
    /\ gone' = gone \ (path[Pass].adds \ path[Pass].pins) /\ picked' = picked
Dismissing(s) ==
    /\ Removing(Operator, s, TRUE, "idle") /\ path[Operator].pc = "idle"
    /\ picked' = picked \ {s} /\ gone' = gone
GivingIn(t, s) ==
    /\ Removing(t, s, TRUE, "clearStreak") /\ path[t].pc = "drop" /\ t \in Traders
    /\ s \in path[t].trade /\ ("midpass" \in events \/ Idle(Pass))
    /\ picked' = picked \ {s} /\ gone' = gone \cup {s}
PassDropping(s) ==
    /\ Removing(Pass, s, FALSE, "apply") /\ path[Pass].pc \in {"change", "apply"}
    /\ s \in path[Pass].drops /\ UNCHANGED history

(* A step of a pass that only decides.                                     *)
Deciding ==
    /\ Others(Pass) /\ PathShape'
    /\ path[Pass].pc \in PassSteps /\ path'[Pass].pc \in PassSteps \ {"apply"}
    /\ path'[Pass].trade = {}
    /\ path'[Pass].pins \in {{}, path[Pass].pins, pinned}
    /\ path'[Pass].pc \in {"idle", "readPortfolio"} => path'[Pass].pins = {}
    /\ path'[Pass].pc = "screen" =>
          path'[Pass].pins = pinned /\ path'[Pass].current = path[Pass].current
    /\ path'[Pass].pc = "change" =>
          /\ path[Pass].pc = "screen" /\ path'[Pass].current = path[Pass].current
          /\ path'[Pass].held = path[Pass].held
          /\ path'[Pass].drops \subseteq path[Pass].current \ path[Pass].held
          /\ setting.keepManual => path'[Pass].drops \cap path[Pass].pins = {}
    /\ UNCHANGED <<setting, lists, feed, store, named, history>>

LEMMA EditSteps ==
    ASSUME PathInv
    PROVE  /\ \A s \in Symbols : Add(s) => Adding(s)
           /\ \A s \in Symbols : Remove(s) => Dismissing(s)
           /\ \A s \in Symbols : PassDrops(s) => PassDropping(s)
           /\ PassAdds => PassAdding
           /\ \A t \in Threads : Drop(t) => \E r \in Symbols : GivingIn(t, r)
<1>0. PathShape /\ Threads = Traders \cup {Pass} /\ Operator \in Traders
  BY ThreadsAre DEF PathInv, Traders
<1>1. ASSUME NEW s \in Symbols, Add(s) PROVE Adding(s)
  <2>1. TrackSymbols(Operator, {s}, TRUE, "idle") /\ Idle(Operator) /\ MayEdit(Operator)
        /\ ("midpass" \in events \/ Idle(Pass) \/ s \notin path[Pass].current)
        /\ picked' = picked \cup {s} /\ gone' = gone \ {s} /\ UNCHANGED <<setting, feed, store, named>>
    BY <1>1 DEF Add
  <2>2. /\ watchlist' = watchlist \cup {s}
        /\ pinned' = (IF TRUE THEN pinned \cup {s} ELSE pinned)
    BY <2>1 DEF TrackSymbols
  <2>3. /\ Others(Operator) /\ PathShape'
        /\ path'[Operator].pc = "readPins" /\ path'[Operator].syms = {s} \ watchlist
        /\ path'[Operator].dropping = FALSE /\ path'[Operator].next = "idle"
        /\ SameTrade(path'[Operator], path[Operator]) /\ path'[Operator].pins = path[Operator].pins
        /\ path'[Operator].held = path[Operator].held
        /\ path'[Operator].current = path[Operator].current
        /\ path'[Operator].drops = path[Operator].drops
    BY <1>0, <2>1, TrackIs
  <2>4. Tracking(Operator, {s}, TRUE, "idle")
    BY <2>1, <2>2, <2>3 DEF Tracking, Idle
  <2>. QED  BY <2>1, <2>4 DEF Adding, Idle
<1>2. ASSUME NEW s \in Symbols, Remove(s) PROVE Dismissing(s)
  <2>1. RemoveSymbol(Operator, s, TRUE, "idle") /\ Idle(Operator) /\ MayEdit(Operator)
        /\ picked' = picked \ {s} /\ gone' = gone /\ UNCHANGED <<setting, feed, store, named>>
    BY <1>2 DEF Remove
  <2>2. /\ watchlist' = watchlist \ {s}
        /\ pinned' = (IF TRUE THEN pinned \ {s} ELSE pinned)
    BY <2>1 DEF RemoveSymbol
  <2>. QED  BY <1>0, <2>1, <2>2, RemoveIs DEF Dismissing, Removing, Idle
<1>3. ASSUME NEW s \in Symbols, PassDrops(s) PROVE PassDropping(s)
  BY <1>3, <1>0, RemoveIs DEF PassDrops, RemoveSymbol, PassDropping, Removing
<1>4. ASSUME PassAdds PROVE PassAdding
  <2>1. TrackSymbols(Pass, path[Pass].adds, FALSE, "apply") /\ path[Pass].pc \in {"change", "apply"}
        /\ (path[Pass].pc = "change" => MayEdit(Pass)) /\ UNCHANGED <<setting, feed, store, named>>
        /\ picked' = picked /\ gone' = gone \ (path[Pass].adds \ path[Pass].pins)
    BY <1>4 DEF PassAdds
  <2>2. /\ watchlist' = watchlist \cup path[Pass].adds
        /\ pinned' = (IF FALSE THEN pinned \cup path[Pass].adds ELSE pinned)
    BY <2>1 DEF TrackSymbols
  <2>. QED  BY <1>0, <2>1, <2>2, TrackIs DEF PassAdding, Tracking
<1>5. ASSUME NEW t \in Threads, Drop(t) PROVE \E r \in Symbols : GivingIn(t, r)
  <2>1. path[t].pc = "drop" /\ MayEdit(t) /\ ("midpass" \in events \/ Idle(Pass))
        /\ UNCHANGED <<setting, feed, store, named>>
    BY <1>5 DEF Drop
  <2>2. PICK r \in path[t].trade :
            RemoveSymbol(t, r, TRUE, "clearStreak") /\ picked' = picked \ {r} /\ gone' = gone \cup {r}
    BY <1>5 DEF Drop
  <2>3. t \in Traders /\ r \in Symbols
    BY <1>0, <2>1, <2>2 DEF PathInv, PasserOK, TraderOK, PassSteps, Chain
  <2>4. /\ watchlist' = watchlist \ {r}
        /\ pinned' = (IF TRUE THEN pinned \ {r} ELSE pinned)
    BY <2>2 DEF RemoveSymbol
  <2>5. Removing(t, r, TRUE, "clearStreak")
    BY <1>0, <2>1, <2>2, <2>4, RemoveIs DEF Removing
  <2>. QED  BY <2>1, <2>2, <2>3, <2>5 DEF GivingIn
<1>. QED  BY <1>1, <1>2, <1>3, <1>4, <1>5

LEMMA DecidingSteps ==
    ASSUME PathInv, PassStarts \/ ReadPortfolio \/ ReadRecords \/ Screen
    PROVE  Deciding
<1>0. PathShape /\ PasserOK(path[Pass])
  BY DEF PathInv
<1>1. CASE PassStarts
  BY <1>0, <1>1, PassStartsIs DEF PassStarts, Idle, Deciding, PasserOK, PassSteps, SameTrade
<1>2. CASE ReadPortfolio
  BY <1>2, <1>0, ReadPortfolioIs DEF ReadPortfolio, Deciding, PasserOK, PassSteps, SameTrade
<1>3. CASE ReadRecords
  BY <1>3, <1>0, ReadRecordsIs DEF ReadRecords, Deciding, PasserOK, PassSteps, SameTrade
<1>4. CASE Screen
  BY <1>4, <1>0, ScreenIs, RestIs DEF Screen, Deciding, PasserOK, PassSteps, SameTrade
<1>. QED  BY <1>1, <1>2, <1>3, <1>4

(* What any step may do to the lists and to where the threads are.         *)
StepKind ==
    \/ \E t \in Threads : ChainStep(t)
    \/ \E t \in Traders : Trading(t)
    \/ \E s \in Symbols : \/ Adding(s) \/ Dismissing(s) \/ PassDropping(s)
                          \/ \E t \in Traders : GivingIn(t, s)
    \/ PassAdding \/ Deciding \/ PassEnds \/ Restart \/ Still

LEMMA StepIs == ASSUME PathInv, [Next]_vars PROVE StepKind
<1>0. PathShape
  BY DEF PathInv
<1>1. ASSUME NEW t \in Threads, ThreadStep(t) PROVE StepKind
  <2>1. CASE \/ ReadPins(t) \/ SavePins(t) \/ AddBars(t) \/ Subscribe(t) \/ RemoveBars(t)
             \/ Unsubscribe(t) \/ ReadList(t) \/ SaveList(t)
    BY <1>0, <2>1, ChainSteps DEF StepKind
  <2>2. CASE \/ Confirmed(t) \/ \E outcome \in {"none", "resting", "unconfirmed"} : Unconfirmed(t, outcome)
             \/ \E lost \in BOOLEAN : NoteRealizedClose(t, lost)
             \/ ClearStreak(t) \/ CommentOut(t) \/ RecordClose(t) \/ Sync(t)
    BY <2>2, TradeSteps1 DEF StepKind, Trading
  <2>3. CASE Drop(t)
    <3>1. PICK r \in Symbols : GivingIn(t, r)
      BY <2>3, EditSteps
    <3>. QED  BY <3>1 DEF StepKind, GivingIn
  <2>. QED  BY <1>1, <2>1, <2>2, <2>3 DEF ThreadStep
<1>2. CASE PassStep
  BY <1>0, <1>2, DecidingSteps, EditSteps DEF StepKind, PassStep
<1>3. ASSUME NEW s \in Symbols, Add(s) \/ Remove(s) PROVE StepKind
  BY <1>3, EditSteps DEF StepKind
<1>4. ASSUME NEW s \in Symbols, NEW t \in {Loop, Operator},
             Buy(t, s) \/ \E whole \in BOOLEAN : Sell(t, s, whole)
      PROVE  StepKind
  BY <1>4, TradeSteps2 DEF Traders, StepKind
<1>5. ASSUME NEW s \in Symbols,
             \/ Clear(s) \/ Forget(s) \/ Fills(s) \/ WatcherWakes(s) \/ CheckExits(s) \/ Tick(s)
             \/ \E level \in 1..setting.topPrice[s] : PriceMoves(s, level)
      PROVE  StepKind
  BY <1>5, StillSteps DEF StepKind
<1>6. CASE Restart
  BY <1>6 DEF StepKind
<1>7. CASE UNCHANGED vars
  BY <1>7 DEF StepKind, Still, vars, lists, feed, store, history
<1>. QED  BY <1>1, <1>2, <1>3, <1>4, <1>5, <1>6, <1>7 DEF Next

LEMMA PathInit == ASSUME Init PROVE PathInv
BY ThreadsAre, RestIs DEF Init, PathInv, PathShape, TraderOK, PasserOK, PassSteps, TradeSteps, Chain

LEMMA OneTrader ==
    ASSUME PathInv, NEW t \in Traders, Others(t), PathShape', TraderOK(path'[t])
    PROVE  PathInv'
BY ThreadsAre DEF PathInv, Others

LEMMA OnePasser ==
    ASSUME PathInv, Others(Pass), PathShape', PasserOK(path'[Pass])
    PROVE  PathInv'
BY ThreadsAre DEF PathInv, Others

LEMMA PathStep == ASSUME PathInv, [Next]_vars PROVE PathInv'
<1>0. PathShape /\ Threads = Traders \cup {Pass} /\ Operator \in Traders /\ PasserOK(path[Pass])
  BY ThreadsAre DEF PathInv, Traders
<1>1. ASSUME NEW t \in Threads, ChainStep(t) PROVE PathInv'
  <2>1. Others(t) /\ PathShape' /\ path'[t].trade = path[t].trade /\ path'[t].pins = path[t].pins
        /\ path[t].pc \in Chain
    BY <1>1 DEF ChainStep, SameTrade, SamePass
  <2>2. \/ path'[t].pc = path[t].next
        \/ path'[t].pc \in Chain /\ path'[t].next = path[t].next
    BY <1>1 DEF ChainStep, Edits
  <2>3. CASE t \in Traders
    BY <2>3, <2>1, <2>2, OneTrader DEF PathInv, TraderOK, TradeSteps, Chain
  <2>4. CASE t = Pass
    BY <1>0, <2>1, <2>2, <2>4, OnePasser DEF PasserOK, PassSteps, Chain
  <2>. QED  BY <1>0, <2>3, <2>4
<1>2. ASSUME NEW t \in Traders, Trading(t) PROVE PathInv'
  BY <1>2, OneTrader DEF Trading, TraderOK, TradeSteps, Chain
<1>3. ASSUME NEW t \in Traders, NEW s, NEW next, Removing(t, s, TRUE, next), TraderOK(path[t]),
             next = "clearStreak" \/ (next = "idle" /\ path[t].pc = "idle")
      PROVE  PathInv'
  BY <1>3, OneTrader DEF Removing, TraderOK, SameTrade, Chain
<1>4. ASSUME NEW s, Adding(s) PROVE PathInv'
  BY <1>0, <1>4, OneTrader DEF PathInv, Adding, Tracking, TraderOK, SameTrade, Chain
<1>5. ASSUME NEW s, PassDropping(s) PROVE PathInv'
  BY <1>0, <1>5, OnePasser DEF PassDropping, Removing, PasserOK, SameTrade, Chain, PassSteps
<1>6. CASE PassAdding
  BY <1>0, <1>6, OnePasser DEF PassAdding, Tracking, PasserOK, SameTrade, Chain, PassSteps
<1>7. CASE Deciding
  BY <1>0, <1>7, OnePasser DEF Deciding, PasserOK, Chain, PassSteps
<1>8. CASE PassEnds
  BY <1>0, <1>8, PassEndsIs, RestIs, OnePasser DEF PasserOK, Chain, PassSteps
<1>9. CASE Restart
  BY <1>0, <1>9, RestartIs, RestIs DEF PathInv, TraderOK, PasserOK, PassSteps, TradeSteps, Chain
<1>10. CASE Still
  BY <1>10 DEF Still, PathInv, PathShape
<1>11. ASSUME NEW s \in Symbols, Dismissing(s) PROVE PathInv'
  BY <1>0, <1>3, <1>11 DEF PathInv, Dismissing
<1>12. ASSUME NEW s \in Symbols, NEW t \in Traders, GivingIn(t, s) PROVE PathInv'
  BY <1>3, <1>12 DEF PathInv, GivingIn
<1>. QED  BY StepIs, <1>1, <1>2, <1>4, <1>5, <1>6, <1>7, <1>8, <1>9, <1>10, <1>11, <1>12 DEF StepKind

-----------------------------------------------------------------------------
(* What is tracked, fed and stored                                         *)

Serial == "overlap" \notin events
Alone(t) == \A u \in Threads \ {t} : ~Editing(u)
AllAgree ==
    bars = watchlist /\ subscribed = watchlist /\ storedList = watchlist /\ storedPins = picked

(* How far an edit has come.                                               *)
EditInv(t) ==
    LET p == path[t]
        behind == p.pc \in {"readPins", "savePins"} IN
    /\ p.pc \in {"apply", "clearStreak", "editFile"} => AllAgree
    /\ p.pc = "savePins" => p.snap = pinned
    /\ p.pc \in Chain /\ ~behind => storedPins = picked
    /\ behind /\ ~p.dropping =>
          /\ bars \cup p.syms = watchlist /\ subscribed \cup p.syms = watchlist
          /\ p.syms = {} => storedList = watchlist
    /\ behind /\ p.dropping => bars \ p.syms = watchlist /\ subscribed \ p.syms = watchlist
    /\ p.pc = "addBars" => bars \cup p.syms = watchlist /\ subscribed \cup p.syms = watchlist
    /\ p.pc = "subscribe" => bars = watchlist /\ subscribed \cup p.syms = watchlist
    /\ p.pc = "removeBars" => bars \ p.syms = watchlist /\ subscribed \ p.syms = watchlist
    /\ p.pc = "unsubscribe" => bars = watchlist /\ subscribed \ p.syms = watchlist
    /\ p.pc \in {"readList", "saveList"} => bars = watchlist /\ subscribed = watchlist
    /\ p.pc = "saveList" => p.snap = watchlist

(* One thread edits at a time, and between edits everything agrees.        *)
ListsInv ==
    Serial =>
      /\ \A t, u \in Threads : Editing(t) /\ Editing(u) => t = u
      /\ pinned = picked
      /\ (\A t \in Threads : ~Editing(t)) => AllAgree
      /\ \A t \in Threads : EditInv(t)

LEMMA Free ==
    ASSUME NEW t \in Threads, ~Editing(t)
    PROVE  EditInv(t)
BY DEF Editing, EditInv, Chain

LEMMA ListsInit == ASSUME Init PROVE ListsInv
<1>1. \A t \in Threads : ~Editing(t)
  BY RestIs DEF Init, Editing
<1>. QED  BY <1>1, Free DEF Init, ListsInv, AllAgree

(* An edit by a thread that is alone in it.                                *)
LEMMA OneEditor ==
    ASSUME NEW t \in Threads, Others(t), Alone(t), pinned' = picked', EditInv(t)',
           ~Editing(t)' => AllAgree'
    PROVE  ListsInv'
<1>1. \A u \in Threads \ {t} : ~Editing(u)'
  BY DEF Alone, Others, Editing
<1>2. \A u \in Threads \ {t} : EditInv(u)'
  BY <1>1 DEF EditInv, Editing, Chain
<1>. QED  BY <1>1, <1>2 DEF ListsInv

(* A step that leaves the lists alone and starts no edit.                  *)
LEMMA NoEdit ==
    ASSUME ListsInv, NEW t \in Threads, Others(t), UNCHANGED <<setting, lists, feed, store, picked>>,
           ~Editing(t)' \/ (path[t].pc = "clearStreak" /\ path'[t].pc = "editFile"),
           Editing(t) => path[t].pc \in {"apply", "clearStreak", "editFile"}
    PROVE  ListsInv'
<1>0. SUFFICES ASSUME Serial PROVE ListsInv'
  BY DEF Serial, events, ListsInv
<1>1. /\ watchlist' = watchlist /\ pinned' = pinned /\ bars' = bars /\ subscribed' = subscribed
      /\ storedList' = storedList /\ storedPins' = storedPins /\ picked' = picked
  BY DEF lists, feed, store
<1>2. AllAgree' <=> AllAgree
  BY <1>1 DEF AllAgree
<1>3. \A u \in Threads \ {t} : (Editing(u)' <=> Editing(u)) /\ (EditInv(u)' <=> EditInv(u))
  BY <1>1, <1>2 DEF Others, Editing, EditInv
<1>4. Editing(t)' => Editing(t)
  BY DEF Editing
<1>5. Editing(t) => AllAgree
  BY <1>0 DEF ListsInv, EditInv
<1>6. EditInv(t)'
  BY <1>2, <1>4, <1>5 DEF Editing, EditInv, Chain
<1>. QED  BY <1>0, <1>1, <1>2, <1>3, <1>4, <1>5, <1>6 DEF ListsInv

LEMMA MayEditIs ==
    ASSUME ListsInv, Serial, NEW t \in Threads, MayEdit(t), ~Editing(t)
    PROVE  Alone(t) /\ AllAgree
BY DEF ListsInv, Serial, MayEdit, Alone

LEMMA EditStep ==
    ASSUME PathInv, ListsInv, Serial, NEW t \in Threads, ChainStep(t)
    PROVE  EditInv(t)' /\ (~Editing(t)' => AllAgree')
<1> DEFINE p == path[t]
           q == path'[t]
<1>1. /\ watchlist' = watchlist /\ pinned' = pinned /\ picked' = picked
      /\ p.pc \in Chain /\ p.next \in {"apply", "clearStreak", "idle"}
  BY ThreadsAre DEF ChainStep, lists, history, PathInv, TraderOK, PasserOK
<1>2. EditInv(t) /\ pinned = picked
  BY DEF ListsInv
<1>3. CASE q.pc = p.next
  <2>1. bars' = bars /\ subscribed' = subscribed
    BY <1>1, <1>3 DEF ChainStep, Edits, feed, Chain
  <2>2. CASE p.pc = "savePins" /\ ~p.dropping /\ p.syms = {} /\ storedPins' = p.snap /\ storedList' = storedList
    BY <1>1, <1>2, <2>1, <2>2, <1>3 DEF EditInv, AllAgree, Chain
  <2>3. CASE p.pc = "saveList" /\ storedList' = p.snap /\ storedPins' = storedPins
    BY <1>1, <1>2, <2>1, <2>3, <1>3 DEF EditInv, AllAgree, Chain
  <2>. QED  BY <1>1, <1>3, <2>2, <2>3 DEF ChainStep, Edits, Chain
<1>4. CASE q.pc # p.next
  <2>0. /\ q.pc \in Chain /\ q.syms = p.syms /\ q.dropping = p.dropping
        /\ Editing(t)'
    BY <1>4 DEF ChainStep, Edits, Chain, Editing
  <2>1. CASE p.pc = "readPins" /\ q.pc = "savePins" /\ q.snap = pinned /\ UNCHANGED <<feed, store>>
    BY <1>1, <1>2, <2>0, <2>1 DEF EditInv, Chain, feed, store
  <2>2. CASE p.pc = "savePins" /\ q.pc = (IF p.dropping THEN "removeBars" ELSE "addBars")
             /\ storedPins' = p.snap /\ UNCHANGED <<feed, storedList>>
    BY <1>1, <1>2, <2>0, <2>2 DEF EditInv, Chain, feed
  <2>3. CASE p.pc = "addBars" /\ q.pc = "subscribe" /\ bars' = bars \cup p.syms
             /\ UNCHANGED <<subscribed, store>>
    BY <1>1, <1>2, <2>0, <2>3 DEF EditInv, Chain, store
  <2>4. CASE p.pc = "subscribe" /\ q.pc = "readList" /\ subscribed' = subscribed \cup p.syms
             /\ UNCHANGED <<bars, store>>
    BY <1>1, <1>2, <2>0, <2>4 DEF EditInv, Chain, store
  <2>5. CASE p.pc = "removeBars" /\ q.pc = "unsubscribe" /\ bars' = bars \ p.syms
             /\ UNCHANGED <<subscribed, store>>
    BY <1>1, <1>2, <2>0, <2>5 DEF EditInv, Chain, store
  <2>6. CASE p.pc = "unsubscribe" /\ q.pc = "readList" /\ subscribed' = subscribed \ p.syms
             /\ UNCHANGED <<bars, store>>
    BY <1>1, <1>2, <2>0, <2>6 DEF EditInv, Chain, store
  <2>7. CASE p.pc = "readList" /\ q.pc = "saveList" /\ q.snap = watchlist /\ UNCHANGED <<feed, store>>
    BY <1>1, <1>2, <2>0, <2>7 DEF EditInv, Chain, feed, store
  <2>. QED  BY <1>4, <2>1, <2>2, <2>3, <2>4, <2>5, <2>6, <2>7 DEF ChainStep, Edits
<1>. QED  BY <1>3, <1>4

(* A removal and an addition, by a thread that may edit.                   *)
LEMMA RemovingEdits ==
    ASSUME ListsInv, Serial, NEW t \in Threads, NEW s, NEW unpin, NEW next, Removing(t, s, unpin, next),
           picked' = (IF unpin THEN picked \ {s} ELSE picked)
    PROVE  ListsInv'
<1>1. Alone(t) /\ AllAgree
  BY MayEditIs DEF ListsInv, EditInv, Alone, Editing, Removing
<1>2. /\ bars' = bars /\ subscribed' = subscribed /\ storedList' = storedList
      /\ storedPins' = storedPins /\ watchlist' = watchlist \ {s}
      /\ path'[t].pc = "readPins" /\ path'[t].syms = {s} /\ path'[t].dropping = TRUE
  BY DEF Removing, feed, store
<1>3. EditInv(t)' /\ Editing(t)'
  BY <1>1, <1>2 DEF EditInv, Editing, AllAgree, Chain
<1>4. pinned' = picked'
  BY DEF Removing, ListsInv
<1>. QED  BY <1>1, <1>3, <1>4, OneEditor DEF Removing

LEMMA TrackingEdits ==
    ASSUME ListsInv, Serial, NEW t \in Threads, NEW syms, NEW pin \in BOOLEAN, NEW next,
           Tracking(t, syms, pin, next), next \in {"idle", "apply"},
           picked' = (IF pin THEN picked \cup syms ELSE picked)
    PROVE  ListsInv'
<1>1. Alone(t) /\ AllAgree
  BY MayEditIs DEF ListsInv, EditInv, Alone, Editing, Tracking
<1>2. /\ bars' = bars /\ subscribed' = subscribed /\ storedList' = storedList
      /\ storedPins' = storedPins /\ watchlist' = watchlist \cup syms
      /\ path'[t].syms = syms \ watchlist /\ path'[t].dropping = FALSE
  BY DEF Tracking, feed, store
<1>3. pinned' = picked'
  BY DEF Tracking, ListsInv
<1>4. CASE pin
  BY <1>4, <1>1, <1>2, <1>3, OneEditor DEF Tracking, EditInv, Editing, AllAgree, Chain
<1>5. CASE ~pin /\ syms \ watchlist = {}
  BY <1>5, <1>1, <1>2, <1>3, OneEditor DEF Tracking, AllAgree, EditInv, Chain
<1>6. CASE ~pin /\ syms \ watchlist # {}
  BY <1>6, <1>1, <1>2, <1>3, OneEditor DEF Tracking, EditInv, Editing, AllAgree, Chain
<1>. QED  BY <1>4, <1>5, <1>6

LEMMA ListsStep == ASSUME PathInv, ListsInv, [Next]_vars PROVE ListsInv'
<1>0. PathShape /\ Threads = Traders \cup {Pass} /\ Operator \in Threads
  BY ThreadsAre DEF PathInv, Threads
<1>1. SUFFICES ASSUME Serial' PROVE ListsInv'
  BY DEF ListsInv
<1>2. setting' = setting
  BY StepIs DEF StepKind, ChainStep, Trading, Adding, Dismissing, PassDropping, GivingIn, PassAdding,
                Tracking, Removing, Deciding, PassEnds, Restart, Still
<1>3. Serial
  BY <1>1, <1>2 DEF Serial, events
<1>4. ASSUME NEW t \in Threads, ChainStep(t) PROVE ListsInv'
  BY <1>3, <1>4, EditStep, OneEditor DEF ListsInv, Alone, ChainStep, Editing, Chain, lists, history
<1>5. ASSUME NEW t \in Traders, Trading(t) PROVE ListsInv'
  BY <1>5, <1>0, NoEdit DEF Trading, TradeSteps, Editing, history
<1>6. ASSUME NEW s \in Symbols, Adding(s) PROVE ListsInv'
  BY <1>0, <1>3, <1>6, TrackingEdits DEF Adding
<1>7. CASE PassAdding
  BY <1>0, <1>3, <1>7, TrackingEdits DEF PassAdding
<1>8. ASSUME NEW s \in Symbols, Dismissing(s) PROVE ListsInv'
  BY <1>0, <1>3, <1>8, RemovingEdits DEF Dismissing
<1>9. ASSUME NEW s \in Symbols, PassDropping(s) PROVE ListsInv'
  BY <1>0, <1>3, <1>9, RemovingEdits DEF PassDropping, history
<1>10. ASSUME NEW s \in Symbols, NEW t \in Traders, GivingIn(t, s) PROVE ListsInv'
  BY <1>0, <1>3, <1>10, RemovingEdits DEF GivingIn
<1>11. CASE Deciding
  BY <1>11, <1>0, NoEdit DEF Deciding, PassSteps, Editing, history
<1>12. CASE PassEnds
  BY <1>12, <1>0, PassEndsIs, RestIs, NoEdit DEF PassEnds, history, Editing
<1>13. CASE Restart
  <2>1. \A t \in Threads : ~Editing(t)'
    BY <1>13, RestartIs, RestIs DEF Editing
  <2>2. pinned' = picked' /\ AllAgree'
    BY <1>13, <1>3 DEF Restart, ListsInv, AllAgree
  <2>3. \A t \in Threads : EditInv(t)'
    BY <2>1 DEF EditInv, Editing, Chain
  <2>. QED  BY <2>1, <2>2, <2>3 DEF ListsInv
<1>14. CASE Still
  <2>1. /\ watchlist' = watchlist /\ pinned' = pinned /\ bars' = bars /\ subscribed' = subscribed
        /\ storedList' = storedList /\ storedPins' = storedPins /\ picked' = picked /\ path' = path
        /\ setting' = setting
    BY <1>14 DEF Still, lists, feed, store, history
  <2>. QED  BY <2>1 DEF ListsInv, Serial, events, Editing, EditInv, AllAgree
<1>. QED  BY StepIs, <1>4, <1>5, <1>6, <1>7, <1>8, <1>9, <1>10, <1>11, <1>12, <1>13, <1>14
          DEF StepKind

(* A symbol given up is in no list; until the edit of the file it may still *)
(* be in that.                                                             *)
GivingUp(t) ==
    \/ path[t].pc \in {"clearStreak", "editFile"}
    \/ path[t].pc \in Chain /\ path[t].next = "clearStreak"
GoneInv ==
    events \cap {"overlap", "midpass", "crash", "fileFails"} = {} =>
      /\ gone \cap watchlist = {} /\ gone \cap pinned = {} /\ gone \cap path[Pass].pins = {}
      /\ \A s \in gone \cap named : \E t \in Threads : GivingUp(t) /\ s \in path[t].trade

LEMMA GoneInit == ASSUME Init PROVE GoneInv
BY RestIs DEF Init, GoneInv

LEMMA SameGiving ==
    ASSUME GoneInv, NEW t \in Threads, Others(t), UNCHANGED <<named, gone, setting>>,
           watchlist' \cap gone = {}, pinned' \cap gone = {}, path'[Pass].pins \cap gone = {},
           GivingUp(t) => GivingUp(t)' /\ path'[t].trade = path[t].trade
    PROVE  GoneInv'
<1>1. \A u \in Threads \ {t} : (GivingUp(u)' <=> GivingUp(u)) /\ path'[u].trade = path[u].trade
  BY DEF Others, GivingUp
<1>. QED  BY <1>1 DEF GoneInv, events

LEMMA GoneStep == ASSUME PathInv, ListsInv, GoneInv, [Next]_vars PROVE GoneInv'
<1>0. PathShape /\ Threads = Traders \cup {Pass} /\ Operator \in Traders /\ Pass \notin Traders
      /\ PasserOK(path[Pass]) /\ \A t \in Traders : TraderOK(path[t])
  BY ThreadsAre DEF PathInv, Traders
<1> DEFINE Kept == {"overlap", "midpass", "crash", "fileFails"}
<1>1. SUFFICES ASSUME (events \cap Kept = {})' PROVE GoneInv'
  BY DEF GoneInv
<1>2. setting' = setting
  BY StepIs DEF StepKind, ChainStep, Trading, Adding, Dismissing, PassDropping, GivingIn, PassAdding,
                Tracking, Removing, Deciding, PassEnds, Restart, Still
<1>3. /\ "overlap" \notin events /\ "midpass" \notin events /\ "crash" \notin events
      /\ "fileFails" \notin events
      /\ gone \cap watchlist = {} /\ gone \cap pinned = {} /\ gone \cap path[Pass].pins = {}
      /\ \A s \in gone \cap named : \E t \in Threads : GivingUp(t) /\ s \in path[t].trade
  BY <1>1, <1>2 DEF events, GoneInv
<1>4. ASSUME NEW t \in Threads, ChainStep(t) PROVE GoneInv'
  <2>1. GivingUp(t) => GivingUp(t)' /\ path'[t].trade = path[t].trade
    BY <1>4 DEF ChainStep, Edits, GivingUp, SameTrade, Chain
  <2>2. /\ UNCHANGED <<named, gone, setting, watchlist, pinned>> /\ Others(t)
        /\ path'[Pass].pins = path[Pass].pins
    BY <1>0, <1>4 DEF ChainStep, lists, history, SamePass, Others
  <2>. QED  BY <1>3, <2>1, <2>2, SameGiving
<1>5. ASSUME NEW t \in Traders, Trading(t) PROVE GoneInv'
  <2>1. /\ UNCHANGED <<gone, watchlist, pinned>> /\ Others(t) /\ path'[Pass].pins = path[Pass].pins
    BY <1>0, <1>5 DEF Trading, lists, history, Others
  <2>2. GivingUp(t) => path[t].pc \in {"clearStreak", "editFile"}
    BY <1>5 DEF Trading, GivingUp, TradeSteps, Chain
  <2>3. \A u \in Threads \ {t} : (GivingUp(u)' <=> GivingUp(u)) /\ path'[u].trade = path[u].trade
    BY <2>1 DEF Others, GivingUp
  <2>4. CASE path[t].pc = "editFile"
    BY <1>3, <1>5, <2>4, <2>1, <2>3 DEF Trading, GoneInv
  <2>5. CASE path[t].pc = "clearStreak"
    BY <1>5, <2>5, <1>3, <2>1, <2>3 DEF Trading, GivingUp, GoneInv
  <2>6. CASE path[t].pc \notin {"clearStreak", "editFile"}
    BY <1>5, <2>6, <1>3, <2>1, <2>2, <2>3 DEF Trading, GoneInv
  <2>. QED  BY <2>4, <2>5, <2>6
<1>6. ASSUME NEW s \in Symbols, Adding(s) PROVE GoneInv'
  BY <1>0, <1>6, <1>3 DEF Adding, Tracking, Others, GivingUp, Chain, GoneInv
<1>7. CASE PassAdding
  BY <1>0, <1>7, <1>3 DEF PassAdding, Tracking, GivingUp, Chain, Others, GoneInv
<1>8. ASSUME NEW s \in Symbols, Dismissing(s) PROVE GoneInv'
  BY <1>0, <1>8, <1>2, <1>3, SameGiving DEF Dismissing, Removing, Others, GivingUp, Chain
<1>9. ASSUME NEW s \in Symbols, PassDropping(s) PROVE GoneInv'
  BY <1>0, <1>9, <1>2, <1>3, SameGiving DEF PassDropping, Removing, history, GivingUp, Chain
<1>10. ASSUME NEW s \in Symbols, NEW t \in Traders, GivingIn(t, s) PROVE GoneInv'
  <2>1. /\ Others(t) /\ named' = named /\ gone' = gone \cup {s}
        /\ watchlist' = watchlist \ {s} /\ pinned' = pinned \ {s}
        /\ path'[Pass].pins = path[Pass].pins /\ Idle(Pass)
        /\ path'[t].trade = path[t].trade /\ s \in path[t].trade
    BY <1>0, <1>3, <1>10 DEF GivingIn, Removing, Others, SameTrade
  <2>2. GivingUp(t)' /\ path[Pass].pins = {}
    BY <1>0, <1>10, <2>1 DEF GivingIn, Removing, GivingUp, Chain, PasserOK, Idle
  <2>3. \A u \in Threads \ {t} : (GivingUp(u)' <=> GivingUp(u)) /\ path'[u].trade = path[u].trade
    BY <2>1 DEF Others, GivingUp
  <2>. QED  BY <1>0, <1>3, <2>1, <2>2, <2>3 DEF GoneInv
<1>11. CASE Deciding
  BY <1>0, <1>11, <1>3, <1>2, SameGiving DEF Deciding, GivingUp, PassSteps, Chain, lists, history
<1>12. CASE PassEnds
  <2>1. /\ Others(Pass) /\ UNCHANGED <<named, gone, watchlist, pinned>>
        /\ path'[Pass].pins = {} /\ ~GivingUp(Pass)
    BY <1>0, <1>12, PassEndsIs, RestIs DEF PassEnds, GivingUp, Chain, lists, history
  <2>. QED  BY <1>0, <1>2, <1>3, <2>1, SameGiving
<1>13. CASE Restart
  <2>1. \A t \in Threads : Idle(t)
    BY <1>3, <1>13 DEF Restart
  <2>2. AllAgree /\ pinned = picked
    BY <1>3, <2>1 DEF ListsInv, Serial, Idle, Editing
  <2>3. gone \cap named = {}
    BY <1>3, <2>1 DEF Idle, GivingUp, Chain
  <2>4. /\ watchlist' = watchlist \cup named /\ pinned' = pinned \cup named
        /\ gone' = gone /\ named' = named
    BY <1>13, <2>2 DEF Restart, AllAgree
  <2>5. path'[Pass].pins = {}
    BY <1>0, <1>13, RestartIs, RestIs
  <2>. QED  BY <1>3, <2>3, <2>4, <2>5 DEF GoneInv
<1>14. CASE Still
  BY <1>3, <1>14 DEF Still, lists, history, GoneInv, GivingUp
<1>. QED  BY StepIs, <1>4, <1>5, <1>6, <1>7, <1>8, <1>9, <1>10, <1>11, <1>12, <1>13, <1>14
          DEF StepKind

LEMMA ListsAlways == Spec => [](PathInv /\ ListsInv /\ GoneInv)
<1>1. Init => PathInv /\ ListsInv /\ GoneInv
  BY PathInit, ListsInit, GoneInit
<1>2. PathInv /\ ListsInv /\ GoneInv /\ [Next]_vars => (PathInv /\ ListsInv /\ GoneInv)'
  BY PathStep, ListsStep, GoneStep
<1>. QED  BY <1>1, <1>2, PTL DEF Spec

(* Whatever was screened, dropped, restarted or cut off, between edits the *)
(* watchlist, its bars, its feed and the store agree on what is tracked,   *)
(* the pins are the operator's picks, and nothing given up comes back      *)
(* unless he or a ranking wants it (engine.go, trackSymbols and            *)
(* removeSymbol).                                                          *)
THEOREM ListsStayTrue == Spec => []ListsAreTrue
<1>1. PathInv /\ ListsInv /\ GoneInv => ListsAreTrue
  <2>1. ListsInv => ListsAgree
    BY DEF ListsInv, ListsAgree, Serial, AllAgree
  <2>2. ListsInv /\ GoneInv => GivenUpStaysGone
    <3>1. SUFFICES ASSUME ListsInv, GoneInv, \A t \in Threads : ~Editing(t),
                          events \cap {"overlap", "midpass", "crash", "fileFails"} = {}
                   PROVE  gone \cap UNION {watchlist, pinned, storedList, storedPins, named} = {}
      BY DEF GivenUpStaysGone
    <3>2. AllAgree /\ pinned = picked
      BY <3>1 DEF ListsInv, Serial
    <3>3. gone \cap watchlist = {} /\ gone \cap pinned = {} /\ gone \cap named = {}
      BY <3>1 DEF GoneInv, GivingUp, Editing, Chain
    <3>. QED  BY <3>2, <3>3 DEF AllAgree
  <2>. QED  BY <2>1, <2>2 DEF ListsAreTrue
<1>. QED  BY <1>1, ListsAlways, PTL

-----------------------------------------------------------------------------
(* Positions                                                               *)

Typed ==
    /\ price \in [Symbols -> Nat \ {0}]
    /\ shares \in [Symbols -> 0..2] /\ cached \in [Symbols -> 0..2]
    /\ buying \in [Symbols -> {"none", "sent", "resting", "unconfirmed", "lost"}]
    /\ landed \in [Symbols -> BOOLEAN]
    /\ recorded \in [Symbols -> Nat] /\ peaks \in [Symbols -> Nat]

LEMMA TypedInit == ASSUME Init PROVE Typed
BY DEF Init, Typed

LEMMA HigherIs ==
    ASSUME NEW m \in Nat, NEW n \in Nat
    PROVE  Higher(m, n) \in Nat /\ Higher(m, n) >= m /\ Higher(m, n) >= n
           /\ (Higher(m, n) = m \/ Higher(m, n) = n)
BY DEF Higher

LEMMA TypedStep == ASSUME PathInv, Typed, [Next]_vars PROVE Typed'
<1>0. /\ price \in [Symbols -> Nat \ {0}]
      /\ shares \in [Symbols -> 0..2] /\ cached \in [Symbols -> 0..2]
      /\ buying \in [Symbols -> {"none", "sent", "resting", "unconfirmed", "lost"}]
      /\ landed \in [Symbols -> BOOLEAN]
      /\ recorded \in [Symbols -> Nat] /\ peaks \in [Symbols -> Nat]
  BY DEF Typed
<1>1. ASSUME UNCHANGED <<price, position, peaks>> PROVE Typed'
  BY <1>1 DEF Typed, position
<1>2. ASSUME NEW t, NEW s, NEW unpin, NEW next, RemoveSymbol(t, s, unpin, next),
             UNCHANGED <<price, position>>
      PROVE  Typed'
  BY <1>2, <1>0 DEF RemoveSymbol, Typed, position
<1>3. ASSUME NEW t, Confirmed(t) PROVE Typed'
  <2>1. PICK s \in path[t].trade :
          /\ recorded' = [recorded EXCEPT ![s] = price[s]]
          /\ peaks' = [peaks EXCEPT ![s] = Higher(@, price[s])]
          /\ buying' = [buying EXCEPT ![s] = "none"]
          /\ landed' = [landed EXCEPT ![s] = FALSE]
    BY <1>3 DEF Confirmed
  <2>2. UNCHANGED <<price, shares, cached>>
    BY <1>3 DEF Confirmed
  <2>3. recorded' \in [Symbols -> Nat] /\ buying' \in [Symbols -> {"none", "sent", "resting", "unconfirmed", "lost"}]
        /\ landed' \in [Symbols -> BOOLEAN]
    BY <1>0, <2>1
  <2>4. peaks' \in [Symbols -> Nat]
    BY <1>0, HigherIs, <2>1
  <2>. QED  BY <1>0, <2>2, <2>3, <2>4 DEF Typed
<1>4. ASSUME NEW t, NEW outcome \in {"none", "resting", "unconfirmed"}, Unconfirmed(t, outcome)
      PROVE  Typed'
  BY <1>0, <1>4 DEF Typed, Unconfirmed
<1>5. ASSUME NEW t, RecordClose(t) PROVE Typed'
  BY <1>0, <1>5 DEF Typed, RecordClose
<1>6. ASSUME NEW t, Sync(t) PROVE Typed'
  <2>1. PICK seen \in SUBSET Symbols, adopted \in SUBSET Symbols : SyncPortfolio(seen, adopted)
    BY <1>6 DEF Sync
  <2>2. UNCHANGED <<price, shares, buying, landed>>
    BY <1>6 DEF Sync
  <2>. QED  BY <1>0, <2>1, <2>2 DEF Typed, SyncPortfolio
<1>7. ASSUME NEW t, NEW s \in Symbols, Buy(t, s) PROVE Typed'
  BY <1>0, <1>7 DEF Typed, Buy
<1>8. ASSUME NEW t, NEW s \in Symbols, NEW whole \in BOOLEAN, Sell(t, s, whole) PROVE Typed'
  <2>1. cached[s] \in 0..2 /\ shares[s] \in 0..2
    BY <1>0
  <2> DEFINE qty == IF whole THEN cached[s] ELSE 1
  <2>2. qty \in 0..2 /\ shares' = [shares EXCEPT ![s] = @ - qty] /\ shares[s] >= qty
    BY <1>8, <2>1 DEF Sell
  <2> HIDE DEF qty
  <2>3. shares' \in [Symbols -> 0..2]
    BY <1>0, <2>1, <2>2
  <2>4. UNCHANGED <<price, cached, buying, landed, recorded, peaks>>
    BY <1>8 DEF Sell
  <2>. QED  BY <1>0, <2>3, <2>4 DEF Typed
<1>9. ASSUME NEW s \in Symbols, Clear(s) \/ Forget(s) \/ WatcherWakes(s) PROVE Typed'
  <2>1. CASE Clear(s)
    BY <1>0, <2>1 DEF Typed, Clear
  <2>2. CASE Forget(s)
    BY <1>0, <2>2 DEF Typed, Forget
  <2>3. CASE WatcherWakes(s)
    BY <1>0, <2>3 DEF Typed, WatcherWakes
  <2>. QED  BY <1>9, <2>1, <2>2, <2>3
<1>10. ASSUME NEW s \in Symbols, Fills(s) PROVE Typed'
  BY <1>10, <1>0 DEF Fills, Typed
<1>11. ASSUME NEW s \in Symbols, CheckExits(s) PROVE Typed'
  BY <1>0, HigherIs, <1>11 DEF CheckExits, Typed
<1>12. ASSUME NEW s \in Symbols, Tick(s) PROVE Typed'
  BY <1>0, HigherIs, <1>12 DEF Typed, Tick, position
<1>13. ASSUME NEW s \in Symbols, NEW level \in 1..setting.topPrice[s], PriceMoves(s, level)
       PROVE  Typed'
  BY <1>0, <1>13 DEF Typed, PriceMoves, position
<1>14. CASE Restart
  BY <1>0, <1>14 DEF Typed, Restart
<1>15. CASE UNCHANGED vars
  BY <1>1, <1>15 DEF vars, position
<1>16. ASSUME NEW t \in Threads, ThreadStep(t) PROVE Typed'
  BY <1>1, <1>2, <1>3, <1>4, <1>5, <1>6, <1>16
     DEF ThreadStep, ReadPins, SavePins, AddBars, Subscribe, RemoveBars, Unsubscribe, ReadList,
         SaveList, NoteRealizedClose, Drop, ClearStreak, CommentOut
<1>17. CASE PassStep
  BY <1>1, <1>2, <1>17
     DEF PassStep, PassStarts, ReadPortfolio, ReadRecords, Screen, PassDrops, PassAdds, PassEnds
<1>18. ASSUME NEW s \in Symbols, Add(s) \/ Remove(s) PROVE Typed'
  BY <1>1, <1>2, <1>18 DEF Add, Remove
<1>. QED  BY <1>7, <1>8, <1>9, <1>10, <1>11, <1>12, <1>13, <1>14, <1>15, <1>16, <1>17, <1>18 DEF Next

(* What holds of a symbol when nothing but a crash or a failing file may   *)
(* come between the steps of a trade, a booking and a pass: a buy in       *)
(* flight has no record, shares the engine does not see are on record or   *)
(* in flight, and the trail is not behind the record; ...                  *)
Calm == events \subseteq {"crash", "fileFails"}
InFlight == {"sent", "resting", "unconfirmed"}

BuyInv(s) ==
    /\ buying[s] \in InFlight => recorded[s] = 0
    /\ buying[s] \notin InFlight => ~landed[s]
    /\ buying[s] # "none" /\ ~landed[s] => shares[s] = 0 /\ cached[s] = 0 /\ recorded[s] = 0
    /\ cached[s] > 0 => shares[s] <= cached[s]
    /\ shares[s] > 0 /\ cached[s] = 0 => recorded[s] > 0 \/ buying[s] \in InFlight
    /\ recorded[s] > 0 /\ (shares[s] > 0 \/ cached[s] > 0) => peaks[s] >= recorded[s]

(* ... a sale being booked is of shares that are gone, ...                 *)
SaleInv(t, s) ==
    /\ buying[s] \in InFlight => landed[s]
    /\ path[t].whole => shares[s] = 0
    /\ cached[s] = 0 => shares[s] = 0
    /\ path[t].pc = "drop" => cached[s] = 0 /\ shares[s] = 0 /\ buying[s] \notin InFlight

(* ... and what a pass read as not held is not.                            *)
Known(s)  == shares[s] = 0 \/ recorded[s] > 0 \/ buying[s] \in InFlight
Absent(s) == shares[s] = 0 /\ recorded[s] = 0 /\ buying[s] \notin InFlight
HeldInv(s) ==
    LET p == path[Pass] IN
    /\ p.pc # "idle" => buying[s] # "sent"
    /\ s \notin p.held /\ p.pc = "readRecords" => Known(s)
    /\ s \notin p.held /\ p.pc \notin {"idle", "readPortfolio", "readRecords"} => Absent(s)

At(s) ==
    /\ BuyInv(s) /\ HeldInv(s)
    /\ \A t \in Threads : s \in path[t].trade =>
          /\ path[t].pc \notin {"sent", "sync"} => SaleInv(t, s)
          /\ path[t].pc = "sent" => buying[s] = "sent"
    /\ \A t, u \in Threads :
          s \in path[t].trade /\ s \in path[u].trade /\ path[t].pc = "sent" /\ path[u].pc = "sent"
            => t = u

CalmInv ==
    Calm =>
      /\ \A s \in Symbols : At(s)
      /\ path[Pass].pc \in Chain \cup {"change", "apply"} => path[Pass].drops \cap path[Pass].held = {}

LEMMA CalmInit == ASSUME Init PROVE CalmInv
<1>1. \A t \in Threads : path[t] = Rest
  BY DEF Init
<1>2. ASSUME NEW s \in Symbols PROVE At(s)
  BY <1>1, RestIs DEF Init, BuyInv, InFlight, HeldInv, Threads, At
<1>. QED  BY <1>1, <1>2, RestIs DEF CalmInv, Threads

(* A symbol that a step does not touch.                                    *)
SameAt(r) ==
    /\ shares'[r] = shares[r] /\ cached'[r] = cached[r] /\ buying'[r] = buying[r]
    /\ landed'[r] = landed[r] /\ recorded'[r] = recorded[r] /\ peaks'[r] = peaks[r]

LEMMA Untouched ==
    ASSUME NEW r \in Symbols, At(r), NEW t \in Traders, Others(t), SameAt(r),
           r \in path'[t].trade =>
             /\ r \in path[t].trade /\ path'[t].whole = path[t].whole
             /\ path[t].pc \in {"sent", "sync"} => path'[t].pc \in {"sent", "sync"}
             /\ path'[t].pc = "drop" => path[t].pc = "drop"
             /\ path'[t].pc = "sent" => path[t].pc = "sent"
    PROVE  At(r)'
<1>1. path'[Pass] = path[Pass] /\ t \in Threads
  BY ThreadsAre DEF Others
<1>2. BuyInv(r)' /\ HeldInv(r)'
  BY <1>1 DEF At, BuyInv, HeldInv, SameAt, Known, Absent
<1>3. ASSUME NEW u \in Threads, r \in path'[u].trade
      PROVE  /\ r \in path[u].trade
             /\ path'[u].pc \notin {"sent", "sync"} => SaleInv(u, r)'
             /\ path'[u].pc = "sent" => buying'[r] = "sent" /\ path[u].pc = "sent"
  <2>1. CASE u = t
    BY <1>3, <2>1 DEF At, SaleInv, SameAt
  <2>2. CASE u # t
    BY <2>2, <1>3 DEF Others, At, SaleInv, SameAt
  <2>. QED  BY <2>1, <2>2
<1>. QED  BY <1>2, <1>3 DEF At

(* A step that moves a thread along and leaves the positions alone, but    *)
(* for the trail of a symbol that is not held or has no record.            *)
LEMMA Along ==
    ASSUME NEW r \in Symbols, At(r), NEW t \in Threads, Others(t), UNCHANGED position,
           path'[t].trade = path[t].trade, path[t].trade = {} \/ path'[t].whole = path[t].whole,
           path[t].pc \notin {"sent", "sync"}, path'[t].pc # "sent",
           r \in path[t].trade /\ path'[t].pc = "drop" =>
              cached[r] = 0 /\ shares[r] = 0 /\ buying[r] \notin InFlight,
           peaks'[r] = peaks[r] \/ recorded[r] = 0 \/ (shares[r] = 0 /\ cached[r] = 0),
           HeldInv(r)',
           recorded[r] \in Nat, shares[r] \in 0..2, cached[r] \in 0..2
    PROVE  At(r)'
<1>1. /\ shares' = shares /\ cached' = cached /\ buying' = buying /\ landed' = landed
      /\ recorded' = recorded
  BY DEF position
<1>2. BuyInv(r)'
  BY <1>1 DEF At, BuyInv
<1>3. ASSUME NEW u \in Threads, r \in path'[u].trade
      PROVE  /\ r \in path[u].trade
             /\ path'[u].pc \notin {"sent", "sync"} => SaleInv(u, r)'
             /\ path'[u].pc = "sent" => buying'[r] = "sent" /\ path[u].pc = "sent"
  <2>1. CASE u = t
    BY <1>1, <1>3, <2>1 DEF At, SaleInv
  <2>2. CASE u # t
    BY <2>2, <1>1, <1>3 DEF Others, At, SaleInv
  <2>. QED  BY <2>1, <2>2
<1>. QED  BY <1>2, <1>3 DEF At

Positions == \A r \in Symbols : At(r)
Numbers ==
    \A r \in Symbols :
        /\ recorded[r] \in Nat /\ shares[r] \in 0..2 /\ cached[r] \in 0..2 /\ peaks[r] \in Nat
        /\ price[r] \in Nat \ {0} /\ landed[r] \in BOOLEAN
        /\ buying[r] \in {"none", "sent", "resting", "unconfirmed", "lost"}

LEMMA NumbersAre == Typed => Numbers
BY DEF Typed, Numbers

(* A step that changes one symbol and no path.                             *)
LEMMA OneSymbol ==
    ASSUME Positions, path' = path, NEW s \in Symbols, \A r \in Symbols \ {s} : SameAt(r),
           BuyInv(s)', Known(s) => Known(s)', Absent(s) => Absent(s)',
           buying'[s] = "sent" <=> buying[s] = "sent",
           \A t \in Threads : SaleInv(t, s) => SaleInv(t, s)'
    PROVE  Positions'
<1>1. ASSUME NEW r \in Symbols \ {s} PROVE At(r)'
  BY <1>1, Untouched DEF Positions, Others, Traders
<1>2. HeldInv(s)'
  BY DEF Positions, At, HeldInv
<1>3. At(s)'
  BY <1>2 DEF Positions, At
<1>. QED  BY <1>1, <1>3 DEF Positions

LEMMA FillsAre ==
    ASSUME Positions, Typed, Calm, NEW s \in Symbols, Fills(s)
    PROVE  Positions'
<1>0. Numbers
  BY NumbersAre
<1>1. buying[s] \in InFlight /\ ~landed[s] /\ path' = path
  BY <1>0 DEF Fills, Calm, Numbers, InFlight
<1>2. /\ shares' = [shares EXCEPT ![s] = 2] /\ landed' = [landed EXCEPT ![s] = buying[s] # "lost"]
      /\ buying' = [buying EXCEPT ![s] = IF @ = "lost" THEN "none" ELSE @]
      /\ cached' = cached /\ recorded' = recorded /\ peaks' = peaks
  BY DEF Fills
<1>3. \A r \in Symbols \ {s} : SameAt(r)
  BY <1>2 DEF SameAt, Typed
<1>4. /\ shares'[s] = 2 /\ landed'[s] = TRUE /\ buying'[s] = buying[s]
      /\ cached'[s] = cached[s] /\ recorded'[s] = recorded[s]
  BY <1>1, <1>2 DEF Typed, InFlight
<1>5. BuyInv(s) /\ \A t \in Threads : SaleInv(t, s) => FALSE
  BY <1>1 DEF Positions, At, SaleInv
<1>6. BuyInv(s)' /\ Known(s)' /\ ~Absent(s)
  BY <1>1, <1>4, <1>5 DEF BuyInv, Known, Absent, InFlight
<1>. QED  BY <1>1, <1>3, <1>4, <1>5, <1>6, OneSymbol

LEMMA WatcherWakesIs ==
    ASSUME Positions, Typed, NEW s \in Symbols, WatcherWakes(s)
    PROVE  Positions'
<1>1. /\ buying[s] = "resting" /\ path' = path
      /\ buying' = [buying EXCEPT ![s] = IF landed[s] THEN "unconfirmed" ELSE "none"]
      /\ shares' = shares /\ cached' = cached /\ landed' = landed /\ recorded' = recorded
      /\ peaks' = peaks
  BY DEF WatcherWakes
<1>2. \A r \in Symbols \ {s} : SameAt(r)
  BY <1>1 DEF SameAt, Typed
<1>3. buying'[s] = IF landed[s] THEN "unconfirmed" ELSE "none"
  BY <1>1 DEF Typed
<1>4. BuyInv(s)
  BY DEF Positions, At
<1>5. BuyInv(s)' /\ Known(s)' /\ ~Absent(s)
  BY <1>1, <1>3, <1>4 DEF BuyInv, Known, Absent, InFlight
<1>6. \A t \in Threads : SaleInv(t, s) => SaleInv(t, s)'
  BY <1>1, <1>3 DEF SaleInv, InFlight
<1>. QED  BY <1>1, <1>2, <1>3, <1>5, <1>6, OneSymbol

LEMMA CheckExitsIs ==
    ASSUME Positions, Typed, NEW s \in Symbols, CheckExits(s)
    PROVE  Positions'
<1>0. Numbers
  BY NumbersAre
<1> DEFINE peak == Higher(peaks[s], price[s])
           top == IF recorded[s] = 0 THEN 0 ELSE Higher(recorded[s], peak)
<1>1. /\ cached[s] > 0 /\ path' = path
      /\ peaks' = [peaks EXCEPT ![s] = peak] /\ recorded' = [recorded EXCEPT ![s] = top]
      /\ shares' = shares /\ cached' = cached /\ landed' = landed /\ buying' = buying
  BY DEF CheckExits
<1>2. peak \in Nat /\ peak >= peaks[s]
  BY <1>0, HigherIs DEF Numbers
<1>3. top \in Nat /\ (top = 0 <=> recorded[s] = 0) /\ (top = 0 \/ top = recorded[s] \/ top = peak)
  <2>1. recorded[s] \in Nat
    BY <1>0 DEF Numbers
  <2> HIDE DEF peak
  <2>2. /\ Higher(recorded[s], peak) \in Nat /\ Higher(recorded[s], peak) >= recorded[s]
        /\ Higher(recorded[s], peak) = recorded[s] \/ Higher(recorded[s], peak) = peak
    BY <1>2, <2>1, HigherIs
  <2>. QED  BY <2>1, <2>2
<1> HIDE DEF peak, top
<1>4. \A r \in Symbols \ {s} : SameAt(r)
  BY <1>1 DEF SameAt, Typed
<1>5. peaks'[s] = peak /\ recorded'[s] = top
  BY <1>1 DEF Typed
<1>6. BuyInv(s) /\ recorded[s] \in Nat /\ peaks[s] \in Nat
  BY <1>0 DEF Positions, At, Numbers
<1>7. BuyInv(s)' /\ (Known(s) => Known(s)') /\ (Absent(s) => Absent(s)')
  BY <1>1, <1>2, <1>3, <1>5, <1>6 DEF BuyInv, Known, Absent
<1>8. \A t \in Threads : SaleInv(t, s) => SaleInv(t, s)'
  BY <1>1 DEF SaleInv
<1>. QED  BY <1>1, <1>4, <1>7, <1>8, OneSymbol

LEMMA TickIs ==
    ASSUME Positions, Typed, NEW s \in Symbols, Tick(s)
    PROVE  Positions'
<1>0. Numbers
  BY NumbersAre
<1>1. /\ path' = path /\ peaks' = [peaks EXCEPT ![s] = Higher(@, price[s])]
      /\ shares' = shares /\ cached' = cached /\ landed' = landed /\ buying' = buying
      /\ recorded' = recorded
  BY DEF Tick, position
<1>2. peaks'[s] \in Nat /\ peaks'[s] >= peaks[s]
  BY <1>0, <1>1, HigherIs DEF Numbers, Typed
<1>3. \A r \in Symbols \ {s} : SameAt(r)
  BY <1>1 DEF SameAt, Typed
<1>4. BuyInv(s) /\ recorded[s] \in Nat /\ peaks[s] \in Nat
  BY <1>0 DEF Positions, At, Numbers
<1>5. BuyInv(s)' /\ (Known(s) => Known(s)') /\ (Absent(s) => Absent(s)')
  BY <1>1, <1>2, <1>4 DEF BuyInv, Known, Absent
<1>6. \A t \in Threads : SaleInv(t, s) => SaleInv(t, s)'
  BY <1>1 DEF SaleInv
<1>. QED  BY <1>1, <1>3, <1>5, <1>6, OneSymbol

LEMMA ForgetIs ==
    ASSUME Positions, Typed, NEW s \in Symbols, Forget(s)
    PROVE  Positions'
<1>1. /\ recorded[s] > 0 /\ cached[s] = 0 /\ shares[s] = 0 /\ path' = path
      /\ peaks' = [peaks EXCEPT ![s] = 0] /\ recorded' = [recorded EXCEPT ![s] = 0]
      /\ shares' = shares /\ cached' = cached /\ landed' = landed /\ buying' = buying
  BY DEF Forget
<1>2. \A r \in Symbols \ {s} : SameAt(r)
  BY <1>1 DEF SameAt, Typed
<1>3. recorded'[s] = 0
  BY <1>1 DEF Typed
<1>4. BuyInv(s)
  BY DEF Positions, At
<1>5. BuyInv(s)' /\ (Known(s) => Known(s)') /\ (Absent(s) => Absent(s)')
  BY <1>1, <1>3, <1>4 DEF BuyInv, Known, Absent
<1>6. \A t \in Threads : SaleInv(t, s) => SaleInv(t, s)'
  BY <1>1 DEF SaleInv
<1>. QED  BY <1>1, <1>2, <1>5, <1>6, OneSymbol

LEMMA NothingMoves ==
    ASSUME Positions, UNCHANGED <<position, peaks, path>>
    PROVE  Positions'
<1>1. ASSUME NEW r \in Symbols PROVE At(r)'
  BY <1>1, Untouched DEF Positions, Others, SameAt, position, Traders
<1>. QED  BY <1>1 DEF Positions

LEMMA ClearIs ==
    ASSUME Positions, Typed, Calm, NEW s \in Symbols, Clear(s)
    PROVE  Positions'
<1>1. /\ buying[s] = "unconfirmed" /\ Idle(Pass) /\ path' = path
      /\ cached[s] > 0 \/ ~landed[s]
      /\ buying' = [buying EXCEPT ![s] = "none"] /\ landed' = [landed EXCEPT ![s] = FALSE]
      /\ shares' = shares /\ cached' = cached /\ recorded' = recorded /\ peaks' = peaks
  BY DEF Clear, Calm
<1>2. \A r \in Symbols \ {s} : SameAt(r)
  BY <1>1 DEF SameAt, Typed
<1>3. buying'[s] = "none" /\ landed'[s] = FALSE
  BY <1>1 DEF Typed
<1>4. BuyInv(s) /\ cached[s] \in 0..2
  BY NumbersAre DEF Positions, At, Numbers
<1>5. BuyInv(s)'
  BY <1>1, <1>3, <1>4 DEF BuyInv, InFlight
<1>6. HeldInv(s)'
  BY <1>1 DEF HeldInv, Idle
<1>7. \A t \in Threads : s \in path[t].trade =>
         /\ path[t].pc \notin {"sent", "sync"} => SaleInv(t, s)'
         /\ path[t].pc # "sent"
  BY <1>1, <1>3 DEF Positions, At, SaleInv, InFlight
<1>8. At(s)'
  BY <1>1, <1>5, <1>6, <1>7 DEF At
<1>9. ASSUME NEW r \in Symbols \ {s} PROVE At(r)'
  BY <1>1, <1>2, <1>9, Untouched DEF Positions, Others, Traders
<1>. QED  BY <1>8, <1>9 DEF Positions

(* The steps of an order.                                                  *)
LEMMA BuyIsSafe ==
    ASSUME PathInv, Positions, Typed, Calm, NEW s \in Symbols, NEW t \in Traders, Buy(t, s)
    PROVE  Positions'
<1>0. PathShape /\ t \in Threads /\ path'[Pass] = path[Pass] /\ Others(t)
      /\ path'[t].pc = "sent" /\ path'[t].trade = {s}
  BY ThreadsAre, BuyIs DEF PathInv, Others
<1>1. /\ shares[s] = 0 /\ cached[s] = 0 /\ recorded[s] = 0 /\ buying[s] = "none"
      /\ Idle(Pass) /\ s \notin Booking
      /\ buying' = [buying EXCEPT ![s] = "sent"]
      /\ shares' = shares /\ cached' = cached /\ landed' = landed /\ recorded' = recorded
      /\ peaks' = peaks
  BY DEF Buy, Calm
<1>2. \A r \in Symbols \ {s} : SameAt(r)
  BY <1>1 DEF SameAt, Typed
<1>3. buying'[s] = "sent"
  BY <1>1 DEF Typed
<1>4. BuyInv(s)
  BY DEF Positions, At
<1>5. BuyInv(s)'
  BY <1>1, <1>3, <1>4 DEF BuyInv, InFlight
<1>6. HeldInv(s)'
  BY <1>0, <1>1 DEF HeldInv, Idle
<1>7. \A u \in Threads \ {t} : s \in path[u].trade => path[u].pc = "sync"
  BY <1>1 DEF Booking, Positions, At
<1>8. At(s)'
  BY <1>0, <1>3, <1>5, <1>6, <1>7 DEF At, Others
<1>9. ASSUME NEW r \in Symbols \ {s} PROVE At(r)'
  BY <1>0, <1>2, <1>9, Untouched DEF Positions
<1>. QED  BY <1>8, <1>9 DEF Positions

LEMMA SellIsSafe ==
    ASSUME PathInv, Positions, Typed, NEW s \in Symbols, NEW t \in Traders,
           NEW whole \in BOOLEAN, Sell(t, s, whole)
    PROVE  Positions'
<1>0. PathShape /\ t \in Threads /\ path'[Pass] = path[Pass] /\ Others(t)
      /\ path'[t].pc = "sold" /\ path'[t].trade = {s} /\ path'[t].whole = whole
  BY ThreadsAre, SellIs DEF PathInv, Others
<1> DEFINE qty == IF whole THEN cached[s] ELSE 1
<1>1. /\ cached[s] > 0 /\ shares[s] >= qty /\ shares' = [shares EXCEPT ![s] = @ - qty]
      /\ buying' = buying /\ cached' = cached /\ landed' = landed /\ recorded' = recorded
      /\ peaks' = peaks
  BY DEF Sell
<1>2. \A r \in Symbols \ {s} : SameAt(r)
  BY <1>1 DEF SameAt, Typed
<1>3. shares'[s] = shares[s] - qty
  BY <1>1 DEF Typed
<1>4. BuyInv(s) /\ cached[s] \in 0..2 /\ shares[s] \in 0..2
  BY NumbersAre DEF Positions, At, Numbers
<1>5. shares[s] > 0 /\ shares[s] <= cached[s] /\ (whole => shares'[s] = 0) /\ shares'[s] <= shares[s]
      /\ shares'[s] \in 0..2
  BY <1>1, <1>3, <1>4 DEF BuyInv
<1> HIDE DEF qty
<1>6. BuyInv(s)'
  BY <1>1, <1>4, <1>5 DEF BuyInv
<1>7. HeldInv(s)'
  BY <1>0, <1>1, <1>4, <1>5 DEF Positions, At, HeldInv, Known, Absent
<1>8. SaleInv(t, s)'
  BY <1>0, <1>1, <1>4, <1>5 DEF SaleInv, BuyInv, InFlight
<1>9. ASSUME NEW u \in Threads \ {t}, s \in path[u].trade
      PROVE  /\ path[u].pc \notin {"sent", "sync"} => SaleInv(u, s)'
             /\ path[u].pc = "sent" => buying'[s] = "sent"
  BY <1>0, <1>1, <1>4, <1>5, <1>9 DEF Others, Positions, At, SaleInv
<1>10. At(s)'
  BY <1>0, <1>6, <1>7, <1>8, <1>9 DEF Positions, At, Others
<1>11. ASSUME NEW r \in Symbols \ {s} PROVE At(r)'
  BY <1>0, <1>2, <1>11, Untouched DEF Positions
<1>. QED  BY <1>10, <1>11 DEF Positions

(* The answer to a buy: the thread that sent it is the only one that waits *)
(* for it, and no pass is under way.                                       *)
LEMMA Answered ==
    ASSUME PathInv, Positions, NEW t \in Threads, path[t].pc = "sent", Go(t, "sync"),
           NEW s \in path[t].trade, \A r \in Symbols \ {s} : SameAt(r), BuyInv(s)',
           buying'[s] \in InFlight => buying'[s] # "sent" /\ landed'[s] = landed[s],
           shares'[s] = shares[s], cached'[s] = cached[s]
    PROVE  Positions'
<1>0. t \in Traders /\ PathShape /\ TraderOK(path[t]) /\ s \in Symbols /\ Pass \in Threads \ {t}
  BY ThreadsAre DEF PathInv, PasserOK, TraderOK, PassSteps, Chain
<1>1. /\ Others(t) /\ path'[t].pc = "sync" /\ path'[Pass] = path[Pass]
      /\ path'[t].trade = path[t].trade /\ path'[t].whole = path[t].whole
  BY <1>0, GoIs DEF SameTrade, Others
<1>2. buying[s] = "sent" /\ path[Pass].pc = "idle"
  BY <1>0 DEF Positions, At, HeldInv
<1>3. HeldInv(s)'
  BY <1>1, <1>2 DEF HeldInv
<1>4. ASSUME NEW u \in Threads, s \in path'[u].trade
      PROVE  /\ path'[u].pc \notin {"sent", "sync"} => SaleInv(u, s)'
             /\ path'[u].pc # "sent"
  <2>1. CASE u = t
    BY <1>1, <2>1
  <2>2. CASE u # t
    BY <1>1, <2>2, <1>0, <1>4, <1>2 DEF Others, Positions, At, SaleInv, InFlight
  <2>. QED  BY <2>1, <2>2
<1>5. At(s)'
  BY <1>3, <1>4 DEF At
<1>6. ASSUME NEW r \in Symbols \ {s} PROVE At(r)'
  BY <1>0, <1>1, Untouched DEF TraderOK, Positions
<1>. QED  BY <1>5, <1>6 DEF Positions

LEMMA ConfirmedIsSafe ==
    ASSUME PathInv, Positions, Typed, NEW t \in Threads, Confirmed(t)
    PROVE  Positions'
<1>1. PICK s \in path[t].trade :
        /\ landed[s] /\ recorded' = [recorded EXCEPT ![s] = price[s]]
        /\ peaks' = [peaks EXCEPT ![s] = Higher(@, price[s])]
        /\ buying' = [buying EXCEPT ![s] = "none"] /\ landed' = [landed EXCEPT ![s] = FALSE]
  BY DEF Confirmed
<1>2. path[t].pc = "sent" /\ Go(t, "sync") /\ shares' = shares /\ cached' = cached
  BY DEF Confirmed
<1>3. s \in Symbols
  BY ThreadsAre DEF PathInv, PasserOK, TraderOK
<1>4. \A r \in Symbols \ {s} : SameAt(r)
  BY <1>1, <1>2 DEF SameAt, Typed
<1>5. Higher(peaks[s], price[s]) >= price[s] /\ price[s] \in Nat \ {0}
  BY <1>3, NumbersAre, HigherIs DEF Numbers
<1>6. /\ recorded'[s] = price[s] /\ peaks'[s] = Higher(peaks[s], price[s])
      /\ buying'[s] = "none" /\ landed'[s] = FALSE
  BY <1>1, <1>3 DEF Typed
<1>7. BuyInv(s)
  BY <1>3 DEF Positions, At
<1>8. BuyInv(s)'
  BY <1>2, <1>5, <1>6, <1>7 DEF BuyInv, InFlight
<1>9. buying'[s] \notin InFlight
  BY <1>6 DEF InFlight
<1>. QED  BY <1>2, <1>4, <1>8, <1>9, Answered

LEMMA UnconfirmedIsSafe ==
    ASSUME PathInv, Positions, Typed, NEW t \in Threads,
           NEW outcome \in {"none", "resting", "unconfirmed"}, Unconfirmed(t, outcome)
    PROVE  Positions'
<1>1. PICK s \in path[t].trade :
        /\ outcome \in {"none", "resting"} => ~landed[s]
        /\ buying' = [buying EXCEPT ![s] = outcome]
  BY DEF Unconfirmed
<1>2. path[t].pc = "sent" /\ Go(t, "sync") /\ shares' = shares /\ cached' = cached
      /\ landed' = landed /\ recorded' = recorded /\ peaks' = peaks
  BY DEF Unconfirmed
<1>3. s \in Symbols
  BY ThreadsAre DEF PathInv, PasserOK, TraderOK
<1>4. \A r \in Symbols \ {s} : SameAt(r)
  BY <1>1, <1>2 DEF SameAt, Typed
<1>5. buying'[s] = outcome
  BY <1>1, <1>3 DEF Typed
<1>6. BuyInv(s) /\ buying[s] = "sent"
  BY <1>2, <1>3 DEF Positions, At
<1>7. BuyInv(s)'
  BY <1>1, <1>2, <1>5, <1>6 DEF BuyInv, InFlight
<1>. QED  BY <1>2, <1>4, <1>5, <1>7, Answered

LEMMA RecordCloseIsSafe ==
    ASSUME PathInv, Positions, Typed, NEW t \in Threads, RecordClose(t)
    PROVE  Positions'
<1> DEFINE closed == {s \in path[t].trade : path[t].whole /\ recorded[s] > 0}
<1>1. /\ path[t].pc = "closed" /\ Go(t, "sync")
      /\ recorded' = [s \in Symbols |-> IF s \in closed THEN 0 ELSE recorded[s]]
      /\ peaks' = [s \in Symbols |-> IF s \in closed THEN 0 ELSE peaks[s]]
      /\ shares' = shares /\ cached' = cached /\ buying' = buying /\ landed' = landed
  BY DEF RecordClose
<1>2. t \in Traders /\ PathShape /\ Pass \in Threads \ {t}
  BY <1>1, ThreadsAre DEF PathInv, PasserOK, PassSteps, Chain
<1>3. /\ Others(t) /\ path'[t].pc = "sync" /\ path'[Pass] = path[Pass]
      /\ path'[t].trade = path[t].trade /\ path'[t].whole = path[t].whole
  BY <1>1, <1>2, GoIs DEF SameTrade, Others
<1>4. ASSUME NEW r \in Symbols \ closed PROVE At(r)'
  BY <1>1, <1>4, <1>2, <1>3, Untouched DEF SameAt, Positions
<1>5. ASSUME NEW r \in Symbols \cap closed PROVE At(r)'
  <2>1. /\ recorded'[r] = 0 /\ r \in path[t].trade /\ path[t].whole
    BY <1>1, <1>5
  <2> HIDE DEF closed
  <2>2. At(r)
    BY <1>5 DEF Positions
  <2>3. shares[r] = 0
    BY <1>1, <2>1, <2>2 DEF At, SaleInv
  <2>4. BuyInv(r)' /\ HeldInv(r)'
    BY <1>1, <1>3, <2>1, <2>2, <2>3 DEF At, BuyInv, HeldInv, Known, Absent
  <2>5. ASSUME NEW u \in Threads, r \in path'[u].trade
        PROVE  /\ path'[u].pc \notin {"sent", "sync"} => SaleInv(u, r)'
               /\ path'[u].pc = "sent" => buying'[r] = "sent" /\ u # t
    <3>1. CASE u = t
      BY <1>3, <3>1
    <3>2. CASE u # t
      BY <1>3, <3>2, <1>1, <2>2, <2>5 DEF Others, At, SaleInv
    <3>. QED  BY <3>1, <3>2
  <2>. QED  BY <1>3, <2>2, <2>4, <2>5 DEF At, Others
<1>. QED  BY <1>4, <1>5 DEF Positions

LEMMA SyncIsSafe ==
    ASSUME PathInv, Positions, Typed, Calm, NEW t \in Threads, Sync(t)
    PROVE  Positions'
<1>1. PICK adopted \in SUBSET {s \in Symbols \ Selling :
                               shares[s] > 0 /\ recorded[s] = 0 /\ buying[s] \in {"none", "lost"}} :
        SyncPortfolio(Symbols, adopted)
  BY DEF Sync, Calm
<1>2. /\ t \in Traders /\ PathShape /\ Pass \in Threads \ {t}
      /\ shares' = shares /\ buying' = buying /\ landed' = landed
  BY ThreadsAre DEF Sync, Idle, PathInv, PasserOK, PassSteps, Chain, Traders
<1>3. /\ Others(t) /\ path'[t].trade = {} /\ path'[Pass] = path[Pass]
  BY <1>2, SyncIs DEF Others
<1>4. ASSUME NEW r \in Symbols PROVE At(r)'
  <2>1. /\ cached'[r] = shares[r]
        /\ recorded'[r] = IF r \in adopted THEN price[r] ELSE recorded[r]
        /\ peaks'[r] = IF r \in adopted THEN price[r] ELSE IF shares[r] = 0 THEN 0 ELSE peaks[r]
        /\ shares'[r] = shares[r] /\ buying'[r] = buying[r] /\ landed'[r] = landed[r]
    BY <1>1, <1>2 DEF SyncPortfolio
  <2>2. r \in adopted => shares[r] > 0 /\ recorded[r] = 0 /\ buying[r] \in {"none", "lost"}
    BY <1>1
  <2>3. At(r) /\ price[r] \in Nat \ {0} /\ shares[r] \in 0..2 /\ recorded[r] \in Nat
        /\ cached[r] \in 0..2 /\ peaks[r] \in Nat
    BY NumbersAre DEF Positions, Numbers
  <2>4. BuyInv(r)'
    BY <2>1, <2>2, <2>3 DEF At, BuyInv, InFlight
  <2>5. HeldInv(r)'
    BY <1>3, <2>1, <2>2, <2>3 DEF At, HeldInv, Known, Absent, InFlight
  <2>6. ASSUME NEW u \in Threads, r \in path'[u].trade
        PROVE  /\ u # t /\ path'[u] = path[u]
               /\ path'[u].pc \notin {"sent", "sync"} => SaleInv(u, r)'
               /\ path'[u].pc = "sent" => buying'[r] = "sent"
    BY <1>3, <2>6, <2>1, <2>3 DEF Others, At, SaleInv
  <2>. QED  BY <2>3, <2>4, <2>5, <2>6 DEF At
<1>. QED  BY <1>4 DEF Positions

LEMMA RestartIsSafe ==
    ASSUME Positions, Typed, Restart
    PROVE  Positions'
<1>1. PathShape' /\ \A t \in Threads : path'[t] = Rest
  BY RestartIs
<1>2. ASSUME NEW r \in Symbols PROVE At(r)'
  <2>1. /\ cached'[r] = shares[r] /\ recorded'[r] = recorded[r] /\ shares'[r] = shares[r]
        /\ peaks'[r] = IF shares[r] = 0 THEN 0 ELSE recorded[r]
        /\ buying'[r] = (IF buying[r] # "none" /\ ~landed[r] THEN "lost" ELSE "none")
        /\ landed'[r] = FALSE
    BY DEF Restart
  <2>2. At(r) /\ shares[r] \in 0..2 /\ recorded[r] \in Nat
    BY NumbersAre DEF Positions, Numbers
  <2>3. BuyInv(r)'
    BY <2>1, <2>2 DEF At, BuyInv, InFlight
  <2>4. HeldInv(r)'
    BY <1>1, RestIs DEF HeldInv, Threads
  <2>. QED  BY <1>1, <2>3, <2>4, RestIs DEF At
<1>. QED  BY <1>2 DEF Positions

(* The steps that move a thread along.                                     *)
LEMMA NoteIsSafe ==
    ASSUME PathInv, Positions, Typed, NEW t \in Threads, NEW lost, NoteRealizedClose(t, lost)
    PROVE  Positions'
<1>1. /\ path[t].pc = "sold" /\ UNCHANGED position /\ peaks' = peaks
  BY DEF NoteRealizedClose
<1>2. t \in Traders /\ PathShape /\ TraderOK(path[t]) /\ Pass \in Threads \ {t}
  BY <1>1, ThreadsAre DEF PathInv, PasserOK, PassSteps, Chain
<1>3. PICK s \in path[t].trade, pc \in {"closed", "drop"} :
        Go(t, pc) /\ (pc = "drop" => recorded[s] # 0 /\ cached[s] = 0)
  BY DEF NoteRealizedClose
<1>4. /\ Others(t) /\ path'[t].pc = pc /\ path'[Pass] = path[Pass]
      /\ path'[t].trade = path[t].trade /\ path'[t].whole = path[t].whole
  BY <1>2, <1>3, GoIs DEF SameTrade, Others
<1>5. ASSUME NEW r \in Symbols PROVE At(r)'
  <2>1. /\ recorded[r] \in Nat /\ shares[r] \in 0..2 /\ cached[r] \in 0..2 /\ At(r)
    BY NumbersAre DEF Positions, Numbers
  <2>2. r \in path[t].trade /\ pc = "drop" => cached[r] = 0 /\ shares[r] = 0 /\ buying[r] \notin InFlight
    <3>1. SUFFICES ASSUME r \in path[t].trade, pc = "drop"
                   PROVE  cached[r] = 0 /\ shares[r] = 0 /\ buying[r] \notin InFlight
      OBVIOUS
    <3>2. r = s
      BY <1>2, <1>3, <3>1 DEF TraderOK
    <3>3. recorded[r] # 0 /\ cached[r] = 0 /\ BuyInv(r) /\ SaleInv(t, r)
      BY <1>1, <1>3, <2>1, <3>1, <3>2 DEF At
    <3>. QED  BY <3>3 DEF BuyInv, SaleInv
  <2>3. HeldInv(r)'
    BY <1>1, <1>4, <2>1 DEF At, HeldInv, position, Known, Absent
  <2>. QED  BY <1>1, <1>3, <1>4, <2>1, <2>2, <2>3, Along
<1>. QED  BY <1>5 DEF Positions

(* A step of trader t that leaves the positions, but for the trail of what *)
(* is not held.                                                            *)
LEMMA TraderAlong ==
    ASSUME Positions, Typed, NEW t \in Traders, Others(t), UNCHANGED position,
           SameTrade(path'[t], path[t]),
           path[t].pc \notin {"sent", "sync"}, path'[t].pc \notin {"sent", "drop"},
           \A r \in Symbols :
              peaks'[r] = peaks[r] \/ recorded[r] = 0 \/ (shares[r] = 0 /\ cached[r] = 0)
    PROVE  Positions'
<1>1. t \in Threads /\ path'[Pass] = path[Pass]
  BY ThreadsAre DEF Others
<1>2. ASSUME NEW r \in Symbols PROVE At(r)'
  <2>1. /\ recorded[r] \in Nat /\ shares[r] \in 0..2 /\ cached[r] \in 0..2 /\ At(r)
    BY NumbersAre DEF Positions, Numbers
  <2>2. HeldInv(r)'
    BY <1>1, <2>1 DEF At, HeldInv, position, Known, Absent
  <2>. QED  BY <1>1, <2>1, <2>2, Along DEF SameTrade
<1>. QED  BY <1>2 DEF Positions

(* A step of the pass: what it knows of the holdings is true of them.      *)
LEMMA PassAlong ==
    ASSUME PathInv, Positions, Typed, Others(Pass), UNCHANGED position,
           path'[Pass].trade = {}, path'[Pass].pc \notin {"sent", "drop"},
           \A r \in Symbols : peaks'[r] = peaks[r] \/ recorded[r] = 0,
           \A r \in Symbols : HeldInv(r)'
    PROVE  Positions'
<1>1. Pass \in Threads /\ path[Pass].trade = {} /\ path[Pass].pc \notin {"sent", "sync"}
  BY ThreadsAre DEF PathInv, PasserOK, PassSteps, Chain
<1>2. ASSUME NEW r \in Symbols PROVE At(r)'
  BY NumbersAre, <1>1, Along DEF Positions, Numbers
<1>. QED  BY <1>2 DEF Positions

LEMMA PassStays ==
    ASSUME NEW r \in Symbols, At(r), UNCHANGED position, path'[Pass].held = path[Pass].held,
           path[Pass].pc \notin {"idle", "readPortfolio", "readRecords"}
    PROVE  HeldInv(r)'
BY DEF At, HeldInv, position, Known, Absent

LEMMA ChainIsSafe ==
    ASSUME PathInv, Positions, Typed, NEW t \in Threads, ChainStep(t)
    PROVE  Positions'
<1>1. /\ Others(t) /\ UNCHANGED position /\ peaks' = peaks /\ SameTrade(path'[t], path[t])
      /\ path[t].pc \in Chain /\ path'[t].held = path[t].held
      /\ path'[t].pc \in Chain \cup {"clearStreak", "idle", "apply"}
  BY ThreadsAre DEF ChainStep, Edits, SamePass, PathInv, TraderOK, PasserOK
<1>2. CASE t \in Traders
  BY <1>1, <1>2, TraderAlong DEF Chain
<1>3. CASE t = Pass
  <2>1. path'[Pass].trade = {}
    BY <1>1, <1>3 DEF PathInv, PasserOK, SameTrade
  <2>2. ASSUME NEW r \in Symbols PROVE HeldInv(r)'
    BY <1>1, <1>3, PassStays DEF Positions, Chain
  <2>. QED  BY <1>1, <1>3, <2>1, <2>2, PassAlong DEF Chain
<1>. QED  BY <1>2, <1>3, ThreadsAre

LEMMA DropIsSafe ==
    ASSUME PathInv, Positions, Typed, NEW t \in Threads, Drop(t)
    PROVE  Positions'
<1>1. PICK r \in Symbols : GivingIn(t, r)
  BY EditSteps
<1>2. PICK s \in path[t].trade : peaks' = [peaks EXCEPT ![s] = 0]
  BY DEF Drop, RemoveSymbol
<1>3. /\ t \in Traders /\ Others(t) /\ SameTrade(path'[t], path[t]) /\ path[t].pc = "drop"
      /\ path'[t].pc = "readPins" /\ UNCHANGED position
  BY <1>1 DEF GivingIn, Removing, Drop
<1>4. s \in Symbols
  BY <1>3 DEF PathInv, TraderOK
<1>5. shares[s] = 0 /\ cached[s] = 0
  BY <1>3, <1>4 DEF Positions, At, SaleInv
<1>. QED  BY <1>2, <1>3, <1>5, TraderAlong DEF Typed

LEMMA BookedIsSafe ==
    ASSUME PathInv, Positions, Typed, NEW t \in Threads, ClearStreak(t) \/ CommentOut(t)
    PROVE  Positions'
<1>1. /\ path[t].pc \in {"clearStreak", "editFile"} /\ UNCHANGED position /\ peaks' = peaks
      /\ Go(t, "editFile") \/ Go(t, "closed")
  BY DEF ClearStreak, CommentOut
<1>2. t \in Traders /\ PathShape
  BY <1>1, ThreadsAre DEF PathInv, PasserOK, PassSteps, Chain
<1>3. Others(t) /\ SameTrade(path'[t], path[t]) /\ path'[t].pc \in {"editFile", "closed"}
  BY <1>1, <1>2, GoIs
<1>. QED  BY <1>1, <1>2, <1>3, TraderAlong

LEMMA RequestIsSafe ==
    ASSUME PathInv, Positions, Typed, Calm, NEW s \in Symbols, Add(s) \/ Remove(s)
    PROVE  Positions'
<1>0. Operator \in Traders
  BY DEF Traders
<1>1. CASE Add(s)
  BY <1>1, EditSteps, <1>0, TraderAlong DEF Adding, Tracking, Add
<1>2. CASE Remove(s)
  BY <1>2, EditSteps, <1>0, TraderAlong DEF Dismissing, Removing, Remove, RemoveSymbol, Calm, Typed
<1>. QED  BY <1>1, <1>2

LEMMA PassIsSafe ==
    ASSUME PathInv, Positions, Typed, Calm, PassStep,
           path[Pass].pc \in {"change", "apply"} => path[Pass].drops \cap path[Pass].held = {}
    PROVE  Positions'
<1>0. PathShape /\ path[Pass].trade = {}
  BY DEF PathInv, PasserOK
<1>1. CASE PassStarts
  BY <1>0, <1>1, PassStartsIs, PassAlong DEF SameTrade, PassStarts, Calm, HeldInv, position
<1>2. CASE ReadPortfolio
  <2>1. /\ Others(Pass) /\ path'[Pass].pc = "readRecords" /\ path'[Pass].trade = {}
        /\ path'[Pass].held = InPortfolio
    BY <1>0, <1>2, ReadPortfolioIs DEF SameTrade
  <2>2. UNCHANGED position /\ peaks' = peaks /\ path[Pass].pc = "readPortfolio"
    BY <1>2 DEF ReadPortfolio
  <2>3. ASSUME NEW r \in Symbols PROVE HeldInv(r)'
    <3>1. BuyInv(r) /\ buying[r] # "sent" /\ cached[r] \in 0..2 /\ shares[r] \in 0..2
      BY <2>2, NumbersAre DEF Positions, At, HeldInv, Numbers
    <3>2. cached[r] = 0 => Known(r)
      BY <3>1 DEF BuyInv, Known
    <3>3. r \in InPortfolio \/ cached[r] = 0
      BY <3>1 DEF InPortfolio
    <3>. QED  BY <2>1, <2>2, <3>1, <3>2, <3>3 DEF HeldInv, position, Known
  <2>. QED  BY <2>1, <2>2, <2>3, PassAlong
<1>3. CASE ReadRecords
  <2>1. /\ Others(Pass) /\ path'[Pass].pc = "screen" /\ path'[Pass].trade = {}
        /\ path'[Pass].held = path[Pass].held \cup OnRecord
    BY <1>0, <1>3, ReadRecordsIs DEF SameTrade
  <2>2. UNCHANGED position /\ peaks' = peaks /\ path[Pass].pc = "readRecords"
    BY <1>3 DEF ReadRecords
  <2>3. ASSUME NEW r \in Symbols PROVE HeldInv(r)'
    <3>1. HeldInv(r) /\ buying[r] # "sent" /\ recorded[r] \in Nat
      BY <2>2, NumbersAre DEF Positions, At, HeldInv, Numbers
    <3>2. r \in OnRecord \/ (recorded[r] = 0 /\ buying[r] \notin InFlight)
      BY <3>1 DEF OnRecord, InFlight
    <3>3. r \in path'[Pass].held \/ Absent(r)
      BY <2>1, <2>2, <3>1, <3>2 DEF HeldInv, Known, Absent
    <3>. QED  BY <2>1, <2>2, <3>1, <3>3 DEF HeldInv, position, Absent
  <2>. QED  BY <2>1, <2>2, <2>3, PassAlong
<1>4. CASE Screen
  <2>1. /\ Others(Pass) /\ path'[Pass].trade = {}
        /\ path'[Pass] = Rest \/ (path'[Pass].pc = "change" /\ path'[Pass].held = path[Pass].held)
    BY <1>0, <1>4, ScreenIs, RestIs DEF SameTrade
  <2>2. UNCHANGED position /\ peaks' = peaks /\ path[Pass].pc = "screen"
    BY <1>4 DEF Screen
  <2>3. ASSUME NEW r \in Symbols PROVE HeldInv(r)'
    BY <2>1, <2>2, PassStays, RestIs DEF Positions, HeldInv
  <2>. QED  BY <2>1, <2>2, <2>3, RestIs, PassAlong
<1>5. ASSUME NEW s \in Symbols, PassDrops(s) PROVE Positions'
  <2>1. /\ Others(Pass) /\ path'[Pass].pc = "readPins" /\ path'[Pass].trade = {}
        /\ path'[Pass].held = path[Pass].held
    BY <1>0, <1>5, EditSteps DEF PassDropping, Removing, SameTrade
  <2>2. /\ UNCHANGED position /\ peaks' = [peaks EXCEPT ![s] = 0]
        /\ path[Pass].pc \in {"change", "apply"} /\ s \in path[Pass].drops
    BY <1>5 DEF PassDrops, RemoveSymbol
  <2>3. ASSUME NEW r \in Symbols PROVE HeldInv(r)'
    BY <2>1, <2>2, PassStays DEF Positions
  <2>4. recorded[s] = 0
    BY <2>2 DEF Positions, At, HeldInv, Absent
  <2>. QED  BY <2>1, <2>2, <2>3, <2>4, PassAlong DEF Typed
<1>6. CASE PassAdds
  <2>1. /\ Others(Pass) /\ path'[Pass].pc \in {"addBars", "apply"} /\ path'[Pass].trade = {}
        /\ path'[Pass].held = path[Pass].held
    BY <1>0, <1>6, EditSteps DEF PassAdding, Tracking, SameTrade
  <2>2. UNCHANGED position /\ peaks' = peaks /\ path[Pass].pc \in {"change", "apply"}
    BY <1>6 DEF PassAdds
  <2>3. ASSUME NEW r \in Symbols PROVE HeldInv(r)'
    BY <2>1, <2>2, PassStays DEF Positions
  <2>. QED  BY <2>1, <2>2, <2>3, PassAlong
<1>7. CASE PassEnds
  BY <1>0, <1>7, PassEndsIs, RestIs, PassAlong DEF PassEnds, HeldInv
<1>. QED  BY <1>1, <1>2, <1>3, <1>4, <1>5, <1>6, <1>7 DEF PassStep

(* What the pass will drop is nothing it read as held.                     *)
DropsApart == path[Pass].pc \in Chain \cup {"change", "apply"} => path[Pass].drops \cap path[Pass].held = {}

LEMMA DropsStayApart == ASSUME PathInv, DropsApart, [Next]_vars PROVE DropsApart'
<1>0. PathShape /\ Pass \in Threads /\ Pass \notin Traders /\ Operator \in Traders
  BY ThreadsAre DEF PathInv, Traders
<1>1. ASSUME path'[Pass] = path[Pass] PROVE DropsApart'
  BY <1>1 DEF DropsApart
<1>2. ASSUME NEW t \in Traders, Others(t) PROVE DropsApart'
  BY <1>0, <1>1, <1>2 DEF Others
<1>3. ASSUME NEW t \in Threads, ChainStep(t) PROVE DropsApart'
  BY <1>3, <1>2, ThreadsAre DEF ChainStep, SamePass, DropsApart
<1>4. CASE Deciding
  BY <1>4 DEF Deciding, DropsApart, Chain, PassSteps
<1>5. ASSUME NEW s \in Symbols, PassDropping(s) PROVE DropsApart'
  BY <1>5 DEF PassDropping, Removing, DropsApart
<1>6. CASE PassAdding
  BY <1>6 DEF PassAdding, Tracking, DropsApart
<1>7. CASE PassEnds \/ Restart
  BY <1>0, <1>7, PassEndsIs, RestartIs, RestIs DEF DropsApart, Chain
<1>8. CASE Still
  BY <1>1, <1>8 DEF Still
<1>9. ASSUME NEW t \in Traders, Trading(t) PROVE DropsApart'
  BY <1>2, <1>9 DEF Trading
<1>10. ASSUME NEW s \in Symbols, Adding(s) \/ Dismissing(s) PROVE DropsApart'
  BY <1>0, <1>2, <1>10 DEF Adding, Dismissing, Tracking, Removing
<1>11. ASSUME NEW s \in Symbols, NEW t \in Traders, GivingIn(t, s) PROVE DropsApart'
  BY <1>2, <1>11 DEF GivingIn, Removing
<1>. QED  BY StepIs, <1>3, <1>4, <1>5, <1>6, <1>7, <1>8, <1>9, <1>10, <1>11 DEF StepKind

LEMMA CalmStep ==
    ASSUME PathInv, Typed, CalmInv, [Next]_vars
    PROVE  CalmInv'
<1>1. CASE UNCHANGED vars
  BY <1>1, NothingMoves DEF vars, position, Calm, events, CalmInv, Positions
<1>2. CASE Next
  <2>1. setting' = setting
    BY StepIs DEF StepKind, ChainStep, Trading, Adding, Dismissing, PassDropping, GivingIn, PassAdding,
                  Tracking, Removing, Deciding, PassEnds, Restart, Still
  <2>2. SUFFICES ASSUME Calm PROVE CalmInv'
    BY <2>1 DEF CalmInv, Calm, events
  <2>3. Positions /\ DropsApart
    BY <2>2 DEF CalmInv, Positions, DropsApart
  <2>4. ASSUME NEW t \in Threads, ThreadStep(t) PROVE Positions'
    <3>1. CASE \/ ReadPins(t) \/ SavePins(t) \/ AddBars(t) \/ Subscribe(t) \/ RemoveBars(t)
               \/ Unsubscribe(t) \/ ReadList(t) \/ SaveList(t)
      BY <2>3, <3>1, ChainSteps, ChainIsSafe DEF PathInv
    <3>2. CASE \/ Confirmed(t) \/ \E outcome \in {"none", "resting", "unconfirmed"} : Unconfirmed(t, outcome)
               \/ \E lost \in BOOLEAN : NoteRealizedClose(t, lost)
      BY <2>3, <3>2, ConfirmedIsSafe, UnconfirmedIsSafe, NoteIsSafe
    <3>3. CASE Drop(t) \/ ClearStreak(t) \/ CommentOut(t) \/ RecordClose(t) \/ Sync(t)
      BY <2>2, <2>3, <3>3, DropIsSafe, BookedIsSafe, RecordCloseIsSafe, SyncIsSafe
    <3>. QED  BY <2>4, <3>1, <3>2, <3>3 DEF ThreadStep
  <2>5. ASSUME PassStep PROVE Positions'
    BY <2>2, <2>3, <2>5, PassIsSafe DEF DropsApart
  <2>6. ASSUME NEW s \in Symbols, NEW t \in {Loop, Operator},
               Buy(t, s) \/ \E whole \in BOOLEAN : Sell(t, s, whole)
        PROVE  Positions'
    BY <2>2, <2>3, <2>6, BuyIsSafe, SellIsSafe DEF Traders
  <2>7. ASSUME NEW s \in Symbols,
               \/ Add(s) \/ Remove(s) \/ Clear(s) \/ Forget(s)
               \/ Fills(s) \/ WatcherWakes(s) \/ CheckExits(s) \/ Tick(s)
        PROVE  Positions'
    BY <2>2, <2>3, <2>7, RequestIsSafe, ClearIs, ForgetIs, FillsAre, WatcherWakesIs, CheckExitsIs, TickIs
  <2>8. ASSUME NEW s \in Symbols, NEW level, PriceMoves(s, level) PROVE Positions'
    BY <2>8, <2>3, NothingMoves DEF PriceMoves
  <2>9. ASSUME Restart PROVE Positions'
    BY <2>3, <2>9, RestartIsSafe
  <2>10. Positions'
    BY <1>2, <2>4, <2>5, <2>6, <2>7, <2>8, <2>9 DEF Next
  <2>11. DropsApart'
    BY <2>3, DropsStayApart
  <2>. QED  BY <2>10, <2>11 DEF CalmInv, Positions, DropsApart
<1>. QED  BY <1>1, <1>2

(* What was picked is neither read as unpicked nor dropped by a pass.      *)
PickInv ==
    setting.keepManual /\ events \cap {"midpass", "overlap"} = {} =>
      LET p == path[Pass] IN
      /\ p.pc = "screen" => picked \cap p.current \subseteq p.pins
      /\ p.pc \in Chain \cup {"change", "apply"} =>
            p.drops \cap picked = {} /\ p.drops \subseteq p.current

LEMMA PickInit == ASSUME Init PROVE PickInv
BY ThreadsAre, RestIs DEF Init, PickInv, Chain

LEMMA PickStep == ASSUME PathInv, ListsInv, PickInv, [Next]_vars PROVE PickInv'
<1>0. PathShape /\ Pass \in Threads /\ Pass \notin Traders /\ Operator \in Traders
      /\ PasserOK(path[Pass])
  BY ThreadsAre DEF PathInv, Traders
<1>1. setting' = setting
  BY StepIs DEF StepKind, ChainStep, Trading, Adding, Dismissing, PassDropping, GivingIn, PassAdding,
                Tracking, Removing, Deciding, PassEnds, Restart, Still
<1>2. SUFFICES ASSUME setting.keepManual, "midpass" \notin events, "overlap" \notin events
               PROVE  PickInv'
  BY <1>1 DEF PickInv, events
<1>3. /\ path[Pass].pc = "screen" => picked \cap path[Pass].current \subseteq path[Pass].pins
      /\ path[Pass].pc \in Chain \cup {"change", "apply"} =>
            path[Pass].drops \cap picked = {} /\ path[Pass].drops \subseteq path[Pass].current
      /\ pinned = picked
  BY <1>2 DEF PickInv, ListsInv, Serial
<1>4. ASSUME path'[Pass] = path[Pass], picked' \subseteq picked PROVE PickInv'
  BY <1>3, <1>4 DEF PickInv
<1>5. ASSUME NEW t \in Threads, ChainStep(t) PROVE PickInv'
  <2>1. picked' = picked
    BY <1>5 DEF ChainStep, history
  <2>2. CASE t = Pass
    BY <1>0, <1>3, <1>5, <2>1, <2>2 DEF ChainStep, Edits, SamePass, PickInv, PasserOK, Chain
  <2>3. CASE t # Pass
    BY <1>0, <1>4, <1>5, <2>1, <2>3 DEF ChainStep, Others
  <2>. QED  BY <2>2, <2>3
<1>6. ASSUME NEW t \in Traders, Trading(t) PROVE PickInv'
  BY <1>0, <1>4, <1>6 DEF Trading, history, Others
<1>7. ASSUME NEW s \in Symbols, Adding(s) PROVE PickInv'
  BY <1>0, <1>2, <1>7, <1>3 DEF Adding, Tracking, Others, PickInv, Idle, Chain
<1>8. CASE PassAdding
  BY <1>0, <1>3, <1>8 DEF PassAdding, Tracking, PickInv, Chain
<1>9. ASSUME NEW s \in Symbols, Dismissing(s) PROVE PickInv'
  BY <1>0, <1>4, <1>9 DEF Dismissing, Removing, Others
<1>10. ASSUME NEW s \in Symbols, PassDropping(s) PROVE PickInv'
  BY <1>0, <1>3, <1>10 DEF PassDropping, Removing, PickInv, history
<1>11. ASSUME NEW s \in Symbols, NEW t \in Traders, GivingIn(t, s) PROVE PickInv'
  BY <1>0, <1>4, <1>11 DEF GivingIn, Removing, Others
<1>12. CASE Deciding
  BY <1>12, <1>3, <1>2 DEF Deciding, history, PickInv, Chain, PassSteps
<1>13. CASE PassEnds \/ Restart
  BY <1>0, <1>13, PassEndsIs, RestartIs, RestIs DEF PickInv, Chain
<1>14. CASE Still
  BY <1>4, <1>14 DEF Still, history
<1>. QED  BY StepIs, <1>5, <1>6, <1>7, <1>8, <1>9, <1>10, <1>11, <1>12, <1>13, <1>14 DEF StepKind

-----------------------------------------------------------------------------
(* What follows                                                            *)

WatchlistInv == PathInv /\ ListsInv /\ Typed /\ CalmInv /\ PickInv

LEMMA WatchlistAlways == Spec => []WatchlistInv
<1>1. Init => WatchlistInv
  BY PathInit, ListsInit, TypedInit, CalmInit, PickInit DEF WatchlistInv
<1>2. WatchlistInv /\ [Next]_vars => WatchlistInv'
  BY PathStep, ListsStep, TypedStep, CalmStep, PickStep DEF WatchlistInv
<1>. QED  BY <1>1, <1>2, PTL DEF Spec

(* Through every fill, sync, exit, booking, drop and restart, a position's *)
(* trailing stop is never behind the high-water mark of its record         *)
(* (trailing.go, positions.go).                                            *)
THEOREM TrailNeverFallsBehind == Spec => []TrailKeepsPeak
<1>1. WatchlistInv => TrailKeepsPeak
  BY DEF WatchlistInv, CalmInv, Calm, At, BuyInv, TrailKeepsPeak
<1>. QED  BY <1>1, WatchlistAlways, PTL

LEMMA SparedStep ==
    ASSUME WatchlistInv, events \subseteq {"fileFails"}, [Next]_vars,
           NEW s \in watchlist \ watchlist'
    PROVE  ~Owned(s)
<1>0. PathInv /\ ListsInv /\ Calm /\ Positions
  BY DEF WatchlistInv, CalmInv, Calm, Positions
<1>1. ASSUME NEW r \in Symbols, Remove(r) PROVE ~Owned(s)
  BY <1>1 DEF Remove, RemoveSymbol, Owned
<1>2. ASSUME NEW t \in Threads, Drop(t) PROVE ~Owned(s)
  <2>1. PICK r \in path[t].trade : RemoveSymbol(t, r, TRUE, "clearStreak")
    BY <1>2 DEF Drop
  <2>2. s = r /\ path[t].pc = "drop" /\ r \in Symbols
    BY <1>0, <1>2, <2>1, ThreadsAre DEF Drop, RemoveSymbol, PathInv, TraderOK, PasserOK
  <2>3. SaleInv(t, s)
    BY <1>0, <2>1, <2>2 DEF Positions, At
  <2>. QED  BY <2>2, <2>3 DEF SaleInv, Owned, InFlight
<1>3. ASSUME NEW r \in Symbols, PassDrops(r) PROVE ~Owned(s)
  <2>1. s = r /\ path[Pass].pc \in {"change", "apply"} /\ s \in path[Pass].drops
    BY <1>3 DEF PassDrops, RemoveSymbol
  <2>2. s \notin path[Pass].held
    BY <1>0, <2>1 DEF WatchlistInv, CalmInv
  <2>3. Absent(s)
    BY <1>0, <2>1, <2>2 DEF Positions, At, HeldInv
  <2>. QED  BY <2>3 DEF Absent, Owned, InFlight
<1>4. CASE Restart
  BY <1>4, <1>0 DEF Restart, Idle, Editing, ListsInv, AllAgree, Serial
<1>5. ASSUME watchlist \subseteq watchlist' PROVE ~Owned(s)
  BY <1>5
<1>6. ASSUME UNCHANGED lists PROVE ~Owned(s)
  BY <1>6 DEF lists
<1>7. ASSUME NEW t \in Threads, ThreadStep(t) PROVE ~Owned(s)
  BY <1>2, <1>6, <1>7
     DEF ThreadStep, ReadPins, SavePins, AddBars, Subscribe, RemoveBars, Unsubscribe, ReadList,
         SaveList, Confirmed, Unconfirmed, NoteRealizedClose, ClearStreak, CommentOut, RecordClose, Sync
<1>8. CASE PassStep
  BY <1>3, <1>5, <1>6, <1>8
     DEF PassStep, PassStarts, ReadPortfolio, ReadRecords, Screen, PassAdds, PassEnds, TrackSymbols
<1>9. ASSUME NEW r \in Symbols,
             \/ Add(r) \/ Clear(r) \/ Forget(r)
             \/ \E t \in {Loop, Operator} : Buy(t, r) \/ \E whole \in BOOLEAN : Sell(t, r, whole)
             \/ Fills(r) \/ WatcherWakes(r) \/ CheckExits(r) \/ Tick(r)
             \/ \E level \in 1..setting.topPrice[r] : PriceMoves(r, level)
      PROVE  ~Owned(s)
  BY <1>5, <1>6, <1>9
     DEF Add, TrackSymbols, Clear, Forget, Buy, Sell, Fills, WatcherWakes, CheckExits, Tick, PriceMoves
<1>10. CASE UNCHANGED vars
  BY <1>6, <1>10 DEF vars, lists
<1>. QED  BY <1>1, <1>4, <1>7, <1>8, <1>9, <1>10 DEF Next

LEMMA PickedStep ==
    ASSUME WatchlistInv, setting.keepManual, events \cap {"midpass", "overlap"} = {}, [Next]_vars,
           path[Pass].pc \in {"change", "apply"}, path'[Pass].pc = "readPins"
    PROVE  (watchlist \ watchlist') \cap picked = {}
<1>0. PathInv /\ PathShape /\ path[Pass].drops \cap picked = {} /\ Pass \in Threads
  BY ThreadsAre DEF WatchlistInv, PickInv, PathInv
<1>1. path'[Pass] # path[Pass]
  OBVIOUS
<1>2. ASSUME NEW t \in Threads \ {Pass}, Others(t) PROVE FALSE
  BY <1>0, <1>1, <1>2 DEF Others
<1>3. \E s \in Symbols : PassDropping(s)
  <2>1. ASSUME NEW t \in Threads, ChainStep(t) PROVE FALSE
    BY <1>0, <1>2, <2>1 DEF ChainStep, Chain
  <2>2. ASSUME NEW t \in Traders, Others(t) PROVE FALSE
    BY <1>2, <2>2, ThreadsAre
  <2>3. ~PassAdding
    BY DEF PassAdding, Tracking
  <2>4. ~Deciding /\ ~Still
    BY <1>1 DEF Deciding, PassSteps, Still
  <2>5. ~PassEnds /\ ~Restart
    BY <1>0, PassEndsIs, RestartIs, RestIs
  <2>6. Operator \in Traders
    BY DEF Traders
  <2>. QED  BY <1>0, <2>1, <2>2, <2>3, <2>4, <2>5, <2>6, StepIs
            DEF StepKind, Trading, Adding, Dismissing, GivingIn, Tracking, Removing
<1>. QED  BY <1>0, <1>3 DEF PassDropping, Removing

(* Neither a pass nor a losing run drops what is held or was picked: a     *)
(* symbol leaves the watchlist only when nothing of it is held and no buy  *)
(* of it rests or is unconfirmed, and no pass takes one of the operator's  *)
(* picks while screener.keep_manual is set (screen.go, dropsymbol.go).     *)
THEOREM OwnedStaysTracked == Spec => OwnedIsSpared
<1>1. WatchlistInv /\ [Next]_vars =>
        (events \subseteq {"fileFails"} => \A s \in watchlist \ watchlist' : ~Owned(s))
  BY SparedStep
<1>2. WatchlistInv /\ [Next]_vars =>
        (setting.keepManual /\ events \cap {"midpass", "overlap"} = {}
           /\ path[Pass].pc \in {"change", "apply"} /\ path'[Pass].pc = "readPins"
           => (watchlist \ watchlist') \cap picked = {})
  BY PickedStep
<1>. QED  BY <1>1, <1>2, WatchlistAlways, PTL DEF Spec, OwnedIsSpared, HeldIsSpared, PickIsSpared
=============================================================================
