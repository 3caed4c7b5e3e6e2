--------------------------- MODULE RiskLedgerProofs ---------------------------
(***************************************************************************)
(* Proofs about RiskLedger, for every value of its constants.              *)
(*                                                                         *)
(* The limits on what the account holds come last.  Authorize judges a     *)
(* snapshot: the cached portfolio and the reservations.  The account       *)
(* differs from it by the fills the cache has not seen and the orders      *)
(* still at the venue.  The argument has two halves: Bookkeeping says that *)
(* what the cache misses is still reserved (Lag) and that a reservation    *)
(* covers the worst its order may cost (Covered); CapsFit says that the    *)
(* limits would hold even if every working order and every buy already let *)
(* through came true.                                                      *)
(***************************************************************************)
EXTENDS RiskLedger, Sums, TLAPS, FiniteSetTheorems

-----------------------------------------------------------------------------
(* Sums over finite sets: what the argument needs of Total. *)

Summable(f) == IsFiniteSet(DOMAIN f) /\ \A x \in DOMAIN f : f[x] \in Nat

(* A sum over a finite set is a number. *)
LEMMA SumIsNat ==
    ASSUME NEW f, Summable(f)
    PROVE  IsFiniteSet(Units(f)) /\ Total(f) \in Nat
<1> DEFINE pile == [x \in DOMAIN f |-> {x} \X (1..f[x])]
<1> DEFINE piles == {pile[x] : x \in DOMAIN f}
<1>1. pile \in Surjection(DOMAIN f, piles)
  BY DEF Surjection
<1>2. IsFiniteSet(piles)
  <2> HIDE DEF pile, piles
  <2>. QED  BY <1>1, FS_Surjection DEF Summable
<1>3. ASSUME NEW T \in piles
      PROVE  IsFiniteSet(T)
  <2>1. PICK x \in DOMAIN f : T = {x} \X (1..f[x])
    OBVIOUS
  <2>2. IsFiniteSet({x})
    BY FS_Singleton
  <2>3. 1 \in Int /\ f[x] \in Int
    BY DEF Summable
  <2>4. IsFiniteSet(1..f[x])
    BY <2>3, FS_Interval
  <2>. QED  BY <2>1, <2>2, <2>4, FS_Product
<1>4. Units(f) = UNION piles
  BY DEF Units
<1>5. IsFiniteSet(Units(f))
  <2> HIDE DEF piles
  <2>. QED  BY <1>2, <1>3, <1>4, FS_UNION
<1>. QED  BY <1>5, FS_CardinalityType DEF Total

(* A smaller function has a smaller sum. *)
LEMMA SumAtMost ==
    ASSUME NEW f, NEW g, Summable(f), Summable(g), DOMAIN f \subseteq DOMAIN g,
           \A x \in DOMAIN f : f[x] <= g[x]
    PROVE  Total(f) <= Total(g)
<1>1. Units(f) \subseteq Units(g)
  BY DEF Summable, Units
<1>. QED  BY <1>1, SumIsNat, FS_Subset DEF Total

(* The sum over nothing. *)
LEMMA SumOfNone ==
    ASSUME NEW f, DOMAIN f = {}
    PROVE  Total(f) = 0
<1>1. Units(f) = {}
  BY DEF Units
<1>. QED  BY <1>1, FS_EmptySet DEF Total

(* One entry more. *)
LEMMA SumAdded ==
    ASSUME NEW f, NEW g, Summable(f), NEW a, a \notin DOMAIN f,
           DOMAIN g = DOMAIN f \cup {a}, g[a] \in Nat,
           \A x \in DOMAIN f : g[x] = f[x]
    PROVE  Summable(g) /\ Total(g) = Total(f) + g[a]
<1>1. Summable(g)
  BY FS_AddElement DEF Summable
<1> DEFINE pile == {a} \X (1..g[a])
<1>2. IsFiniteSet(pile) /\ Cardinality(pile) = g[a]
  <2>1. IsFiniteSet({a}) /\ Cardinality({a}) = 1
    BY FS_Singleton
  <2>2. IsFiniteSet(1..g[a]) /\ Cardinality(1..g[a]) = g[a]
    BY FS_Interval
  <2>3. IsFiniteSet(pile) /\ Cardinality(pile) = 1 * g[a]
    BY <2>1, <2>2, FS_Product
  <2>. QED  BY <2>3
<1>3. Units(g) = Units(f) \cup pile
  BY DEF Units
<1>4. Units(f) \cap pile = {}
  BY DEF Units
<1>5. Cardinality(Units(f) \cap pile) = 0
  BY <1>4, FS_EmptySet
<1> HIDE DEF pile
<1>6. IsFiniteSet(Units(f)) /\ Total(f) \in Nat
  BY SumIsNat
<1>7. Cardinality(Units(g)) = Cardinality(Units(f)) + Cardinality(pile) - 0
  BY <1>2, <1>3, <1>5, <1>6, FS_Union
<1>. QED  BY <1>1, <1>2, <1>6, <1>7 DEF Total

(* One entry changed. *)
LEMMA SumChanged ==
    ASSUME NEW f, NEW g, Summable(f), DOMAIN g = DOMAIN f,
           NEW a \in DOMAIN f, g[a] \in Nat,
           \A x \in DOMAIN f \ {a} : g[x] = f[x]
    PROVE  Summable(g) /\ Total(g) = Total(f) - f[a] + g[a]
<1> DEFINE rest == [x \in DOMAIN f \ {a} |-> f[x]]
<1>1. Summable(rest)
  BY FS_RemoveElement DEF Summable
<1>2. DOMAIN rest = DOMAIN f \ {a} /\ DOMAIN f = DOMAIN rest \cup {a} /\ a \notin DOMAIN rest
      /\ \A x \in DOMAIN rest : f[x] = rest[x] /\ g[x] = rest[x]
  OBVIOUS
<1> HIDE DEF rest
<1>3. f[a] \in Nat
  BY DEF Summable
<1>4. Total(f) = Total(rest) + f[a]
  <2>1. DOMAIN f = DOMAIN rest \cup {a} /\ a \notin DOMAIN rest
        /\ \A x \in DOMAIN rest : f[x] = rest[x]
    BY <1>2
  <2>. QED  BY <1>1, <1>3, <2>1, SumAdded
<1>5. Summable(g) /\ Total(g) = Total(rest) + g[a]
  BY <1>2, <1>1, SumAdded
<1>. QED  BY <1>1, <1>3, <1>4, <1>5, SumIsNat

(* A sum taken in two parts. *)
LEMMA SumInParts ==
    ASSUME NEW f, Summable(f), NEW A, NEW B, DOMAIN f = A \cup B, A \cap B = {}
    PROVE  /\ Summable([x \in A |-> f[x]]) /\ Summable([x \in B |-> f[x]])
           /\ Total(f) = Total([x \in A |-> f[x]]) + Total([x \in B |-> f[x]])
<1> DEFINE fa == [x \in A |-> f[x]]
<1> DEFINE fb == [x \in B |-> f[x]]
<1>1. Summable(fa) /\ Summable(fb)
  BY FS_Subset DEF Summable
<1>2. Units(f) = Units(fa) \cup Units(fb)
  BY DEF Units
<1>3. Units(fa) \cap Units(fb) = {}
  BY DEF Units
<1> HIDE DEF fa, fb
<1>4. Cardinality(Units(fa) \cap Units(fb)) = 0
  BY <1>3, FS_EmptySet
<1>5. Total(fa) \in Nat /\ Total(fb) \in Nat /\ IsFiniteSet(Units(fa)) /\ IsFiniteSet(Units(fb))
  BY <1>1, SumIsNat
<1>6. Cardinality(Units(f)) = Cardinality(Units(fa)) + Cardinality(Units(fb)) - 0
  BY <1>2, <1>4, <1>5, FS_Union
<1>7. Total(f) = Total(fa) + Total(fb)
  BY <1>5, <1>6 DEF Total
<1>. QED  BY <1>1, <1>7 DEF fa, fb

-----------------------------------------------------------------------------
(* Arithmetic of the costs. *)
LEMMA CostBounds ==
    ASSUME NEW q \in Nat, NEW k \in 0..q
    PROVE  /\ k * Price \in Nat /\ k * EffPrice \in Nat
           /\ k * Price <= k * EffPrice
           /\ k * EffPrice <= q * EffPrice
<1>1. k * Price \in Nat /\ k * EffPrice \in Nat /\ q * EffPrice \in Nat
  BY LedgerAssumption
<1>2. k * Price <= k * EffPrice
  BY LedgerAssumption, <1>1
<1>3. k * EffPrice <= q * EffPrice
  BY LedgerAssumption, <1>1
<1>. QED BY <1>1, <1>2, <1>3

LEMMA ChargeBound ==
    ASSUME NEW q \in Nat, NEW k \in 0..q, NEW fee \in {0, FixedFee},
           NEW cost \in Charge(k, fee)
    PROVE  cost \in 0..EstimatedCost(q)
BY CostBounds, LedgerAssumption DEF Charge, EstimatedCost

LEMMA EstimateBound ==
    ASSUME NEW q \in 0..MaxQty
    PROVE  EstimatedCost(q) \in Amounts
<1>1. q * EffPrice \in Nat /\ q * EffPrice <= MaxQty * EffPrice
  BY CostBounds, LedgerAssumption
<1>. QED BY <1>1, LedgerAssumption DEF EstimatedCost, Amounts

-----------------------------------------------------------------------------
(* Type correctness. *)
LEMMA InitTypeOK == Init => TypeOK
BY LedgerAssumption DEF Init, TypeOK, Paths, PathStates, NoPath, Snapshots

LEMMA PathTyped ==
    ASSUME TypeOK, NEW p \in Paths
    PROVE  path[p] \in PathStates
BY DEF TypeOK

LEMMA StepTypeOK ==
    ASSUME TypeOK, [Next]_vars
    PROVE  TypeOK'
<1> USE LedgerAssumption
<1>1. ASSUME NEW p \in Paths, NEW s \in Symbols, NEW request \in 1..MaxQty,
             Begin(p, s, request)
      PROVE  TypeOK'
  BY <1>1 DEF TypeOK, PendingExposure, Snapshots, Begin, PathStates, ledger, venue
<1>2. ASSUME NEW p \in Paths, Authorize(p)
      PROVE  TypeOK'
  <2>1. path' \in [Paths -> PathStates]
    BY <1>2 DEF Authorize, Authorized, TypeOK, PathStates, NoPath
  <2>2. spentToday' \in Nat /\ day' \in 1..MaxDay
    BY <1>2 DEF Authorize, RollDay, SpentAsOfNow, TypeOK
  <2>. QED  BY <1>2, <2>1, <2>2 DEF Authorize, TypeOK, venue
<1>3. ASSUME NEW p \in Paths, RateRefused(p)
      PROVE  TypeOK'
  BY <1>3 DEF RateRefused, TypeOK, PathStates, ledger, venue
<1>4. ASSUME NEW p \in Paths, NEW id \in Ids, ReserveBuy(p, id)
      PROVE  TypeOK'
  BY <1>4, PathTyped, EstimateBound DEF ReserveBuy, PathStates, NoPath, TypeOK, Reserve, With, venue
<1>5. ASSUME NEW p \in Paths, NEW id \in Ids, ReserveRemainder(p, id)
      PROVE  TypeOK'
  <2>1. path[p] \in [pc : {"remainder"}, symbol : Symbols,
                     qty : 0..MaxQty, cost : Amounts, rem : 1..MaxQty]
    BY <1>5, PathTyped DEF ReserveRemainder, PathStates, NoPath

  <2>3. EstimatedCost(path[p].rem) \in Amounts
    BY <2>1, EstimateBound
  <2>4. path' \in [Paths -> PathStates]
    BY <1>5, <2>1 DEF ReserveRemainder, TypeOK, PathStates
  <2>5. /\ DOMAIN reserved' \subseteq Ids /\ DOMAIN orders' \subseteq Ids
        /\ DOMAIN parked' \subseteq Ids
        /\ \A i \in DOMAIN parked' : parked'[i] \in Symbols
        /\ \A i \in DOMAIN reserved' : reserved'[i] \in [amount : Amounts, symbol : Symbols]
        /\ \A i \in DOMAIN orders' :
             orders'[i] \in [symbol : Symbols, left : 1..MaxQty, fee : {0, FixedFee}]
    BY <1>5, <2>1, <2>3 DEF ReserveRemainder, Reserve, Working, With, TypeOK
  <2>. QED  BY <1>5, <2>4, <2>5 DEF ReserveRemainder, TypeOK
<1>6. ASSUME NEW p \in Paths, SubmitFails(p)
      PROVE  TypeOK'
  BY <1>6 DEF SubmitFails, Release, Without, TypeOK, PathStates, NoPath, venue
<1>7. ASSUME NEW p \in Paths, NEW k \in 0..MaxQty, NEW working \in BOOLEAN,
             NEW cost \in Charge(k, FixedFee), SubmitConfirmed(p, k, cost, working)
      PROVE  TypeOK'
  <2>1. path[p] \in [pc : {"submitted"}, symbol : Symbols, qty : 1..MaxQty, res : Ids]
    BY <1>7, PathTyped DEF SubmitConfirmed, PathStates, NoPath
  <2>2. cost \in Amounts
    BY <1>7, <2>1, ChargeBound DEF Amounts
  <2>3. path' \in [Paths -> PathStates]
    BY <1>7, <2>1, <2>2 DEF SubmitConfirmed, TypeOK, PathStates
  <2>4. venueCash' \in Int /\ venueQty' \in [Symbols -> Nat]
    BY <1>7, <2>1, <2>2 DEF SubmitConfirmed, VenueTakes, TypeOK, Amounts
  <2>. QED  BY <1>7, <2>3, <2>4 DEF SubmitConfirmed, Release, Without, TypeOK
<1>8. ASSUME NEW p \in Paths, SubmitUnconfirmed(p)
      PROVE  TypeOK'
  BY <1>8, PathTyped DEF SubmitUnconfirmed, PathStates, NoPath, TypeOK, Working, With, ledger
<1>9. ASSUME NEW p \in Paths, RecordBuy(p)
      PROVE  TypeOK'
  <2>1. path[p] \in [pc : {"filled", "booked", "persisted"}, symbol : Symbols,
                     qty : 0..MaxQty, cost : Amounts, rem : 0..MaxQty]
    BY <1>9, PathTyped DEF RecordBuy, PathStates, NoPath

  <2>2. path' \in [Paths -> PathStates]
    BY <1>9, <2>1 DEF RecordBuy, TypeOK, PathStates
  <2>3. spentToday' \in Nat /\ day' \in 1..MaxDay
    BY <1>9, <2>1 DEF RecordBuy, RollDay, SpentAsOfNow, TypeOK, Amounts
  <2>. QED  BY <1>9, <2>2, <2>3 DEF RecordBuy, TypeOK, venue
<1>10. ASSUME NEW p \in Paths, PersistSpend(p)
       PROVE  TypeOK'
  <2>1. path[p] \in [pc : {"filled", "booked", "persisted"}, symbol : Symbols,
                     qty : 0..MaxQty, cost : Amounts, rem : 0..MaxQty]
    BY <1>10, PathTyped DEF PersistSpend, PathStates, NoPath

  <2>2. path' \in [Paths -> PathStates]
    BY <1>10, <2>1 DEF PersistSpend, TypeOK, PathStates
  <2>3. spentToday' \in Nat /\ day' \in 1..MaxDay /\ saved' \in [day : 1..MaxDay, amount : Nat]
    BY <1>10 DEF PersistSpend, RollDay, SpentAsOfNow, TypeOK
  <2>. QED  BY <1>10, <2>2, <2>3 DEF PersistSpend, TypeOK, venue
<1>11. ASSUME NEW p \in Paths, RecordOpen(p)
       PROVE  TypeOK'
  <2>1. path[p] \in [pc : {"filled", "booked", "persisted"}, symbol : Symbols,
                     qty : 0..MaxQty, cost : Amounts, rem : 0..MaxQty]
    BY <1>11, PathTyped DEF RecordOpen, PathStates, NoPath

  <2>2. path' \in [Paths -> PathStates]
    BY <1>11, <2>1 DEF RecordOpen, TypeOK, PathStates
  <2>. QED  BY <1>11, <2>1, <2>2 DEF RecordOpen, TypeOK, ledger, venue
<1>12. ASSUME NEW p \in Paths, Sync(p)
       PROVE  TypeOK'
  BY <1>12 DEF Sync, TypeOK, Snapshots, PathStates, NoPath, ledger, venue
<1>13. ASSUME NEW id \in DOMAIN orders, NEW k \in 0..MaxQty,
              NEW cost \in Charge(k, orders[id].fee), VenueResolves(id, k, cost)
       PROVE  TypeOK'
  BY <1>13, ChargeBound, EstimateBound DEF TypeOK, VenueResolves, Amounts, VenueTakes, Without, ledger
<1>14. ASSUME NEW id \in DOMAIN parked, ClearUnconfirmed(id)
       PROVE  TypeOK'
  BY <1>14 DEF ClearUnconfirmed, Release, Without, TypeOK, venue
<1>15. CASE SyncIfStale
  BY <1>15 DEF SyncIfStale, TypeOK, Snapshots, ledger, venue
<1>16. ASSUME NEW s \in Symbols, Exit(s)
       PROVE  TypeOK'
  BY <1>16 DEF Exit, TypeOK, Snapshots, ledger
<1>17. CASE Midnight
  BY <1>17 DEF Midnight, TypeOK, ledger, venue
<1>18. CASE Restart
  <2>1. \A p \in Paths : path[p].pc = "submitted" =>
          path[p] \in [pc : {"submitted"}, symbol : Symbols, qty : 1..MaxQty, res : Ids]
    BY PathTyped DEF PathStates, NoPath
  <2>2. /\ DOMAIN orders' \subseteq Ids
        /\ \A id \in DOMAIN orders' :
             orders'[id] \in [symbol : Symbols, left : 1..MaxQty, fee : {0, FixedFee}]
    <3>1. PICK arrived \in SUBSET {p \in Paths : path[p].pc = "submitted"} :
            orders' = [id \in DOMAIN orders \cup {path[p].res : p \in arrived} |->
                         IF id \in DOMAIN orders THEN orders[id]
                         ELSE LET p == CHOOSE q \in arrived : path[q].res = id
                              IN  Working(path[p].symbol, path[p].qty, FixedFee)]
      BY <1>18 DEF Restart
    <3>2. DOMAIN orders' = DOMAIN orders \cup {path[p].res : p \in arrived}
      BY <3>1
    <3>3. DOMAIN orders' \subseteq Ids
      BY <2>1, <3>2 DEF TypeOK
    <3>4. ASSUME NEW id \in DOMAIN orders'
          PROVE  orders'[id] \in [symbol : Symbols, left : 1..MaxQty, fee : {0, FixedFee}]
      <4>1. CASE id \in DOMAIN orders
        BY <3>1, <4>1 DEF TypeOK
      <4>2. CASE id \notin DOMAIN orders
        <5> DEFINE p == CHOOSE q \in arrived : path[q].res = id
        <5>1. \E q \in arrived : path[q].res = id
          BY <3>2, <4>2
        <5>2. p \in arrived
          BY <5>1
        <5>3. orders'[id] = Working(path[p].symbol, path[p].qty, FixedFee)
          BY <3>1, <3>2, <4>2
        <5>4. path[p] \in [pc : {"submitted"}, symbol : Symbols, qty : 1..MaxQty, res : Ids]
          BY <2>1, <5>2
        <5> HIDE DEF p
        <5>. QED  BY <5>3, <5>4 DEF Working
      <4>. QED  BY <4>1, <4>2
    <3>. QED  BY <3>3, <3>4
  <2>3. spentToday' \in Nat /\ day' \in 1..MaxDay
    BY <1>18 DEF Restart, TypeOK
  <2>4. path' \in [Paths -> PathStates]
    BY <1>18 DEF Restart, PathStates
  <2>. QED  BY <1>18, <2>2, <2>3, <2>4 DEF Restart, TypeOK, Snapshots
<1>19. CASE UNCHANGED vars
  BY <1>19 DEF vars, TypeOK
<1>. QED
  BY <1>1, <1>2, <1>3, <1>4, <1>5, <1>6, <1>7, <1>8, <1>9, <1>10, <1>11, <1>12,
     <1>13, <1>14, <1>15, <1>16, <1>17, <1>18, <1>19
  DEF Next, BuyStep

(* Every variable keeps the shape the code gives it, under every fault.     *)
THEOREM TypeCorrect == Spec => []TypeOK
<1>1. Init => TypeOK
  BY InitTypeOK
<1>2. TypeOK /\ [Next]_vars => TypeOK'
  BY StepTypeOK
<1>. QED  BY <1>1, <1>2, PTL DEF Spec

-----------------------------------------------------------------------------
(* Reservations.  An id is held by one owner: a buy being submitted or an   *)
(* unconfirmed order, never two of them.                                    *)
Submitting == {p \in Paths : path[p].pc = "submitted"}

OneOwner ==
    /\ \A p \in Submitting : path[p].res \notin DOMAIN parked
    /\ \A p, q \in Submitting : path[p].res = path[q].res => p = q

ReservationInv == TypeOK /\ ReservationsMatchOrders /\ OneOwner

LEMMA StepReservationInv ==
    ASSUME ReservationInv, [Next]_vars
    PROVE  ReservationsMatchOrders' /\ OneOwner'
<1> USE DEF ReservationInv, ReservationsMatchOrders, OneOwner, Submitting
<1>0. TypeOK
  OBVIOUS
<1>p. path \in [Paths -> PathStates]
  BY DEF TypeOK
<1>1. ASSUME NEW p \in Paths, NEW s \in Symbols, NEW request \in 1..MaxQty,
             Begin(p, s, request)
      PROVE  ReservationsMatchOrders' /\ OneOwner'
  BY <1>p, <1>1 DEF Begin, NoPath, ledger, venue
<1>2. ASSUME NEW p \in Paths, Authorize(p)
      PROVE  ReservationsMatchOrders' /\ OneOwner'
  BY <1>p, <1>2 DEF Authorize, NoPath, venue
<1>3. ASSUME NEW p \in Paths, RateRefused(p)
      PROVE  ReservationsMatchOrders' /\ OneOwner'
  BY <1>p, <1>3 DEF RateRefused, ledger, venue
<1>4. ASSUME NEW p \in Paths, NEW id \in Ids, ReserveBuy(p, id)
      PROVE  ReservationsMatchOrders' /\ OneOwner'
  BY <1>p, <1>4 DEF ReserveBuy, Reserve, With
<1>5. ASSUME NEW p \in Paths, NEW id \in Ids, ReserveRemainder(p, id)
      PROVE  ReservationsMatchOrders' /\ OneOwner'
  BY <1>p, <1>5 DEF ReserveRemainder, Reserve, With
<1>6. ASSUME NEW p \in Paths, SubmitFails(p)
      PROVE  ReservationsMatchOrders' /\ OneOwner'
  BY <1>p, <1>6 DEF SubmitFails, NoPath, Release, Without
<1>7. ASSUME NEW p \in Paths, NEW k \in 0..MaxQty, NEW working \in BOOLEAN,
             NEW cost \in Charge(k, FixedFee), SubmitConfirmed(p, k, cost, working)
      PROVE  ReservationsMatchOrders' /\ OneOwner'
  BY <1>p, <1>7 DEF SubmitConfirmed, Release, Without
<1>8. ASSUME NEW p \in Paths, SubmitUnconfirmed(p)
      PROVE  ReservationsMatchOrders' /\ OneOwner'
  BY <1>p, <1>8 DEF SubmitUnconfirmed, With, ledger
<1>9. ASSUME NEW p \in Paths, RecordBuy(p) \/ PersistSpend(p) \/ RecordOpen(p) \/ Sync(p)
      PROVE  ReservationsMatchOrders' /\ OneOwner'
  <2>1. path[p].pc # "submitted" /\ path'[p].pc # "submitted"
    <3>1. CASE RecordBuy(p)     BY <1>p, <3>1 DEF RecordBuy
    <3>2. CASE PersistSpend(p)  BY <1>p, <3>2 DEF PersistSpend
    <3>3. CASE RecordOpen(p)
      BY <3>3, <1>0, PathTyped, <1>p DEF RecordOpen, PathStates, NoPath
    <3>4. CASE Sync(p)          BY <1>p, <3>4 DEF Sync, NoPath
    <3>. QED  BY <1>9, <3>1, <3>2, <3>3, <3>4
  <2>2. reserved' = reserved /\ parked' = parked /\ \A q \in Paths \ {p} : path'[q] = path[q]
    BY <1>p, <1>9 DEF RecordBuy, PersistSpend, RecordOpen, Sync, ledger
  <2>. QED  BY <2>1, <2>2
<1>10. ASSUME NEW id \in DOMAIN parked, ClearUnconfirmed(id)
       PROVE  ReservationsMatchOrders' /\ OneOwner'
  BY <1>10 DEF ClearUnconfirmed, Release, Without
<1>11. ASSUME Restart
       PROVE  ReservationsMatchOrders' /\ OneOwner'
  BY <1>11 DEF Restart, NoPath
<1>12. ASSUME UNCHANGED <<reserved, parked, path>>
       PROVE  ReservationsMatchOrders' /\ OneOwner'
  BY <1>12
<1>13. ASSUME NEW id \in DOMAIN orders, NEW k \in 0..MaxQty, NEW cost,
              VenueResolves(id, k, cost)
       PROVE  UNCHANGED <<reserved, parked, path>>
  BY <1>13 DEF VenueResolves, ledger
<1>14. ASSUME SyncIfStale \/ (\E s \in Symbols : Exit(s)) \/ Midnight \/ UNCHANGED vars
       PROVE  UNCHANGED <<reserved, parked, path>>
  BY <1>14 DEF SyncIfStale, Exit, Midnight, vars, ledger
<1>. QED
  BY <1>1, <1>2, <1>3, <1>4, <1>5, <1>6, <1>7, <1>8, <1>9, <1>10, <1>11, <1>12,
     <1>13, <1>14
  DEF Next, BuyStep

(* Whatever happens to an order -- refused, filled, unconfirmed, cleared,   *)
(* lost in a crash, raced by the other path -- a reservation exists for     *)
(* exactly the buys that still may take cash.                               *)
THEOREM ReservationsMatch == Spec => []ReservationsMatchOrders
<1>1. Init => ReservationInv
  BY InitTypeOK DEF Init, ReservationsMatchOrders, OneOwner, Submitting, NoPath, ReservationInv
<1>2. ReservationInv /\ [Next]_vars => ReservationInv'
  BY StepTypeOK, StepReservationInv DEF ReservationInv
<1>3. ReservationInv => ReservationsMatchOrders
  BY DEF ReservationInv
<1>. QED  BY <1>1, <1>2, <1>3, PTL DEF Spec

-----------------------------------------------------------------------------
(* The daily spend.  SpentWithinCap is not inductive: the headroom an order *)
(* was authorised on is only used when its fill is booked, so the invariant *)
(* carries, for every step of a buy, that the spend still fits.  It rests   *)
(* on one buy being in progress at a time, which "overlap" takes away.      *)
LEMMA TotalIsNat ==
    ASSUME NEW f, IsFiniteSet(DOMAIN f), NEW m \in Nat,
           \A x \in DOMAIN f : f[x] \in 0..m
    PROVE  Total(f) \in Nat
<1>1. IsFiniteSet(1..m)
  BY FS_Interval
<1>2. IsFiniteSet((DOMAIN f) \X (1..m))
  BY <1>1, FS_Product
<1>3. Units(f) \subseteq (DOMAIN f) \X (1..m)
  BY DEF Units
<1>4. IsFiniteSet(Units(f))
  BY <1>2, <1>3, FS_Subset
<1>. QED  BY <1>4, FS_CardinalityType DEF Total

LEMMA ReservedTotalIsNat ==
    ASSUME TypeOK
    PROVE  ReservedTotal \in Nat
<1> DEFINE f == [id \in DOMAIN reserved |-> reserved[id].amount]
<1>1. IsFiniteSet(DOMAIN f)
  BY FS_Subset, LedgerAssumption DEF TypeOK
<1>2. EstimatedCost(MaxQty) \in Nat
  BY LedgerAssumption DEF EstimatedCost
<1>3. \A x \in DOMAIN f : f[x] \in 0..EstimatedCost(MaxQty)
  BY DEF TypeOK, Amounts
<1>. QED  BY <1>1, <1>2, <1>3, TotalIsNat DEF ReservedTotal

OneAtATime == \A p, q \in Paths : path[p] # NoPath /\ path[q] # NoPath => p = q

(* What the buy on path p may still add to the daily spend. *)
StillToBook(p) ==
    CASE path[p].pc \in {"authorized", "submitted"} -> EstimatedCost(path[p].qty)
      [] path[p].pc = "filled" \/ (path[p].pc = "remainder" /\ p = Loop) ->
           IF path[p].qty = 0 THEN FixedFee ELSE path[p].cost
      [] OTHER -> 0

SpendFits == \A p \in Paths : SpentAsOfNow + StillToBook(p) <= MaxDailySpend

SpendInv ==
    /\ TypeOK
    /\ day <= clock
    /\ OneAtATime
    /\ MaxDailySpend > 0 => SpendFits /\ saved.amount <= MaxDailySpend

LEMMA StillToBookIsNat ==
    ASSUME TypeOK, NEW p \in Paths
    PROVE  StillToBook(p) \in Nat
<1>1. path[p] \in PathStates
  BY PathTyped
<1>2. CASE path[p].pc \in {"authorized", "submitted"}
  BY <1>1, <1>2, EstimateBound DEF PathStates, NoPath, Amounts, StillToBook
<1>3. CASE path[p].pc = "filled" \/ (path[p].pc = "remainder" /\ p = Loop)
  BY <1>1, <1>3, LedgerAssumption DEF PathStates, NoPath, Amounts, StillToBook
<1>. QED  BY <1>2, <1>3 DEF StillToBook

(* A step that books nothing and leaves p's claim, or drops it.             *)
LEMMA SpendFitsFrame ==
    ASSUME TypeOK, TypeOK', SpendFits, NEW p \in Paths,
           SpentAsOfNow' \in 0..SpentAsOfNow,
           \A q \in Paths \ {p} : path'[q] = path[q],
           StillToBook(p)' <= StillToBook(p)
    PROVE  SpendFits'
<1>1. SpentAsOfNow \in Nat
  BY DEF TypeOK, SpentAsOfNow
<1>2. ASSUME NEW q \in Paths
      PROVE  SpentAsOfNow' + StillToBook(q)' <= MaxDailySpend
  <2>1. StillToBook(q)' <= StillToBook(q)
    <3>1. CASE q = p   BY <3>1
    <3>2. CASE q # p
      BY <3>2, StillToBookIsNat DEF StillToBook, EstimatedCost
    <3>. QED  BY <3>1, <3>2
  <2>2. StillToBook(q) \in Nat /\ StillToBook(q)' \in Nat
    <3>1. path'[q] \in PathStates
      BY DEF TypeOK
    <3>2. StillToBook(q)' \in Nat
      <4>1. CASE path'[q].pc \in {"authorized", "submitted"}
        BY <3>1, <4>1, EstimateBound DEF PathStates, NoPath, Amounts, StillToBook
      <4>2. CASE path'[q].pc = "filled" \/ (path'[q].pc = "remainder" /\ q = Loop)
        BY <3>1, <4>2, LedgerAssumption DEF PathStates, NoPath, Amounts, StillToBook
      <4>. QED  BY <4>1, <4>2 DEF StillToBook
    <3>. QED  BY <3>2, StillToBookIsNat
  <2>3. SpentAsOfNow + StillToBook(q) <= MaxDailySpend
    BY DEF SpendFits
  <2>. QED  BY <1>1, <2>1, <2>2, <2>3, LedgerAssumption
<1>. QED  BY <1>2 DEF SpendFits

(* Without "overlap" a buy starts only when no other is in progress.        *)
LEMMA StepOneAtATime ==
    ASSUME TypeOK, OneAtATime, [Next]_vars, "overlap" \notin Faults
    PROVE  OneAtATime'
<1>p. path \in [Paths -> PathStates]
  BY DEF TypeOK
<1>1. ASSUME NEW p \in Paths, NEW s \in Symbols, NEW request \in 1..MaxQty,
             Begin(p, s, request)
      PROVE  OneAtATime'
  BY <1>p, <1>1 DEF Begin, Undisturbed, OneAtATime
<1>2. ASSUME NEW p \in Paths, path[p] # NoPath,
             \A q \in Paths \ {p} : path'[q] = path[q]
      PROVE  OneAtATime'
  BY <1>2 DEF OneAtATime
<1>3. ASSUME UNCHANGED path
      PROVE  OneAtATime'
  BY <1>3 DEF OneAtATime
<1>4. CASE Restart
  BY <1>4 DEF Restart, OneAtATime
<1>5. ASSUME NEW p \in Paths,
             \/ Authorize(p) \/ RateRefused(p) \/ SubmitFails(p) \/ SubmitUnconfirmed(p)
             \/ RecordBuy(p) \/ PersistSpend(p) \/ RecordOpen(p) \/ Sync(p)
             \/ \E id \in Ids : ReserveBuy(p, id) \/ ReserveRemainder(p, id)
             \/ \E k \in 0..MaxQty, working \in BOOLEAN :
                  \E cost \in Charge(k, FixedFee) : SubmitConfirmed(p, k, cost, working)
      PROVE  OneAtATime'
  <2>1. path[p] # NoPath
    BY <1>5 DEF Authorize, RateRefused, SubmitFails, SubmitUnconfirmed, RecordBuy,
                PersistSpend, RecordOpen, Sync, ReserveBuy, ReserveRemainder,
                SubmitConfirmed, NoPath
  <2>2. \A q \in Paths \ {p} : path'[q] = path[q]
    BY <1>p, <1>5
    DEF Authorize, RateRefused, SubmitFails, SubmitUnconfirmed, RecordBuy,
        PersistSpend, RecordOpen, Sync, ReserveBuy, ReserveRemainder, SubmitConfirmed
  <2>. QED  BY <1>2, <2>1, <2>2
<1>6. ASSUME \/ \E id \in DOMAIN orders, k \in 0..MaxQty :
                  \E cost \in Charge(k, orders[id].fee) : VenueResolves(id, k, cost)
             \/ \E id \in DOMAIN parked : ClearUnconfirmed(id)
             \/ SyncIfStale \/ (\E s \in Symbols : Exit(s)) \/ Midnight \/ UNCHANGED vars
      PROVE  OneAtATime'
  BY <1>3, <1>6 DEF VenueResolves, ClearUnconfirmed, SyncIfStale, Exit, Midnight, vars
<1>. QED  BY <1>1, <1>4, <1>5, <1>6 DEF Next, BuyStep

(* What Authorize let through fits the day's limit, whole.                  *)
LEMMA AuthorizedFits ==
    ASSUME TypeOK, MaxDailySpend > 0, NEW snap, NEW s, NEW request \in 1..MaxQty,
           NEW q \in 1..MaxQty, Authorized(snap, s, request, q)
    PROVE  SpentAsOfNow + EstimatedCost(q) <= MaxDailySpend
<1>1. q * EffPrice <= MaxDailySpend - SpentAsOfNow - ReservedTotal - FixedFee
  BY DEF Authorized, WithinCaps
<1>2. SpentAsOfNow \in Nat
  BY DEF TypeOK, SpentAsOfNow
<1>3. q * EffPrice \in Nat
  BY LedgerAssumption
<1>. QED  BY <1>1, <1>2, <1>3, ReservedTotalIsNat, LedgerAssumption DEF EstimatedCost

LEMMA StepSpendFits ==
    ASSUME SpendInv, [Next]_vars, MaxDailySpend > 0
    PROVE  SpendFits' /\ saved'.amount <= MaxDailySpend
<1>0. TypeOK /\ TypeOK' /\ OneAtATime /\ SpendFits /\ day <= clock
      /\ saved.amount <= MaxDailySpend
  BY StepTypeOK DEF SpendInv
<1>p. path \in [Paths -> PathStates]
  BY <1>0 DEF TypeOK
<1>n. SpentAsOfNow \in Nat /\ \A p \in Paths : StillToBook(p) \in Nat
  BY <1>0, StillToBookIsNat DEF TypeOK, SpentAsOfNow
<1>s. ASSUME NEW p \in Paths
      PROVE  SpentAsOfNow + StillToBook(p) <= MaxDailySpend
  BY <1>0 DEF SpendFits
<1>u. ASSUME NEW p \in Paths, UNCHANGED <<clock, ledger, saved>>,
             \A q \in Paths \ {p} : path'[q] = path[q],
             StillToBook(p)' <= StillToBook(p)
      PROVE  SpendFits' /\ saved'.amount <= MaxDailySpend
  BY <1>u, <1>0, <1>n, SpendFitsFrame DEF SpentAsOfNow, ledger
<1>f. ASSUME NEW p \in Paths, SpentAsOfNow' = SpentAsOfNow, UNCHANGED saved,
             \A q \in Paths \ {p} : path'[q] = path[q],
             StillToBook(p)' <= StillToBook(p)
      PROVE  SpendFits' /\ saved'.amount <= MaxDailySpend
  BY <1>0, <1>n, <1>f, SpendFitsFrame
<1>1. ASSUME NEW p \in Paths, NEW s \in Symbols, NEW request \in 1..MaxQty,
             Begin(p, s, request)
      PROVE  SpendFits' /\ saved'.amount <= MaxDailySpend
  BY <1>p, <1>1, <1>n, <1>u DEF Begin, StillToBook
<1>2. ASSUME NEW p \in Paths, Authorize(p)
      PROVE  SpendFits' /\ saved'.amount <= MaxDailySpend
  <2>1. SpentAsOfNow' = SpentAsOfNow
    BY <1>2 DEF Authorize, RollDay, SpentAsOfNow
  <2>2. \A q \in Paths \ {p} : path'[q] = path[q]
    BY <1>p, <1>2 DEF Authorize
  <2>3. path[p] \in [pc : {"sized"}, symbol : Symbols, request : 1..MaxQty, snap : Snapshots]
    BY <1>0, <1>2, PathTyped DEF Authorize, PathStates, NoPath
  <2>4. CASE path' = [path EXCEPT ![p] = NoPath]
    <3>1. StillToBook(p)' = 0
      BY <1>p, <2>4 DEF StillToBook, NoPath
    <3>. QED  BY <1>2, <1>n, <1>f, <2>1, <2>2, <3>1 DEF Authorize
  <2>5. ASSUME NEW q \in 1..path[p].request,
               Authorized(path[p].snap, path[p].symbol, path[p].request, q),
               path' = [path EXCEPT ![p] = [pc |-> "authorized",
                                            symbol |-> path[p].symbol, qty |-> q]]
        PROVE  SpendFits' /\ saved'.amount <= MaxDailySpend
    <3>1. StillToBook(p)' = EstimatedCost(q)
      BY <1>p, <2>5 DEF StillToBook, EstimatedCost
    <3>2. SpentAsOfNow + EstimatedCost(q) <= MaxDailySpend
      BY <2>3, LedgerAssumption, <1>0, <2>5, AuthorizedFits
    <3>3. ASSUME NEW r \in Paths \ {p}
          PROVE  StillToBook(r)' = StillToBook(r)
      BY <2>2 DEF StillToBook, EstimatedCost
    <3>4. SpendFits'
      BY <1>s, <2>1, <3>1, <3>2, <3>3 DEF SpendFits
    <3>. QED  BY <1>0, <1>2, <3>4 DEF Authorize
  <2>. QED  BY <1>2, <2>4, <2>5 DEF Authorize
<1>3. ASSUME NEW p \in Paths,
             \/ RateRefused(p) \/ SubmitFails(p) \/ SubmitUnconfirmed(p)
             \/ Sync(p) \/ RecordOpen(p)
             \/ \E id \in Ids : ReserveBuy(p, id) \/ ReserveRemainder(p, id)
      PROVE  SpendFits' /\ saved'.amount <= MaxDailySpend
  <2>1. SpentAsOfNow' = SpentAsOfNow /\ UNCHANGED saved
    BY <1>3 DEF RateRefused, SubmitFails, SubmitUnconfirmed, Sync, ReserveBuy,
                ReserveRemainder, RecordOpen, SpentAsOfNow, ledger
  <2>2. \A q \in Paths \ {p} : path'[q] = path[q]
    BY <1>p, <1>3 DEF RateRefused, SubmitFails, SubmitUnconfirmed, Sync, ReserveBuy,
                      ReserveRemainder, RecordOpen
  <2>3. StillToBook(p)' <= StillToBook(p)
    <3>1. CASE RateRefused(p) \/ SubmitFails(p) \/ SubmitUnconfirmed(p) \/ Sync(p)
      BY <1>p, <3>1, <1>n DEF RateRefused, SubmitFails, SubmitUnconfirmed, Sync, StillToBook, NoPath
    <3>2. ASSUME NEW id \in Ids, ReserveBuy(p, id)
          PROVE  StillToBook(p)' <= StillToBook(p)
      BY <1>p, <3>2, <1>n DEF ReserveBuy, StillToBook, EstimatedCost
    <3>3. ASSUME NEW id \in Ids, ReserveRemainder(p, id)
          PROVE  StillToBook(p)' <= StillToBook(p)
      BY <1>0, <3>3, PathTyped, <1>p, <1>n DEF ReserveRemainder, PathStates, NoPath, StillToBook
    <3>4. CASE RecordOpen(p)
      BY <1>0, <3>4, PathTyped, <1>p, <1>n DEF RecordOpen, PathStates, NoPath, StillToBook
    <3>. QED  BY <1>3, <3>1, <3>2, <3>3, <3>4
  <2>. QED  BY <1>f, <2>1, <2>2, <2>3
<1>4. ASSUME NEW p \in Paths, NEW k \in 0..MaxQty, NEW working \in BOOLEAN,
             NEW cost \in Charge(k, FixedFee), SubmitConfirmed(p, k, cost, working)
      PROVE  SpendFits' /\ saved'.amount <= MaxDailySpend
  <2>1. path[p] \in [pc : {"submitted"}, symbol : Symbols, qty : 1..MaxQty, res : Ids]
    BY <1>0, <1>4, PathTyped DEF SubmitConfirmed, PathStates, NoPath
  <2>2. cost \in 0..EstimatedCost(path[p].qty)
    BY <1>4, <2>1, ChargeBound DEF SubmitConfirmed
  <2>3. StillToBook(p) = EstimatedCost(path[p].qty)
    BY <2>1 DEF StillToBook
  <2>4. FixedFee <= EstimatedCost(path[p].qty)
    BY <2>1, LedgerAssumption, CostBounds DEF EstimatedCost
  <2>5. StillToBook(p)' \in {0, FixedFee, cost}
    BY <1>p, <1>4 DEF SubmitConfirmed, StillToBook
  <2>6. StillToBook(p)' <= StillToBook(p)
    BY <1>n, <2>2, <2>3, <2>4, <2>5, LedgerAssumption
  <2>7. \A q \in Paths \ {p} : path'[q] = path[q]
    BY <1>p, <1>4 DEF SubmitConfirmed
  <2>8. SpentAsOfNow' = SpentAsOfNow /\ UNCHANGED saved
    BY <1>4 DEF SubmitConfirmed, SpentAsOfNow
  <2>. QED  BY <1>f, <2>6, <2>7, <2>8
<1>5. ASSUME NEW p \in Paths, RecordBuy(p)
      PROVE  SpendFits' /\ saved'.amount <= MaxDailySpend
  <2>1. path[p].pc = "filled" /\ path[p] # NoPath
    BY <1>5 DEF RecordBuy, NoPath
  <2>2. \A q \in Paths \ {p} : path[q] = NoPath /\ path'[q] = NoPath
    BY <1>0, <1>5, <2>1 DEF OneAtATime, RecordBuy
  <2>3. SpentAsOfNow' = SpentAsOfNow + StillToBook(p)
    BY <1>5, <2>1 DEF RecordBuy, RollDay, SpentAsOfNow, StillToBook
  <2>4. \A q \in Paths : StillToBook(q)' = 0
    BY <1>p, <1>5, <2>1, PathTyped, <1>0, <2>2 DEF RecordBuy, PathStates, NoPath, StillToBook
  <2>5. SpendFits'
    BY <1>s, <1>n, <2>3, <2>4 DEF SpendFits
  <2>. QED  BY <1>0, <1>5, <2>5 DEF RecordBuy
<1>6. ASSUME NEW p \in Paths, PersistSpend(p)
      PROVE  SpendFits' /\ saved'.amount <= MaxDailySpend
  <2>1. SpentAsOfNow' = SpentAsOfNow /\ saved'.amount = SpentAsOfNow
    BY <1>6 DEF PersistSpend, RollDay, SpentAsOfNow
  <2>2. \A q \in Paths \ {p} : path'[q] = path[q]
    BY <1>p, <1>6 DEF PersistSpend
  <2>3. path[p] \in [pc : {"filled", "booked", "persisted"}, symbol : Symbols,
                     qty : 0..MaxQty, cost : Amounts, rem : 0..MaxQty]
    BY <1>0, <1>6, PathTyped DEF PersistSpend, PathStates, NoPath
  <2>4. StillToBook(p)' = 0
    BY <1>p, <1>6, <2>3 DEF PersistSpend, StillToBook
  <2>5. SpendFits'
    BY <1>0, <1>n, <2>1, <2>2, <2>4, SpendFitsFrame
  <2>. QED  BY <1>s, <1>n, <2>1, <2>5, LedgerAssumption
<1>7. ASSUME Restart
      PROVE  SpendFits' /\ saved'.amount <= MaxDailySpend
  <2>1. \A p \in Paths : StillToBook(p)' = 0
    BY <1>7 DEF Restart, StillToBook, NoPath
  <2>2. SpentAsOfNow' <= MaxDailySpend
    BY <1>0, <1>7, LedgerAssumption DEF Restart, SpentAsOfNow
  <2>3. SpentAsOfNow' \in Nat
    BY <1>0, <1>7 DEF Restart, SpentAsOfNow, TypeOK
  <2>. QED  BY <1>0, <1>7, <2>1, <2>2, <2>3, LedgerAssumption DEF Restart, SpendFits
<1>8. ASSUME Midnight
      PROVE  SpendFits' /\ saved'.amount <= MaxDailySpend
  BY <1>0, <1>8, <1>s, <1>n, LedgerAssumption DEF Midnight, SpentAsOfNow, ledger, TypeOK, StillToBook,
     EstimatedCost, SpendFits
<1>9. ASSUME \/ \E id \in DOMAIN orders, k \in 0..MaxQty :
                  \E cost \in Charge(k, orders[id].fee) : VenueResolves(id, k, cost)
             \/ \E id \in DOMAIN parked : ClearUnconfirmed(id)
             \/ SyncIfStale \/ (\E s \in Symbols : Exit(s)) \/ UNCHANGED vars
      PROVE  SpendFits' /\ saved'.amount <= MaxDailySpend
  <2>1. UNCHANGED <<clock, day, spentToday, saved, path>>
    BY <1>9 DEF VenueResolves, ClearUnconfirmed, SyncIfStale, Exit, vars, ledger
  <2>2. SpentAsOfNow' = SpentAsOfNow /\ \A p \in Paths : StillToBook(p)' = StillToBook(p)
    BY <2>1 DEF SpentAsOfNow, StillToBook, EstimatedCost
  <2>. QED  BY <1>0, <2>1, <2>2 DEF SpendFits
<1>. QED
  BY <1>1, <1>2, <1>3, <1>4, <1>5, <1>6, <1>7, <1>8, <1>9 DEF Next, BuyStep

LEMMA StepDay ==
    ASSUME TypeOK, day <= clock, [Next]_vars
    PROVE  day' <= clock'
<1>1. CASE UNCHANGED <<clock, day>>
  BY <1>1
<1>2. CASE UNCHANGED clock /\ day' = clock
  BY <1>2 DEF TypeOK
<1>3. CASE Midnight
  BY <1>3 DEF Midnight, ledger, TypeOK
<1>4. ASSUME NEW p \in Paths, Authorize(p) \/ RecordBuy(p) \/ PersistSpend(p)
      PROVE  UNCHANGED clock /\ day' = clock
  BY <1>4 DEF Authorize, RecordBuy, PersistSpend, RollDay
<1>5. CASE Restart
  BY <1>2, <1>5 DEF Restart
<1>6. ASSUME NEW p \in Paths,
             \/ RateRefused(p) \/ SubmitFails(p) \/ SubmitUnconfirmed(p)
             \/ RecordOpen(p) \/ Sync(p)
             \/ \E s \in Symbols, request \in 1..MaxQty : Begin(p, s, request)
             \/ \E id \in Ids : ReserveBuy(p, id) \/ ReserveRemainder(p, id)
             \/ \E k \in 0..MaxQty, working \in BOOLEAN :
                  \E cost \in Charge(k, FixedFee) : SubmitConfirmed(p, k, cost, working)
      PROVE  UNCHANGED <<clock, day>>
  BY <1>6 DEF RateRefused, SubmitFails, SubmitUnconfirmed, RecordOpen, Sync, Begin,
              ReserveBuy, ReserveRemainder, SubmitConfirmed, ledger
<1>7. ASSUME \/ \E id \in DOMAIN orders, k \in 0..MaxQty :
                  \E cost \in Charge(k, orders[id].fee) : VenueResolves(id, k, cost)
             \/ \E id \in DOMAIN parked : ClearUnconfirmed(id)
             \/ SyncIfStale \/ (\E s \in Symbols : Exit(s)) \/ UNCHANGED vars
      PROVE  UNCHANGED <<clock, day>>
  BY <1>7 DEF VenueResolves, ClearUnconfirmed, SyncIfStale, Exit, vars, ledger
<1>. QED  BY <1>1, <1>2, <1>3, <1>4, <1>5, <1>6, <1>7 DEF Next, BuyStep

(* max_daily_spend holds for every limit, fee, price and number of symbols, *)
(* through partial fills, midnight and crashes at any step, provided no two *)
(* buys are in progress at once.                                            *)
THEOREM DailySpendCap ==
    ASSUME "overlap" \notin Faults
    PROVE  Spec => []SpentWithinCap
<1>1. Init => SpendInv
  BY LedgerAssumption, InitTypeOK DEF Init, OneAtATime, SpendFits, StillToBook, SpentAsOfNow, NoPath, SpendInv
<1>2. SpendInv /\ [Next]_vars => SpendInv'
  BY StepTypeOK, StepOneAtATime, StepSpendFits, StepDay DEF SpendInv
<1>3. SpendInv => SpentWithinCap
  <2>1. ASSUME SpendInv, MaxDailySpend > 0
        PROVE  SpentAsOfNow <= MaxDailySpend
    BY <2>1, StillToBookIsNat, LedgerAssumption DEF SpendInv, TypeOK, SpentAsOfNow, Paths, SpendFits
  <2>. QED  BY <2>1 DEF SpentWithinCap
<1>. QED  BY <1>1, <1>2, <1>3, PTL DEF Spec

-----------------------------------------------------------------------------
(* What the limits are about, as sums over the order book o, the holdings h *)
(* and the reservations r; T is a group of symbols, one of them or all.     *)
OwedBy(o) == Total([id \in DOMAIN o |-> o[id].left * EffPrice + o[id].fee])
OrdersIn(o, T) == {id \in DOMAIN o : o[id].symbol \in T}
IncomingOf(o, T) == Total([id \in OrdersIn(o, T) |-> o[id].left * Price])
HeldIn(h, T) == Total([s \in T |-> h[s]])
AmountOf(r, ids) == Total([id \in ids |-> r[id].amount])

Order == [symbol : Symbols, left : 1..MaxQty, fee : {0, FixedFee}]
IsBook(o) == DOMAIN o \subseteq Ids /\ \A id \in DOMAIN o : o[id] \in Order

LEMMA OwedSum ==
    ASSUME NEW o, IsBook(o)
    PROVE  /\ Summable([id \in DOMAIN o |-> o[id].left * EffPrice + o[id].fee])
           /\ OwedBy(o) \in Nat
<1>1. IsFiniteSet(DOMAIN o)
  BY LedgerAssumption, FS_Subset DEF IsBook
<1>2. \A id \in DOMAIN o : o[id].left * EffPrice + o[id].fee \in Nat
  BY LedgerAssumption DEF IsBook, Order
<1>3. Summable([id \in DOMAIN o |-> o[id].left * EffPrice + o[id].fee])
  BY <1>1, <1>2 DEF Summable
<1>. QED  BY <1>3, SumIsNat DEF OwedBy

LEMMA IncomingSum ==
    ASSUME NEW o, IsBook(o), NEW T
    PROVE  /\ Summable([id \in OrdersIn(o, T) |-> o[id].left * Price])
           /\ IncomingOf(o, T) \in Nat
<1>1. IsFiniteSet(OrdersIn(o, T))
  BY LedgerAssumption, FS_Subset DEF IsBook, OrdersIn
<1>2. \A id \in OrdersIn(o, T) : o[id].left * Price \in Nat
  BY LedgerAssumption DEF IsBook, Order, OrdersIn
<1>3. Summable([id \in OrdersIn(o, T) |-> o[id].left * Price])
  BY <1>1, <1>2 DEF Summable
<1>. QED  BY <1>3, SumIsNat DEF IncomingOf

(* An order put in the book. *)
LEMMA BookGrows ==
    ASSUME NEW o, IsBook(o), NEW id \in Ids, id \notin DOMAIN o, NEW w \in Order, NEW T
    PROVE  /\ OwedBy(With(o, id, w)) = OwedBy(o) + (w.left * EffPrice + w.fee)
           /\ IncomingOf(With(o, id, w), T) =
                IncomingOf(o, T) + (IF w.symbol \in T THEN w.left * Price ELSE 0)
<1> DEFINE n == With(o, id, w)
<1>1. /\ DOMAIN n = DOMAIN o \cup {id} /\ n[id] = w
      /\ \A i \in DOMAIN o : n[i] = o[i]
  BY DEF With
<1>2. w.left * EffPrice + w.fee \in Nat /\ w.left * Price \in Nat
  BY LedgerAssumption DEF Order
<1> HIDE DEF n
<1>3. OwedBy(n) = OwedBy(o) + (w.left * EffPrice + w.fee)
  <2> DEFINE f == [i \in DOMAIN o |-> o[i].left * EffPrice + o[i].fee]
  <2> DEFINE g == [i \in DOMAIN n |-> n[i].left * EffPrice + n[i].fee]
  <2>1. Summable(f)
    BY OwedSum
  <2>2. DOMAIN g = DOMAIN f \cup {id} /\ id \notin DOMAIN f
        /\ g[id] = w.left * EffPrice + w.fee /\ \A x \in DOMAIN f : g[x] = f[x]
    BY <1>1
  <2>3. Total(g) = Total(f) + g[id]
    <3> HIDE DEF f, g
    <3>. QED  BY <1>2, <2>1, <2>2, SumAdded
  <2>. QED  BY <2>2, <2>3 DEF OwedBy
<1>4. CASE w.symbol \notin T
  <2>1. OrdersIn(n, T) = OrdersIn(o, T)
    BY <1>1, <1>4 DEF OrdersIn
  <2>2. [i \in OrdersIn(n, T) |-> n[i].left * Price] = [i \in OrdersIn(o, T) |-> o[i].left * Price]
    BY <1>1, <2>1 DEF OrdersIn
  <2>3. IncomingOf(n, T) = IncomingOf(o, T) /\ IncomingOf(o, T) \in Nat
    BY <2>2, IncomingSum DEF IncomingOf
  <2>. QED  BY <1>3, <1>4, <2>3 DEF n
<1>5. CASE w.symbol \in T
  <2> DEFINE f == [i \in OrdersIn(o, T) |-> o[i].left * Price]
  <2> DEFINE g == [i \in OrdersIn(n, T) |-> n[i].left * Price]
  <2>1. Summable(f)
    BY IncomingSum
  <2>2. OrdersIn(n, T) = OrdersIn(o, T) \cup {id} /\ id \notin OrdersIn(o, T)
    BY <1>1, <1>5 DEF OrdersIn
  <2>3. DOMAIN g = DOMAIN f \cup {id} /\ id \notin DOMAIN f
        /\ g[id] = w.left * Price /\ \A x \in DOMAIN f : g[x] = f[x]
    BY <1>1, <2>2 DEF OrdersIn
  <2>4. Total(g) = Total(f) + g[id]
    <3> HIDE DEF f, g
    <3>. QED  BY <1>2, <2>1, <2>3, SumAdded
  <2>5. IncomingOf(n, T) = IncomingOf(o, T) + w.left * Price
    BY <2>3, <2>4 DEF IncomingOf
  <2>. QED  BY <1>3, <1>5, <2>5 DEF n
<1>. QED  BY <1>4, <1>5

(* An order taken out of it. *)
LEMMA BookShrinks ==
    ASSUME NEW o, IsBook(o), NEW id \in DOMAIN o, NEW T
    PROVE  /\ IsBook(Without(o, {id}))
           /\ OwedBy(o) = OwedBy(Without(o, {id})) + (o[id].left * EffPrice + o[id].fee)
           /\ IncomingOf(o, T) = IncomingOf(Without(o, {id}), T)
                                 + (IF o[id].symbol \in T THEN o[id].left * Price ELSE 0)
<1> DEFINE rest == Without(o, {id})
<1>1. IsBook(rest) /\ id \in Ids /\ id \notin DOMAIN rest /\ o[id] \in Order
  BY DEF Without, IsBook
<1>2. \A w : DOMAIN With(rest, id, w) = DOMAIN o
  BY DEF With, Without
<1>3. CASE o = With(rest, id, o[id])
  <2> HIDE DEF rest
  <2>. QED  BY <1>1, <1>3, BookGrows DEF rest
<1> DEFINE n == With(rest, id, o[id])
<1>4. DOMAIN n = DOMAIN o /\ \A i \in DOMAIN o : n[i] = o[i]
  BY DEF With, Without
<1>5. OwedBy(o) = OwedBy(n) /\ IncomingOf(o, T) = IncomingOf(n, T)
  <2> HIDE DEF n
  <2>1. [i \in DOMAIN o |-> o[i].left * EffPrice + o[i].fee] =
        [i \in DOMAIN n |-> n[i].left * EffPrice + n[i].fee]
    BY <1>4
  <2>2. OrdersIn(o, T) = OrdersIn(n, T)
    BY <1>4 DEF OrdersIn
  <2>3. [i \in OrdersIn(o, T) |-> o[i].left * Price] = [i \in OrdersIn(n, T) |-> n[i].left * Price]
    BY <1>4, <2>2 DEF OrdersIn
  <2>. QED  BY <2>1, <2>3 DEF OwedBy, IncomingOf
<1> HIDE DEF rest
<1>6. OwedBy(n) = OwedBy(rest) + (o[id].left * EffPrice + o[id].fee)
  BY <1>1, BookGrows
<1>7. IncomingOf(n, T) = IncomingOf(rest, T)
                         + (IF o[id].symbol \in T THEN o[id].left * Price ELSE 0)
  BY <1>1, BookGrows
<1>. QED  BY <1>1, <1>5, <1>6, <1>7 DEF rest

LEMMA HeldSum ==
    ASSUME NEW h \in [Symbols -> Nat], NEW T \in SUBSET Symbols
    PROVE  Summable([s \in T |-> h[s]]) /\ HeldIn(h, T) \in Nat
<1>1. Summable([s \in T |-> h[s]])
  BY LedgerAssumption, FS_Subset DEF Summable
<1>. QED  BY <1>1, SumIsNat DEF HeldIn

(* A bigger holding is worth more. *)
LEMMA HeldAtMost ==
    ASSUME NEW h \in [Symbols -> Nat], NEW m \in [Symbols -> Nat], NEW T \in SUBSET Symbols,
           \A s \in T : h[s] <= m[s]
    PROVE  HeldIn(h, T) <= HeldIn(m, T)
BY HeldSum, SumAtMost DEF HeldIn

(* k shares of s more. *)
LEMMA HeldGrows ==
    ASSUME NEW h \in [Symbols -> Nat], NEW T \in SUBSET Symbols,
           NEW s \in Symbols, NEW k \in Nat,
           NEW m \in [Symbols -> Nat], m[s] = h[s] + k, \A x \in Symbols \ {s} : m[x] = h[x]
    PROVE  HeldIn(m, T) = HeldIn(h, T) + (IF s \in T THEN k ELSE 0)
<1> DEFINE f == [x \in T |-> h[x]]
<1> DEFINE g == [x \in T |-> m[x]]
<1>1. Summable(f) /\ Total(f) \in Nat
  BY HeldSum DEF HeldIn
<1>2. CASE s \notin T
  BY <1>2, <1>1 DEF HeldIn
<1>3. CASE s \in T
  <2>1. DOMAIN g = DOMAIN f /\ s \in DOMAIN f /\ g[s] \in Nat /\ g[s] = f[s] + k /\ f[s] \in Nat
        /\ \A x \in DOMAIN f \ {s} : g[x] = f[x]
    BY <1>3
  <2>2. Total(g) = Total(f) - f[s] + g[s]
    <3> HIDE DEF f, g
    <3>. QED  BY <1>1, <2>1, SumChanged
  <2>3. Total(g) = Total(f) + k
    <3> HIDE DEF f, g
    <3>. QED  BY <1>1, <2>1, <2>2
  <2>. QED  BY <1>3, <2>3 DEF HeldIn
<1>. QED  BY <1>2, <1>3

IsReserve(r) == DOMAIN r \subseteq Ids /\ \A id \in DOMAIN r : r[id].amount \in Nat

LEMMA AmountSum ==
    ASSUME NEW r, IsReserve(r), NEW ids \in SUBSET DOMAIN r
    PROVE  Summable([id \in ids |-> r[id].amount]) /\ AmountOf(r, ids) \in Nat
<1>1. IsFiniteSet(ids)
  BY LedgerAssumption, FS_Subset DEF IsReserve
<1>2. Summable([id \in ids |-> r[id].amount])
  BY <1>1 DEF Summable, IsReserve
<1>. QED  BY <1>2, SumIsNat DEF AmountOf

(* More reservations hold more. *)
LEMMA AmountGrows ==
    ASSUME NEW r, IsReserve(r), NEW ids \in SUBSET DOMAIN r, NEW id \in DOMAIN r, id \notin ids
    PROVE  AmountOf(r, ids \cup {id}) = AmountOf(r, ids) + r[id].amount
<1> DEFINE f == [i \in ids |-> r[i].amount]
<1> DEFINE g == [i \in ids \cup {id} |-> r[i].amount]
<1>1. Summable(f)
  BY AmountSum
<1>2. DOMAIN g = DOMAIN f \cup {id} /\ id \notin DOMAIN f /\ g[id] = r[id].amount
      /\ g[id] \in Nat /\ \A x \in DOMAIN f : g[x] = f[x]
  BY DEF IsReserve
<1>3. Total(g) = Total(f) + g[id]
  <2> HIDE DEF f, g
  <2>. QED  BY <1>1, <1>2, SumAdded
<1>. QED  BY <1>2, <1>3 DEF AmountOf

(* Reservations held for orders cover what the orders may come to. *)
LEMMA AmountCovers ==
    ASSUME NEW o, IsBook(o), NEW r, IsReserve(r), DOMAIN o \subseteq DOMAIN r,
           \A id \in DOMAIN o : r[id].amount >= o[id].left * EffPrice + o[id].fee,
           NEW T
    PROVE  /\ OwedBy(o) <= AmountOf(r, DOMAIN o)
           /\ IncomingOf(o, T) <= AmountOf(r, OrdersIn(o, T))
<1>1. OwedBy(o) <= AmountOf(r, DOMAIN o)
  <2> DEFINE f == [id \in DOMAIN o |-> o[id].left * EffPrice + o[id].fee]
  <2> DEFINE g == [id \in DOMAIN o |-> r[id].amount]
  <2>1. Summable(f) /\ Summable(g)
    BY OwedSum, AmountSum
  <2>2. DOMAIN f = DOMAIN g /\ \A x \in DOMAIN f : f[x] <= g[x]
    BY LedgerAssumption DEF IsReserve, IsBook, Order
  <2>3. Total(f) <= Total(g)
    <3> HIDE DEF f, g
    <3>. QED  BY <2>1, <2>2, SumAtMost
  <2>. QED  BY <2>3 DEF OwedBy, AmountOf
<1>2. IncomingOf(o, T) <= AmountOf(r, OrdersIn(o, T))
  <2> DEFINE f == [id \in OrdersIn(o, T) |-> o[id].left * Price]
  <2> DEFINE g == [id \in OrdersIn(o, T) |-> r[id].amount]
  <2>0. OrdersIn(o, T) \subseteq DOMAIN r
    BY DEF OrdersIn
  <2>1. Summable(f) /\ Summable(g)
    BY <2>0, IncomingSum, AmountSum
  <2>2. ASSUME NEW id \in OrdersIn(o, T)
        PROVE  o[id].left * Price <= r[id].amount
    <3>1. o[id].left \in Nat /\ o[id].fee \in Nat /\ r[id].amount \in Nat
          /\ r[id].amount >= o[id].left * EffPrice + o[id].fee
      BY LedgerAssumption DEF OrdersIn, IsBook, Order, IsReserve
    <3>2. /\ o[id].left * Price \in Nat /\ o[id].left * EffPrice \in Nat
          /\ o[id].left * Price <= o[id].left * EffPrice
      BY <3>1, CostBounds
    <3>. QED  BY <3>1, <3>2
  <2>3. Total(f) <= Total(g)
    <3>1. DOMAIN f = DOMAIN g /\ \A x \in DOMAIN f : f[x] <= g[x]
      BY <2>2
    <3> HIDE DEF f, g
    <3>. QED  BY <2>1, <3>1, SumAtMost
  <2>. QED  BY <2>3 DEF IncomingOf, AmountOf
<1>. QED  BY <1>1, <1>2

-----------------------------------------------------------------------------
(* The inductive invariant.  A buy that was let through has a claim on the  *)
(* limits until the venue has filled it or an order stands for it.          *)
Claim(p) ==
    CASE path[p].pc \in {"authorized", "submitted"} -> path[p].qty
      [] path[p].pc = "remainder"
         \/ (path[p].pc \in {"filled", "booked", "persisted"} /\ p # Loop) -> path[p].rem
      [] OTHER -> 0
ClaimFee(p) == IF path[p].pc \in {"authorized", "submitted"} THEN FixedFee ELSE 0
ClaimIn(p, T) == IF Claim(p) > 0 /\ path[p].symbol \in T THEN Claim(p) ELSE 0

(* Shares the venue has filled and the engine has not yet recorded. *)
ToRecord(p, s) ==
    IF /\ path[p].pc \in {"filled", "booked", "persisted"}
          \/ (path[p].pc = "remainder" /\ p = Loop)
       /\ path[p].symbol = s
    THEN path[p].qty ELSE 0

(* Unconfirmed orders that have come to rest at the venue. *)
Settled == DOMAIN parked \ DOMAIN orders
SettledIn(T) == {id \in Settled : reserved[id].symbol \in T}

(* Every working order has a reservation that covers the worst it may cost. *)
Covered ==
    /\ DOMAIN orders \subseteq DOMAIN parked
    /\ \A id \in DOMAIN orders :
         /\ reserved[id].symbol = orders[id].symbol
         /\ reserved[id].amount >= orders[id].left * EffPrice + orders[id].fee
    /\ \A p \in Submitting :
         reserved[path[p].res] = [amount |-> EstimatedCost(path[p].qty),
                                  symbol |-> path[p].symbol]

(* The engine never thinks it holds what the account does not. *)
Known ==
    \A s \in Symbols : /\ pf.qty[s] <= venueQty[s]
                       /\ \A p \in Paths : openPos[s] + ToRecord(p, s) <= venueQty[s]

(* A buy is sized on what the engine knows now. *)
SnapFresh == \A p \in Paths : path[p].pc = "sized" => path[p].snap = PendingExposure

(* Between buys, what the cached portfolio misses is still reserved. *)
Settling(p) == path[p].pc \in {"remainder", "filled", "booked", "persisted", "sync"}
Lag ==
    (\A p \in Paths : ~Settling(p)) =>
      /\ pf.cash - venueCash <= AmountOf(reserved, Settled)
      /\ \A T \in SUBSET Symbols :
           Price * HeldIn(venueQty, T) - Price * HeldIn(pf.qty, T)
             <= AmountOf(reserved, SettledIn(T))

(* What the limits leave once every order and claim has come true. *)
CashFits(p) ==
    OwedBy(orders) + Claim(p) * EffPrice + ClaimFee(p) + CashReserve <= venueCash
Exposure(p, T) ==
    Price * HeldIn(venueQty, T) + IncomingOf(orders, T) + ClaimIn(p, T) * Price
Committed(p) ==
    {s \in Symbols : venueQty[s] > 0 \/ OrdersIn(orders, {s}) # {} \/ ClaimIn(p, {s}) > 0}

CapsFit ==
    /\ InitialCash >= CashReserve => \A p \in Paths : CashFits(p)
    /\ MaxTotalInvested > 0 => \A p \in Paths : Exposure(p, Symbols) <= MaxTotalInvested
    /\ MaxPerPosition > 0 =>
         \A s \in Symbols : \A p \in Paths : Exposure(p, {s}) <= MaxPerPosition
    /\ MaxOpenPositions > 0 =>
         \A p \in Paths : Cardinality(Committed(p)) <= MaxOpenPositions

Bookkeeping == ReservationInv /\ OneAtATime /\ Covered /\ Known /\ SnapFresh /\ Lag
CapInv == Bookkeeping /\ CapsFit

LEMMA Typed ==
    ASSUME TypeOK
    PROVE  /\ IsBook(orders) /\ IsReserve(reserved)
           /\ MaxTotalInvested \in Nat /\ MaxPerPosition \in Nat /\ MaxOpenPositions \in Nat
           /\ venueCash \in Int /\ venueQty \in [Symbols -> Nat]
           /\ pf.cash \in Int /\ pf.qty \in [Symbols -> Nat] /\ openPos \in [Symbols -> Nat]
<1>1. IsBook(orders)
  BY DEF TypeOK, IsBook, Order
<1>2. IsReserve(reserved)
  BY LedgerAssumption DEF TypeOK, IsReserve, Amounts, EstimatedCost
<1>3. MaxTotalInvested \in Nat /\ MaxPerPosition \in Nat /\ MaxOpenPositions \in Nat
  BY LedgerAssumption DEF TypeOK, MaxTotalInvested, MaxPerPosition, MaxOpenPositions
<1>. QED  BY <1>1, <1>2, <1>3 DEF TypeOK, Snapshots

LEMMA ClaimTyped ==
    ASSUME TypeOK, NEW p \in Paths
    PROVE  /\ Claim(p) \in 0..MaxQty /\ ClaimFee(p) \in Nat
           /\ Claim(p) > 0 => path[p].symbol \in Symbols
<1>1. path[p] \in PathStates
  BY PathTyped
<1>2. CASE path[p].pc \in {"authorized", "submitted"}
  BY <1>1, <1>2, LedgerAssumption DEF PathStates, NoPath, Claim, ClaimFee
<1>3. CASE path[p].pc = "remainder" \/ (path[p].pc \in {"filled", "booked", "persisted"} /\ p # Loop)
  BY <1>1, <1>3, LedgerAssumption DEF PathStates, NoPath, Claim, ClaimFee
<1>4. CASE /\ path[p].pc \notin {"authorized", "submitted", "remainder"}
           /\ path[p].pc \in {"filled", "booked", "persisted"} => p = Loop
  BY <1>4, LedgerAssumption DEF Claim, ClaimFee
<1>. QED  BY <1>2, <1>3, <1>4

ClaimsTyped ==
    \A p \in Paths : /\ Claim(p) \in 0..MaxQty /\ ClaimFee(p) \in Nat
                     /\ Claim(p) > 0 => path[p].symbol \in Symbols

LEMMA ClaimsAreTyped == TypeOK => ClaimsTyped
BY ClaimTyped DEF ClaimsTyped

LEMMA ClaimsAreTypedNext ==
    ASSUME TypeOK'
    PROVE  ClaimsTyped'
<1>1. (TypeOK => ClaimsTyped)'
  BY ClaimsAreTyped, PTL
<1>. QED  BY <1>1

-----------------------------------------------------------------------------
(* What a step can do to the account, the order book and the claims.  Five  *)
(* shapes stand for all the actions; the limits are argued on those.        *)
SameBook(o, n) == DOMAIN n = DOMAIN o /\ \A id \in DOMAIN o : n[id] = o[id]

Quiet ==
    /\ SameBook(orders, orders') /\ UNCHANGED <<venueCash, venueQty>>
    /\ \A q \in Paths :
         /\ ClaimFee(q)' <= ClaimFee(q)
         /\ \/ Claim(q)' = 0
            \/ Claim(q)' = Claim(q) /\ path'[q].symbol = path[q].symbol

(* Path p is let through for q shares. *)
Lets(p, q) ==
    /\ path[p].pc = "sized" /\ path[p].request \in 1..MaxQty
    /\ q \in 1..MaxQty
    /\ Authorized(path[p].snap, path[p].symbol, path[p].request, q)
    /\ UNCHANGED <<orders, venueCash, venueQty>>
    /\ Claim(p)' = q /\ path'[p].symbol = path[p].symbol /\ ClaimFee(p)' = FixedFee

(* What p claims becomes the order w at the venue. *)
Rests(p, id, w) ==
    /\ id \in Ids \ DOMAIN orders /\ w \in Order
    /\ orders' = With(orders, id, w)
    /\ w.symbol = path[p].symbol /\ w.left = Claim(p) /\ w.fee <= ClaimFee(p)
    /\ UNCHANGED <<venueCash, venueQty>>
    /\ Claim(p)' = 0 /\ ClaimFee(p)' = 0

(* k shares of what p claims are bought. *)
Takes(p, k, cost) ==
    /\ path[p].symbol \in Symbols
    /\ k \in 0..Claim(p) /\ ClaimFee(p) = FixedFee
    /\ cost \in Charge(k, FixedFee)
    /\ VenueTakes(path[p].symbol, k, cost)
    /\ UNCHANGED orders
    /\ Claim(p)' \in 0..(Claim(p) - k) /\ ClaimFee(p)' = 0
    /\ Claim(p)' > 0 => path'[p].symbol = path[p].symbol

(* Only p moves, and every other path is idle before and after. *)
Alone(p) == \A q \in Paths \ {p} : path[q] = NoPath /\ path'[q] = NoPath

LEMMA StepAlone ==
    ASSUME TypeOK, OneAtATime, NEW p \in Paths, path[p] # NoPath,
           \A q \in Paths \ {p} : path'[q] = path[q]
    PROVE  Alone(p)
BY DEF Alone, OneAtATime

LEMMA StepShape ==
    ASSUME TypeOK, OneOwner, OneAtATime, Covered, [Next]_vars, Faults = {}
    PROVE  \/ Quiet
           \/ \E p \in Paths : Alone(p) /\ \E q \in 1..MaxQty : Lets(p, q)
           \/ \E p \in Paths : Alone(p) /\ \E id \in Ids, w \in Order : Rests(p, id, w)
           \/ \E p \in Paths : Alone(p) /\ \E k \in 0..MaxQty :
                \E cost \in Charge(k, FixedFee) : Takes(p, k, cost)
           \/ \E id \in DOMAIN orders, k \in 0..MaxQty :
                \E cost \in Charge(k, orders[id].fee) : VenueResolves(id, k, cost)
           \/ \E s \in Symbols : Exit(s)
<1>p. path \in [Paths -> PathStates]
  BY DEF TypeOK
<1>c. \A q \in Paths : Claim(q) \in 0..MaxQty /\ ClaimFee(q) \in Nat
  BY ClaimTyped
<1>q. ASSUME UNCHANGED <<orders, venueCash, venueQty>>, NEW p \in Paths,
             \A q \in Paths \ {p} : path'[q] = path[q],
             ClaimFee(p)' <= ClaimFee(p),
             \/ Claim(p)' = 0
             \/ Claim(p)' = Claim(p) /\ path'[p].symbol = path[p].symbol
      PROVE  Quiet
  <2>1. ASSUME NEW q \in Paths \ {p}
        PROVE  ClaimFee(q)' = ClaimFee(q) /\ Claim(q)' = Claim(q)
    BY <1>q DEF Claim, ClaimFee
  <2>. QED  BY <1>c, <1>q, <2>1 DEF Quiet, SameBook
<1>u. ASSUME SameBook(orders, orders'), UNCHANGED <<venueCash, venueQty, path>>
      PROVE  Quiet
  <2>1. ASSUME NEW q \in Paths
        PROVE  ClaimFee(q)' = ClaimFee(q) /\ Claim(q)' = Claim(q)
    BY <1>u DEF Claim, ClaimFee
  <2>. QED  BY <1>c, <1>u, <2>1 DEF Quiet
<1>1. ASSUME NEW p \in Paths,
             \/ \E s \in Symbols, request \in 1..MaxQty : Begin(p, s, request)
             \/ RateRefused(p) \/ SubmitFails(p) \/ Sync(p)
      PROVE  Quiet
  <2>1. UNCHANGED <<orders, venueCash, venueQty>> /\ \A q \in Paths \ {p} : path'[q] = path[q]
    BY <1>p, <1>1 DEF Begin, RateRefused, SubmitFails, Sync, venue
  <2>2. Claim(p)' = 0 /\ ClaimFee(p)' = 0
    <3>1. path'[p].pc \in {"sized", "sync", "idle"}
      <4>1. CASE \E s \in Symbols, request \in 1..MaxQty : Begin(p, s, request)
        BY <1>p, <4>1 DEF Begin
      <4>2. CASE RateRefused(p) \/ SubmitFails(p) \/ Sync(p)
        BY <1>p, <4>2 DEF RateRefused, SubmitFails, Sync, NoPath
      <4>. QED  BY <1>1, <4>1, <4>2
    <3>. QED  BY <3>1 DEF Claim, ClaimFee
  <2>. QED  BY <1>c, <1>q, <2>1, <2>2
<1>2. ASSUME NEW p \in Paths, Authorize(p)
      PROVE  Quiet \/ (Alone(p) /\ \E q \in 1..MaxQty : Lets(p, q))
  <2>1. path[p] \in [pc : {"sized"}, symbol : Symbols, request : 1..MaxQty, snap : Snapshots]
    BY <1>2, PathTyped DEF Authorize, PathStates, NoPath
  <2>2. UNCHANGED <<orders, venueCash, venueQty>> /\ \A q \in Paths \ {p} : path'[q] = path[q]
    BY <1>p, <1>2 DEF Authorize, venue
  <2>3. CASE path' = [path EXCEPT ![p] = NoPath]
    BY <1>p, <2>3, <1>c, <1>q, <2>2 DEF Claim, ClaimFee, NoPath
  <2>4. ASSUME NEW q \in 1..path[p].request,
               Authorized(path[p].snap, path[p].symbol, path[p].request, q),
               path' = [path EXCEPT ![p] = [pc |-> "authorized",
                                            symbol |-> path[p].symbol, qty |-> q]]
        PROVE  Alone(p) /\ \E n \in 1..MaxQty : Lets(p, n)
    BY <2>1, LedgerAssumption, <1>p, <2>4, <2>2, StepAlone DEF Claim, ClaimFee, NoPath, Lets
  <2>. QED  BY <1>2, <2>3, <2>4 DEF Authorize
<1>3. ASSUME NEW p \in Paths, NEW id \in Ids, ReserveBuy(p, id)
      PROVE  Quiet
  BY <1>p, <1>3, <1>c, <1>q DEF ReserveBuy, venue, Claim, ClaimFee
<1>4. ASSUME NEW p \in Paths, NEW id \in Ids, ReserveRemainder(p, id)
      PROVE  Alone(p) /\ \E w \in Order : Rests(p, id, w)
  <2>1. path[p] \in [pc : {"remainder"}, symbol : Symbols,
                     qty : 0..MaxQty, cost : Amounts, rem : 1..MaxQty]
    BY <1>4, PathTyped DEF ReserveRemainder, PathStates, NoPath
  <2>2. Alone(p)
    BY <1>p, <1>4, <2>1, StepAlone DEF ReserveRemainder, NoPath
  <2> DEFINE w == Working(path[p].symbol, path[p].rem, 0)
  <2>3. w \in Order /\ w.symbol = path[p].symbol /\ w.left = path[p].rem /\ w.fee = 0
    BY <2>1 DEF Working, Order
  <2>4. Claim(p) = path[p].rem /\ ClaimFee(p) = 0
    BY <2>1 DEF Claim, ClaimFee
  <2>5. Claim(p)' = 0 /\ ClaimFee(p)' = 0
    BY <1>p, <1>4, <2>1 DEF ReserveRemainder, Claim, ClaimFee
  <2>6. id \notin DOMAIN orders /\ orders' = With(orders, id, w) /\ UNCHANGED <<venueCash, venueQty>>
    BY <1>4 DEF ReserveRemainder, Reserve
  <2> HIDE DEF w
  <2>. QED  BY <2>2, <2>3, <2>4, <2>5, <2>6 DEF Rests
<1>5. ASSUME NEW p \in Paths, SubmitUnconfirmed(p)
      PROVE  Alone(p) /\ \E id \in Ids, w \in Order : Rests(p, id, w)
  <2>1. path[p] \in [pc : {"submitted"}, symbol : Symbols, qty : 1..MaxQty, res : Ids]
    BY <1>5, PathTyped DEF SubmitUnconfirmed, PathStates, NoPath
  <2>2. Alone(p)
    BY <1>p, <1>5, <2>1, StepAlone DEF SubmitUnconfirmed, NoPath
  <2> DEFINE w == Working(path[p].symbol, path[p].qty, FixedFee)
  <2>3. w \in Order /\ w.symbol = path[p].symbol /\ w.left = path[p].qty /\ w.fee = FixedFee
    BY <2>1 DEF Working, Order
  <2>4. Claim(p) = path[p].qty /\ ClaimFee(p) = FixedFee
    BY <2>1 DEF Claim, ClaimFee
  <2>5. Claim(p)' = 0 /\ ClaimFee(p)' = 0
    BY <1>p, <1>5 DEF SubmitUnconfirmed, Claim, ClaimFee
  <2>6. /\ path[p].res \in Ids \ DOMAIN orders /\ orders' = With(orders, path[p].res, w)
        /\ UNCHANGED <<venueCash, venueQty>>
    BY <1>5, <2>1 DEF SubmitUnconfirmed, OneOwner, Submitting, Covered
  <2>7. FixedFee <= FixedFee
    BY LedgerAssumption
  <2> HIDE DEF w
  <2>. QED  BY <2>2, <2>3, <2>4, <2>5, <2>6, <2>7 DEF Rests
<1>6. ASSUME NEW p \in Paths, NEW k \in 0..MaxQty, NEW working \in BOOLEAN,
             NEW cost \in Charge(k, FixedFee), SubmitConfirmed(p, k, cost, working)
      PROVE  Alone(p) /\ Takes(p, k, cost)
  <2>1. path[p] \in [pc : {"submitted"}, symbol : Symbols, qty : 1..MaxQty, res : Ids]
    BY <1>6, PathTyped DEF SubmitConfirmed, PathStates, NoPath
  <2>2. Alone(p)
    BY <1>p, <1>6, <2>1, StepAlone DEF SubmitConfirmed, NoPath
  <2>3. Claim(p) = path[p].qty /\ ClaimFee(p) = FixedFee
    BY <2>1 DEF Claim, ClaimFee
  <2>4. CASE k = 0 /\ p = Loop
    BY <1>p, <1>6, <2>4, <2>1, <2>2, <2>3 DEF SubmitConfirmed, Claim, ClaimFee, Takes
  <2>5. CASE ~(k = 0 /\ p = Loop)
    BY <1>p, <1>6, <2>5, <2>1, <2>2, <2>3 DEF SubmitConfirmed, Claim, ClaimFee, Takes
  <2>. QED  BY <2>4, <2>5
<1>7. ASSUME NEW p \in Paths, RecordBuy(p) \/ PersistSpend(p) \/ RecordOpen(p)
      PROVE  Quiet
  <2>1. path[p] \in [pc : {"filled", "booked", "persisted"}, symbol : Symbols,
                     qty : 0..MaxQty, cost : Amounts, rem : 0..MaxQty]
    BY <1>7, PathTyped DEF RecordBuy, PersistSpend, RecordOpen, PathStates, NoPath
  <2>2. UNCHANGED <<orders, venueCash, venueQty>> /\ \A q \in Paths \ {p} : path'[q] = path[q]
    BY <1>p, <1>7 DEF RecordBuy, PersistSpend, RecordOpen, venue
  <2>3. ClaimFee(p)' = 0 /\ (Claim(p)' = 0 \/ (Claim(p)' = Claim(p) /\ path'[p].symbol = path[p].symbol))
    BY <1>p, <2>1, <1>7 DEF RecordBuy, Claim, ClaimFee, PersistSpend, RecordOpen
  <2>. QED  BY <1>c, <1>q, <2>2, <2>3
<1>8. ASSUME \/ \E id \in DOMAIN parked : ClearUnconfirmed(id)
             \/ SyncIfStale \/ Midnight \/ UNCHANGED vars
      PROVE  Quiet
  BY <1>u, <1>8 DEF ClearUnconfirmed, SyncIfStale, Midnight, vars, venue, SameBook
<1>9. CASE Restart
  <2>1. (\A p \in Paths : path[p] = NoPath) /\ DOMAIN parked = {} /\ DOMAIN orders = {}
    BY <1>9 DEF Restart
  <2>2. SameBook(orders, orders')
    <3>1. {p \in Paths : path[p].pc = "submitted"} = {}
      BY <2>1 DEF NoPath
    <3>2. PICK arrived \in SUBSET {p \in Paths : path[p].pc = "submitted"} :
            orders' = [id \in DOMAIN orders \cup {path[p].res : p \in arrived} |->
                         IF id \in DOMAIN orders THEN orders[id]
                         ELSE LET p == CHOOSE q \in arrived : path[q].res = id
                              IN  Working(path[p].symbol, path[p].qty, FixedFee)]
      BY <1>9 DEF Restart
    <3>3. arrived = {}
      BY <3>1
    <3>4. DOMAIN orders' = {}
      BY <2>1, <3>2, <3>3
    <3>. QED  BY <2>1, <3>4 DEF SameBook
  <2>3. UNCHANGED <<venueCash, venueQty, path>>
    BY <1>9, <1>p, <2>1 DEF Restart
  <2>. QED  BY <1>u, <2>2, <2>3
<1>. QED
  BY <1>1, <1>2, <1>3, <1>4, <1>5, <1>6, <1>7, <1>8, <1>9 DEF Next, BuyStep

(* Equal books weigh the same. *)
LEMMA SameSums ==
    ASSUME NEW o, NEW n, SameBook(o, n), NEW T
    PROVE  /\ OwedBy(n) = OwedBy(o)
           /\ OrdersIn(n, T) = OrdersIn(o, T)
           /\ IncomingOf(n, T) = IncomingOf(o, T)
<1>1. [id \in DOMAIN n |-> n[id].left * EffPrice + n[id].fee] =
      [id \in DOMAIN o |-> o[id].left * EffPrice + o[id].fee]
  BY DEF SameBook
<1>2. OrdersIn(n, T) = OrdersIn(o, T)
  BY DEF SameBook, OrdersIn
<1>3. [id \in OrdersIn(n, T) |-> n[id].left * Price] = [id \in OrdersIn(o, T) |-> o[id].left * Price]
  BY <1>2 DEF SameBook, OrdersIn
<1>. QED  BY <1>1, <1>2, <1>3 DEF OwedBy, IncomingOf

(* When nothing is being submitted, what is reserved is what is parked. *)
LEMMA ParkedOnly ==
    ASSUME ReservationsMatchOrders, NEW p \in Paths, Alone(p), path[p].pc # "submitted"
    PROVE  DOMAIN reserved = DOMAIN parked
<1>1. \A q \in Paths : path[q].pc # "submitted"
  BY DEF Alone, NoPath
<1>. QED  BY <1>1 DEF ReservationsMatchOrders

(* What the venue charges for k shares it sells at most at the cost price. *)
LEMMA ChargeWithin ==
    ASSUME NEW k \in Nat, NEW fee \in Nat, NEW cost \in Charge(k, fee)
    PROVE  cost \in Nat /\ cost <= k * EffPrice + fee
<1>1. k * Price \in Nat /\ k * EffPrice \in Nat /\ k * Price <= k * EffPrice
  BY CostBounds
<1>. QED  BY <1>1 DEF Charge

-----------------------------------------------------------------------------
(* The cash floor. *)
LEMMA StepCash ==
    ASSUME Bookkeeping, TypeOK', [Next]_vars, Faults = {}, \A p \in Paths : CashFits(p)
    PROVE  \A p \in Paths : CashFits(p)'
<1>0. TypeOK /\ OneOwner /\ OneAtATime /\ Covered
  BY DEF Bookkeeping, ReservationInv
<1>t. /\ IsBook(orders) /\ venueCash \in Int /\ OwedBy(orders) \in Nat
      /\ IsReserve(reserved) /\ pf.cash \in Int
  BY <1>0, Typed, OwedSum
<1>n. IsBook(orders') /\ venueCash' \in Int
  <2>1. (TypeOK => IsBook(orders) /\ venueCash \in Int)'
    BY Typed, PTL
  <2>. QED  BY <2>1
<1>c. \A p \in Paths : /\ Claim(p) \in 0..MaxQty /\ ClaimFee(p) \in Nat
                       /\ Claim(p)' \in 0..MaxQty /\ ClaimFee(p)' \in Nat
  BY <1>0, ClaimsAreTyped, ClaimsAreTypedNext DEF ClaimsTyped
<1>e. \A n \in 0..MaxQty : n * EffPrice \in Nat
  BY LedgerAssumption
<1>a. ASSUME NEW p \in Paths, Alone(p), CashFits(p)', OwedBy(orders)' \in Nat
      PROVE  \A q \in Paths : CashFits(q)'
  <2>1. ASSUME NEW q \in Paths \ {p}
        PROVE  Claim(q)' = 0 /\ ClaimFee(q)' = 0
    BY <1>a DEF Alone, Claim, ClaimFee, NoPath
  <2>2. ASSUME NEW q \in Paths \ {p}
        PROVE  CashFits(q)'
    <3>1. Claim(q)' * EffPrice = 0
      BY <2>1, LedgerAssumption
    <3>2. Claim(p)' * EffPrice \in Nat /\ ClaimFee(p)' \in Nat
      BY <1>c, <1>e
    <3>. QED  BY <1>a, <1>n, <2>1, <3>1, <3>2, LedgerAssumption DEF CashFits
  <2>. QED  BY <1>a, <2>2
<1>1. CASE Quiet
  <2>1. OwedBy(orders') = OwedBy(orders) /\ venueCash' = venueCash
    BY <1>1, SameSums DEF Quiet
  <2>2. ASSUME NEW q \in Paths
        PROVE  CashFits(q)'
    <3>1. Claim(q)' * EffPrice <= Claim(q) * EffPrice /\ ClaimFee(q)' <= ClaimFee(q)
      BY <1>1, <1>c, <1>e, LedgerAssumption DEF Quiet
    <3>2. CashFits(q)
      OBVIOUS
    <3>. QED  BY <1>t, <1>c, <1>e, <2>1, <3>1, <3>2, LedgerAssumption DEF CashFits
  <2>. QED  BY <2>2
<1>2. ASSUME NEW p \in Paths, Alone(p), NEW q \in 1..MaxQty, Lets(p, q)
      PROVE  \A r \in Paths : CashFits(r)'
  <2>1. /\ OwedBy(orders)' = OwedBy(orders) /\ venueCash' = venueCash
        /\ Claim(p)' = q /\ ClaimFee(p)' = FixedFee
    BY <1>2 DEF Lets, OwedBy
  <2>2. q * EffPrice <= path[p].snap.cash - ReservedTotal - CashReserve - FixedFee
    BY <1>2 DEF Lets, Authorized, WithinCaps
  <2>3. path[p].snap.cash = pf.cash
    <3>1. path[p].snap = PendingExposure
      BY <1>2 DEF Lets, Bookkeeping, SnapFresh
    <3>. QED  BY <3>1 DEF PendingExposure
  <2>4. pf.cash - venueCash <= AmountOf(reserved, Settled)
    BY <1>2 DEF Bookkeeping, Lag, Settling, Lets, Alone, NoPath
  <2>5. DOMAIN reserved = DOMAIN parked
    BY <1>2, ParkedOnly DEF Bookkeeping, ReservationInv, Lets
  <2>6. ReservedTotal = AmountOf(reserved, Settled) + AmountOf(reserved, DOMAIN orders)
    <3> DEFINE f == [id \in DOMAIN reserved |-> reserved[id].amount]
    <3>1. Summable(f)
      BY <1>t, AmountSum
    <3>2. DOMAIN f = Settled \cup DOMAIN orders /\ Settled \cap DOMAIN orders = {}
      BY <1>0, <2>5 DEF Settled, Covered
    <3>3. Total(f) = Total([id \in Settled |-> f[id]]) + Total([id \in DOMAIN orders |-> f[id]])
      <4> HIDE DEF f
      <4>. QED  BY <3>1, <3>2, SumInParts
    <3>4. /\ [id \in Settled |-> f[id]] = [id \in Settled |-> reserved[id].amount]
          /\ [id \in DOMAIN orders |-> f[id]] = [id \in DOMAIN orders |-> reserved[id].amount]
      BY <3>2
    <3>. QED  BY <3>3, <3>4 DEF ReservedTotal, AmountOf
  <2>7. OwedBy(orders) <= AmountOf(reserved, DOMAIN orders)
    BY <1>0, <1>t, <2>5, AmountCovers DEF Covered
  <2>8. AmountOf(reserved, Settled) \in Nat /\ AmountOf(reserved, DOMAIN orders) \in Nat
    BY <1>0, <1>t, <2>5, AmountSum DEF Settled, Covered
  <2>9. CashFits(p)'
    BY <1>t, <1>e, <2>1, <2>2, <2>3, <2>4, <2>6, <2>7, <2>8, LedgerAssumption DEF CashFits
  <2>. QED  BY <1>2, <1>a, <1>t, <2>1, <2>9
<1>3. ASSUME NEW p \in Paths, Alone(p), NEW id \in Ids, NEW w \in Order, Rests(p, id, w)
      PROVE  \A r \in Paths : CashFits(r)'
  <2>1. OwedBy(orders)' = OwedBy(orders) + (w.left * EffPrice + w.fee)
    BY <1>3, <1>t, BookGrows DEF Rests
  <2>2. w.left = Claim(p) /\ w.fee <= ClaimFee(p) /\ w.fee \in Nat /\ Claim(p)' = 0 /\ ClaimFee(p)' = 0
        /\ venueCash' = venueCash
    BY <1>3, LedgerAssumption DEF Rests, Order
  <2>3. Claim(p)' * EffPrice = 0
    BY <2>2, LedgerAssumption
  <2>4. CashFits(p)
    OBVIOUS
  <2>5. CashFits(p)' /\ OwedBy(orders)' \in Nat
    BY <1>t, <1>c, <1>e, <2>1, <2>2, <2>3, <2>4, LedgerAssumption DEF CashFits
  <2>. QED  BY <1>3, <1>a, <2>5
<1>4. ASSUME NEW p \in Paths, Alone(p), NEW k \in 0..MaxQty, NEW cost \in Charge(k, FixedFee),
             Takes(p, k, cost)
      PROVE  \A r \in Paths : CashFits(r)'
  <2>1. /\ k \in 0..Claim(p) /\ ClaimFee(p) = FixedFee /\ Claim(p)' \in 0..(Claim(p) - k)
        /\ ClaimFee(p)' = 0 /\ venueCash' = venueCash - cost /\ OwedBy(orders)' = OwedBy(orders)
    BY <1>4 DEF Takes, VenueTakes, OwedBy
  <2>2. cost \in Nat /\ cost <= k * EffPrice + FixedFee
    BY ChargeWithin, LedgerAssumption
  <2>3. (Claim(p)' + k) * EffPrice <= Claim(p) * EffPrice
    BY <1>c, <2>1, CostBounds, LedgerAssumption
  <2>4. (Claim(p)' + k) * EffPrice = Claim(p)' * EffPrice + k * EffPrice
    BY <1>c, LedgerAssumption
  <2>5. CashFits(p)
    OBVIOUS
  <2>6. CashFits(p)'
    BY <1>t, <1>c, <1>e, <2>1, <2>2, <2>3, <2>4, <2>5, LedgerAssumption DEF CashFits
  <2>. QED  BY <1>4, <1>a, <1>t, <2>1, <2>6
<1>5. ASSUME NEW id \in DOMAIN orders, NEW k \in 0..MaxQty,
             NEW cost \in Charge(k, orders[id].fee), VenueResolves(id, k, cost)
      PROVE  \A r \in Paths : CashFits(r)'
  <2>1. orders[id] \in Order
    BY <1>t DEF IsBook
  <2>2. cost \in Nat /\ cost <= k * EffPrice + orders[id].fee
    BY <2>1, ChargeWithin, LedgerAssumption DEF Order
  <2>3. k * EffPrice <= orders[id].left * EffPrice
    BY <1>5, <2>1, CostBounds DEF VenueResolves, Order
  <2>4. OwedBy(orders) = OwedBy(orders') + (orders[id].left * EffPrice + orders[id].fee)
    BY <1>5, <1>t, BookShrinks DEF VenueResolves
  <2>5. OwedBy(orders') \in Nat
    BY <1>n, OwedSum
  <2>6. venueCash' = venueCash - cost
    BY <1>5 DEF VenueResolves, VenueTakes
  <2>7. ASSUME NEW r \in Paths
        PROVE  CashFits(r)'
    <3>1. Claim(r)' = Claim(r) /\ ClaimFee(r)' = ClaimFee(r)
      BY <1>5 DEF VenueResolves, Claim, ClaimFee
    <3>2. CashFits(r)
      OBVIOUS
    <3>3. orders[id].fee \in Nat /\ orders[id].left * EffPrice \in Nat /\ k * EffPrice \in Nat
      BY <1>e, <2>1, LedgerAssumption DEF Order
    <3>. QED  BY <1>t, <1>c, <1>e, <2>2, <2>3, <2>4, <2>5, <2>6, <3>1, <3>2, <3>3,
                 LedgerAssumption DEF CashFits
  <2>. QED  BY <2>7
<1>6. ASSUME NEW s \in Symbols, Exit(s)
      PROVE  \A r \in Paths : CashFits(r)'
  <2>1. venueQty[s] * Price \in Nat
    BY <1>0, Typed, LedgerAssumption
  <2>2. venueCash' = venueCash + venueQty[s] * Price /\ OwedBy(orders)' = OwedBy(orders)
    BY <1>6 DEF Exit, OwedBy
  <2>3. ASSUME NEW r \in Paths
        PROVE  CashFits(r)'
    <3>1. Claim(r)' = Claim(r) /\ ClaimFee(r)' = ClaimFee(r)
      BY <1>6 DEF Exit, Claim, ClaimFee
    <3>2. CashFits(r)
      OBVIOUS
    <3>. QED  BY <1>t, <1>c, <1>e, <2>1, <2>2, <3>1, <3>2, LedgerAssumption DEF CashFits
  <2>. QED  BY <2>3
<1>. QED  BY <1>0, <1>1, <1>2, <1>3, <1>4, <1>5, <1>6, StepShape

-----------------------------------------------------------------------------
(* The ceilings on what is invested, in one symbol or in all of them.       *)
ReservedIn(T) == {id \in DOMAIN reserved : reserved[id].symbol \in T}

LEMMA ClaimInTyped ==
    ASSUME ClaimsTyped, NEW p \in Paths, NEW T
    PROVE  ClaimIn(p, T) \in 0..MaxQty
BY LedgerAssumption DEF ClaimsTyped, ClaimIn

LEMMA ClaimInTypedNext ==
    ASSUME ClaimsTyped', NEW p \in Paths, NEW T
    PROVE  ClaimIn(p, T)' \in 0..MaxQty
BY LedgerAssumption DEF ClaimsTyped, ClaimIn

(* Everything reserved is for a settled order or for a working one.         *)
LEMMA ReservedInParts ==
    ASSUME TypeOK, Covered, DOMAIN reserved = DOMAIN parked, NEW T
    PROVE  /\ AmountOf(reserved, ReservedIn(T)) =
                AmountOf(reserved, SettledIn(T)) + AmountOf(reserved, OrdersIn(orders, T))
           /\ AmountOf(reserved, SettledIn(T)) \in Nat
           /\ AmountOf(reserved, OrdersIn(orders, T)) \in Nat
           /\ IncomingOf(orders, T) <= AmountOf(reserved, OrdersIn(orders, T))
<1>t. IsBook(orders) /\ IsReserve(reserved)
  BY Typed
<1> DEFINE f == [id \in ReservedIn(T) |-> reserved[id].amount]
<1>1. Summable(f)
  BY <1>t, AmountSum DEF ReservedIn
<1>2. DOMAIN f = SettledIn(T) \cup OrdersIn(orders, T) /\ SettledIn(T) \cap OrdersIn(orders, T) = {}
  BY DEF ReservedIn, SettledIn, Settled, OrdersIn, Covered
<1>3. Total(f) = Total([id \in SettledIn(T) |-> f[id]]) + Total([id \in OrdersIn(orders, T) |-> f[id]])
  <2> HIDE DEF f
  <2>. QED  BY <1>1, <1>2, SumInParts
<1>4. /\ [id \in SettledIn(T) |-> f[id]] = [id \in SettledIn(T) |-> reserved[id].amount]
      /\ [id \in OrdersIn(orders, T) |-> f[id]] = [id \in OrdersIn(orders, T) |-> reserved[id].amount]
  BY <1>2
<1>5. AmountOf(reserved, ReservedIn(T)) =
        AmountOf(reserved, SettledIn(T)) + AmountOf(reserved, OrdersIn(orders, T))
  BY <1>3, <1>4 DEF AmountOf
<1>6. SettledIn(T) \in SUBSET DOMAIN reserved /\ OrdersIn(orders, T) \in SUBSET DOMAIN reserved
  BY DEF SettledIn, Settled, OrdersIn, Covered
<1>7. AmountOf(reserved, SettledIn(T)) \in Nat /\ AmountOf(reserved, OrdersIn(orders, T)) \in Nat
  BY <1>t, <1>6, AmountSum
<1>8. IncomingOf(orders, T) <= AmountOf(reserved, OrdersIn(orders, T))
  BY <1>t, AmountCovers DEF Covered
<1>. QED  BY <1>5, <1>7, <1>8

LEMMA StepExposure ==
    ASSUME Bookkeeping, TypeOK', [Next]_vars, Faults = {},
           NEW T \in SUBSET Symbols, NEW limit \in Nat,
           \A p \in Paths : Exposure(p, T) <= limit,
           \A p \in Paths, q \in 1..MaxQty :
             Lets(p, q) /\ path[p].symbol \in T =>
               q * Price <= limit - Price * HeldIn(path[p].snap.qty, T)
                                  - AmountOf(reserved, ReservedIn(T))
    PROVE  \A p \in Paths : Exposure(p, T)' <= limit
<1>0. TypeOK /\ OneOwner /\ OneAtATime /\ Covered
  BY DEF Bookkeeping, ReservationInv
<1>t. /\ IsBook(orders) /\ IncomingOf(orders, T) \in Nat
      /\ venueQty \in [Symbols -> Nat] /\ HeldIn(venueQty, T) \in Nat
  BY <1>0, Typed, IncomingSum, HeldSum
<1>n. /\ IsBook(orders') /\ IncomingOf(orders', T) \in Nat
      /\ venueQty' \in [Symbols -> Nat] /\ HeldIn(venueQty', T) \in Nat
  <2>1. (TypeOK => IsBook(orders) /\ venueQty \in [Symbols -> Nat])'
    BY Typed, PTL
  <2>. QED  BY <2>1, IncomingSum, HeldSum
<1>c. ClaimsTyped /\ ClaimsTyped'
  BY <1>0, ClaimsAreTyped, ClaimsAreTypedNext
<1>i. \A p \in Paths : ClaimIn(p, T) \in 0..MaxQty /\ ClaimIn(p, T)' \in 0..MaxQty
  BY <1>c, ClaimInTyped, ClaimInTypedNext
<1>e. \A n \in Nat : n * Price \in Nat /\ Price * n = n * Price
  BY LedgerAssumption
<1>f. \A n, m \in Nat : n <= m => n * Price <= m * Price
  BY CostBounds, LedgerAssumption
<1>g. \A n, m \in Nat : (n + m) * Price = n * Price + m * Price
  BY LedgerAssumption
<1>x. \A p \in Paths :
        /\ Exposure(p, T) = Price * HeldIn(venueQty, T) + IncomingOf(orders, T) + ClaimIn(p, T) * Price
        /\ Exposure(p, T)' = Price * HeldIn(venueQty', T) + IncomingOf(orders', T) + ClaimIn(p, T)' * Price
  BY DEF Exposure, HeldIn, IncomingOf, OrdersIn
<1>a. ASSUME NEW p \in Paths, Alone(p), Exposure(p, T)' <= limit
      PROVE  \A q \in Paths : Exposure(q, T)' <= limit
  <2>1. ASSUME NEW q \in Paths \ {p}
        PROVE  ClaimIn(q, T)' = 0
    BY <1>a DEF Alone, Claim, ClaimIn, NoPath
  <2>2. ASSUME NEW q \in Paths \ {p}
        PROVE  Exposure(q, T)' <= limit
    <3>1. ClaimIn(q, T)' * Price = 0 /\ ClaimIn(p, T)' * Price \in Nat
      BY <1>i, <1>e, <2>1, LedgerAssumption
    <3>. QED  BY <1>a, <1>e, <1>n, <1>x, <3>1
  <2>. QED  BY <1>a, <2>2
<1>1. CASE Quiet
  <2>1. IncomingOf(orders', T) = IncomingOf(orders, T) /\ venueQty' = venueQty
    BY <1>1, SameSums DEF Quiet
  <2>2. ASSUME NEW q \in Paths
        PROVE  Exposure(q, T)' <= limit
    <3>1. ClaimIn(q, T)' <= ClaimIn(q, T)
      BY <1>1, <1>c, <1>i DEF Quiet, ClaimIn, ClaimsTyped
    <3>2. ClaimIn(q, T)' * Price <= ClaimIn(q, T) * Price
      BY <1>f, <1>i, <3>1
    <3>3. Exposure(q, T) <= limit
      OBVIOUS
    <3>. QED  BY <1>t, <1>e, <1>i, <1>x, <2>1, <3>2, <3>3
  <2>. QED  BY <2>2
<1>2. ASSUME NEW p \in Paths, Alone(p), NEW q \in 1..MaxQty, Lets(p, q)
      PROVE  \A r \in Paths : Exposure(r, T)' <= limit
  <2>1. /\ IncomingOf(orders', T) = IncomingOf(orders, T) /\ venueQty' = venueQty
        /\ Claim(p)' = q /\ path'[p].symbol = path[p].symbol
    BY <1>2 DEF Lets
  <2>2. CASE path[p].symbol \notin T
    <3>1. ClaimIn(p, T)' = 0 /\ ClaimIn(p, T)' * Price = 0
      BY <2>1, <2>2, LedgerAssumption DEF ClaimIn
    <3>2. Exposure(p, T) <= limit /\ ClaimIn(p, T) * Price \in Nat
      BY <1>e, <1>i
    <3>. QED  BY <1>2, <1>a, <1>e, <1>t, <1>x, <2>1, <3>1, <3>2
  <2>3. CASE path[p].symbol \in T
    <3>1. ClaimIn(p, T)' = q
      BY <2>1, <2>3 DEF ClaimIn
    <3>2. q * Price <= limit - Price * HeldIn(path[p].snap.qty, T) - AmountOf(reserved, ReservedIn(T))
      BY <1>2, <2>3
    <3>3. path[p].snap.qty \in [Symbols -> Nat] /\ \A s \in Symbols : pf.qty[s] <= path[p].snap.qty[s]
      <4>1. path[p].snap = PendingExposure
        BY <1>2 DEF Lets, Bookkeeping, SnapFresh
      <4>. QED  BY <1>0, <4>1, Typed DEF PendingExposure
    <3>4. pf.qty \in [Symbols -> Nat]
      BY <1>0, Typed
    <3>5. /\ HeldIn(pf.qty, T) \in Nat /\ HeldIn(path[p].snap.qty, T) \in Nat
          /\ HeldIn(pf.qty, T) <= HeldIn(path[p].snap.qty, T)
      BY <3>3, <3>4, HeldSum, HeldAtMost
    <3>6. Price * HeldIn(pf.qty, T) <= Price * HeldIn(path[p].snap.qty, T)
      BY <1>e, <1>f, <3>5
    <3>7. Price * HeldIn(venueQty, T) - Price * HeldIn(pf.qty, T) <= AmountOf(reserved, SettledIn(T))
      BY <1>2 DEF Bookkeeping, Lag, Settling, Lets, Alone, NoPath
    <3>8. DOMAIN reserved = DOMAIN parked
      BY <1>2, ParkedOnly DEF Bookkeeping, ReservationInv, Lets
    <3>9. /\ AmountOf(reserved, ReservedIn(T)) =
               AmountOf(reserved, SettledIn(T)) + AmountOf(reserved, OrdersIn(orders, T))
          /\ AmountOf(reserved, SettledIn(T)) \in Nat
          /\ AmountOf(reserved, OrdersIn(orders, T)) \in Nat
          /\ IncomingOf(orders, T) <= AmountOf(reserved, OrdersIn(orders, T))
      BY <1>0, <3>8, ReservedInParts
    <3>10. Exposure(p, T)' <= limit
      BY <1>t, <1>e, <1>x, <2>1, <3>1, <3>2, <3>5, <3>6, <3>7, <3>9
    <3>. QED  BY <1>2, <1>a, <3>10
  <2>. QED  BY <2>2, <2>3
<1>3. ASSUME NEW p \in Paths, Alone(p), NEW id \in Ids, NEW w \in Order, Rests(p, id, w)
      PROVE  \A r \in Paths : Exposure(r, T)' <= limit
  <2>1. IncomingOf(orders', T) =
          IncomingOf(orders, T) + (IF w.symbol \in T THEN w.left * Price ELSE 0)
    BY <1>3, <1>t, BookGrows DEF Rests
  <2>2. venueQty' = venueQty /\ w.left \in 1..MaxQty /\ w.left = Claim(p)
        /\ w.symbol = path[p].symbol /\ Claim(p)' = 0
    BY <1>3 DEF Rests, Order
  <2>3. ClaimIn(p, T) = (IF w.symbol \in T THEN w.left ELSE 0) /\ ClaimIn(p, T)' = 0
    BY <2>2 DEF ClaimIn
  <2>4. Exposure(p, T) <= limit
    OBVIOUS
  <2>5. Exposure(p, T)' <= limit
    BY <1>t, <1>e, <1>x, <2>1, <2>2, <2>3, <2>4, LedgerAssumption
  <2>. QED  BY <1>3, <1>a, <2>5
<1>4. ASSUME NEW p \in Paths, Alone(p), NEW k \in 0..MaxQty, NEW cost \in Charge(k, FixedFee),
             Takes(p, k, cost)
      PROVE  \A r \in Paths : Exposure(r, T)' <= limit
  <2>1. /\ k \in 0..Claim(p) /\ Claim(p)' \in 0..(Claim(p) - k)
        /\ Claim(p)' > 0 => path'[p].symbol = path[p].symbol
        /\ path[p].symbol \in Symbols
        /\ venueQty' = [venueQty EXCEPT ![path[p].symbol] = @ + k] /\ orders' = orders
    BY <1>4 DEF Takes, VenueTakes
  <2>2. k \in Nat /\ Claim(p) \in Nat
    BY <1>c DEF ClaimsTyped
  <2>3. HeldIn(venueQty', T) = HeldIn(venueQty, T) + (IF path[p].symbol \in T THEN k ELSE 0)
    <3> DEFINE s == path[p].symbol
    <3>1. s \in Symbols /\ venueQty'[s] = venueQty[s] + k
          /\ \A x \in Symbols \ {s} : venueQty'[x] = venueQty[x]
      BY <1>t, <2>1
    <3> HIDE DEF s
    <3>2. HeldIn(venueQty', T) = HeldIn(venueQty, T) + (IF s \in T THEN k ELSE 0)
      BY <1>t, <1>n, <2>2, <3>1, HeldGrows
    <3>. QED  BY <3>2 DEF s
  <2>4. ClaimIn(p, T)' + (IF path[p].symbol \in T THEN k ELSE 0) <= ClaimIn(p, T)
    BY <2>1, <2>2, <1>i DEF ClaimIn
  <2>5. CASE path[p].symbol \in T
    <3>1. (ClaimIn(p, T)' + k) * Price <= ClaimIn(p, T) * Price
      BY <1>f, <1>i, <2>2, <2>4, <2>5
    <3>2. (ClaimIn(p, T)' + k) * Price = ClaimIn(p, T)' * Price + k * Price
      BY <1>g, <1>i, <2>2
    <3>3. Price * HeldIn(venueQty', T) = Price * HeldIn(venueQty, T) + k * Price
      BY <1>e, <1>g, <1>t, <2>2, <2>3, <2>5
    <3>4. Exposure(p, T) <= limit
      OBVIOUS
    <3>5. Exposure(p, T)' <= limit
      BY <1>t, <1>e, <1>i, <1>x, <2>1, <2>2, <3>1, <3>2, <3>3, <3>4
    <3>. QED  BY <1>4, <1>a, <3>5
  <2>6. CASE path[p].symbol \notin T
    <3>1. ClaimIn(p, T)' * Price <= ClaimIn(p, T) * Price
      BY <1>f, <1>i, <2>2, <2>4, <2>6
    <3>2. HeldIn(venueQty', T) = HeldIn(venueQty, T)
      BY <1>t, <2>3, <2>6
    <3>3. Exposure(p, T) <= limit
      OBVIOUS
    <3>4. Exposure(p, T)' <= limit
      BY <1>t, <1>e, <1>i, <1>x, <2>1, <3>1, <3>2, <3>3
    <3>. QED  BY <1>4, <1>a, <3>4
  <2>. QED  BY <2>5, <2>6
<1>5. ASSUME NEW id \in DOMAIN orders, NEW k \in 0..MaxQty,
             NEW cost \in Charge(k, orders[id].fee), VenueResolves(id, k, cost)
      PROVE  \A r \in Paths : Exposure(r, T)' <= limit
  <2>1. orders[id] \in Order
    BY <1>t DEF IsBook
  <2>2. IncomingOf(orders, T) = IncomingOf(orders', T)
          + (IF orders[id].symbol \in T THEN orders[id].left * Price ELSE 0)
    BY <1>5, <1>t, BookShrinks DEF VenueResolves
  <2>3. HeldIn(venueQty', T) = HeldIn(venueQty, T) + (IF orders[id].symbol \in T THEN k ELSE 0)
    <3> DEFINE s == orders[id].symbol
    <3>1. s \in Symbols /\ k \in Nat /\ venueQty'[s] = venueQty[s] + k
          /\ \A x \in Symbols \ {s} : venueQty'[x] = venueQty[x]
      BY <1>t, <1>5, <2>1 DEF VenueResolves, VenueTakes, Order
    <3> HIDE DEF s
    <3>2. HeldIn(venueQty', T) = HeldIn(venueQty, T) + (IF s \in T THEN k ELSE 0)
      BY <1>t, <1>n, <3>1, HeldGrows
    <3>. QED  BY <3>2 DEF s
  <2>4. k * Price <= orders[id].left * Price /\ orders[id].left * Price \in Nat /\ k * Price \in Nat
    BY <1>5, <1>f, <1>e, <2>1 DEF VenueResolves, Order
  <2>5. (HeldIn(venueQty, T) + k) * Price = HeldIn(venueQty, T) * Price + k * Price
    BY <1>g, <1>t
  <2>6. ASSUME NEW r \in Paths
        PROVE  Exposure(r, T)' <= limit
    <3>1. ClaimIn(r, T)' = ClaimIn(r, T)
      BY <1>5 DEF VenueResolves, Claim, ClaimIn
    <3>2. Exposure(r, T) <= limit
      OBVIOUS
    <3>3. CASE orders[id].symbol \in T
      BY <1>t, <1>n, <1>e, <1>i, <1>x, <2>2, <2>3, <2>4, <2>5, <3>1, <3>2, <3>3
    <3>4. CASE orders[id].symbol \notin T
      BY <1>t, <1>n, <1>e, <1>i, <1>x, <2>2, <2>3, <3>1, <3>2, <3>4
    <3>. QED  BY <3>3, <3>4
  <2>. QED  BY <2>6
<1>6. ASSUME NEW s \in Symbols, Exit(s)
      PROVE  \A r \in Paths : Exposure(r, T)' <= limit
  <2>1. HeldIn(venueQty', T) <= HeldIn(venueQty, T)
    <3>1. \A x \in T : venueQty'[x] <= venueQty[x]
      BY <1>6, <1>t DEF Exit
    <3>. QED  BY <1>t, <1>n, <3>1, HeldAtMost
  <2>2. Price * HeldIn(venueQty', T) <= Price * HeldIn(venueQty, T)
    BY <1>e, <1>f, <1>t, <1>n, <2>1
  <2>3. ASSUME NEW r \in Paths
        PROVE  Exposure(r, T)' <= limit
    <3>1. ClaimIn(r, T)' = ClaimIn(r, T) /\ orders' = orders
      BY <1>6 DEF Exit, Claim, ClaimIn
    <3>2. Exposure(r, T) <= limit
      OBVIOUS
    <3>. QED  BY <1>t, <1>n, <1>e, <1>i, <1>x, <2>2, <3>1, <3>2
  <2>. QED  BY <2>3
<1>. QED  BY <1>0, <1>1, <1>2, <1>3, <1>4, <1>5, <1>6, StepShape

-----------------------------------------------------------------------------
(* The number of positions. *)
LEMMA HeldOne ==
    ASSUME NEW h \in [Symbols -> Nat], NEW s \in Symbols
    PROVE  HeldIn(h, {s}) = h[s]
<1> DEFINE none == [x \in {} |-> h[x]]
<1> DEFINE one == [x \in {s} |-> h[x]]
<1>1. Summable(none) /\ Total(none) = 0
  BY SumOfNone, FS_EmptySet DEF Summable
<1>2. DOMAIN one = DOMAIN none \cup {s} /\ s \notin DOMAIN none /\ one[s] = h[s] /\ one[s] \in Nat
      /\ \A x \in DOMAIN none : one[x] = none[x]
  OBVIOUS
<1>3. Total(one) = Total(none) + one[s]
  <2> HIDE DEF none, one
  <2>. QED  BY <1>1, <1>2, SumAdded
<1>4. Total(one) = h[s]
  <2> HIDE DEF none, one
  <2>. QED  BY <1>1, <1>2, <1>3
<1>. QED  BY <1>4 DEF HeldIn

(* A symbol the account holds and the cache does not is still reserved. *)
LEMMA UnseenIsReserved ==
    ASSUME Bookkeeping, NEW s \in Symbols, \A p \in Paths : ~Settling(p),
           venueQty[s] > 0, pf.qty[s] = 0
    PROVE  \E id \in DOMAIN reserved : reserved[id].symbol = s
<1>0. TypeOK /\ venueQty \in [Symbols -> Nat] /\ pf.qty \in [Symbols -> Nat]
  BY Typed DEF Bookkeeping, ReservationInv
<1>1. SUFFICES ASSUME SettledIn({s}) = {}
               PROVE  FALSE
  BY DEF SettledIn, Settled, Bookkeeping, ReservationInv, ReservationsMatchOrders
<1>2. Price * HeldIn(venueQty, {s}) - Price * HeldIn(pf.qty, {s}) <= AmountOf(reserved, SettledIn({s}))
  BY DEF Bookkeeping, Lag
<1>3. HeldIn(venueQty, {s}) = venueQty[s] /\ HeldIn(pf.qty, {s}) = 0
  BY <1>0, HeldOne
<1>4. AmountOf(reserved, SettledIn({s})) = 0
  BY <1>1, SumOfNone DEF AmountOf
<1>5. Price * venueQty[s] <= 0
  BY <1>0, <1>2, <1>3, <1>4, LedgerAssumption
<1>6. venueQty[s] * Price >= 1 * Price
  BY <1>0, CostBounds, LedgerAssumption
<1>. QED  BY <1>0, <1>5, <1>6, LedgerAssumption

LEMMA InCommitted ==
    ASSUME NEW p \in Paths, NEW s \in Symbols
    PROVE  /\ s \in Committed(p) <=>
                \/ venueQty[s] > 0
                \/ \E id \in DOMAIN orders : orders[id].symbol = s
                \/ Claim(p) > 0 /\ path[p].symbol = s
           /\ s \in Committed(p)' <=>
                \/ venueQty'[s] > 0
                \/ \E id \in DOMAIN orders' : orders'[id].symbol = s
                \/ Claim(p)' > 0 /\ path'[p].symbol = s
BY DEF Committed, ClaimIn, OrdersIn

LEMMA StepCount ==
    ASSUME Bookkeeping, TypeOK', [Next]_vars, Faults = {}, NEW limit \in Nat,
           \A p \in Paths : Cardinality(Committed(p)) <= limit,
           \A p \in Paths, q \in 1..MaxQty :
             Lets(p, q) =>
               \/ path[p].symbol \in Held(path[p].snap)
               \/ Cardinality(Held(path[p].snap))
                  + Cardinality(PendingNewPositions(path[p].snap, path[p].symbol)) < limit
    PROVE  \A p \in Paths : Cardinality(Committed(p)') <= limit
<1>0. TypeOK /\ OneOwner /\ OneAtATime /\ Covered
  BY DEF Bookkeeping, ReservationInv
<1>t. IsBook(orders) /\ venueQty \in [Symbols -> Nat]
  BY <1>0, Typed
<1>c. ClaimsTyped /\ ClaimsTyped'
  BY <1>0, ClaimsAreTyped, ClaimsAreTypedNext
<1>z. \A p \in Paths : /\ Committed(p) \subseteq Symbols /\ IsFiniteSet(Committed(p))
                       /\ Committed(p)' \subseteq Symbols
                       /\ Cardinality(Committed(p)) \in Nat
  <2>1. \A p \in Paths : Committed(p) \subseteq Symbols /\ Committed(p)' \subseteq Symbols
    BY DEF Committed
  <2>2. ASSUME NEW p \in Paths
        PROVE  IsFiniteSet(Committed(p)) /\ Cardinality(Committed(p)) \in Nat
    BY <2>1, FS_Subset, LedgerAssumption, FS_CardinalityType
  <2>. QED  BY <2>1, <2>2
<1>s. ASSUME NEW p \in Paths, NEW q \in Paths, Committed(q)' \subseteq Committed(p)
      PROVE  Cardinality(Committed(q)') <= limit
  BY <1>s, <1>z, FS_Subset, FS_CardinalityType
<1>a. ASSUME NEW p \in Paths, Alone(p), NEW q \in Paths
      PROVE  Committed(q)' \subseteq Committed(p)'
  <2>1. CASE q = p
    BY <2>1
  <2>2. CASE q # p
    BY <1>a, <2>2, InCommitted, <1>z DEF Alone, Claim, NoPath
  <2>. QED  BY <2>1, <2>2
<1>b. ASSUME NEW p \in Paths, Alone(p), Committed(p)' \subseteq Committed(p)
      PROVE  \A q \in Paths : Cardinality(Committed(q)') <= limit
  BY <1>a, <1>b, <1>s
<1>1. CASE Quiet
  <2>1. ASSUME NEW q \in Paths
        PROVE  Committed(q)' \subseteq Committed(q)
    BY <1>1, InCommitted, <1>z DEF Quiet, SameBook
  <2>. QED  BY <2>1, <1>s
<1>2. ASSUME NEW p \in Paths, Alone(p), NEW q \in 1..MaxQty, Lets(p, q)
      PROVE  \A r \in Paths : Cardinality(Committed(r)') <= limit
  <2> DEFINE snap == path[p].snap
  <2> DEFINE sym == path[p].symbol
  <2>1. orders' = orders /\ venueQty' = venueQty /\ path'[p].symbol = sym /\ Claim(p)' = q
    BY <1>2 DEF Lets
  <2>2. snap = PendingExposure
    BY <1>2 DEF Lets, Bookkeeping, SnapFresh
  <2>3. pf.qty \in [Symbols -> Nat] /\ openPos \in [Symbols -> Nat]
    BY <1>0, Typed
  <2>4. \A s \in Symbols : pf.qty[s] <= snap.qty[s] /\ snap.qty[s] \in Nat
    BY <2>2, <2>3 DEF PendingExposure
  <2>5. sym \in Symbols
    BY <1>c, <2>1 DEF ClaimsTyped
  <2>6. CASE sym \in Held(snap)
    <3>1. ToRecord(p, sym) = 0
      BY <1>2 DEF Lets, ToRecord
    <3>2. pf.qty[sym] <= venueQty[sym] /\ openPos[sym] + ToRecord(p, sym) <= venueQty[sym]
      BY <2>5 DEF Bookkeeping, Known
    <3>3. venueQty[sym] > 0
      BY <1>t, <2>2, <2>3, <2>5, <2>6, <3>1, <3>2 DEF Held, PendingExposure
    <3>4. \A s \in Symbols : s \in Committed(p)' => s \in Committed(p)
      BY <2>1, <3>3, InCommitted
    <3>. QED  BY <1>2, <1>b, <1>z, <3>4
  <2>7. CASE Cardinality(Held(snap)) + Cardinality(PendingNewPositions(snap, sym)) < limit
    <3> DEFINE H == Held(snap)
    <3> DEFINE N == PendingNewPositions(snap, sym)
    <3>1. Committed(p)' \subseteq (H \cup N) \cup {sym}
      <4>1. ASSUME NEW s \in Symbols, s \in Committed(p)'
            PROVE  s \in (H \cup N) \cup {sym}
        <5>1. CASE venueQty[s] > 0 /\ pf.qty[s] = 0
          BY <1>2, <5>1, UnseenIsReserved DEF Alone, Lets, Settling, NoPath, PendingNewPositions
        <5>2. CASE venueQty[s] > 0 /\ pf.qty[s] # 0
          BY <2>3, <2>4, <5>2 DEF Held
        <5>3. CASE \E id \in DOMAIN orders : orders[id].symbol = s
          BY <1>0, <5>3 DEF Covered, Bookkeeping, ReservationInv, ReservationsMatchOrders, PendingNewPositions
        <5>. QED  BY <2>1, <4>1, <5>1, <5>2, <5>3, InCommitted
      <4>. QED  BY <1>z, <4>1
    <3>2. IsFiniteSet(H) /\ IsFiniteSet(N)
      BY <1>0, FS_Subset, LedgerAssumption DEF Held, PendingNewPositions, TypeOK
    <3> HIDE DEF H, N, snap, sym
    <3>3. /\ IsFiniteSet(H \cup N)
          /\ Cardinality(H \cup N) = Cardinality(H) + Cardinality(N) - Cardinality(H \cap N)
      BY <3>2, FS_Union
    <3>4. IsFiniteSet((H \cup N) \cup {sym}) /\ Cardinality((H \cup N) \cup {sym}) <= Cardinality(H \cup N) + 1
      <4>1. /\ IsFiniteSet((H \cup N) \cup {sym})
            /\ Cardinality((H \cup N) \cup {sym}) =
                 IF sym \in H \cup N THEN Cardinality(H \cup N) ELSE Cardinality(H \cup N) + 1
        BY <3>3, FS_AddElement
      <4>2. Cardinality(H \cup N) \in Nat
        BY <3>3, FS_CardinalityType
      <4>. QED  BY <4>1, <4>2
    <3>5. /\ Cardinality(H) \in Nat /\ Cardinality(N) \in Nat /\ Cardinality(H \cap N) \in Nat
          /\ Cardinality(H \cup N) \in Nat /\ Cardinality((H \cup N) \cup {sym}) \in Nat
      BY <3>2, FS_Intersection, <3>3, <3>4, FS_CardinalityType
    <3>6. Cardinality((H \cup N) \cup {sym}) <= limit
      BY <2>7, <3>3, <3>4, <3>5 DEF H, N
    <3>7. ASSUME NEW r \in Paths
          PROVE  Cardinality(Committed(r)') <= limit
      <4>1. Committed(r)' \subseteq (H \cup N) \cup {sym}
        BY <1>2, <1>a, <3>1
      <4>2. IsFiniteSet(Committed(r)') /\ Cardinality(Committed(r)') <= Cardinality((H \cup N) \cup {sym})
        BY <3>4, <4>1, FS_Subset
      <4>3. Cardinality(Committed(r)') \in Nat
        BY <4>2, FS_CardinalityType
      <4>. QED  BY <3>5, <3>6, <4>2, <4>3
    <3>. QED  BY <3>7
  <2>. QED  BY <1>2, <2>6, <2>7
<1>3. ASSUME NEW p \in Paths, Alone(p), NEW id \in Ids, NEW w \in Order, Rests(p, id, w)
      PROVE  \A r \in Paths : Cardinality(Committed(r)') <= limit
  <2>1. /\ venueQty' = venueQty /\ Claim(p)' = 0 /\ Claim(p) > 0 /\ path[p].symbol = w.symbol
        /\ DOMAIN orders' = DOMAIN orders \cup {id} /\ orders'[id] = w
        /\ \A i \in DOMAIN orders : orders'[i] = orders[i]
    BY <1>3 DEF Rests, With, Order
  <2>2. \A s \in Symbols : s \in Committed(p)' => s \in Committed(p)
    BY <2>1, InCommitted
  <2>. QED  BY <1>3, <1>b, <1>z, <2>2
<1>4. ASSUME NEW p \in Paths, Alone(p), NEW k \in 0..MaxQty, NEW cost \in Charge(k, FixedFee),
             Takes(p, k, cost)
      PROVE  \A r \in Paths : Cardinality(Committed(r)') <= limit
  <2>1. /\ orders' = orders /\ k \in 0..Claim(p) /\ Claim(p)' \in 0..(Claim(p) - k)
        /\ Claim(p)' > 0 => path'[p].symbol = path[p].symbol
        /\ Claim(p) \in Nat
        /\ venueQty' = [venueQty EXCEPT ![path[p].symbol] = @ + k]
    BY <1>4, <1>c DEF Takes, VenueTakes, ClaimsTyped
  <2>2. ASSUME NEW s \in Symbols, s \in Committed(p)'
        PROVE  s \in Committed(p)
    BY InCommitted, <1>t, <2>1, <2>2
  <2>. QED  BY <1>4, <1>b, <1>z, <2>2
<1>5. ASSUME NEW id \in DOMAIN orders, NEW k \in 0..MaxQty,
             NEW cost \in Charge(k, orders[id].fee), VenueResolves(id, k, cost)
      PROVE  \A r \in Paths : Cardinality(Committed(r)') <= limit
  <2>1. /\ path' = path /\ DOMAIN orders' = DOMAIN orders \ {id}
        /\ \A i \in DOMAIN orders' : orders'[i] = orders[i]
        /\ venueQty' = [venueQty EXCEPT ![orders[id].symbol] = @ + k]
    BY <1>5 DEF VenueResolves, VenueTakes, Without
  <2>2. ASSUME NEW r \in Paths, NEW s \in Symbols, s \in Committed(r)'
        PROVE  s \in Committed(r)
    BY <2>1, InCommitted, <1>t, <2>2 DEF Claim
  <2>3. \A r \in Paths : Committed(r)' \subseteq Committed(r)
    BY <1>z, <2>2
  <2>. QED  BY <1>s, <2>3
<1>6. ASSUME NEW s \in Symbols, Exit(s)
      PROVE  \A r \in Paths : Cardinality(Committed(r)') <= limit
  <2>1. path' = path /\ orders' = orders /\ venueQty' = [venueQty EXCEPT ![s] = 0]
    BY <1>6 DEF Exit
  <2>2. ASSUME NEW r \in Paths, NEW x \in Symbols, x \in Committed(r)'
        PROVE  x \in Committed(r)
    BY <2>1, <1>t, <2>2, InCommitted DEF Claim
  <2>3. \A r \in Paths : Committed(r)' \subseteq Committed(r)
    BY <1>z, <2>2
  <2>. QED  BY <1>s, <2>3
<1>. QED  BY <1>0, <1>1, <1>2, <1>3, <1>4, <1>5, <1>6, StepShape

-----------------------------------------------------------------------------
(* The bookkeeping between engine, cache and account is kept by every step. *)
LEMMA StepCovered ==
    ASSUME ReservationInv, OneAtATime, Covered, [Next]_vars, Faults = {}
    PROVE  Covered'
<1> USE DEF ReservationInv, ReservationsMatchOrders, OneOwner, Submitting
<1>0. TypeOK /\ IsBook(orders)
  BY Typed
<1>p. path \in [Paths -> PathStates]
  BY <1>0 DEF TypeOK
<1>u. ASSUME UNCHANGED <<orders, parked, reserved>>,
             \A p \in Paths : path'[p].pc = "submitted" =>
               path[p].pc = "submitted" /\ path'[p] = path[p]
      PROVE  Covered'
  BY <1>u DEF Covered, EstimatedCost
<1>1. ASSUME NEW p \in Paths, NEW s \in Symbols, NEW request \in 1..MaxQty,
             Begin(p, s, request)
      PROVE  Covered'
  BY <1>p, <1>u, <1>1 DEF Begin, ledger, venue
<1>2. ASSUME NEW p \in Paths, Authorize(p)
      PROVE  Covered'
  BY <1>p, <1>u, <1>2 DEF Authorize, NoPath, venue
<1>3. ASSUME NEW p \in Paths, RateRefused(p) \/ Sync(p)
      PROVE  Covered'
  BY <1>p, <1>u, <1>3 DEF RateRefused, Sync, NoPath, ledger, venue
<1>4. ASSUME NEW p \in Paths, NEW id \in Ids, ReserveBuy(p, id)
      PROVE  Covered'
  <2>1. /\ id \notin DOMAIN reserved /\ id \notin DOMAIN orders /\ UNCHANGED <<orders, parked>>
        /\ reserved'[id] = [amount |-> EstimatedCost(path[p].qty), symbol |-> path[p].symbol]
        /\ \A i \in DOMAIN reserved : reserved'[i] = reserved[i]
    BY <1>4 DEF ReserveBuy, Reserve, With, venue
  <2>2. /\ path'[p].pc = "submitted" /\ path'[p].res = id
        /\ path'[p].qty = path[p].qty /\ path'[p].symbol = path[p].symbol
        /\ \A q \in Paths \ {p} : path'[q] = path[q]
    BY <1>p, <1>4 DEF ReserveBuy
  <2>3. ASSUME NEW q \in Paths, path'[q].pc = "submitted"
        PROVE  reserved'[path'[q].res] = [amount |-> EstimatedCost(path'[q].qty),
                                          symbol |-> path'[q].symbol]
    BY <2>1, <2>2, <2>3 DEF Covered
  <2>. QED  BY <2>1, <2>3 DEF Covered, EstimatedCost
<1>5. ASSUME NEW p \in Paths, NEW id \in Ids, ReserveRemainder(p, id)
      PROVE  Covered'
  <2>1. path[p] \in [pc : {"remainder"}, symbol : Symbols,
                     qty : 0..MaxQty, cost : Amounts, rem : 1..MaxQty]
    BY <1>0, <1>5, PathTyped DEF ReserveRemainder, PathStates, NoPath
  <2>2. /\ id \notin DOMAIN reserved /\ id \notin DOMAIN orders
        /\ DOMAIN orders' = DOMAIN orders \cup {id} /\ DOMAIN parked' = DOMAIN parked \cup {id}
        /\ reserved'[id] = [amount |-> EstimatedCost(path[p].rem), symbol |-> path[p].symbol]
        /\ orders'[id] = [symbol |-> path[p].symbol, left |-> path[p].rem, fee |-> 0]
        /\ \A i \in DOMAIN reserved : reserved'[i] = reserved[i]
        /\ \A i \in DOMAIN orders : orders'[i] = orders[i]
    BY <1>5 DEF ReserveRemainder, Reserve, With, Working
  <2>3. path[p].rem * EffPrice \in Nat
    BY <2>1, LedgerAssumption
  <2>4. reserved'[id].amount >= orders'[id].left * EffPrice + orders'[id].fee
    BY <2>2, <2>3, LedgerAssumption DEF EstimatedCost
  <2>5. \A q \in Paths : path'[q].pc = "submitted" => q # p /\ path'[q] = path[q]
    BY <1>p, <1>5, <2>1 DEF ReserveRemainder
  <2>. QED  BY <2>2, <2>4, <2>5 DEF Covered, EstimatedCost
<1>6. ASSUME NEW p \in Paths, path[p].pc = "submitted",
             reserved' = Without(reserved, {path[p].res}), UNCHANGED <<orders, parked>>,
             \A q \in Paths : path'[q].pc = "submitted" => q # p /\ path'[q] = path[q]
      PROVE  Covered'
  <2>1. /\ path[p].res \notin DOMAIN parked
        /\ \A q \in Paths : path'[q].pc = "submitted" => path'[q].res # path[p].res
    BY <1>6
  <2>2. \A id \in DOMAIN reserved : id # path[p].res => reserved'[id] = reserved[id]
    BY <1>6 DEF Without
  <2>3. \A q \in Paths : path'[q].pc = "submitted" => path'[q].res \in DOMAIN reserved
    BY <1>6
  <2>4. ASSUME NEW id \in DOMAIN orders
        PROVE  reserved'[id] = reserved[id]
    BY <2>1, <2>2 DEF Covered
  <2>5. ASSUME NEW q \in Paths, path'[q].pc = "submitted"
        PROVE  reserved'[path'[q].res] = [amount |-> EstimatedCost(path'[q].qty),
                                          symbol |-> path'[q].symbol]
    <3>1. path[q].pc = "submitted" /\ path'[q] = path[q]
      BY <1>6, <2>5
    <3>2. reserved[path[q].res] = [amount |-> EstimatedCost(path[q].qty), symbol |-> path[q].symbol]
      BY <3>1 DEF Covered
    <3>. QED  BY <2>1, <2>2, <2>3, <2>5, <3>1, <3>2
  <2>. QED  BY <1>6, <2>4, <2>5 DEF Covered, EstimatedCost
<1>7. ASSUME NEW p \in Paths, SubmitFails(p)
      PROVE  Covered'
  BY <1>p, <1>6, <1>7 DEF SubmitFails, Release, NoPath, venue
<1>8. ASSUME NEW p \in Paths, NEW k \in 0..MaxQty, NEW working \in BOOLEAN,
             NEW cost \in Charge(k, FixedFee), SubmitConfirmed(p, k, cost, working)
      PROVE  Covered'
  BY <1>p, <1>8, <1>6 DEF SubmitConfirmed, Release
<1>9. ASSUME NEW p \in Paths, SubmitUnconfirmed(p)
      PROVE  Covered'
  <2>1. path[p] \in [pc : {"submitted"}, symbol : Symbols, qty : 1..MaxQty, res : Ids]
    BY <1>0, <1>9, PathTyped DEF SubmitUnconfirmed, PathStates, NoPath
  <2>2. /\ reserved' = reserved
        /\ DOMAIN orders' = DOMAIN orders \cup {path[p].res}
        /\ DOMAIN parked' = DOMAIN parked \cup {path[p].res}
        /\ orders'[path[p].res] = [symbol |-> path[p].symbol, left |-> path[p].qty, fee |-> FixedFee]
        /\ \A i \in DOMAIN orders : i # path[p].res => orders'[i] = orders[i]
    BY <1>9 DEF SubmitUnconfirmed, With, Working, ledger
  <2>3. reserved[path[p].res] = [amount |-> EstimatedCost(path[p].qty), symbol |-> path[p].symbol]
    BY <2>1 DEF Covered
  <2>4. path[p].qty * EffPrice + FixedFee \in Nat
    BY <2>1, LedgerAssumption
  <2>5. \A q \in Paths : path'[q].pc = "submitted" => q # p /\ path'[q] = path[q]
    BY <1>p, <1>9, <2>1 DEF SubmitUnconfirmed
  <2>. QED  BY <2>2, <2>3, <2>4, <2>5 DEF Covered, EstimatedCost
<1>10. ASSUME NEW p \in Paths, RecordBuy(p) \/ PersistSpend(p) \/ RecordOpen(p)
       PROVE  Covered'
  BY <1>0, <1>10, PathTyped, <1>p, <1>u DEF RecordBuy, PersistSpend, RecordOpen, PathStates, NoPath, ledger,
     venue
<1>11. ASSUME NEW id \in DOMAIN orders, NEW k \in 0..MaxQty, NEW cost,
              VenueResolves(id, k, cost)
       PROVE  Covered'
  BY <1>11 DEF VenueResolves, Without, ledger, Covered, EstimatedCost
<1>12. ASSUME NEW id \in DOMAIN parked, ClearUnconfirmed(id)
       PROVE  Covered'
  BY <1>12 DEF ClearUnconfirmed, Release, Without, venue, Covered, EstimatedCost
<1>13. CASE SyncIfStale \/ Midnight \/ (\E s \in Symbols : Exit(s)) \/ UNCHANGED vars
  BY <1>u, <1>13 DEF SyncIfStale, Midnight, Exit, vars, ledger, venue
<1>14. CASE Restart
  <2>1. \A p \in Paths : path[p] = NoPath
    BY <1>14 DEF Restart
  <2>2. {p \in Paths : path[p].pc = "submitted"} = {} /\ DOMAIN orders = {}
    BY <1>14, <2>1 DEF Restart, NoPath
  <2>3. DOMAIN orders' = {}
    <3>1. PICK arrived \in SUBSET {p \in Paths : path[p].pc = "submitted"} :
            orders' = [id \in DOMAIN orders \cup {path[p].res : p \in arrived} |->
                         IF id \in DOMAIN orders THEN orders[id]
                         ELSE LET p == CHOOSE q \in arrived : path[q].res = id
                              IN  Working(path[p].symbol, path[p].qty, FixedFee)]
      BY <1>14 DEF Restart
    <3>. QED  BY <2>2, <3>1
  <2>. QED  BY <1>14, <2>3 DEF Restart, Covered, NoPath
<1>. QED
  BY <1>1, <1>2, <1>3, <1>4, <1>5, <1>7, <1>8, <1>9, <1>10, <1>11, <1>12, <1>13, <1>14
  DEF Next, BuyStep

LEMMA StepKnown ==
    ASSUME TypeOK, TypeOK', OneAtATime, Known, [Next]_vars, Faults = {}
    PROVE  Known'
<1>p. path \in [Paths -> PathStates]
  BY DEF TypeOK
<1>t. venueQty \in [Symbols -> Nat] /\ openPos \in [Symbols -> Nat] /\ pf.qty \in [Symbols -> Nat]
      /\ venueQty' \in [Symbols -> Nat]
  BY Typed DEF TypeOK
<1>r. \A p \in Paths, s \in Symbols : ToRecord(p, s) \in Nat
  <2>1. ASSUME NEW p \in Paths, NEW s \in Symbols
        PROVE  ToRecord(p, s) \in Nat
    BY PathTyped DEF PathStates, NoPath, ToRecord
  <2>. QED  BY <2>1
<1>k. \A s \in Symbols : /\ pf.qty[s] <= venueQty[s]
                         /\ \A p \in Paths : openPos[s] + ToRecord(p, s) <= venueQty[s]
  BY DEF Known
<1>u. ASSUME UNCHANGED <<openPos, venueQty>>, pf'.qty \in {pf.qty, venueQty},
             \A p \in Paths, s \in Symbols : ToRecord(p, s)' = 0 \/ ToRecord(p, s)' = ToRecord(p, s)
      PROVE  Known'
  <2>1. ASSUME NEW s \in Symbols, NEW p \in Paths
        PROVE  openPos'[s] + ToRecord(p, s)' <= venueQty'[s]
    BY <1>t, <1>r, <1>k, <1>u
  <2>2. \A s \in Symbols : pf'.qty[s] <= venueQty'[s]
    BY <1>t, <1>k, <1>u
  <2>. QED  BY <2>1, <2>2 DEF Known
<1>1. ASSUME NEW p \in Paths,
             \/ \E s \in Symbols, request \in 1..MaxQty : Begin(p, s, request)
             \/ Authorize(p) \/ RateRefused(p) \/ SubmitFails(p) \/ SubmitUnconfirmed(p)
             \/ Sync(p) \/ \E id \in Ids : ReserveBuy(p, id)
      PROVE  Known'
  <2>1. UNCHANGED <<openPos, venueQty>> /\ \A q \in Paths \ {p} : path'[q] = path[q]
    BY <1>p, <1>1 DEF Begin, Authorize, RateRefused, SubmitFails, SubmitUnconfirmed, Sync,
                      ReserveBuy, venue
  <2>2. pf'.qty \in {pf.qty, venueQty}
    <3>1. CASE Sync(p)
      BY <3>1 DEF Sync
    <3>2. CASE ~Sync(p)
      BY <1>1, <3>2 DEF Begin, Authorize, RateRefused, SubmitFails, SubmitUnconfirmed, ReserveBuy
    <3>. QED  BY <3>1, <3>2
  <2>3. path'[p].pc \in {"idle", "sized", "authorized", "submitted", "sync"}
    <3>1. CASE \E s \in Symbols, request \in 1..MaxQty : Begin(p, s, request)
      BY <1>p, <3>1 DEF Begin
    <3>2. CASE Authorize(p)
      BY <1>p, <3>2 DEF Authorize, NoPath
    <3>3. CASE RateRefused(p) \/ SubmitFails(p) \/ SubmitUnconfirmed(p) \/ Sync(p)
      BY <1>p, <3>3 DEF RateRefused, SubmitFails, SubmitUnconfirmed, Sync, NoPath
    <3>4. CASE \E id \in Ids : ReserveBuy(p, id)
      BY <1>p, <3>4 DEF ReserveBuy
    <3>. QED  BY <1>1, <3>1, <3>2, <3>3, <3>4
  <2>4. ASSUME NEW q \in Paths, NEW s \in Symbols
        PROVE  ToRecord(q, s)' = 0 \/ ToRecord(q, s)' = ToRecord(q, s)
    BY <2>1, <2>3 DEF ToRecord
  <2>. QED  BY <1>u, <2>1, <2>2, <2>4
<1>2. ASSUME NEW p \in Paths,
             \/ RecordBuy(p) \/ PersistSpend(p) \/ \E id \in Ids : ReserveRemainder(p, id)
      PROVE  Known'
  <2>1. /\ UNCHANGED <<openPos, venueQty, pf>> /\ \A q \in Paths \ {p} : path'[q] = path[q]
    BY <1>p, <1>2 DEF RecordBuy, PersistSpend, ReserveRemainder, venue
  <2>2. path[p] \in [pc : {"filled", "booked", "persisted"}, symbol : Symbols,
                     qty : 0..MaxQty, cost : Amounts, rem : 0..MaxQty]
        \/ path[p] \in [pc : {"remainder"}, symbol : Symbols,
                        qty : 0..MaxQty, cost : Amounts, rem : 1..MaxQty]
    BY <1>2, PathTyped DEF RecordBuy, PersistSpend, ReserveRemainder, PathStates, NoPath
  <2>3. ASSUME NEW s \in Symbols
        PROVE  ToRecord(p, s)' = 0 \/ ToRecord(p, s)' = ToRecord(p, s)
    BY <1>p, <2>2, <1>2 DEF RecordBuy, ToRecord, PersistSpend, ReserveRemainder
  <2>4. ASSUME NEW q \in Paths, NEW s \in Symbols
        PROVE  ToRecord(q, s)' = 0 \/ ToRecord(q, s)' = ToRecord(q, s)
    BY <2>1, <2>3 DEF ToRecord
  <2>. QED  BY <1>u, <2>1, <2>4
<1>3. ASSUME NEW p \in Paths, RecordOpen(p)
      PROVE  Known'
  <2>1. path[p] \in [pc : {"filled", "booked", "persisted"}, symbol : Symbols,
                     qty : 0..MaxQty, cost : Amounts, rem : 0..MaxQty]
    BY <1>3, PathTyped DEF RecordOpen, PathStates, NoPath
  <2>2. /\ UNCHANGED <<venueQty, pf>> /\ path[p] # NoPath
        /\ \A q \in Paths \ {p} : path'[q] = path[q]
        /\ openPos' = [openPos EXCEPT ![path[p].symbol] = @ + path[p].qty]
        /\ path[p].pc = "persisted"
    BY <1>p, <1>3, <2>1 DEF RecordOpen, venue, NoPath
  <2>3. Alone(p)
    BY <2>2, StepAlone
  <2>4. ASSUME NEW q \in Paths, NEW s \in Symbols
        PROVE  ToRecord(q, s)' = 0
    BY <1>p, <1>3, <2>1, <2>3 DEF RecordOpen, ToRecord, Alone, NoPath
  <2>5. ASSUME NEW s \in Symbols
        PROVE  openPos'[s] <= venueQty'[s]
    BY <1>k, <1>t, <2>1, <2>2 DEF ToRecord
  <2>6. openPos' \in [Symbols -> Nat]
    BY DEF TypeOK
  <2>. QED  BY <1>t, <1>k, <2>2, <2>4, <2>5, <2>6 DEF Known
<1>4. ASSUME NEW p \in Paths, NEW k \in 0..MaxQty, NEW working \in BOOLEAN,
             NEW cost \in Charge(k, FixedFee), SubmitConfirmed(p, k, cost, working)
      PROVE  Known'
  <2>1. path[p] \in [pc : {"submitted"}, symbol : Symbols, qty : 1..MaxQty, res : Ids]
    BY <1>4, PathTyped DEF SubmitConfirmed, PathStates, NoPath
  <2>2. Alone(p)
    BY <1>p, <1>4, <2>1, StepAlone DEF SubmitConfirmed, NoPath
  <2>3. /\ UNCHANGED <<openPos, pf>>
        /\ venueQty' = [venueQty EXCEPT ![path[p].symbol] = @ + k]
    BY <1>4 DEF SubmitConfirmed, VenueTakes
  <2>4. ASSUME NEW s \in Symbols
        PROVE  ToRecord(p, s)' \in {0, k} /\ (s # path[p].symbol => ToRecord(p, s)' = 0)
    BY <1>p, <1>4, <2>1 DEF SubmitConfirmed, ToRecord
  <2>5. ASSUME NEW q \in Paths, NEW s \in Symbols
        PROVE  openPos'[s] + ToRecord(q, s)' <= venueQty'[s]
    <3>1. openPos[s] + ToRecord(q, s) <= venueQty[s] /\ ToRecord(q, s) \in Nat
      BY <1>k, <1>r
    <3>2. CASE q = p
      BY <1>t, <2>1, <2>3, <2>4, <3>1, <3>2
    <3>3. CASE q # p
      BY <2>2, <3>3, <1>t, <2>1, <2>3, <3>1 DEF Alone, ToRecord, NoPath
    <3>. QED  BY <3>2, <3>3
  <2>6. \A s \in Symbols : pf'.qty[s] <= venueQty'[s]
    BY <1>t, <1>k, <2>1, <2>3
  <2>. QED  BY <2>5, <2>6 DEF Known
<1>5. ASSUME NEW id \in DOMAIN orders, NEW k \in 0..MaxQty, NEW cost,
             VenueResolves(id, k, cost)
      PROVE  Known'
  <2>1. /\ UNCHANGED <<openPos, pf, path>>
        /\ venueQty' = [venueQty EXCEPT ![orders[id].symbol] = @ + k]
    BY <1>5 DEF VenueResolves, VenueTakes
  <2>2. ASSUME NEW q \in Paths, NEW s \in Symbols
        PROVE  openPos'[s] + ToRecord(q, s)' <= venueQty'[s] /\ pf'.qty[s] <= venueQty'[s]
    BY <2>1, <1>t, <1>k, <1>r DEF ToRecord
  <2>. QED  BY <2>2, <1>t DEF Known, Paths
<1>6. ASSUME \/ \E id \in DOMAIN parked : ClearUnconfirmed(id)
             \/ SyncIfStale \/ Midnight \/ UNCHANGED vars
      PROVE  Known'
  <2>1. UNCHANGED <<openPos, venueQty, path>> /\ pf' \in {pf, [cash |-> venueCash, qty |-> venueQty]}
    BY <1>6 DEF ClearUnconfirmed, SyncIfStale, Midnight, vars, venue
  <2>2. \A p \in Paths, s \in Symbols : ToRecord(p, s)' = ToRecord(p, s)
    BY <2>1 DEF ToRecord
  <2>3. pf'.qty \in {pf.qty, venueQty}
    BY <2>1
  <2>. QED  BY <1>u, <2>1, <2>2, <2>3
<1>7. ASSUME NEW s \in Symbols, Exit(s)
      PROVE  Known'
  BY <1>7, <1>t, <1>k, <1>r DEF Exit, ToRecord, NoPath, Paths, Known
<1>8. CASE Restart
  BY <1>8, <1>u DEF Restart, ToRecord, NoPath
<1>. QED
  BY <1>1, <1>2, <1>3, <1>4, <1>5, <1>6, <1>7, <1>8 DEF Next, BuyStep

LEMMA StepSnapFresh ==
    ASSUME TypeOK, OneAtATime, SnapFresh, [Next]_vars, Faults = {}
    PROVE  SnapFresh'
<1>p. path \in [Paths -> PathStates]
  BY DEF TypeOK
<1>u. ASSUME UNCHANGED <<pf, openPos>>,
             \A p \in Paths : path'[p].pc = "sized" => path'[p] = path[p]
      PROVE  SnapFresh'
  BY <1>u DEF SnapFresh, PendingExposure
<1>i. ASSUME \A p \in Paths : path'[p].pc # "sized"
      PROVE  SnapFresh'
  BY <1>i DEF SnapFresh
<1>1. ASSUME NEW p \in Paths, NEW s \in Symbols, NEW request \in 1..MaxQty,
             Begin(p, s, request)
      PROVE  SnapFresh'
  BY <1>p, <1>1 DEF Begin, PendingExposure, SnapFresh
<1>2. ASSUME NEW p \in Paths,
             \/ Authorize(p) \/ RateRefused(p) \/ SubmitFails(p) \/ SubmitUnconfirmed(p)
             \/ RecordBuy(p) \/ PersistSpend(p) \/ RecordOpen(p) \/ Sync(p)
             \/ \E id \in Ids : ReserveBuy(p, id) \/ ReserveRemainder(p, id)
             \/ \E k \in 0..MaxQty, working \in BOOLEAN :
                  \E cost \in Charge(k, FixedFee) : SubmitConfirmed(p, k, cost, working)
      PROVE  SnapFresh'
  <2>1. path[p] # NoPath
    BY <1>2 DEF Authorize, RateRefused, SubmitFails, SubmitUnconfirmed, RecordBuy,
                PersistSpend, RecordOpen, Sync, ReserveBuy, ReserveRemainder,
                SubmitConfirmed, NoPath
  <2>2. \A q \in Paths \ {p} : path'[q] = path[q]
    BY <1>p, <1>2
    DEF Authorize, RateRefused, SubmitFails, SubmitUnconfirmed, RecordBuy,
        PersistSpend, RecordOpen, Sync, ReserveBuy, ReserveRemainder, SubmitConfirmed
  <2>3. Alone(p)
    BY <2>1, <2>2, StepAlone
  <2>4. path'[p].pc # "sized"
    <3>1. CASE Authorize(p)
      BY <1>p, <3>1 DEF Authorize, NoPath
    <3>2. CASE RateRefused(p) \/ SubmitFails(p) \/ SubmitUnconfirmed(p) \/ Sync(p)
      BY <1>p, <3>2 DEF RateRefused, SubmitFails, SubmitUnconfirmed, Sync, NoPath
    <3>3. CASE RecordBuy(p) \/ PersistSpend(p) \/ RecordOpen(p)
      BY <3>3, PathTyped, <1>p DEF RecordBuy, PersistSpend, RecordOpen, PathStates, NoPath
    <3>4. CASE \E id \in Ids : ReserveBuy(p, id)
      BY <1>p, <3>4 DEF ReserveBuy
    <3>5. CASE \E id \in Ids : ReserveRemainder(p, id)
      BY <3>5, PathTyped, <1>p DEF ReserveRemainder, PathStates, NoPath
    <3>6. CASE \E k \in 0..MaxQty, working \in BOOLEAN :
                 \E cost \in Charge(k, FixedFee) : SubmitConfirmed(p, k, cost, working)
      BY <1>p, <3>6 DEF SubmitConfirmed
    <3>. QED  BY <1>2, <3>1, <3>2, <3>3, <3>4, <3>5, <3>6
  <2>. QED  BY <1>i, <2>3, <2>4 DEF Alone, NoPath
<1>3. ASSUME \/ \E id \in DOMAIN orders, k \in 0..MaxQty :
                  \E cost \in Charge(k, orders[id].fee) : VenueResolves(id, k, cost)
             \/ \E id \in DOMAIN parked : ClearUnconfirmed(id)
             \/ Midnight \/ UNCHANGED vars
      PROVE  SnapFresh'
  BY <1>u, <1>3 DEF VenueResolves, ClearUnconfirmed, Midnight, vars
<1>4. ASSUME SyncIfStale \/ Restart \/ \E s \in Symbols : Exit(s)
      PROVE  SnapFresh'
  BY <1>i, <1>4 DEF SyncIfStale, Restart, Exit, Undisturbed, NoPath
<1>. QED  BY <1>1, <1>2, <1>3, <1>4 DEF Next, BuyStep

LEMMA StepLag ==
    ASSUME Bookkeeping, TypeOK', Covered', ReservationsMatchOrders', [Next]_vars, Faults = {}
    PROVE  Lag'
<1> USE DEF Bookkeeping, ReservationInv
<1>p. path \in [Paths -> PathStates]
  BY DEF TypeOK
<1>t. /\ venueCash \in Int /\ venueQty \in [Symbols -> Nat] /\ pf.cash \in Int
      /\ pf.qty \in [Symbols -> Nat] /\ IsBook(orders) /\ IsReserve(reserved)
  BY Typed
<1>n. /\ venueCash' \in Int /\ venueQty' \in [Symbols -> Nat] /\ IsReserve(reserved')
  <2>1. (TypeOK => venueCash \in Int /\ venueQty \in [Symbols -> Nat] /\ IsReserve(reserved))'
    BY Typed, PTL
  <2>. QED  BY <2>1
<1>d. Settled \subseteq DOMAIN reserved /\ Settled' \subseteq DOMAIN reserved'
  BY DEF Settled, ReservationsMatchOrders
<1>m. AmountOf(reserved', Settled') \in Nat
      /\ \A T \in SUBSET Symbols : AmountOf(reserved', SettledIn(T)') \in Nat
  BY <1>d, <1>n, AmountSum DEF SettledIn
(* The cache has just been brought up to date. *)
<1>s. ASSUME pf' = [cash |-> venueCash', qty |-> venueQty']
      PROVE  Lag'
  <2>1. pf'.cash - venueCash' <= AmountOf(reserved', Settled')
    BY <1>m, <1>n, <1>s
  <2>2. ASSUME NEW T \in SUBSET Symbols
        PROVE  Price * HeldIn(venueQty', T) - Price * HeldIn(pf'.qty, T)
                 <= AmountOf(reserved', SettledIn(T)')
    <3>1. pf'.qty = venueQty' /\ HeldIn(venueQty', T) \in Nat
      BY <1>n, <1>s, HeldSum
    <3>2. Price * HeldIn(venueQty', T) - Price * HeldIn(pf'.qty, T) = 0
      BY <3>1, LedgerAssumption
    <3>. QED  BY <1>m, <3>2
  <2>. QED  BY <2>1, <2>2 DEF Lag, AmountOf, HeldIn
(* Neither cache, account nor settled orders change. *)
<1>u. ASSUME UNCHANGED <<pf, venueCash, venueQty>>, Settled' = Settled,
             \A id \in Settled : reserved'[id] = reserved[id],
             \A p \in Paths : ~Settling(p)
      PROVE  Lag'
  <2>1. AmountOf(reserved', Settled') = AmountOf(reserved, Settled)
    BY <1>u DEF AmountOf
  <2>2. ASSUME NEW T \in SUBSET Symbols
        PROVE  AmountOf(reserved', SettledIn(T)') = AmountOf(reserved, SettledIn(T))
    BY <1>u DEF SettledIn, AmountOf
  <2>3. /\ pf.cash - venueCash <= AmountOf(reserved, Settled)
        /\ \A T \in SUBSET Symbols :
             Price * HeldIn(venueQty, T) - Price * HeldIn(pf.qty, T)
               <= AmountOf(reserved, SettledIn(T))
    BY <1>u DEF Lag
  <2>4. /\ pf'.cash - venueCash' <= AmountOf(reserved', Settled')
        /\ \A T \in SUBSET Symbols :
             Price * HeldIn(venueQty', T) - Price * HeldIn(pf'.qty, T)
               <= AmountOf(reserved', SettledIn(T)')
    BY <1>u, <2>1, <2>2, <2>3
  <2>. QED  BY <2>4 DEF Lag, AmountOf, HeldIn
<1>v. ASSUME NEW p \in Paths, Settling(p)'
      PROVE  Lag'
  BY <1>v DEF Lag
<1>1. ASSUME NEW p \in Paths, path[p] # NoPath, ~Settling(p),
             \A q \in Paths \ {p} : path'[q] = path[q]
      PROVE  \A q \in Paths : ~Settling(q)
  BY <1>1, StepAlone DEF Alone, Settling, NoPath
<1>2. ASSUME NEW p \in Paths, NEW s \in Symbols, NEW request \in 1..MaxQty,
             Begin(p, s, request)
      PROVE  Lag'
  BY <1>2, <1>u DEF Begin, Undisturbed, Settling, NoPath, ledger, venue, Settled
<1>3. ASSUME NEW p \in Paths, Authorize(p)
      PROVE  Lag'
  BY <1>p, <1>3, <1>1, <1>u DEF Authorize, Settling, NoPath, venue, Settled
<1>4. ASSUME NEW p \in Paths, NEW id \in Ids, ReserveBuy(p, id)
      PROVE  Lag'
  BY <1>p, <1>4, <1>1, <1>u, <1>d DEF ReserveBuy, Settling, NoPath, venue, Reserve, With, Settled
<1>5. ASSUME NEW p \in Paths, SubmitFails(p)
      PROVE  Lag'
  <2>1. path[p] # NoPath /\ ~Settling(p) /\ \A q \in Paths \ {p} : path'[q] = path[q]
    BY <1>p, <1>5 DEF SubmitFails, Settling, NoPath
  <2>2. UNCHANGED <<pf, venueCash, venueQty, parked, orders>>
    BY <1>5 DEF SubmitFails, venue
  <2>3. path[p].res \notin DOMAIN parked
    BY <1>5 DEF SubmitFails, OneOwner, Submitting
  <2>4. \A i \in Settled : reserved'[i] = reserved[i]
    BY <1>5, <1>d, <2>3 DEF SubmitFails, Release, Without, Settled
  <2>. QED  BY <1>1, <1>u, <2>1, <2>2, <2>4 DEF Settled
<1>6. ASSUME NEW p \in Paths,
             \/ RateRefused(p) \/ SubmitUnconfirmed(p) \/ RecordBuy(p) \/ PersistSpend(p)
             \/ RecordOpen(p) \/ \E id \in Ids : ReserveRemainder(p, id)
             \/ \E k \in 0..MaxQty, working \in BOOLEAN :
                  \E cost \in Charge(k, FixedFee) : SubmitConfirmed(p, k, cost, working)
      PROVE  Lag'
  <2>1. CASE RateRefused(p) \/ SubmitUnconfirmed(p)
    BY <1>p, <1>v, <2>1 DEF RateRefused, SubmitUnconfirmed, Settling
  <2>2. CASE RecordBuy(p) \/ PersistSpend(p) \/ RecordOpen(p)
    BY <2>2, PathTyped, <1>p, <1>v DEF RecordBuy, PersistSpend, RecordOpen, PathStates, NoPath, Settling
  <2>3. CASE \E id \in Ids : ReserveRemainder(p, id)
    BY <2>3, PathTyped, <1>p, <1>v DEF ReserveRemainder, PathStates, NoPath, Settling
  <2>4. CASE \E k \in 0..MaxQty, working \in BOOLEAN :
               \E cost \in Charge(k, FixedFee) : SubmitConfirmed(p, k, cost, working)
    BY <1>p, <1>v, <2>4 DEF SubmitConfirmed, Settling
  <2>. QED  BY <1>6, <2>1, <2>2, <2>3, <2>4
<1>7. ASSUME NEW p \in Paths, Sync(p)
      PROVE  Lag'
  BY <1>7, <1>s DEF Sync, venue
<1>8. CASE SyncIfStale \/ (\E s \in Symbols : Exit(s)) \/ Restart
  BY <1>8, <1>s DEF SyncIfStale, Exit, Restart, venue
<1>9. ASSUME NEW id \in DOMAIN parked, ClearUnconfirmed(id)
      PROVE  Lag'
  BY <1>9, <1>s DEF ClearUnconfirmed, InSync, venue
<1>10. CASE Midnight \/ UNCHANGED vars
  BY <1>10, <1>u, <1>v DEF Midnight, vars, ledger, venue, Settled, Settling
<1>11. ASSUME NEW id \in DOMAIN orders, NEW k \in 0..MaxQty,
              NEW cost \in Charge(k, orders[id].fee), VenueResolves(id, k, cost)
       PROVE  Lag'
  <2>1. /\ UNCHANGED <<pf, parked, reserved, path>> /\ DOMAIN orders' = DOMAIN orders \ {id}
        /\ venueCash' = venueCash - cost /\ k <= orders[id].left
        /\ venueQty' = [venueQty EXCEPT ![orders[id].symbol] = @ + k]
    BY <1>11 DEF VenueResolves, VenueTakes, Without, ledger
  <2>2. CASE \E q \in Paths : Settling(q)
    BY <1>v, <2>1, <2>2 DEF Settling
  <2>3. CASE \A q \in Paths : ~Settling(q)
    <3>1. /\ pf.cash - venueCash <= AmountOf(reserved, Settled)
          /\ \A T \in SUBSET Symbols :
               Price * HeldIn(venueQty, T) - Price * HeldIn(pf.qty, T)
                 <= AmountOf(reserved, SettledIn(T))
      BY <2>3 DEF Lag
    <3>2. orders[id] \in Order /\ id \in DOMAIN reserved /\ id \in DOMAIN parked
          /\ reserved[id].symbol = orders[id].symbol
          /\ reserved[id].amount >= orders[id].left * EffPrice + orders[id].fee
          /\ reserved[id].amount \in Nat
      BY <1>t DEF Covered, IsBook, IsReserve, ReservationsMatchOrders
    <3>3. /\ cost \in Nat /\ cost <= k * EffPrice + orders[id].fee
          /\ k * EffPrice <= orders[id].left * EffPrice /\ k * Price <= k * EffPrice
          /\ k * Price \in Nat /\ k * EffPrice \in Nat /\ orders[id].left * EffPrice \in Nat
          /\ orders[id].fee \in Nat
      <4>1. orders[id].left \in Nat /\ orders[id].fee \in Nat /\ k \in Nat /\ k \in 0..orders[id].left
        BY <2>1, <3>2, LedgerAssumption DEF Order
      <4>2. cost \in Nat /\ cost <= k * EffPrice + orders[id].fee
        BY <4>1, ChargeWithin
      <4>3. /\ k * Price \in Nat /\ k * EffPrice \in Nat /\ k * Price <= k * EffPrice
            /\ k * EffPrice <= orders[id].left * EffPrice
        BY <4>1, CostBounds
      <4>4. orders[id].left * EffPrice \in Nat
        BY <4>1, LedgerAssumption
      <4>. QED  BY <4>1, <4>2, <4>3, <4>4
    <3>4. cost <= reserved[id].amount /\ k * Price <= reserved[id].amount
      BY <3>2, <3>3
    <3>5. Settled' = Settled \cup {id} /\ id \notin Settled
      BY <2>1, <3>2 DEF Settled
    <3>6. AmountOf(reserved, Settled) \in Nat
          /\ AmountOf(reserved, Settled \cup {id}) = AmountOf(reserved, Settled) + reserved[id].amount
      BY <1>t, <1>d, <3>2, <3>5, AmountGrows, AmountSum
    <3>7. pf'.cash - venueCash' <= AmountOf(reserved', Settled')
      BY <1>t, <2>1, <3>1, <3>2, <3>3, <3>4, <3>5, <3>6
    <3>8. ASSUME NEW T \in SUBSET Symbols
          PROVE  Price * HeldIn(venueQty', T) - Price * HeldIn(pf'.qty, T)
                   <= AmountOf(reserved', SettledIn(T)')
      <4> DEFINE s == orders[id].symbol
      <4>1. s \in Symbols /\ k \in Nat /\ venueQty'[s] = venueQty[s] + k
            /\ \A x \in Symbols \ {s} : venueQty'[x] = venueQty[x]
        BY <1>t, <2>1, <3>2 DEF Order
      <4>2. reserved[id].symbol = s
        BY <3>2
      <4> HIDE DEF s
      <4>3. HeldIn(venueQty', T) = HeldIn(venueQty, T) + (IF s \in T THEN k ELSE 0)
        BY <1>t, <1>n, <4>1, HeldGrows
      <4>4. HeldIn(venueQty, T) \in Nat /\ HeldIn(pf.qty, T) \in Nat
        BY <1>t, HeldSum
      <4>5. Price * HeldIn(venueQty, T) - Price * HeldIn(pf.qty, T) <= AmountOf(reserved, SettledIn(T))
        BY <3>1
      <4>6. SettledIn(T)' = IF s \in T THEN SettledIn(T) \cup {id} ELSE SettledIn(T)
        BY <2>1, <3>5, <4>2 DEF SettledIn
      <4>7. AmountOf(reserved, SettledIn(T)) \in Nat
            /\ AmountOf(reserved, SettledIn(T) \cup {id})
                 = AmountOf(reserved, SettledIn(T)) + reserved[id].amount
        BY <1>t, <1>d, <3>2, <3>5, AmountGrows, AmountSum DEF SettledIn
      <4>8. CASE s \in T
        <5>1. Price * (HeldIn(venueQty, T) + k) = Price * HeldIn(venueQty, T) + k * Price
          BY <4>1, <4>4, LedgerAssumption
        <5>2. Price * HeldIn(venueQty, T) \in Nat /\ Price * HeldIn(pf.qty, T) \in Nat
          BY <4>4, LedgerAssumption
        <5>. QED  BY <2>1, <3>2, <3>3, <3>4, <4>3, <4>5, <4>6, <4>7, <4>8, <5>1, <5>2
      <4>9. CASE s \notin T
        BY <2>1, <4>3, <4>4, <4>5, <4>6, <4>9
      <4>. QED  BY <4>8, <4>9
    <3>. QED  BY <3>7, <3>8 DEF Lag, AmountOf, HeldIn
  <2>. QED  BY <2>2, <2>3
<1>. QED
  BY <1>2, <1>3, <1>4, <1>5, <1>6, <1>7, <1>8, <1>9, <1>10, <1>11 DEF Next, BuyStep

LEMMA StepBookkeeping ==
    ASSUME Bookkeeping, [Next]_vars, Faults = {}
    PROVE  Bookkeeping'
<1>1. TypeOK /\ TypeOK'
  BY StepTypeOK DEF Bookkeeping, ReservationInv
<1>2. ReservationsMatchOrders' /\ OneOwner'
  BY StepReservationInv DEF Bookkeeping
<1>3. OneAtATime'
  BY <1>1, StepOneAtATime DEF Bookkeeping
<1>4. Covered'
  BY StepCovered DEF Bookkeeping
<1>5. Known'
  BY <1>1, StepKnown DEF Bookkeeping
<1>6. SnapFresh'
  BY <1>1, StepSnapFresh DEF Bookkeeping
<1>7. Lag'
  BY <1>1, <1>2, <1>4, StepLag
<1>. QED  BY <1>1, <1>2, <1>3, <1>4, <1>5, <1>6, <1>7 DEF Bookkeeping, ReservationInv

(* Nothing turns the limits while the bot runs. *)
LEMMA StepLimits ==
    ASSUME [Next]_vars
    PROVE  limits' = limits
<1>1. ASSUME NEW p \in Paths, BuyStep(p)
      PROVE  limits' = limits
  BY <1>1 DEF BuyStep, Begin, Authorize, RateRefused, ReserveBuy, ReserveRemainder, SubmitFails,
              SubmitConfirmed, SubmitUnconfirmed, RecordBuy, PersistSpend, RecordOpen, Sync
<1>. QED  BY <1>1 DEF Next, VenueResolves, ClearUnconfirmed, SyncIfStale, Exit, Midnight,
                      Restart, vars

LEMMA StepCapsFit ==
    ASSUME CapInv, [Next]_vars, Faults = {}
    PROVE  CapsFit'
<1>0. Bookkeeping /\ TypeOK /\ TypeOK' /\ limits' = limits
  BY StepTypeOK, StepLimits DEF CapInv, Bookkeeping, ReservationInv
<1>l. MaxTotalInvested \in Nat /\ MaxPerPosition \in Nat /\ MaxOpenPositions \in Nat
  BY <1>0, Typed
<1>1. InitialCash >= CashReserve => \A p \in Paths : CashFits(p)'
  BY <1>0, StepCash DEF CapInv, CapsFit
<1>2. ASSUME MaxTotalInvested > 0
      PROVE  \A p \in Paths : Exposure(p, Symbols)' <= MaxTotalInvested
  <2>1. SUFFICES ASSUME NEW limit \in Nat, limit = MaxTotalInvested
                 PROVE  \A p \in Paths : Exposure(p, Symbols)' <= limit
    BY <1>l
  <2>2. \A p \in Paths : Exposure(p, Symbols) <= limit
    BY <1>2, <2>1 DEF CapInv, CapsFit
  <2>3. ASSUME NEW p \in Paths, NEW q \in 1..MaxQty, Lets(p, q)
        PROVE  q * Price <= limit - Price * HeldIn(path[p].snap.qty, Symbols)
                                  - AmountOf(reserved, ReservedIn(Symbols))
    <3>1. q * Price <= MaxTotalInvested - Invested(path[p].snap) - ReservedTotal
      BY <1>2, <2>3 DEF Lets, Authorized, WithinCaps
    <3>2. path[p].snap = PendingExposure
      BY <1>0, <2>3 DEF Lets, Bookkeeping, SnapFresh
    <3>3. [s \in Symbols |-> path[p].snap.qty[s]] = path[p].snap.qty
      BY <3>2 DEF PendingExposure
    <3>4. ReservedIn(Symbols) = DOMAIN reserved
      BY <1>0 DEF ReservedIn, TypeOK
    <3>. QED  BY <2>1, <3>1, <3>3, <3>4 DEF Invested, HeldIn, AmountOf, ReservedTotal
  <2>4. Symbols \in SUBSET Symbols
    OBVIOUS
  <2>. QED  BY <1>0, <2>2, <2>3, <2>4, StepExposure
<1>3. ASSUME MaxPerPosition > 0, NEW s \in Symbols
      PROVE  \A p \in Paths : Exposure(p, {s})' <= MaxPerPosition
  <2>1. SUFFICES ASSUME NEW limit \in Nat, limit = MaxPerPosition
                 PROVE  \A p \in Paths : Exposure(p, {s})' <= limit
    BY <1>l
  <2>2. \A p \in Paths : Exposure(p, {s}) <= limit
    BY <1>3, <2>1 DEF CapInv, CapsFit
  <2>3. ASSUME NEW p \in Paths, NEW q \in 1..MaxQty, Lets(p, q), path[p].symbol \in {s}
        PROVE  q * Price <= limit - Price * HeldIn(path[p].snap.qty, {s})
                                  - AmountOf(reserved, ReservedIn({s}))
    <3>1. q * Price <= MaxPerPosition - (path[p].snap.qty[s] * Price + ReservedFor(s))
      BY <1>3, <2>3 DEF Lets, Authorized, WithinCaps
    <3>2. path[p].snap.qty \in [Symbols -> Nat]
      <4>1. path[p].snap = PendingExposure
        BY <1>0, <2>3 DEF Lets, Bookkeeping, SnapFresh
      <4>. QED  BY <1>0, <4>1, Typed DEF PendingExposure
    <3>3. HeldIn(path[p].snap.qty, {s}) = path[p].snap.qty[s]
      BY <3>2, HeldOne
    <3>4. ReservedIn({s}) = ReservationsOf(s)
      BY DEF ReservedIn, ReservationsOf
    <3>5. ReservedFor(s) = AmountOf(reserved, ReservedIn({s}))
      BY <3>4 DEF ReservedFor, AmountOf
    <3>6. AmountOf(reserved, ReservedIn({s})) \in Nat
      BY <1>0, Typed, AmountSum DEF ReservedIn
    <3>7. path[p].snap.qty[s] * Price = Price * path[p].snap.qty[s] /\ Price * path[p].snap.qty[s] \in Nat
      BY <3>2, LedgerAssumption
    <3>8. q * Price \in Nat
      BY LedgerAssumption
    <3>. QED  BY <2>1, <3>1, <3>3, <3>5, <3>6, <3>7, <3>8
  <2>4. {s} \in SUBSET Symbols
    OBVIOUS
  <2>. QED  BY <1>0, <2>2, <2>3, <2>4, StepExposure
<1>4. ASSUME MaxOpenPositions > 0
      PROVE  \A p \in Paths : Cardinality(Committed(p)') <= MaxOpenPositions
  <2>1. SUFFICES ASSUME NEW limit \in Nat, limit = MaxOpenPositions
                 PROVE  \A p \in Paths : Cardinality(Committed(p)') <= limit
    BY <1>l
  <2>2. \A p \in Paths : Cardinality(Committed(p)) <= limit
    BY <1>4, <2>1 DEF CapInv, CapsFit
  <2>3. \A p \in Paths, q \in 1..MaxQty :
          Lets(p, q) =>
            \/ path[p].symbol \in Held(path[p].snap)
            \/ Cardinality(Held(path[p].snap))
               + Cardinality(PendingNewPositions(path[p].snap, path[p].symbol)) < limit
    BY <1>4, <2>1 DEF Lets, Authorized
  <2>. QED  BY <1>0, <2>2, <2>3, StepCount
<1>. QED  BY <1>0, <1>1, <1>2, <1>3, <1>4
          DEF CapsFit, MaxTotalInvested, MaxPerPosition, MaxOpenPositions

LEMMA InitCapInv == Init => CapInv
<1> SUFFICES ASSUME Init PROVE CapInv
  OBVIOUS
<1>1. ReservationInv /\ OneAtATime
  BY InitTypeOK DEF Init, ReservationsMatchOrders, OneOwner, Submitting, OneAtATime, NoPath, ReservationInv
<1>2. Covered /\ SnapFresh
  BY DEF Init, Covered, SnapFresh, Submitting, NoPath
<1>3. Known
  BY DEF Init, Known, ToRecord, NoPath
<1>t. TypeOK /\ IsBook(orders) /\ IsReserve(reserved)
      /\ MaxTotalInvested \in Nat /\ MaxPerPosition \in Nat /\ MaxOpenPositions \in Nat
  BY InitTypeOK, Typed
<1>4. Settled = {} /\ \A T : SettledIn(T) = {} /\ OrdersIn(orders, T) = {}
  BY DEF Init, Settled, SettledIn, OrdersIn
<1>5. \A p \in Paths : Claim(p) = 0 /\ ClaimFee(p) = 0
  BY DEF Init, Claim, ClaimFee, NoPath
<1>6. \A T : AmountOf(reserved, SettledIn(T)) = 0
  BY <1>4, SumOfNone DEF AmountOf
<1>7. AmountOf(reserved, Settled) = 0
  BY <1>4, SumOfNone DEF AmountOf
<1>8. Lag
  <2>1. pf.cash - venueCash = 0
    BY LedgerAssumption DEF Init
  <2>2. ASSUME NEW T \in SUBSET Symbols
        PROVE  Price * HeldIn(venueQty, T) - Price * HeldIn(pf.qty, T) = 0
    <3>1. venueQty = pf.qty /\ HeldIn(venueQty, T) \in Nat
      BY HeldSum DEF Init
    <3>. QED  BY <3>1, LedgerAssumption
  <2>. QED  BY <1>6, <1>7, <2>1, <2>2 DEF Lag
<1>9. OwedBy(orders) = 0 /\ \A T : IncomingOf(orders, T) = 0
  BY <1>4, SumOfNone DEF Init, OwedBy, IncomingOf
<1>10. ASSUME NEW T \in SUBSET Symbols
       PROVE  HeldIn(venueQty, T) = 0
  <2> DEFINE f == [s \in T |-> venueQty[s]]
  <2>1. \A s \in T : {s} \X (1..f[s]) = {}
    BY DEF Init
  <2>2. Units(f) = {}
    BY <2>1 DEF Units
  <2>. QED  BY <2>2, FS_EmptySet DEF HeldIn, Total
<1>11. ASSUME NEW p \in Paths, NEW T \in SUBSET Symbols
       PROVE  Exposure(p, T) = 0
  BY <1>5, <1>9, <1>10, LedgerAssumption DEF Exposure, ClaimIn
<1>12. ASSUME NEW p \in Paths
       PROVE  Cardinality(Committed(p)) = 0
  <2>1. Committed(p) = {}
    BY <1>4, <1>5 DEF Committed, ClaimIn, Init
  <2>. QED  BY <2>1, FS_EmptySet
<1>13. InitialCash >= CashReserve => \A p \in Paths : CashFits(p)
  BY <1>5, <1>9, LedgerAssumption DEF CashFits, Init
<1>14. CapsFit
  BY <1>t, <1>11, <1>12, <1>13 DEF CapsFit
<1>. QED  BY <1>1, <1>2, <1>3, <1>8, <1>14 DEF CapInv, Bookkeeping

LEMMA CapsFitHolds ==
    ASSUME CapInv
    PROVE  WithinEveryCap
<1>0. TypeOK /\ ClaimsTyped /\ Loop \in Paths /\ venueQty \in [Symbols -> Nat] /\ IsBook(orders)
      /\ venueCash \in Int /\ MaxTotalInvested \in Nat /\ MaxPerPosition \in Nat
  BY Typed, ClaimsAreTyped DEF CapInv, Bookkeeping, ReservationInv, Paths
<1>c. /\ Claim(Loop) * EffPrice \in Nat /\ ClaimFee(Loop) \in Nat
      /\ \A T : ClaimIn(Loop, T) * Price \in Nat
  BY <1>0, ClaimInTyped, LedgerAssumption DEF ClaimsTyped
<1>1. CashAboveReserve
  <2>1. OwedBy(orders) \in Nat
    BY <1>0, OwedSum
  <2>. QED  BY <1>0, <1>c, <2>1, LedgerAssumption DEF CapInv, CapsFit, CashFits, CashAboveReserve
<1>2. ASSUME NEW T \in SUBSET Symbols
      PROVE  /\ Price * HeldIn(venueQty, T) \in Nat /\ Exposure(Loop, T) \in Nat
             /\ Price * HeldIn(venueQty, T) <= Exposure(Loop, T)
  <2>1. HeldIn(venueQty, T) \in Nat /\ IncomingOf(orders, T) \in Nat
    BY <1>0, HeldSum, IncomingSum
  <2>2. Price * HeldIn(venueQty, T) \in Nat
    BY <2>1, LedgerAssumption
  <2>. QED  BY <1>c, <2>1, <2>2 DEF Exposure
<1>3. InvestedWithinCap
  <2>1. [s \in Symbols |-> venueQty[s]] = venueQty
    BY <1>0
  <2>2. HeldIn(venueQty, Symbols) = Total(venueQty)
    BY <2>1 DEF HeldIn
  <2>3. Price * HeldIn(venueQty, Symbols) <= Exposure(Loop, Symbols)
        /\ Price * HeldIn(venueQty, Symbols) \in Nat
    BY <1>2
  <2>4. ASSUME MaxTotalInvested > 0
        PROVE  Price * HeldIn(venueQty, Symbols) <= MaxTotalInvested
    BY <1>0, <2>4, <1>2, <2>3 DEF CapInv, CapsFit
  <2>. QED  BY <2>2, <2>4 DEF InvestedWithinCap
<1>4. PositionWithinCap
  <2>1. ASSUME MaxPerPosition > 0, NEW s \in Symbols
        PROVE  Price * venueQty[s] <= MaxPerPosition
    <3>1. Exposure(Loop, {s}) <= MaxPerPosition
      BY <1>0, <2>1 DEF CapInv, CapsFit
    <3>2. Price * HeldIn(venueQty, {s}) <= Exposure(Loop, {s}) /\ Price * HeldIn(venueQty, {s}) \in Nat
      BY <1>2
    <3>3. HeldIn(venueQty, {s}) = venueQty[s]
      BY <1>0, HeldOne
    <3>4. Exposure(Loop, {s}) \in Nat /\ MaxPerPosition \in Nat
      BY <1>0, <1>2
    <3>. QED  BY <3>1, <3>2, <3>3, <3>4
  <2>. QED  BY <2>1 DEF PositionWithinCap
<1>5. PositionsWithinCap
  <2>1. ASSUME MaxOpenPositions > 0
        PROVE  Cardinality({s \in Symbols : venueQty[s] > 0}) <= MaxOpenPositions
    <3> DEFINE H == {s \in Symbols : venueQty[s] > 0}
    <3>1. H \subseteq Committed(Loop) /\ Committed(Loop) \subseteq Symbols
      BY DEF Committed
    <3>2. IsFiniteSet(Committed(Loop))
      BY <3>1, FS_Subset, LedgerAssumption
    <3> HIDE DEF H
    <3>3. IsFiniteSet(H) /\ Cardinality(H) <= Cardinality(Committed(Loop))
      BY <3>1, <3>2, FS_Subset
    <3>4. Cardinality(H) \in Nat /\ Cardinality(Committed(Loop)) \in Nat
      BY <3>2, <3>3, FS_CardinalityType
    <3>5. Cardinality(Committed(Loop)) <= MaxOpenPositions /\ MaxOpenPositions \in Nat
      BY <1>0, <2>1, Typed DEF CapInv, CapsFit
    <3>. QED  BY <3>3, <3>4, <3>5 DEF H
  <2>. QED  BY <2>1 DEF PositionsWithinCap
<1>. QED  BY <1>1, <1>3, <1>4, <1>5 DEF WithinEveryCap

(* With buys one at a time, a portfolio call that succeeds, an operator who *)
(* clears what is over and has been counted, and no crash while an order is *)
(* out, every limit holds of the account at the broker: for every price,    *)
(* fee, limit and number of symbols, and however the venue fills.           *)
THEOREM EveryCapHolds ==
    ASSUME Faults = {}
    PROVE  Spec => []WithinEveryCap
<1>1. Init => CapInv
  BY InitCapInv
<1>2. CapInv /\ [Next]_vars => CapInv'
  BY StepBookkeeping, StepCapsFit DEF CapInv
<1>3. CapInv => WithinEveryCap
  BY CapsFitHolds
<1>. QED  BY <1>1, <1>2, <1>3, PTL DEF Spec
=============================================================================
