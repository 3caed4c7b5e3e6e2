------------------------- MODULE OrderLifecycleProofs -------------------------
(***************************************************************************)
(* Proofs about OrderLifecycle, for every set of settings and watchers and *)
(* any number of orders and shares.                                        *)
(***************************************************************************)
EXTENDS OrderLifecycle, Sums, TLAPS, FiniteSetTheorems

-----------------------------------------------------------------------------
(* Sums over finite sets: what the argument needs of Total. *)

Summable(f) == IsFiniteSet(DOMAIN f) /\ \A x \in DOMAIN f : f[x] \in Nat

(* A sum over a finite set is a number. *)
LEMMA SumIsNat ==
    ASSUME NEW f, Summable(f)
    PROVE  IsFiniteSet(Units(f)) /\ Total(f) \in Nat
<1> DEFINE pile == [x \in DOMAIN f |-> {x} \X (1..f[x])]
<1> DEFINE piles == {pile[x] : x \in DOMAIN f}
<1>1. pile \in Surjection(DOMAIN f, piles)
  BY DEF Surjection
<1>2. IsFiniteSet(piles)
  <2> HIDE DEF pile, piles
  <2>. QED  BY <1>1, FS_Surjection DEF Summable
<1>3. ASSUME NEW T \in piles
      PROVE  IsFiniteSet(T)
  <2>1. PICK x \in DOMAIN f : T = {x} \X (1..f[x])
    OBVIOUS
  <2>2. IsFiniteSet({x})
    BY FS_Singleton
  <2>3. 1 \in Int /\ f[x] \in Int
    BY DEF Summable
  <2>4. IsFiniteSet(1..f[x])
    BY <2>3, FS_Interval
  <2>. QED  BY <2>1, <2>2, <2>4, FS_Product
<1>4. Units(f) = UNION piles
  BY DEF Units
<1>5. IsFiniteSet(Units(f))
  <2> HIDE DEF piles
  <2>. QED  BY <1>2, <1>3, <1>4, FS_UNION
<1>. QED  BY <1>5, FS_CardinalityType DEF Total

(* A smaller function has a smaller sum. *)
LEMMA SumAtMost ==
    ASSUME NEW f, NEW g, Summable(f), Summable(g), DOMAIN f \subseteq DOMAIN g,
           \A x \in DOMAIN f : f[x] <= g[x]
    PROVE  Total(f) <= Total(g)
<1>1. Units(f) \subseteq Units(g)
  BY DEF Summable, Units
<1>. QED  BY <1>1, SumIsNat, FS_Subset DEF Total

(* The sum over nothing. *)
LEMMA SumOfNone ==
    ASSUME NEW f, DOMAIN f = {}
    PROVE  Total(f) = 0
<1>1. Units(f) = {}
  BY DEF Units
<1>. QED  BY <1>1, FS_EmptySet DEF Total

(* One entry more. *)
LEMMA SumAdded ==
    ASSUME NEW f, NEW g, Summable(f), NEW a, a \notin DOMAIN f,
           DOMAIN g = DOMAIN f \cup {a}, g[a] \in Nat,
           \A x \in DOMAIN f : g[x] = f[x]
    PROVE  Summable(g) /\ Total(g) = Total(f) + g[a]
<1>1. Summable(g)
  BY FS_AddElement DEF Summable
<1> DEFINE pile == {a} \X (1..g[a])
<1>2. IsFiniteSet(pile) /\ Cardinality(pile) = g[a]
  <2>1. IsFiniteSet({a}) /\ Cardinality({a}) = 1
    BY FS_Singleton
  <2>2. IsFiniteSet(1..g[a]) /\ Cardinality(1..g[a]) = g[a]
    BY FS_Interval
  <2>3. IsFiniteSet(pile) /\ Cardinality(pile) = 1 * g[a]
    BY <2>1, <2>2, FS_Product
  <2>. QED  BY <2>3
<1>3. Units(g) = Units(f) \cup pile
  BY DEF Units
<1>4. Units(f) \cap pile = {}
  BY DEF Units
<1>5. Cardinality(Units(f) \cap pile) = 0
  BY <1>4, FS_EmptySet
<1> HIDE DEF pile
<1>6. IsFiniteSet(Units(f)) /\ Total(f) \in Nat
  BY SumIsNat
<1>7. Cardinality(Units(g)) = Cardinality(Units(f)) + Cardinality(pile) - 0
  BY <1>2, <1>3, <1>5, <1>6, FS_Union
<1>. QED  BY <1>1, <1>2, <1>6, <1>7 DEF Total

(* One entry changed. *)
LEMMA SumChanged ==
    ASSUME NEW f, NEW g, Summable(f), DOMAIN g = DOMAIN f,
           NEW a \in DOMAIN f, g[a] \in Nat,
           \A x \in DOMAIN f \ {a} : g[x] = f[x]
    PROVE  Summable(g) /\ Total(g) = Total(f) - f[a] + g[a]
<1> DEFINE rest == [x \in DOMAIN f \ {a} |-> f[x]]
<1>1. Summable(rest)
  BY FS_RemoveElement DEF Summable
<1>2. DOMAIN rest = DOMAIN f \ {a} /\ DOMAIN f = DOMAIN rest \cup {a} /\ a \notin DOMAIN rest
      /\ \A x \in DOMAIN rest : f[x] = rest[x] /\ g[x] = rest[x]
  OBVIOUS
<1> HIDE DEF rest
<1>3. f[a] \in Nat
  BY DEF Summable
<1>4. Total(f) = Total(rest) + f[a]
  <2>1. DOMAIN f = DOMAIN rest \cup {a} /\ a \notin DOMAIN rest
        /\ \A x \in DOMAIN rest : f[x] = rest[x]
    BY <1>2
  <2>. QED  BY <1>1, <1>3, <2>1, SumAdded
<1>5. Summable(g) /\ Total(g) = Total(rest) + g[a]
  BY <1>2, <1>1, SumAdded
<1>. QED  BY <1>1, <1>3, <1>4, <1>5, SumIsNat

(* A sum taken in two parts. *)
LEMMA SumInParts ==
    ASSUME NEW f, Summable(f), NEW A, NEW B, DOMAIN f = A \cup B, A \cap B = {}
    PROVE  /\ Summable([x \in A |-> f[x]]) /\ Summable([x \in B |-> f[x]])
           /\ Total(f) = Total([x \in A |-> f[x]]) + Total([x \in B |-> f[x]])
<1> DEFINE fa == [x \in A |-> f[x]]
<1> DEFINE fb == [x \in B |-> f[x]]
<1>1. Summable(fa) /\ Summable(fb)
  BY FS_Subset DEF Summable
<1>2. Units(f) = Units(fa) \cup Units(fb)
  BY DEF Units
<1>3. Units(fa) \cap Units(fb) = {}
  BY DEF Units
<1> HIDE DEF fa, fb
<1>4. Cardinality(Units(fa) \cap Units(fb)) = 0
  BY <1>3, FS_EmptySet
<1>5. Total(fa) \in Nat /\ Total(fb) \in Nat /\ IsFiniteSet(Units(fa)) /\ IsFiniteSet(Units(fb))
  BY <1>1, SumIsNat
<1>6. Cardinality(Units(f)) = Cardinality(Units(fa)) + Cardinality(Units(fb)) - 0
  BY <1>2, <1>4, <1>5, FS_Union
<1>7. Total(f) = Total(fa) + Total(fb)
  BY <1>5, <1>6 DEF Total
<1>. QED  BY <1>1, <1>7 DEF fa, fb

(* A sum is zero when every entry is. *)
LEMMA SumOfZeros ==
    ASSUME NEW f, Summable(f)
    PROVE  Total(f) = 0 <=> \A x \in DOMAIN f : f[x] = 0
<1>1. Total(f) = 0 <=> Units(f) = {}
  BY SumIsNat, FS_EmptySet DEF Total
<1>2. ASSUME Units(f) = {}, NEW x \in DOMAIN f
      PROVE  f[x] = 0
  <2>1. f[x] \in Nat
    BY DEF Summable
  <2>2. ASSUME f[x] > 0
        PROVE  FALSE
    <3>1. 1 \in 1..f[x]
      BY <2>1, <2>2
    <3>2. <<x, 1>> \in Units(f)
      BY <3>1 DEF Units
    <3>. QED  BY <1>2, <3>2
  <2>. QED  BY <2>1, <2>2
<1>3. ASSUME \A x \in DOMAIN f : f[x] = 0
      PROVE  Units(f) = {}
  BY <1>3 DEF Units
<1>. QED  BY <1>1, <1>2, <1>3

(* The sum of what two functions have together. *)
LEMMA SumOfBoth ==
    ASSUME NEW f, NEW g, NEW h, Summable(g), Summable(h), DOMAIN f = DOMAIN g, DOMAIN h = DOMAIN g,
           \A x \in DOMAIN f : f[x] = g[x] + h[x]
    PROVE  Summable(f) /\ Total(f) = Total(g) + Total(h)
<1>1. Summable(f)
  BY DEF Summable
<1> DEFINE more == {u \in Units(f) : u[2] > g[u[1]]}
           shift == [u \in more |-> <<u[1], u[2] - g[u[1]]>>]
<1>2. \A x \in DOMAIN f : f[x] \in Nat /\ g[x] \in Nat /\ h[x] \in Nat /\ f[x] = g[x] + h[x]
  BY <1>1 DEF Summable
<1>3. ASSUME NEW u
      PROVE  /\ u \in Units(f) <=> \E x \in DOMAIN f : \E k \in 1..f[x] : u = <<x, k>>
             /\ u \in Units(g) <=> \E x \in DOMAIN f : \E k \in 1..g[x] : u = <<x, k>>
             /\ u \in Units(h) <=> \E x \in DOMAIN f : \E k \in 1..h[x] : u = <<x, k>>
  BY DEF Units
<1>4. ASSUME NEW u
      PROVE  u \in more <=> \E x \in DOMAIN f : \E k \in (g[x] + 1)..f[x] : u = <<x, k>>
  <2>1. ASSUME u \in more
        PROVE  \E x \in DOMAIN f : \E k \in (g[x] + 1)..f[x] : u = <<x, k>>
    <3>0. PICK x \in DOMAIN f : \E k \in 1..f[x] : u = <<x, k>>
      BY <1>3, <2>1
    <3>1. PICK k \in 1..f[x] : u = <<x, k>>
      BY <3>0
    <3>2. k > g[x] /\ k \in Int
      BY <1>2, <2>1, <3>1
    <3>. QED  BY <1>2, <3>1, <3>2
  <2>2. ASSUME NEW x \in DOMAIN f, NEW k \in (g[x] + 1)..f[x], u = <<x, k>>
        PROVE  u \in more
    BY <1>2, <1>3, <2>2
  <2>. QED  BY <2>1, <2>2
<1>5. Units(f) = Units(g) \cup more /\ Units(g) \cap more = {}
  <2>1. ASSUME NEW u \in Units(f)
        PROVE  u \in Units(g) \cup more
    <3>0. PICK x \in DOMAIN f : \E k \in 1..f[x] : u = <<x, k>>
      BY <1>3
    <3>1. PICK k \in 1..f[x] : u = <<x, k>>
      BY <3>0
    <3>2. k \in 1..g[x] \/ k \in (g[x] + 1)..f[x]
      BY <1>2, <3>1
    <3>. QED  BY <1>3, <1>4, <3>1, <3>2
  <2>2. ASSUME NEW u \in Units(g)
        PROVE  u \in Units(f) /\ u \notin more
    <3>0. PICK x \in DOMAIN f : \E k \in 1..g[x] : u = <<x, k>>
      BY <1>3
    <3>1. PICK k \in 1..g[x] : u = <<x, k>>
      BY <3>0
    <3>2. k \in 1..f[x] /\ ~(k > g[x])
      BY <1>2, <3>1
    <3>. QED  BY <1>3, <3>1, <3>2
  <2>. QED  BY <2>1, <2>2
<1>6. shift \in Bijection(more, Units(h))
  <2>1. ASSUME NEW x \in DOMAIN f, NEW k \in (g[x] + 1)..f[x]
        PROVE  /\ <<x, k>> \in more /\ shift[<<x, k>>] = <<x, k - g[x]>>
               /\ <<x, k - g[x]>> \in Units(h)
    BY <1>4, <1>2, <1>3
  <2>2. ASSUME NEW u \in more
        PROVE  shift[u] \in Units(h)
    <3>0. PICK x \in DOMAIN f : \E k \in (g[x] + 1)..f[x] : u = <<x, k>>
      BY <1>4
    <3>1. PICK k \in (g[x] + 1)..f[x] : u = <<x, k>>
      BY <3>0
    <3>. QED  BY <2>1, <3>1
  <2>3. ASSUME NEW u \in more, NEW v \in more, shift[u] = shift[v]
        PROVE  u = v
    <3>0. PICK x \in DOMAIN f : \E k \in (g[x] + 1)..f[x] : u = <<x, k>>
      BY <1>4
    <3>1. PICK k \in (g[x] + 1)..f[x] : u = <<x, k>>
      BY <3>0
    <3>9. PICK y \in DOMAIN f : \E l \in (g[y] + 1)..f[y] : v = <<y, l>>
      BY <1>4
    <3>2. PICK l \in (g[y] + 1)..f[y] : v = <<y, l>>
      BY <3>9
    <3>3. <<x, k - g[x]>> = <<y, l - g[y]>>
      BY <2>1, <2>3, <3>1, <3>2
    <3>4. x = y /\ k - g[x] = l - g[y]
      BY <3>3
    <3>5. k = l
      BY <1>2, <3>1, <3>2, <3>4
    <3>. QED  BY <3>1, <3>2, <3>4, <3>5
  <2>4. ASSUME NEW v \in Units(h)
        PROVE  \E u \in more : shift[u] = v
    <3>0. PICK x \in DOMAIN f : \E k \in 1..h[x] : v = <<x, k>>
      BY <1>3
    <3>1. PICK k \in 1..h[x] : v = <<x, k>>
      BY <3>0
    <3>2. k + g[x] \in (g[x] + 1)..f[x] /\ (k + g[x]) - g[x] = k
      BY <1>2, <3>1
    <3>. QED  BY <2>1, <3>1, <3>2
  <2>5. shift = [u \in more |-> shift[u]]
    OBVIOUS
  <2> HIDE DEF shift, more
  <2>6. shift \in [more -> Units(h)]
    BY <2>2, <2>5
  <2>. QED  BY <2>3, <2>4, <2>6 DEF Bijection, Injection, Surjection, IsInjective
<1> HIDE DEF shift, more
<1>7. IsFiniteSet(Units(f)) /\ IsFiniteSet(Units(g)) /\ IsFiniteSet(Units(h))
      /\ Total(g) \in Nat /\ Total(h) \in Nat
  BY <1>1, SumIsNat
<1>8. IsFiniteSet(more)
  BY <1>5, <1>7, FS_Subset
<1>9. Cardinality(more) = Cardinality(Units(h))
  BY <1>6, <1>8, FS_Bijection DEF ExistsBijection
<1>10. Cardinality(Units(g) \cap more) = 0
  BY <1>5, FS_EmptySet
<1>11. Cardinality(Units(f)) = Cardinality(Units(g)) + Cardinality(more) - 0
  BY <1>5, <1>7, <1>8, <1>10, FS_Union
<1>. QED  BY <1>1, <1>7, <1>9, <1>11 DEF Total

-----------------------------------------------------------------------------
(* What the paths are in the middle of                                     *)

IsPath(p) ==
    p = [pc |-> p.pc, kind |-> p.kind, side |-> p.side, clips |-> p.clips, base |-> p.base,
         got |-> p.got, bad |-> p.bad, resting |-> p.resting, next |-> p.next]

PathShape == path = [t \in Paths |-> path[t]] /\ \A t \in Paths : IsPath(path[t])

Fields(q, pc, kind, side, clips, base, got, bad, resting, next) ==
    /\ IsPath(q)
    /\ q.pc = pc /\ q.kind = kind /\ q.side = side /\ q.clips = clips /\ q.base = base
    /\ q.got = got /\ q.bad = bad /\ q.resting = resting /\ q.next = next

Others(t) == \A u \in Paths \ {t} : path'[u] = path[u]

(* Path t goes from p to q, and nobody else moves. *)
Moves(t) == t \in Paths /\ PathShape' /\ Others(t)

LEMMA Update ==
    ASSUME PathShape, NEW t \in Paths, NEW r, IsPath(r), path' = [path EXCEPT ![t] = r]
    PROVE  Moves(t) /\ path'[t] = r
BY DEF PathShape, Others, Moves

LEMMA NoPathIs == Fields(NoPath, "idle", "none", "none", <<>>, 0, <<>>, {}, FALSE, "idle")
BY DEF NoPath, Fields, IsPath

LEMMA PathEnds ==
    ASSUME PathShape, NEW t \in Paths, path' = [path EXCEPT ![t] = NoPath]
    PROVE  Moves(t) /\ path'[t] = NoPath
BY NoPathIs, Update DEF Fields

LEMMA Moved ==
    ASSUME PathShape, NEW t \in Paths, NEW pc, Goto(t, pc)
    PROVE  /\ Moves(t)
           /\ LET p == path[t]
              IN  Fields(path'[t], pc, p.kind, p.side, p.clips, p.base, p.got, p.bad, p.resting, p.next)
<1> DEFINE p == path[t]
           r == [p EXCEPT !.pc = pc]
<1>1. path' = [path EXCEPT ![t] = r]
  BY DEF Goto
<1>2. IsPath(p)
  BY DEF PathShape
<1>3. r = [p EXCEPT !.pc = pc]
  OBVIOUS
<1> HIDE DEF r, p
<1>4. Fields(r, pc, p.kind, p.side, p.clips, p.base, p.got, p.bad, p.resting, p.next)
  BY <1>2, <1>3 DEF IsPath, Fields
<1>5. IsPath(r)
  BY <1>4 DEF Fields
<1>. QED  BY <1>1, <1>4, <1>5, Update DEF p

LEMMA Begun ==
    ASSUME PathShape, NEW t \in Paths, NEW kind, NEW side, NEW clips, Begin(t, kind, side, clips)
    PROVE  /\ Moves(t)
           /\ Fields(path'[t], "submit", kind, side, clips, held, <<>>, {}, FALSE, "idle")
<1> DEFINE r == [NoPath EXCEPT !.pc = "submit", !.kind = kind, !.side = side, !.clips = clips,
                               !.base = held]
<1>1. path' = [path EXCEPT ![t] = r]
  BY DEF Begin
<1>2. r = [NoPath EXCEPT !.pc = "submit", !.kind = kind, !.side = side, !.clips = clips,
                         !.base = held]
  OBVIOUS
<1> HIDE DEF r
<1>4. Fields(r, "submit", kind, side, clips, held, <<>>, {}, FALSE, "idle")
  BY <1>2 DEF NoPath, Fields, IsPath
<1>5. IsPath(r)
  BY <1>4 DEF Fields
<1>. QED  BY <1>1, <1>4, <1>5, Update

LEMMA AnsweredIs ==
    ASSUME NEW p, IsPath(p), NEW fill
    PROVE  Fields(Answered(p, fill), IF Len(p.clips) > 1 THEN "submit" ELSE "settle", p.kind, p.side,
                  Tail(p.clips), p.base, Noting(p.got, NextId, fill), p.bad, p.resting, p.next)
<1>1. Answered(p, fill) = [p EXCEPT !.clips = Tail(@), !.got = Noting(@, NextId, fill),
                                    !.pc = IF Len(p.clips) > 1 THEN "submit" ELSE "settle"]
  BY DEF Answered
<1> DEFINE r == Answered(p, fill)
           pc == IF Len(p.clips) > 1 THEN "submit" ELSE "settle"
           got == Noting(p.got, NextId, fill)
<1>2. r = [p EXCEPT !.clips = Tail(@), !.got = got, !.pc = pc]
  BY <1>1
<1> HIDE DEF r, pc, got
<1>3. Fields(r, pc, p.kind, p.side, Tail(p.clips), p.base, got, p.bad, p.resting, p.next)
  BY <1>2 DEF IsPath, Fields
<1>. QED  BY <1>3 DEF r, pc, got

LEMMA Finals ==
    ASSUME PathShape, NEW t \in Paths, SubmitFinal(t)
    PROVE  \E fill \in 0..Head(path[t].clips) :
              /\ Takes(t, fill, 0) /\ Moves(t)
              /\ LET p == path[t]
                 IN  Fields(path'[t], IF Len(p.clips) > 1 THEN "submit" ELSE "settle", p.kind, p.side,
                            Tail(p.clips), p.base, Noting(p.got, NextId, fill), p.bad, p.resting,
                            p.next)
<1>1. PICK fill \in 0..Head(path[t].clips) :
         Takes(t, fill, 0) /\ path' = [path EXCEPT ![t] = Answered(@, fill)]
  BY DEF SubmitFinal
<1>2. path' = [path EXCEPT ![t] = Answered(path[t], fill)]
  BY <1>1
<1>3. IsPath(path[t])
  BY DEF PathShape
<1>4. IsPath(Answered(path[t], fill))
  BY <1>3, AnsweredIs DEF Fields
<1>5. Moves(t) /\ path'[t] = Answered(path[t], fill)
  BY <1>2, <1>4, Update
<1>. QED  BY <1>1, <1>3, <1>5, AnsweredIs

LEMMA Opens ==
    ASSUME PathShape, NEW t \in Paths, SubmitOpen(t)
    PROVE  \E fill \in 0..(Head(path[t].clips) - 1) :
              /\ fill > 0 => "partial" \in Faults
              /\ Takes(t, fill, Head(path[t].clips) - fill) /\ Moves(t)
              /\ reserved' = IF path[t].kind = "watch" /\ fill > 0 THEN reserved ELSE Reserving(t)
              /\ LET p == path[t]
                 IN  Fields(path'[t], IF Len(p.clips) > 1 THEN "submit" ELSE "settle", p.kind, p.side,
                            Tail(p.clips), p.base, Noting(p.got, NextId, fill), p.bad \cup {NextId},
                            p.resting, p.next)
<1>1. PICK fill \in 0..(Head(path[t].clips) - 1) :
         /\ fill > 0 => "partial" \in Faults
         /\ Takes(t, fill, Head(path[t].clips) - fill)
         /\ path' = [path EXCEPT ![t] = [Answered(path[t], fill) EXCEPT !.bad = @ \cup {NextId}]]
         /\ reserved' = IF path[t].kind = "watch" /\ fill > 0 THEN reserved ELSE Reserving(t)
  BY DEF SubmitOpen
<1> DEFINE a == Answered(path[t], fill)
           r == [a EXCEPT !.bad = @ \cup {NextId}]
           p == path[t]
           pc == IF Len(p.clips) > 1 THEN "submit" ELSE "settle"
           got == Noting(p.got, NextId, fill)
<1>2. path' = [path EXCEPT ![t] = r]
  BY <1>1
<1>3. IsPath(p)
  BY DEF PathShape
<1>4. Fields(a, pc, p.kind, p.side, Tail(p.clips), p.base, got, p.bad, p.resting, p.next)
  BY <1>3, AnsweredIs
<1>5. r = [a EXCEPT !.bad = @ \cup {NextId}]
  OBVIOUS
<1> HIDE DEF a, r, p, pc, got
<1>6. Fields(r, pc, p.kind, p.side, Tail(p.clips), p.base, got, p.bad \cup {NextId}, p.resting, p.next)
  BY <1>4, <1>5 DEF Fields, IsPath
<1>7. IsPath(r)
  BY <1>6 DEF Fields
<1>8. Moves(t) /\ path'[t] = r
  BY <1>2, <1>7, Update
<1>. QED  BY <1>1, <1>6, <1>8 DEF p, pc, got

(* The watcher is left with the clip as its own. *)
LEMMA Rests ==
    ASSUME PathShape, NEW t \in Paths, NEW w \in Watchers, SubmitResting(t, w)
    PROVE  \E fill \in 0..(Head(path[t].clips) - 1) :
              /\ fill > 0 => "partial" \in Faults
              /\ Takes(t, fill, Head(path[t].clips) - fill)
              /\ reserved' = Reserving(t)
              /\ t # w /\ PathShape' /\ \A u \in Paths \ {t, w} : path'[u] = path[u]
              /\ LET p == path[t]
                 IN  /\ Fields(path'[t], IF Len(p.clips) > 1 THEN "submit" ELSE "settle", p.kind,
                               p.side, Tail(p.clips), p.base, Noting(p.got, NextId, fill), p.bad,
                               TRUE, p.next)
                     /\ Fields(path'[w], "resting", "watch", p.side, <<Head(p.clips) - fill>>, 0,
                               Noting(<<>>, NextId, 0), {}, FALSE, "idle")
<1>1. PICK fill \in 0..(Head(path[t].clips) - 1) :
         /\ fill > 0 => "partial" \in Faults
         /\ Takes(t, fill, Head(path[t].clips) - fill)
         /\ path' = [path EXCEPT
                       ![t] = [Answered(@, fill) EXCEPT !.resting = TRUE],
                       ![w] = [NoPath EXCEPT !.pc = "resting", !.kind = "watch",
                                 !.side = path[t].side, !.clips = <<Head(path[t].clips) - fill>>,
                                 !.got = Noting(@, NextId, 0)]]
  BY DEF SubmitResting
<1>2. t # w /\ w \in Paths /\ reserved' = Reserving(t)
  BY DEF SubmitResting, Idle, Paths
<1> DEFINE a == Answered(path[t], fill)
           r == [a EXCEPT !.resting = TRUE]
           p == path[t]
           pc == IF Len(p.clips) > 1 THEN "submit" ELSE "settle"
           got == Noting(p.got, NextId, fill)
           clips == <<Head(p.clips) - fill>>
           clip == Noting(NoPath.got, NextId, 0)
           v == [NoPath EXCEPT !.pc = "resting", !.kind = "watch", !.side = p.side, !.clips = clips,
                               !.got = clip]
<1>3. path' = [path EXCEPT ![t] = r, ![w] = v]
  BY <1>1
<1>11. clip = Noting(<<>>, NextId, 0)
  BY NoPathIs DEF Fields
<1>4. IsPath(p)
  BY DEF PathShape
<1>5. Fields(a, pc, p.kind, p.side, Tail(p.clips), p.base, got, p.bad, p.resting, p.next)
  BY <1>4, AnsweredIs
<1>6. r = [a EXCEPT !.resting = TRUE]
      /\ v = [NoPath EXCEPT !.pc = "resting", !.kind = "watch", !.side = p.side, !.clips = clips,
                            !.got = clip]
  OBVIOUS
<1> HIDE DEF a, r, p, pc, got, clips, clip, v
<1>7. Fields(r, pc, p.kind, p.side, Tail(p.clips), p.base, got, p.bad, TRUE, p.next)
  BY <1>5, <1>6 DEF Fields, IsPath
<1>8. Fields(v, "resting", "watch", p.side, clips, 0, clip, {}, FALSE, "idle")
  BY <1>6 DEF NoPath, Fields, IsPath
<1>9. IsPath(r) /\ IsPath(v)
  BY <1>7, <1>8 DEF Fields
<1>10. path'[t] = r /\ path'[w] = v /\ PathShape' /\ \A u \in Paths \ {t, w} : path'[u] = path[u]
  BY <1>2, <1>3, <1>9 DEF PathShape
<1>. QED  BY <1>1, <1>2, <1>7, <1>8, <1>10, <1>11 DEF p, pc, got, clips

LEMMA PlanGivenUp ==
    ASSUME PathShape, NEW t \in Paths, GivesUp(t)
    PROVE  /\ Moves(t)
           /\ LET p == path[t]
              IN  IF DOMAIN p.got = {} THEN path'[t] = NoPath
                  ELSE Fields(path'[t], "settle", p.kind, p.side, <<>>, p.base, p.got, p.bad, p.resting,
                              p.next)
<1>1. CASE DOMAIN path[t].got = {}
  BY <1>1, PathEnds DEF GivesUp
<1>2. CASE DOMAIN path[t].got # {}
  <2> DEFINE p == path[t]
             r == [p EXCEPT !.clips = <<>>, !.pc = "settle"]
  <2>1. path' = [path EXCEPT ![t] = r]
    BY <1>2 DEF GivesUp
  <2>2. IsPath(p)
    BY DEF PathShape
  <2>3. r = [p EXCEPT !.clips = <<>>, !.pc = "settle"]
    OBVIOUS
  <2> HIDE DEF p, r
  <2>4. Fields(r, "settle", p.kind, p.side, <<>>, p.base, p.got, p.bad, p.resting, p.next)
    BY <2>2, <2>3 DEF Fields, IsPath
  <2>5. Moves(t) /\ path'[t] = r
    BY <2>1, <2>4, Update DEF Fields
  <2>. QED  BY <1>2, <2>4, <2>5 DEF p
<1>. QED  BY <1>1, <1>2

LEMMA CutShort ==
    ASSUME PathShape, NEW t \in Paths, RateRefused(t)
    PROVE  /\ Moves(t)
           /\ LET p == path[t]
              IN  Fields(path'[t], "settle", p.kind, p.side, <<>>, p.base, p.got, p.bad, p.resting,
                         p.next)
<1> DEFINE p == path[t]
           r == [p EXCEPT !.clips = <<>>, !.pc = "settle"]
<1>1. path' = [path EXCEPT ![t] = r]
  BY DEF RateRefused, PathShape
<1>2. IsPath(p)
  BY DEF PathShape
<1>3. r = [p EXCEPT !.clips = <<>>, !.pc = "settle"]
  OBVIOUS
<1> HIDE DEF p, r
<1>4. Fields(r, "settle", p.kind, p.side, <<>>, p.base, p.got, p.bad, p.resting, p.next)
  BY <1>2, <1>3 DEF Fields, IsPath
<1>5. Moves(t) /\ path'[t] = r
  BY <1>1, <1>4, Update DEF Fields
<1>. QED  BY <1>4, <1>5 DEF p

LEMMA SyncedIs ==
    ASSUME PathShape, NEW t \in Paths, Synced(t)
    PROVE  /\ Moves(t)
           /\ LET p == path[t]
              IN  IF p.next = "idle" THEN path'[t] = NoPath
                  ELSE Fields(path'[t], p.next, p.kind, p.side, p.clips, p.base, p.got, p.bad, p.resting,
                              p.next)
<1>1. CASE path[t].next = "idle"
  BY <1>1, PathEnds DEF Synced
<1>2. CASE path[t].next # "idle"
  <2> DEFINE p == path[t]
             r == [p EXCEPT !.pc = p.next]
  <2>1. path' = [path EXCEPT ![t] = r]
    BY <1>2 DEF Synced
  <2>2. IsPath(p)
    BY DEF PathShape
  <2>3. r = [p EXCEPT !.pc = p.next]
    OBVIOUS
  <2> HIDE DEF p, r
  <2>4. Fields(r, p.next, p.kind, p.side, p.clips, p.base, p.got, p.bad, p.resting, p.next)
    BY <2>2, <2>3 DEF Fields, IsPath
  <2>5. Moves(t) /\ path'[t] = r
    BY <2>1, <2>4, Update DEF Fields
  <2>. QED  BY <1>2, <2>4, <2>5 DEF p
<1>. QED  BY <1>1, <1>2

LEMMA Read ==
    ASSUME PathShape, NEW t \in Paths, SyncRead(t)
    PROVE  /\ Moves(t)
           /\ LET p == path[t]
              IN  Fields(path'[t], "apply", p.kind, p.side, p.clips, real, p.got, p.bad, p.resting,
                         p.next)
<1> DEFINE p == path[t]
           r == [p EXCEPT !.base = real, !.pc = "apply"]
<1>1. path' = [path EXCEPT ![t] = r]
  BY DEF SyncRead, PathShape
<1>2. IsPath(p)
  BY DEF PathShape
<1>3. r = [p EXCEPT !.base = real, !.pc = "apply"]
  OBVIOUS
<1> HIDE DEF p, r
<1>4. Fields(r, "apply", p.kind, p.side, p.clips, real, p.got, p.bad, p.resting, p.next)
  BY <1>2, <1>3 DEF Fields, IsPath
<1>5. Moves(t) /\ path'[t] = r
  BY <1>1, <1>4, Update DEF Fields
<1>. QED  BY <1>4, <1>5 DEF p

LEMMA Locked ==
    ASSUME PathShape, NEW w \in Paths, Lock(w)
    PROVE  /\ Moves(w)
           /\ LET p == path[w]
              IN  Fields(path'[w], "sync", p.kind, p.side, p.clips, p.base, p.got, p.bad, p.resting,
                         "measure")
<1> DEFINE p == path[w]
           r == [p EXCEPT !.pc = "sync", !.next = "measure"]
<1>1. path' = [path EXCEPT ![w] = r]
  BY DEF Lock, PathShape
<1>2. IsPath(p)
  BY DEF PathShape
<1>3. r = [p EXCEPT !.pc = "sync", !.next = "measure"]
  OBVIOUS
<1> HIDE DEF p, r
<1>4. Fields(r, "sync", p.kind, p.side, p.clips, p.base, p.got, p.bad, p.resting, "measure")
  BY <1>2, <1>3 DEF Fields, IsPath
<1>5. Moves(w) /\ path'[w] = r
  BY <1>1, <1>4, Update DEF Fields
<1>. QED  BY <1>4, <1>5 DEF p

(* A watcher that has measured sends the rest again, or has done. *)
LEMMA WentOn ==
    ASSUME PathShape, NEW w \in Paths, NEW filled, GoesOn(w, filled)
    PROVE  /\ Moves(w)
           /\ \/ /\ MarketFallback /\ Resend(w, filled) > 0
                 /\ Fields(path'[w], "submit", "watch", path[w].side, <<Resend(w, filled)>>, held, <<>>,
                           {}, FALSE, "idle")
              \/ path'[w] = NoPath /\ path[w].side = "buy"
              \/ Fields(path'[w], "sync", "none", "none", <<>>, 0, <<>>, {}, FALSE, "idle")
<1> DEFINE clips == <<Resend(w, filled)>>
           side == path[w].side
           r == [NoPath EXCEPT !.pc = "submit", !.kind = "watch", !.side = side, !.clips = clips,
                               !.base = held]
           last == [NoPath EXCEPT !.pc = "sync"]
<1>1. \/ MarketFallback /\ Resend(w, filled) > 0 /\ path' = [path EXCEPT ![w] = r]
      \/ path[w].side = "buy" /\ path' = [path EXCEPT ![w] = NoPath]
      \/ path' = [path EXCEPT ![w] = last]
  BY DEF GoesOn
<1>2. r = [NoPath EXCEPT !.pc = "submit", !.kind = "watch", !.side = side, !.clips = clips,
                         !.base = held]
      /\ last = [NoPath EXCEPT !.pc = "sync"]
  OBVIOUS
<1> HIDE DEF r, last, clips, side
<1>3. Fields(r, "submit", "watch", side, clips, held, <<>>, {}, FALSE, "idle")
  BY <1>2 DEF NoPath, Fields, IsPath
<1>4. Fields(last, "sync", "none", "none", <<>>, 0, <<>>, {}, FALSE, "idle")
  BY <1>2 DEF NoPath, Fields, IsPath
<1>5. IsPath(r) /\ IsPath(last)
  BY <1>3, <1>4 DEF Fields
<1>6. CASE MarketFallback /\ Resend(w, filled) > 0 /\ path' = [path EXCEPT ![w] = r]
  BY <1>5, <1>6, Update, <1>3 DEF clips, side
<1>7. CASE path[w].side = "buy" /\ path' = [path EXCEPT ![w] = NoPath]
  BY <1>7, PathEnds
<1>8. CASE path' = [path EXCEPT ![w] = last]
  BY <1>5, <1>8, Update, <1>4
<1>. QED  BY <1>1, <1>6, <1>7, <1>8

LEMMA Adopting ==
    ASSUME PathShape, Adopt
    PROVE  /\ Moves(Operator)
           /\ Fields(path'[Operator], "adopt", "none", "none", <<>>, held, <<>>, {}, FALSE, "idle")
<1> DEFINE r == [NoPath EXCEPT !.pc = "adopt", !.base = held]
<1>1. path' = [path EXCEPT ![Operator] = r] /\ Operator \in Paths
  BY DEF Adopt, Paths
<1>2. r = [NoPath EXCEPT !.pc = "adopt", !.base = held]
  OBVIOUS
<1> HIDE DEF r
<1>3. Fields(r, "adopt", "none", "none", <<>>, held, <<>>, {}, FALSE, "idle")
  BY <1>2 DEF NoPath, Fields, IsPath
<1>4. Moves(Operator) /\ path'[Operator] = r
  BY <1>1, <1>3, Update DEF Fields
<1>. QED  BY <1>3, <1>4

LEMMA Crashed ==
    ASSUME PathShape, Crash
    PROVE  /\ PathShape'
           /\ Fields(path'[Loop], "sync", "none", "none", <<>>, 0, <<>>, {}, FALSE, "idle")
           /\ \A t \in Paths \ {Loop} : path'[t] = NoPath
<1> DEFINE r == [NoPath EXCEPT !.pc = "sync"]
<1>1. path' = [t \in Paths |-> IF t = Loop THEN r ELSE NoPath] /\ Loop \in Paths
  BY DEF Crash, Paths
<1>2. r = [NoPath EXCEPT !.pc = "sync"]
  OBVIOUS
<1> HIDE DEF r
<1>3. Fields(r, "sync", "none", "none", <<>>, 0, <<>>, {}, FALSE, "idle")
  BY <1>2 DEF NoPath, Fields, IsPath
<1>4. IsPath(r) /\ IsPath(NoPath)
  BY <1>3, NoPathIs DEF Fields
<1>. QED  BY <1>1, <1>3, <1>4 DEF PathShape

-----------------------------------------------------------------------------
(* What happens to the orders                                              *)

Sides == {"buy", "sell"}

Typed ==
    /\ setting \in Settings
    /\ real \in Int /\ held \in Int /\ open \in Nat /\ guard \in Nat /\ byHand \in Nat
    /\ orders \in Seq(OrderStates) /\ Len(orders) <= MaxOrders
    /\ unknown \subseteq Ids /\ reserved \subseteq Ids /\ givenUp \subseteq Ids
    /\ untracked \in {"no", "seen", "due"}

LEMMA SettingIs ==
    ASSUME Typed
    PROVE  /\ Execution \in {"market", "limit", "sliced"} /\ MarketFallback \in BOOLEAN
           /\ Lister \in BOOLEAN /\ Faults \subseteq FaultKinds /\ MaxOrders \in Nat
BY LifecycleAssumption DEF Typed, Execution, MarketFallback, Lister, Faults, MaxOrders

LEMMA IdsAre ==
    ASSUME Typed
    PROVE  /\ Len(orders) \in Nat /\ Ids = 1..Len(orders) /\ IsFiniteSet(Ids)
           /\ NextId \in Nat /\ NextId \notin Ids /\ Ids \subseteq Nat
           /\ \A id \in Ids : /\ orders[id] \in OrderStates /\ orders[id].side \in Sides
                              /\ orders[id].left \in Nat /\ orders[id].filled \in Nat
                              /\ orders[id].booked \in Nat
<1>1. Len(orders) \in Nat /\ Ids = 1..Len(orders)
  BY DEF Typed, Ids
<1>2. IsFiniteSet(1..Len(orders))
  BY <1>1, FS_Interval
<1>3. \A id \in Ids : orders[id] \in OrderStates
  BY DEF Typed, Ids
<1>. QED  BY <1>1, <1>2, <1>3 DEF NextId, OrderStates, Sides

OrdersTyped ==
    /\ IsFiniteSet(Ids)
    /\ \A id \in Ids : /\ orders[id].side \in Sides /\ orders[id].left \in Nat
                       /\ orders[id].filled \in Nat /\ orders[id].booked \in Nat

LEMMA OrdersAreTyped == Typed => OrdersTyped
BY IdsAre DEF OrdersTyped

(* An order never takes back what filled, and never works more than before. *)
OrdersKept ==
    /\ Ids \subseteq Ids'
    /\ \A id \in Ids : /\ orders'[id].side = orders[id].side
                       /\ orders'[id].left <= orders[id].left
                       /\ orders'[id].filled >= orders[id].filled

LEMMA Kept ==
    ASSUME Typed, orders' = orders
    PROVE  OrdersKept /\ Ids' = Ids
BY IdsAre DEF OrdersKept, Ids

LEMMA Taken ==
    ASSUME Typed, NEW t \in Paths, NEW fill \in Nat, NEW left \in Nat, Takes(t, fill, left),
           path[t].side \in Sides, Len(orders) < MaxOrders
    PROVE  /\ orders' \in Seq(OrderStates) /\ Len(orders') <= MaxOrders
           /\ Ids' = Ids \cup {NextId} /\ NextId \notin Ids
           /\ orders'[NextId].side = path[t].side /\ orders'[NextId].left = left
           /\ orders'[NextId].filled = fill /\ orders'[NextId].booked = 0
           /\ \A id \in Ids : orders'[id] = orders[id]
           /\ OrdersKept
           /\ real' = IF path[t].side = "buy" THEN real + fill ELSE real - fill
           /\ real' \in Int
<1> DEFINE new == [side |-> path[t].side, left |-> left, filled |-> fill, booked |-> 0]
<1>1. orders' = Append(orders, new)
      /\ real' = IF path[t].side = "buy" THEN real + fill ELSE real - fill
  BY DEF Takes
<1>2. new \in OrderStates /\ new.side = path[t].side /\ new.left = left /\ new.filled = fill
      /\ new.booked = 0
  BY DEF OrderStates, Sides
<1> HIDE DEF new
<1>3. orders \in Seq(OrderStates) /\ Len(orders) \in Nat /\ Ids = 1..Len(orders) /\ MaxOrders \in Nat
  BY IdsAre, SettingIs DEF Typed
<1>4. /\ orders' \in Seq(OrderStates) /\ Len(orders') = Len(orders) + 1
      /\ orders'[Len(orders) + 1] = new
      /\ \A id \in 1..Len(orders) : orders'[id] = orders[id]
  BY <1>1, <1>2, <1>3
<1>5. Ids' = 1..(Len(orders) + 1)
  BY <1>4 DEF Ids
<1>6. Ids' = Ids \cup {NextId} /\ NextId \notin Ids
  BY <1>3, <1>5 DEF NextId
<1>7. OrdersKept
  BY <1>3, <1>4, <1>6, IdsAre DEF OrdersKept
<1>8. real' \in Int
  BY <1>1 DEF Typed
<1>. QED  BY <1>1, <1>2, <1>3, <1>4, <1>6, <1>7, <1>8 DEF NextId

(* One order has another number of shares working, filled or booked. *)
OneChanged(id, left, filled, booked) ==
    /\ orders' \in Seq(OrderStates) /\ Len(orders') = Len(orders) /\ Ids' = Ids
    /\ orders'[id].side = orders[id].side /\ orders'[id].left = left
    /\ orders'[id].filled = filled /\ orders'[id].booked = booked
    /\ \A i \in Ids \ {id} : orders'[i] = orders[i]

LEMMA Changed ==
    ASSUME Typed, NEW id \in Ids, NEW r \in OrderStates, orders' = [orders EXCEPT ![id] = r],
           r.side = orders[id].side
    PROVE  OneChanged(id, r.left, r.filled, r.booked)
<1>1. orders \in Seq(OrderStates) /\ Len(orders) \in Nat /\ Ids = 1..Len(orders)
  BY IdsAre DEF Typed
<1>2. orders' \in Seq(OrderStates) /\ Len(orders') = Len(orders) /\ DOMAIN orders' = 1..Len(orders)
  BY <1>1
<1>3. orders'[id] = r /\ \A i \in Ids \ {id} : orders'[i] = orders[i]
  BY <1>1
<1>. QED  BY <1>1, <1>2, <1>3 DEF OneChanged, Ids

LEMMA FilledAtVenue ==
    ASSUME Typed, NEW id \in Ids, VenueFill(id)
    PROVE  \E n \in 1..orders[id].left :
              /\ n < orders[id].left => "latePartial" \in Faults
              /\ OneChanged(id, orders[id].left - n, orders[id].filled + n, orders[id].booked)
              /\ OrdersKept
              /\ real' = IF orders[id].side = "buy" THEN real + n ELSE real - n
              /\ real' \in Int
<1>1. PICK n \in 1..orders[id].left :
         /\ n < orders[id].left => "latePartial" \in Faults
         /\ orders' = [orders EXCEPT ![id].left = @ - n, ![id].filled = @ + n]
         /\ real' = IF orders[id].side = "buy" THEN real + n ELSE real - n
  BY DEF VenueFill
<1>2. orders[id] \in OrderStates /\ orders[id].left \in Nat /\ orders[id].filled \in Nat
  BY IdsAre
<1> DEFINE r == [orders[id] EXCEPT !.left = @ - n, !.filled = @ + n]
<1>3. orders' = [orders EXCEPT ![id] = r]
  BY <1>1 DEF Typed, Ids
<1>7. n \in Nat /\ orders[id].left - n \in Nat /\ orders[id].filled + n \in Nat
  BY <1>1, <1>2
<1>8. r = [orders[id] EXCEPT !.left = orders[id].left - n, !.filled = orders[id].filled + n]
  OBVIOUS
<1> HIDE DEF r
<1>4. r \in OrderStates /\ r.side = orders[id].side /\ r.left = orders[id].left - n
      /\ r.filled = orders[id].filled + n /\ r.booked = orders[id].booked
  BY <1>2, <1>7, <1>8 DEF OrderStates
<1>5. OneChanged(id, orders[id].left - n, orders[id].filled + n, orders[id].booked)
  BY <1>3, <1>4, Changed
<1>6. OrdersKept
  <2>1. orders[id].left - n <= orders[id].left /\ orders[id].filled + n >= orders[id].filled
    BY <1>2, <1>7
  <2>2. \A i \in Ids : orders[i].left \in Nat /\ orders[i].filled \in Nat
    BY IdsAre
  <2>. QED  BY <1>5, <2>1, <2>2 DEF OrdersKept, OneChanged
<1>. QED  BY <1>1, <1>2, <1>5, <1>6 DEF Typed

LEMMA TakenOff ==
    ASSUME Typed, NEW id \in Ids, orders' = [orders EXCEPT ![id].left = 0]
    PROVE  OneChanged(id, 0, orders[id].filled, orders[id].booked) /\ OrdersKept
<1>2. orders[id] \in OrderStates /\ orders[id].left \in Nat
  BY IdsAre
<1> DEFINE r == [orders[id] EXCEPT !.left = 0]
<1>3. orders' = [orders EXCEPT ![id] = r]
  BY DEF Typed, Ids
<1>4. r \in OrderStates /\ r.side = orders[id].side /\ r.left = 0
      /\ r.filled = orders[id].filled /\ r.booked = orders[id].booked
  BY <1>2 DEF OrderStates
<1> HIDE DEF r
<1>5. OneChanged(id, 0, orders[id].filled, orders[id].booked)
  BY <1>3, <1>4, Changed
<1>6. OrdersKept
  BY <1>2, <1>5, IdsAre DEF OrdersKept, OneChanged
<1>. QED  BY <1>5, <1>6

LEMMA BookedIs ==
    ASSUME Typed, NEW fills, Booked(fills), \A id \in DOMAIN fills : fills[id] \in Nat
    PROVE  /\ orders' \in Seq(OrderStates) /\ Len(orders') = Len(orders) /\ Ids' = Ids
           /\ \A id \in Ids : /\ orders'[id].side = orders[id].side
                              /\ orders'[id].left = orders[id].left
                              /\ orders'[id].filled = orders[id].filled
                              /\ orders'[id].booked = IF id \in DOMAIN fills
                                                      THEN orders[id].booked + fills[id]
                                                      ELSE orders[id].booked
           /\ OrdersKept
<1>1. Len(orders) \in Nat /\ Ids = 1..Len(orders)
  BY IdsAre
<1>2. orders' = [id \in 1..Len(orders) |->
                    IF id \in DOMAIN fills THEN [orders[id] EXCEPT !.booked = @ + fills[id]]
                    ELSE orders[id]]
  BY <1>1 DEF Booked
<1>3. ASSUME NEW id \in Ids
      PROVE  /\ orders'[id] \in OrderStates
             /\ orders'[id].side = orders[id].side
             /\ orders'[id].left = orders[id].left
             /\ orders'[id].filled = orders[id].filled
             /\ orders'[id].booked = IF id \in DOMAIN fills THEN orders[id].booked + fills[id]
                                     ELSE orders[id].booked
  BY IdsAre, <1>1, <1>2 DEF OrderStates
<1>4. DOMAIN orders' = 1..Len(orders) /\ \A i \in 1..Len(orders) : orders'[i] \in OrderStates
  BY <1>1, <1>2, <1>3
<1>5. orders' \in Seq(OrderStates) /\ Len(orders') = Len(orders)
  BY <1>2, <1>4, <1>1
<1>6. Ids' = Ids
  BY <1>1, <1>4 DEF Ids
<1>7. OrdersKept
  BY <1>3, <1>6, IdsAre DEF OrdersKept
<1>. QED  BY <1>3, <1>5, <1>6, <1>7

-----------------------------------------------------------------------------
(* The shape of what a path is in the middle of                            *)

PCs == {"idle", "submit", "settle", "book", "flag", "sync", "apply", "reconcile",
        "resting", "cancel", "cancelled", "measure", "adopt"}

(* Asking: its orders are not in the record yet.  Watching: its order is    *)
(* one that rested; Late: and that has been cancelled.                     *)
Asking(p) == p.pc \in {"submit", "settle", "book"}
Asked(p) == Asking(p) \/ p.pc = "flag"
Watching(p) == p.pc \in {"resting", "cancel", "cancelled"} \/ p.next = "measure"
Late(p) == Watching(p) /\ p.pc \notin {"resting", "cancel"}

(* The shares still to be sent: a plan of many clips has clips of one.     *)
Rest(clips) == IF Len(clips) = 1 THEN clips[1] ELSE Len(clips)

Clipped(clips) ==
    /\ clips \in Seq(Nat) /\ \A i \in 1..Len(clips) : clips[i] > 0
    /\ Len(clips) <= 1 \/ \A i \in 1..Len(clips) : clips[i] = 1

Fits(p, ids) ==
    /\ IsPath(p)
    /\ p.pc \in PCs /\ p.kind \in {"none", "act", "exit", "manual", "watch"}
    /\ p.side \in Sides \cup {"none"} /\ p.base \in Int /\ p.next \in {"idle", "measure"}
    /\ p.resting \in BOOLEAN
    /\ Clipped(p.clips)
    /\ Summable(p.got) /\ DOMAIN p.got \subseteq ids /\ p.bad \subseteq DOMAIN p.got

Single(p) == p.kind # "act" \/ Execution # "sliced"

Roles(t, p) ==
    /\ p.pc = "idle" => p = NoPath
    /\ p.pc = "reconcile" =>
          t = Loop /\ Fields(p, "reconcile", "none", "none", <<>>, 0, <<>>, {}, FALSE, "idle")
    /\ p.pc = "adopt" => t = Operator /\ DOMAIN p.got = {} /\ p.base > 0
    /\ p.next = "measure" => p.pc \in {"sync", "apply", "measure"}
    /\ p.pc = "measure" => p.next = "measure"
    /\ Asked(p) => p.side \in Sides /\ p.kind # "none"
    /\ p.pc = "submit" => Len(p.clips) > 0 /\ (Single(p) => Len(p.clips) = 1 /\ DOMAIN p.got = {})
    /\ p.pc \in {"settle", "book"} =>
          Len(p.clips) = 0 /\ (p.kind # "act" => \E id \in DOMAIN p.got : DOMAIN p.got = {id})
    /\ p.pc = "flag" => p.kind \in {"exit", "manual"} /\ Len(p.clips) = 0
    /\ Watching(p) =>
          /\ t \in Watchers /\ p.kind = "watch" /\ p.side \in Sides
          /\ Len(p.clips) = 1 /\ p.bad = {}
          /\ \E id \in DOMAIN p.got : DOMAIN p.got = {id} /\ p.got[id] = 0
          /\ p.pc = "resting" \/ Lister
    /\ t \in Watchers => p.kind \in {"none", "watch"}
    /\ t \notin Watchers => p.kind # "watch"
    /\ p.kind = "act" => t = Loop
    /\ Execution = "market" /\ t \in Watchers => p = NoPath
    /\ p.resting => p.kind = "act"

Meant(p, ords) ==
    /\ Asked(p) \/ Watching(p) => \A id \in DOMAIN p.got : ords[id].side = p.side
    /\ Asked(p) => \A id \in DOMAIN p.got : p.got[id] <= ords[id].filled
    /\ Asked(p) /\ ~p.resting => \A id \in DOMAIN p.got \ p.bad : ords[id].left = 0
    /\ Late(p) => \A id \in DOMAIN p.got : ords[id].left = 0

Sized(p) == Asked(p) /\ p.side = "sell" => Confirmed(p) + Rest(p.clips) <= p.base

Good(t, p, ords) == Fits(p, DOMAIN ords) /\ Roles(t, p) /\ Meant(p, ords) /\ Sized(p)

Base == Typed /\ PathShape /\ \A t \in Paths : Good(t, path[t], orders)

-----------------------------------------------------------------------------
LEMMA ClippedNone == Clipped(<<>>) /\ Rest(<<>>) = 0
BY DEF Clipped, Rest

LEMMA ClippedOne ==
    ASSUME NEW qty \in Nat, qty > 0
    PROVE  Clipped(<<qty>>) /\ Rest(<<qty>>) = qty /\ Len(<<qty>>) = 1 /\ Head(<<qty>>) = qty
BY DEF Clipped, Rest

LEMMA ClipsAre ==
    ASSUME NEW qty \in Nat, qty > 0
    PROVE  /\ Clipped(Clips(qty)) /\ Rest(Clips(qty)) = qty /\ Len(Clips(qty)) > 0
           /\ Execution # "sliced" => Clips(qty) = <<qty>>
<1>1. CASE Execution = "sliced"
  BY <1>1 DEF Clips, Clipped, Rest
<1>2. CASE Execution # "sliced"
  BY <1>2, ClippedOne DEF Clips
<1>. QED  BY <1>1, <1>2

LEMMA ClippedTail ==
    ASSUME NEW clips, Clipped(clips), Len(clips) > 0
    PROVE  /\ Clipped(Tail(clips)) /\ Head(clips) \in Nat /\ Head(clips) > 0
           /\ Rest(Tail(clips)) \in Nat /\ Rest(clips) \in Nat
           /\ Rest(clips) = Head(clips) + Rest(Tail(clips))
           /\ Len(Tail(clips)) = Len(clips) - 1
           /\ Len(clips) \in Nat
<1>1. clips \in Seq(Nat) /\ Len(clips) \in Nat /\ Len(clips) >= 1
  BY DEF Clipped
<1>8. clips # <<>>
  BY <1>1
<1>2. /\ Head(clips) = clips[1] /\ Tail(clips) \in Seq(Nat) /\ Len(Tail(clips)) = Len(clips) - 1
      /\ \A i \in 1..(Len(clips) - 1) : Tail(clips)[i] = clips[i + 1]
  BY <1>1, <1>8
<1>3. clips[1] \in Nat /\ clips[1] > 0
  BY <1>1 DEF Clipped
<1>4. Clipped(Tail(clips))
  <2>1. ASSUME NEW i \in 1..Len(Tail(clips))
        PROVE  Tail(clips)[i] = clips[i + 1] /\ i + 1 \in 1..Len(clips)
    BY <1>1, <1>2
  <2>. QED  BY <1>1, <1>2, <2>1 DEF Clipped
<1>5. CASE Len(clips) = 1
  <2>1. Rest(Tail(clips)) = 0
    BY <1>2, <1>5 DEF Rest
  <2>2. Rest(clips) = Head(clips)
    BY <1>2, <1>5 DEF Rest
  <2>. QED  BY <1>1, <1>2, <1>3, <1>4, <1>5, <2>1, <2>2
<1>6. CASE Len(clips) > 1
  <2>1. clips[1] = 1 /\ clips[2] = 1
    BY <1>1, <1>6 DEF Clipped
  <2>4. Len(clips) # 1
    BY <1>6
  <2>2. Rest(clips) = Len(clips)
    BY <2>4, Zenon DEF Rest
  <2>3. Rest(Tail(clips)) = Len(clips) - 1
    BY <1>1, <1>2, <1>6, <2>1 DEF Rest
  <2>. QED  BY <1>1, <1>2, <1>3, <1>4, <1>6, <2>1, <2>2, <2>3
<1>9. Len(clips) \in Nat /\ Len(clips) >= 1
  BY <1>1
<1>7. Len(clips) = 1 \/ Len(clips) > 1
  BY <1>9
<1>. QED  BY <1>5, <1>6, <1>7, Zenon

LEMMA RestIsNat ==
    ASSUME NEW clips, Clipped(clips)
    PROVE  Rest(clips) \in Nat
BY DEF Clipped, Rest

(* g is f with an entry more. *)
Adds(g, f, id, qty) ==
    /\ Summable(g) /\ DOMAIN g = DOMAIN f \cup {id} /\ g[id] = qty
    /\ \A i \in DOMAIN f : g[i] = f[i]
    /\ Total(g) = Total(f) + qty

LEMMA NotedIs ==
    ASSUME NEW f, Summable(f), NEW id, id \notin DOMAIN f, NEW qty \in Nat
    PROVE  Adds(Noting(f, id, qty), f, id, qty)
<1> DEFINE g == Noting(f, id, qty)
<1>1. DOMAIN g = DOMAIN f \cup {id} /\ g[id] = qty /\ \A i \in DOMAIN f : g[i] = f[i]
  BY DEF Noting
<1> HIDE DEF g
<1>2. Summable(g) /\ Total(g) = Total(f) + g[id]
  BY <1>1, SumAdded
<1>3. Adds(g, f, id, qty)
  BY <1>1, <1>2 DEF Adds
<1>. QED  BY <1>3 DEF g

Only(g, id, qty) == Summable(g) /\ DOMAIN g = {id} /\ g[id] = qty /\ Total(g) = qty

LEMMA NotedFirst ==
    ASSUME NEW id, NEW qty \in Nat
    PROVE  Only(Noting(<<>>, id, qty), id, qty)
<1> DEFINE f == <<>>
           g == Noting(f, id, qty)
<1>1. DOMAIN f = {}
  OBVIOUS
<1> HIDE DEF f
<1>2. DOMAIN g = {id} /\ g[id] = qty
  BY <1>1 DEF Noting
<1>3. Summable(f) /\ Total(f) = 0 /\ id \notin DOMAIN f
  BY <1>1, FS_EmptySet, SumOfNone DEF Summable
<1> HIDE DEF g
<1>5. Summable(g) /\ Total(g) = Total(f) + g[id]
  BY <1>1, <1>2, <1>3, SumAdded
<1>6. Only(g, id, qty)
  BY <1>2, <1>3, <1>5 DEF Only
<1>. QED  BY <1>6 DEF f, g

LEMMA NoneGot == DOMAIN <<>> = {} /\ Summable(<<>>) /\ Total(<<>>) = 0
<1>1. DOMAIN <<>> = {}
  OBVIOUS
<1>. QED  BY <1>1, FS_EmptySet, SumOfNone DEF Summable

LEMMA ConfirmedIs ==
    ASSUME NEW p, NEW ids, Fits(p, ids)
    PROVE  Confirmed(p) \in Nat
BY SumIsNat DEF Fits, Confirmed

LEMMA GoodNoPath ==
    ASSUME NEW t, NEW ords
    PROVE  Good(t, NoPath, ords)
<1> DEFINE p == NoPath
<1>1. IsPath(p) /\ p.pc = "idle" /\ p.kind = "none" /\ p.side = "none" /\ p.clips = <<>> /\ p.base = 0
      /\ p.got = <<>> /\ p.bad = {} /\ p.resting = FALSE /\ p.next = "idle"
  BY NoPathIs DEF Fields
<1>2. Summable(p.got) /\ DOMAIN p.got = {} /\ Clipped(p.clips)
  BY <1>1, ClippedNone, NoneGot
<1>3. Roles(t, p)
  BY <1>1 DEF Roles, Asked, Asking, Watching
<1> HIDE DEF p
<1>4. Fits(p, DOMAIN ords)
  <2>1. p.pc \in PCs /\ p.kind \in {"none", "act", "exit", "manual", "watch"}
        /\ p.side \in Sides \cup {"none"} /\ p.base \in Int /\ p.next \in {"idle", "measure"}
    BY <1>1 DEF PCs
  <2>2. p.resting \in BOOLEAN /\ DOMAIN p.got \subseteq DOMAIN ords /\ p.bad \subseteq DOMAIN p.got
    BY <1>1, <1>2
  <2>. QED  BY <1>1, <1>2, <2>1, <2>2 DEF Fits
<1>5. Meant(p, ords) /\ Sized(p)
  BY <1>1 DEF Meant, Sized, Asked, Asking, Watching, Late
<1>. QED  BY <1>3, <1>4, <1>5 DEF Good, p

(* What a path is in the middle of stays in order while others move.       *)
LEMMA GoodKept ==
    ASSUME Typed, Typed', OrdersKept, NEW u, NEW p, Good(u, p, orders)
    PROVE  Good(u, p, orders')
<1>1. \A id \in Ids : id \in DOMAIN orders'
  BY DEF OrdersKept, Ids
<1>2. Fits(p, DOMAIN orders')
  BY <1>1 DEF Good, Fits, Ids
<1>3. Meant(p, orders')
  <2>1. DOMAIN p.got \subseteq Ids
    BY DEF Good, Fits, Ids
  <2>2. \A id \in Ids : /\ orders[id].filled \in Nat /\ orders[id].left \in Nat
                        /\ orders'[id].filled \in Nat /\ orders'[id].left \in Nat
    <3>1. OrdersTyped'
      BY OrdersAreTyped, PTL
    <3>. QED  BY <1>1, <3>1, IdsAre DEF OrdersTyped, Ids
  <2>3. \A id \in DOMAIN p.got : p.got[id] \in Nat
    BY DEF Good, Fits, Summable
  <2>. QED  BY <2>1, <2>2, <2>3 DEF Good, Meant, OrdersKept
<1>. QED  BY <1>2, <1>3 DEF Good

LEMMA GoodNext ==
    ASSUME setting' = setting, NEW t \in Paths, Good(t, path'[t], orders')
    PROVE  Good(t, path[t], orders)'
BY DEF Good, Fits, Roles, Meant, Sized, Confirmed, Asked, Asking, Watching, Late, Single, Execution,
       Lister, Fields, IsPath

LEMMA BaseStep ==
    ASSUME Base, Typed', setting' = setting, OrdersKept, NEW t, Moves(t),
           Good(t, path'[t], orders')
    PROVE  Base'
<1>1. ASSUME NEW u \in Paths
      PROVE  Good(u, path[u], orders)'
  BY GoodKept, GoodNext DEF Base, Moves, Others
<1>. QED  BY <1>1 DEF Base, Moves, Paths

LEMMA BaseStill ==
    ASSUME Base, Typed', setting' = setting, OrdersKept, path' = path
    PROVE  Base'
<1>1. ASSUME NEW u \in Paths
      PROVE  Good(u, path[u], orders)'
  BY GoodKept, GoodNext DEF Base
<1>. QED  BY <1>1 DEF Base, Paths, PathShape

LEMMA FitsIf ==
    ASSUME NEW q, NEW pc \in PCs, NEW kind \in {"none", "act", "exit", "manual", "watch"},
           NEW side \in Sides \cup {"none"}, NEW clips, Clipped(clips), NEW base \in Int,
           NEW got, Summable(got), NEW ids, DOMAIN got \subseteq ids, NEW bad, bad \subseteq DOMAIN got,
           NEW resting \in BOOLEAN, NEW next \in {"idle", "measure"},
           Fields(q, pc, kind, side, clips, base, got, bad, resting, next)
    PROVE  Fits(q, ids)
BY DEF Fits, Fields

LEMMA FitsParts ==
    ASSUME NEW p, NEW ids, Fits(p, ids)
    PROVE  /\ p.pc \in PCs /\ p.kind \in {"none", "act", "exit", "manual", "watch"}
           /\ p.side \in Sides \cup {"none"} /\ Clipped(p.clips) /\ p.base \in Int
           /\ Summable(p.got) /\ DOMAIN p.got \subseteq ids /\ p.bad \subseteq DOMAIN p.got
           /\ p.resting \in BOOLEAN /\ p.next \in {"idle", "measure"} /\ IsPath(p)
           /\ Confirmed(p) \in Nat /\ Rest(p.clips) \in Nat
           /\ \A id \in DOMAIN p.got : p.got[id] \in Nat
BY ConfirmedIs, RestIsNat DEF Fits, Summable

LEMMA BaseParts ==
    ASSUME Base, NEW t \in Paths
    PROVE  /\ Typed /\ PathShape /\ Good(t, path[t], orders)
           /\ Fits(path[t], Ids) /\ Roles(t, path[t]) /\ Meant(path[t], orders) /\ Sized(path[t])
BY DEF Base, Good, Ids

LEMMA PathsAre ==
    /\ Loop \in Paths /\ Operator \in Paths /\ Loop \notin Watchers /\ Operator \notin Watchers
    /\ Loop # Operator /\ \A t \in Paths : t \in Watchers \/ t = Loop \/ t = Operator
    /\ Watchers \subseteq Paths
BY LifecycleAssumption DEF Paths

(* A path that has nothing to do with orders. *)
LEMMA GoodPlain ==
    ASSUME NEW t, NEW ords, NEW q, NEW pc, NEW base \in Int,
           Fields(q, pc, "none", "none", <<>>, base, <<>>, {}, FALSE, "idle"),
           \/ pc = "sync" \/ pc = "apply" \/ (pc = "adopt" /\ t = Operator /\ base > 0)
           \/ (pc = "reconcile" /\ t = Loop /\ base = 0),
           Execution = "market" => t \notin Watchers
    PROVE  Good(t, q, ords)
<1>1. IsPath(q) /\ q.pc = pc /\ q.kind = "none" /\ q.side = "none" /\ q.clips = <<>> /\ q.base = base
      /\ q.got = <<>> /\ q.bad = {} /\ q.resting = FALSE /\ q.next = "idle"
  BY DEF Fields
<1>2. Summable(q.got) /\ DOMAIN q.got = {} /\ Clipped(q.clips)
  BY <1>1, ClippedNone, NoneGot
<1>3. pc \in {"sync", "apply", "adopt", "reconcile"}
  OBVIOUS
<1>4. Fits(q, DOMAIN ords)
  <2>1. pc \in PCs /\ "none" \in Sides \cup {"none"} /\ {} \subseteq DOMAIN <<>> /\ FALSE \in BOOLEAN
        /\ DOMAIN <<>> \subseteq DOMAIN ords
    BY <1>3, NoneGot DEF PCs
  <2>. QED  BY <1>1, <1>2, <2>1, FitsIf
<1>5. Roles(t, q)
  BY <1>1, <1>2, <1>3 DEF Roles, Asked, Asking, Watching, Fields
<1>6. Meant(q, ords) /\ Sized(q)
  BY <1>1, <1>3 DEF Meant, Sized, Asked, Asking, Watching, Late
<1>. QED  BY <1>4, <1>5, <1>6 DEF Good

LEMMA GoodSync ==
    ASSUME NEW t, NEW ords, NEW q,
           Fields(q, "sync", "none", "none", <<>>, 0, <<>>, {}, FALSE, "idle"),
           Execution = "market" => t \notin Watchers
    PROVE  Good(t, q, ords)
<1> DEFINE pc == "sync"
           base == 0
<1>1. Fields(q, pc, "none", "none", <<>>, base, <<>>, {}, FALSE, "idle")
  BY Zenon
<1>2. base \in Int /\ pc = "sync"
  OBVIOUS
<1> HIDE DEF pc, base
<1>. QED  BY <1>1, <1>2, GoodPlain

LEMMA GoodReconcile ==
    ASSUME NEW ords, NEW q,
           Fields(q, "reconcile", "none", "none", <<>>, 0, <<>>, {}, FALSE, "idle")
    PROVE  Good(Loop, q, ords)
<1> DEFINE pc == "reconcile"
           base == 0
<1>1. Fields(q, pc, "none", "none", <<>>, base, <<>>, {}, FALSE, "idle")
  BY Zenon
<1>2. base \in Int /\ pc = "reconcile" /\ base = 0
  OBVIOUS
<1> HIDE DEF pc, base
<1>. QED  BY <1>1, <1>2, GoodPlain, PathsAre

(* A path that has decided on an order. *)
LEMMA GoodBegun ==
    ASSUME NEW t, NEW ords, NEW q, NEW kind \in {"act", "exit", "manual", "watch"}, NEW side \in Sides,
           NEW clips, Clipped(clips), NEW base \in Int,
           Fields(q, "submit", kind, side, clips, base, <<>>, {}, FALSE, "idle"),
           Len(clips) > 0, kind # "act" \/ Execution # "sliced" => Len(clips) = 1,
           t \in Watchers => kind = "watch" /\ Execution # "market",
           kind = "watch" => t \in Watchers,
           kind = "act" => t = Loop,
           side = "sell" => Rest(clips) <= base
    PROVE  Good(t, q, ords)
<1>1. IsPath(q) /\ q.pc = "submit" /\ q.kind = kind /\ q.side = side /\ q.clips = clips /\ q.base = base
      /\ q.got = <<>> /\ q.bad = {} /\ q.resting = FALSE /\ q.next = "idle"
  BY DEF Fields
<1>2. Summable(q.got) /\ DOMAIN q.got = {} /\ Total(q.got) = 0
  BY <1>1, NoneGot
<1>4. Fits(q, DOMAIN ords)
  BY <1>1, <1>2 DEF PCs, Fits
<1>5. Roles(t, q)
  BY <1>1, <1>2, PathsAre DEF Roles, Asked, Asking, Watching, Fields, Single
<1>6. Meant(q, ords)
  BY <1>1, <1>2 DEF Meant, Asked, Asking, Watching, Late
<1>7. Sized(q)
  BY <1>1, <1>2, RestIsNat DEF Sized, Confirmed
<1>. QED  BY <1>4, <1>5, <1>6, <1>7 DEF Good

(* A path whose order was answered. *)
LEMMA GoodAnswered ==
    ASSUME Base, Typed', NEW t \in Paths, NEW fill \in Nat, NEW left \in Nat, path[t].pc = "submit",
           Len(orders) < MaxOrders, Takes(t, fill, left), fill <= Head(path[t].clips),
           NEW q, NEW bad, path[t].bad \subseteq bad, bad \subseteq path[t].bad \cup {NextId},
           NEW resting \in BOOLEAN, path[t].resting => resting, resting => path[t].kind = "act",
           left = 0 \/ resting \/ NextId \in bad,
           LET p == path[t]
           IN  Fields(q, IF Len(p.clips) > 1 THEN "submit" ELSE "settle", p.kind, p.side,
                      Tail(p.clips), p.base, Noting(p.got, NextId, fill), bad, resting, p.next)
    PROVE  Good(t, q, orders')
<1> DEFINE p == path[t]
           pc == IF Len(p.clips) > 1 THEN "submit" ELSE "settle"
<1>1. Typed /\ Good(t, p, orders) /\ Fits(p, Ids) /\ Roles(t, p) /\ Meant(p, orders) /\ Sized(p)
  BY BaseParts
<1>2. p.pc = "submit" /\ Asked(p)
  BY DEF Asked, Asking
<1>3. p.side \in Sides /\ p.kind \in {"act", "exit", "manual", "watch"} /\ Len(p.clips) > 0
      /\ p.next = "idle" /\ (Single(p) => Len(p.clips) = 1 /\ DOMAIN p.got = {})
  BY <1>1, <1>2, FitsParts DEF Roles
<1>4. IsPath(q) /\ q.pc = pc /\ q.kind = p.kind /\ q.side = p.side /\ q.clips = Tail(p.clips)
      /\ q.base = p.base /\ q.got = Noting(p.got, NextId, fill) /\ q.bad = bad /\ q.resting = resting
      /\ q.next = "idle"
  BY <1>3 DEF Fields
<1>5. /\ Ids' = Ids \cup {NextId} /\ NextId \notin Ids
      /\ orders'[NextId].side = p.side /\ orders'[NextId].left = left
      /\ orders'[NextId].filled = fill
      /\ \A id \in Ids : orders'[id] = orders[id]
  BY <1>1, <1>3, Taken
<1>6. Clipped(p.clips) /\ Summable(p.got) /\ DOMAIN p.got \subseteq Ids /\ p.bad \subseteq DOMAIN p.got
      /\ p.base \in Int /\ Confirmed(p) \in Nat
  BY <1>1, FitsParts
<1>7. /\ Summable(q.got) /\ DOMAIN q.got = DOMAIN p.got \cup {NextId} /\ q.got[NextId] = fill
      /\ \A i \in DOMAIN p.got : q.got[i] = p.got[i]
      /\ Confirmed(q) = Confirmed(p) + fill
  <2>1. q.got = Noting(p.got, NextId, fill) /\ NextId \notin DOMAIN p.got
    BY <1>4, <1>5, <1>6
  <2> HIDE DEF p
  <2>2. Adds(Noting(p.got, NextId, fill), p.got, NextId, fill)
    BY <1>6, <2>1, NotedIs
  <2>3. Adds(q.got, p.got, NextId, fill)
    BY <2>1, <2>2
  <2>. QED  BY <2>3 DEF Adds, Confirmed
<1>8. /\ Clipped(q.clips) /\ Rest(p.clips) = Head(p.clips) + Rest(q.clips) /\ Rest(q.clips) \in Nat
      /\ Len(q.clips) = Len(p.clips) - 1 /\ Len(p.clips) \in Nat /\ Head(p.clips) \in Nat
  BY <1>3, <1>4, <1>6, ClippedTail
<1> HIDE DEF p, pc
<1>9. pc \in {"submit", "settle"} /\ (pc = "submit" <=> Len(p.clips) > 1)
  BY DEF pc
<1>10. Fits(q, DOMAIN orders')
  <2>1. q.pc \in PCs /\ q.kind \in {"none", "act", "exit", "manual", "watch"}
        /\ q.side \in Sides \cup {"none"} /\ q.base \in Int /\ q.next \in {"idle", "measure"}
        /\ q.resting \in BOOLEAN
    BY <1>3, <1>4, <1>6, <1>9 DEF PCs
  <2>2. DOMAIN q.got \subseteq DOMAIN orders' /\ q.bad \subseteq DOMAIN q.got
    BY <1>4, <1>5, <1>6, <1>7 DEF Ids, p
  <2>. QED  BY <1>4, <1>7, <1>8, <2>1, <2>2 DEF Fits
<1>11. Roles(t, q)
  <2>1. q.pc \in {"submit", "settle"} /\ ~Watching(q) /\ Asked(q)
    BY <1>4, <1>9 DEF Watching, Asked, Asking
  <2> DEFINE n == Len(p.clips)
             m == Len(q.clips)
  <2>8. m = n - 1 /\ n \in Nat /\ n > 0
    BY <1>3, <1>8
  <2>9. (q.pc = "submit" <=> n > 1) /\ (Single(q) => n = 1)
    BY <1>3, <1>4, <1>9 DEF Single
  <2> HIDE DEF n, m
  <2>10. (q.pc = "submit" => m > 0 /\ ~Single(q)) /\ (q.pc = "settle" => m = 0)
    BY <2>8, <2>9
  <2>2. q.pc = "submit" => Len(q.clips) > 0 /\ ~Single(q)
    BY <2>10 DEF m
  <2>3. q.pc = "settle" => Len(q.clips) = 0
    BY <2>10 DEF m
  <2>4. q.kind # "act" => DOMAIN q.got = {NextId}
    BY <1>3, <1>4, <1>7 DEF Single
  <2>5. Execution = "market" /\ t \in Watchers => FALSE
    BY <1>2, NoPathIs, <1>1 DEF Fields, Roles
  <2>6. (t \in Watchers => q.kind \in {"none", "watch"}) /\ (t \notin Watchers => q.kind # "watch")
        /\ (q.kind = "act" => t = Loop)
    BY <1>1, <1>4 DEF Roles
  <2>7. q.resting => q.kind = "act"
    BY <1>4 DEF p
  <2>. QED  BY <1>3, <1>4, <2>1, <2>2, <2>3, <2>4, <2>5, <2>6, <2>7 DEF Roles
<1>12. Meant(q, orders')
  <2>1. ~Late(q) /\ ~Watching(q)
    BY <1>4, <1>9 DEF Late, Watching
  <2>2. \A id \in DOMAIN q.got : orders'[id].side = q.side /\ q.got[id] <= orders'[id].filled
    BY <1>1, <1>2, <1>4, <1>5, <1>6, <1>7 DEF Meant
  <2>3. ASSUME ~q.resting
        PROVE  \A id \in DOMAIN q.got \ q.bad : orders'[id].left = 0
    <3>1. ~p.resting
      BY <1>4, <2>3 DEF p
    <3>2. \A id \in DOMAIN p.got \ p.bad : orders[id].left = 0
      BY <1>1, <1>2, <3>1 DEF Meant
    <3>3. NextId \in DOMAIN q.got \ q.bad => orders'[NextId].left = 0
      BY <1>4, <1>5, <2>3
    <3>4. p.bad \subseteq q.bad
      BY <1>4 DEF p
    <3>. QED  BY <1>5, <1>6, <1>7, <3>2, <3>3, <3>4
  <2>. QED  BY <2>1, <2>2, <2>3 DEF Meant
<1>13. Sized(q)
  <2>1. p.side = "sell" => Confirmed(p) + Rest(p.clips) <= p.base
    BY <1>1, <1>2 DEF Sized
  <2>2. fill <= Head(p.clips)
    BY DEF p
  <2>. QED  BY <1>4, <1>6, <1>7, <1>8, <2>1, <2>2 DEF Sized
<1>. QED  BY <1>10, <1>11, <1>12, <1>13 DEF Good

-----------------------------------------------------------------------------
(* Every step keeps the shape                                              *)

StillTyped == UNCHANGED <<setting, venue, held, book, claims, ghosts>>

LEMMA TypedStill ==
    ASSUME Typed, StillTyped
    PROVE  Typed' /\ OrdersKept /\ setting' = setting
BY Kept DEF Typed, StillTyped, venue, book, claims, ghosts, Ids, MaxOrders

LEMMA BaseBegin ==
    ASSUME Base, NEW t \in {Loop, Operator}, NEW kind \in {"act", "exit", "manual"}, NEW side \in Sides,
           NEW clips, Begin(t, kind, side, clips), StillTyped,
           Clipped(clips), Len(clips) > 0, kind # "act" \/ Execution # "sliced" => Len(clips) = 1,
           kind = "act" => t = Loop, side = "sell" => Rest(clips) <= held
    PROVE  Base'
<1>1. t \in Paths /\ t \notin Watchers
  BY PathsAre
<1>2. Moves(t) /\ Fields(path'[t], "submit", kind, side, clips, held, <<>>, {}, FALSE, "idle")
  BY <1>1, Begun DEF Base
<1>3. held \in Int /\ Typed
  BY DEF Base, Typed
<1>4. Good(t, path'[t], orders')
  BY <1>1, <1>2, <1>3, GoodBegun
<1>. QED  BY <1>2, <1>3, <1>4, TypedStill, BaseStep

LEMMA BaseActBuy ==
    ASSUME Base, NEW qty \in 1..MaxQty, ActBuy(qty)
    PROVE  Base'
<1>1. qty \in Nat /\ qty > 0
  BY LifecycleAssumption
<1>2. Clipped(Clips(qty)) /\ Len(Clips(qty)) > 0 /\ (Execution # "sliced" => Clips(qty) = <<qty>>)
  BY <1>1, ClipsAre
<1>3. Execution # "sliced" => Len(Clips(qty)) = 1
  BY <1>1, <1>2, ClippedOne
<1>. QED  BY <1>2, <1>3, BaseBegin DEF ActBuy, StillTyped, Sides

LEMMA BaseActSell ==
    ASSUME Base, ActSell
    PROVE  Base'
<1>1. held \in Nat /\ held > 0
  BY DEF ActSell, Base, Typed
<1>2. Clipped(Clips(held)) /\ Len(Clips(held)) > 0 /\ Rest(Clips(held)) = held
      /\ (Execution # "sliced" => Clips(held) = <<held>>)
  BY <1>1, ClipsAre
<1>3. Execution # "sliced" => Len(Clips(held)) = 1
  BY <1>1, <1>2, ClippedOne
<1>4. Rest(Clips(held)) <= held
  BY <1>1, <1>2
<1>. QED  BY <1>2, <1>3, <1>4, BaseBegin DEF ActSell, StillTyped, Sides

LEMMA BaseExit ==
    ASSUME Base, NEW qty \in 1..MaxQty, Exit(qty)
    PROVE  Base'
<1>1. qty \in Nat /\ qty > 0 /\ qty <= held
  BY LifecycleAssumption DEF Exit
<1>2. Clipped(<<qty>>) /\ Len(<<qty>>) = 1 /\ Rest(<<qty>>) = qty
  BY <1>1, ClippedOne
<1>3. Begin(Loop, "exit", "sell", <<qty>>) /\ StillTyped
  BY DEF Exit, StillTyped
<1> DEFINE clips == <<qty>>
<1>4. Clipped(clips) /\ Len(clips) = 1 /\ Len(clips) > 0 /\ Rest(clips) <= held
      /\ Begin(Loop, "exit", "sell", clips)
  BY <1>1, <1>2, <1>3
<1> HIDE DEF clips
<1>. QED  BY <1>3, <1>4, BaseBegin DEF Sides

LEMMA BaseManual ==
    ASSUME Base, NEW qty \in 1..MaxQty, NEW side \in {"buy", "sell"}, Manual(side, qty)
    PROVE  Base'
<1>1. qty \in Nat /\ qty > 0 /\ (side = "sell" => qty <= held)
  BY LifecycleAssumption DEF Manual
<1>2. Clipped(<<qty>>) /\ Len(<<qty>>) = 1 /\ Rest(<<qty>>) = qty
  BY <1>1, ClippedOne
<1>3. Begin(Operator, "manual", side, <<qty>>) /\ StillTyped
  BY DEF Manual, StillTyped
<1> DEFINE clips == <<qty>>
<1>4. Clipped(clips) /\ Len(clips) = 1 /\ Len(clips) > 0 /\ (side = "sell" => Rest(clips) <= held)
      /\ Begin(Operator, "manual", side, clips)
  BY <1>1, <1>2, <1>3
<1> HIDE DEF clips
<1>. QED  BY <1>3, <1>4, BaseBegin DEF Sides

LEMMA BaseActSellNothing ==
    ASSUME Base, ActSellNothing
    PROVE  Base'
<1>1. Typed' /\ setting' = setting /\ path' = path /\ orders' = orders
  BY DEF ActSellNothing, Base, Typed, venue, claims, ghosts, Ids, MaxOrders
<1>. QED  BY <1>1, Kept, BaseStill DEF Base

(* Typed after the broker has taken an order. *)
LEMMA TypedTaken ==
    ASSUME Base, NEW t \in Paths, NEW fill \in Nat, NEW left \in Nat, Takes(t, fill, left),
           path[t].pc = "submit", Len(orders) < MaxOrders,
           UNCHANGED <<setting, held, book, unknown, ghosts>>,
           reserved' \subseteq reserved \cup {NextId}
    PROVE  Typed' /\ OrdersKept /\ path[t].side \in Sides
<1>1. Typed /\ path[t].side \in Sides
  BY BaseParts DEF Roles, Asked, Asking
<1>2. /\ orders' \in Seq(OrderStates) /\ Len(orders') <= MaxOrders
      /\ Ids' = Ids \cup {NextId} /\ OrdersKept /\ real' \in Int
  BY <1>1, Taken
<1>. QED  BY <1>1, <1>2 DEF Typed, book, ghosts, MaxOrders

LEMMA HeadIs ==
    ASSUME Base, NEW t \in Paths, path[t].pc = "submit"
    PROVE  Head(path[t].clips) \in Nat /\ Head(path[t].clips) > 0
BY BaseParts, FitsParts, ClippedTail DEF Roles

LEMMA BaseSubmitFinal ==
    ASSUME Base, NEW t \in Paths, SubmitFinal(t)
    PROVE  Base'
<1>1. path[t].pc = "submit" /\ Len(orders) < MaxOrders
      /\ UNCHANGED <<setting, held, book, unknown, ghosts>> /\ reserved' = reserved
  BY DEF SubmitFinal, claims
<1>2. PICK fill \in 0..Head(path[t].clips) :
        /\ Takes(t, fill, 0) /\ Moves(t)
        /\ LET p == path[t]
           IN  Fields(path'[t], IF Len(p.clips) > 1 THEN "submit" ELSE "settle", p.kind, p.side,
                      Tail(p.clips), p.base, Noting(p.got, NextId, fill), p.bad, p.resting, p.next)
  BY Finals DEF Base
<1>3. fill \in Nat /\ fill <= Head(path[t].clips)
  BY <1>1, HeadIs
<1>4. Typed' /\ OrdersKept
  BY <1>1, <1>2, <1>3, TypedTaken
<1>5. path[t].resting \in BOOLEAN /\ (path[t].resting => path[t].kind = "act")
  BY BaseParts, FitsParts DEF Roles
<1>6. Good(t, path'[t], orders')
  BY <1>1, <1>2, <1>3, <1>4, <1>5, GoodAnswered
<1>. QED  BY <1>1, <1>2, <1>4, <1>6, BaseStep

LEMMA BaseSubmitOpen ==
    ASSUME Base, NEW t \in Paths, SubmitOpen(t)
    PROVE  Base'
<1>1. path[t].pc = "submit" /\ Len(orders) < MaxOrders
      /\ UNCHANGED <<setting, held, book, unknown, ghosts>>
  BY DEF SubmitOpen
<1>2. PICK fill \in 0..(Head(path[t].clips) - 1) :
        /\ Takes(t, fill, Head(path[t].clips) - fill) /\ Moves(t)
        /\ reserved' = IF path[t].kind = "watch" /\ fill > 0 THEN reserved ELSE Reserving(t)
        /\ LET p == path[t]
           IN  Fields(path'[t], IF Len(p.clips) > 1 THEN "submit" ELSE "settle", p.kind, p.side,
                      Tail(p.clips), p.base, Noting(p.got, NextId, fill), p.bad \cup {NextId},
                      p.resting, p.next)
  BY Opens DEF Base
<1>3. fill \in Nat /\ fill <= Head(path[t].clips) /\ Head(path[t].clips) - fill \in Nat
  BY <1>1, HeadIs
<1>7. reserved' \subseteq reserved \cup {NextId}
  BY <1>2 DEF Reserving
<1>4. Typed' /\ OrdersKept
  BY <1>1, <1>2, <1>3, <1>7, TypedTaken
<1>5. path[t].resting \in BOOLEAN /\ (path[t].resting => path[t].kind = "act")
  BY BaseParts, FitsParts DEF Roles
<1> DEFINE bad == path[t].bad \cup {NextId}
<1>8. path[t].bad \subseteq bad /\ bad \subseteq path[t].bad \cup {NextId} /\ NextId \in bad
  OBVIOUS
<1>6. Good(t, path'[t], orders')
  BY <1>1, <1>2, <1>3, <1>4, <1>5, <1>8, GoodAnswered
<1>. QED  BY <1>1, <1>2, <1>4, <1>6, BaseStep

(* The watcher of a clip that rests. *)
LEMMA GoodResting ==
    ASSUME Typed', NEW w \in Watchers, Execution # "market", NEW id, NEW side \in Sides,
           id \in DOMAIN orders', orders'[id].side = side, NEW left \in Nat, left > 0, NEW q,
           Fields(q, "resting", "watch", side, <<left>>, 0, Noting(<<>>, id, 0), {}, FALSE, "idle")
    PROVE  Good(w, q, orders')
<1>1. IsPath(q) /\ q.pc = "resting" /\ q.kind = "watch" /\ q.side = side /\ q.clips = <<left>>
      /\ q.base = 0 /\ q.got = Noting(<<>>, id, 0) /\ q.bad = {} /\ q.resting = FALSE
      /\ q.next = "idle"
  BY DEF Fields
<1>2. Summable(q.got) /\ DOMAIN q.got = {id} /\ q.got[id] = 0
  <2>1. 0 \in Nat
    OBVIOUS
  <2>2. Only(Noting(<<>>, id, 0), id, 0)
    BY <2>1, NotedFirst
  <2>3. Only(q.got, id, 0)
    BY <1>1, <2>2, Zenon
  <2>. QED  BY <2>3 DEF Only
<1>3. Clipped(q.clips) /\ Len(q.clips) = 1
  BY <1>1, ClippedOne
<1>4. Fits(q, DOMAIN orders')
  <2>1. q.pc \in PCs /\ q.kind \in {"none", "act", "exit", "manual", "watch"}
        /\ q.side \in Sides \cup {"none"} /\ q.base \in Int /\ q.next \in {"idle", "measure"}
    BY <1>1 DEF PCs
  <2>2. q.resting \in BOOLEAN /\ q.bad \subseteq DOMAIN q.got /\ DOMAIN q.got \subseteq DOMAIN orders'
    BY <1>1, <1>2
  <2>. QED  BY <1>1, <1>2, <1>3, <2>1, <2>2 DEF Fits
<1>5. Roles(w, q)
  BY <1>1, <1>2, <1>3, PathsAre DEF Roles, Asked, Asking, Watching
<1>6. Meant(q, orders') /\ Sized(q)
  BY <1>1, <1>2 DEF Meant, Sized, Asked, Asking, Watching, Late
<1>. QED  BY <1>4, <1>5, <1>6 DEF Good

LEMMA BaseSubmitResting ==
    ASSUME Base, NEW t \in Paths, NEW w \in Watchers, SubmitResting(t, w)
    PROVE  Base'
<1>1. path[t].pc = "submit" /\ Len(orders) < MaxOrders /\ Limit(path[t])
      /\ UNCHANGED <<setting, held, book, unknown, ghosts>>
  BY DEF SubmitResting
<1>2. PICK fill \in 0..(Head(path[t].clips) - 1) :
        /\ Takes(t, fill, Head(path[t].clips) - fill)
        /\ reserved' = Reserving(t)
        /\ t # w /\ PathShape' /\ \A u \in Paths \ {t, w} : path'[u] = path[u]
        /\ LET p == path[t]
           IN  /\ Fields(path'[t], IF Len(p.clips) > 1 THEN "submit" ELSE "settle", p.kind,
                         p.side, Tail(p.clips), p.base, Noting(p.got, NextId, fill), p.bad,
                         TRUE, p.next)
               /\ Fields(path'[w], "resting", "watch", p.side, <<Head(p.clips) - fill>>, 0,
                         Noting(<<>>, NextId, 0), {}, FALSE, "idle")
  BY Rests DEF Base
<1> DEFINE left == Head(path[t].clips) - fill
<1>3. fill \in Nat /\ fill <= Head(path[t].clips) /\ left \in Nat /\ left > 0
  BY <1>1, HeadIs
<1>7. reserved' \subseteq reserved \cup {NextId}
  BY <1>2 DEF Reserving
<1>4. Typed' /\ OrdersKept /\ path[t].side \in Sides
  BY <1>1, <1>2, <1>3, <1>7, TypedTaken
<1>5. path[t].kind = "act" /\ Execution # "market"
  BY <1>1 DEF Limit
<1>6. Good(t, path'[t], orders')
  BY <1>1, <1>2, <1>3, <1>4, <1>5, GoodAnswered
<1>8. NextId \in DOMAIN orders' /\ orders'[NextId].side = path[t].side
  BY <1>1, <1>2, <1>3, <1>4, Taken DEF Ids, Base
<1>9. Good(w, path'[w], orders')
  BY <1>2, <1>3, <1>4, <1>5, <1>8, GoodResting
<1>10. ASSUME NEW u \in Paths
       PROVE  Good(u, path[u], orders)'
  <2>1. CASE u \notin {t, w}
    BY <1>2, <2>1, <1>1, <1>4, GoodKept, GoodNext DEF Base
  <2>2. CASE u \in {t, w}
    BY <1>1, <1>6, <1>9, <2>2, GoodNext
  <2>. QED  BY <2>1, <2>2
<1>. QED  BY <1>2, <1>4, <1>10 DEF Base, Paths

(* A path that goes on with the orders it has. *)
LEMMA GoodMoved ==
    ASSUME NEW t, NEW p, NEW ords, Good(t, p, ords), NEW q, NEW pc \in PCs, NEW clips, Clipped(clips),
           NEW base \in Int, NEW next \in {"idle", "measure"},
           Fields(q, pc, p.kind, p.side, clips, base, p.got, p.bad, p.resting, next),
           Roles(t, q), Meant(q, ords), Sized(q)
    PROVE  Good(t, q, ords)
<1>1. Fits(p, DOMAIN ords)
  BY DEF Good
<1>2. Fits(q, DOMAIN ords)
  BY <1>1, FitsParts DEF Fits, Fields
<1>. QED  BY <1>2 DEF Good

(* The rest of the plan is not sent. *)
LEMMA GoodCut ==
    ASSUME NEW t, NEW p, NEW ords, Good(t, p, ords), p.pc = "submit", NEW q,
           Fields(q, "settle", p.kind, p.side, <<>>, p.base, p.got, p.bad, p.resting, p.next),
           p.kind = "act" \/ DOMAIN p.got # {}
    PROVE  Good(t, q, ords)
<1>1. Fits(p, DOMAIN ords) /\ Roles(t, p) /\ Meant(p, ords) /\ Sized(p)
  BY DEF Good
<1>2. IsPath(q) /\ q.pc = "settle" /\ q.kind = p.kind /\ q.side = p.side /\ q.clips = <<>>
      /\ q.base = p.base /\ q.got = p.got /\ q.bad = p.bad /\ q.resting = p.resting
      /\ q.next = p.next
  BY DEF Fields
<1>3. p.kind = "act"
  BY <1>1 DEF Roles, Single
<1>4. p # NoPath
  BY NoPathIs DEF Fields
<1>5. Len(q.clips) = 0
  BY <1>2
<1>6. Roles(t, q)
  BY <1>1, <1>2, <1>3, <1>4, <1>5 DEF Roles, Asked, Asking, Watching
<1>7. Meant(q, ords)
  BY <1>1, <1>2 DEF Meant, Asked, Asking, Watching, Late, Roles
<1>8. Sized(q)
  BY <1>1, <1>2, ClippedNone, FitsParts DEF Confirmed, Sized, Asked, Asking
<1>9. p.base \in Int /\ p.next \in {"idle", "measure"} /\ "settle" \in PCs
  BY <1>1, FitsParts DEF PCs
<1>. QED  BY <1>6, <1>7, <1>8, <1>9, ClippedNone, GoodMoved

LEMMA BaseGivesUp ==
    ASSUME Base, Typed', setting' = setting, OrdersKept, NEW t \in Paths, path[t].pc = "submit",
           GivesUp(t)
    PROVE  Base'
<1>1. Moves(t)
      /\ LET p == path[t]
         IN  IF DOMAIN p.got = {} THEN path'[t] = NoPath
             ELSE Fields(path'[t], "settle", p.kind, p.side, <<>>, p.base, p.got, p.bad, p.resting,
                         p.next)
  BY PlanGivenUp DEF Base
<1>2. Good(t, path[t], orders')
  BY GoodKept DEF Base
<1>3. CASE DOMAIN path[t].got = {}
  BY <1>1, <1>3, GoodNoPath, BaseStep
<1>4. CASE DOMAIN path[t].got # {}
  BY <1>1, <1>2, <1>4, GoodCut, BaseStep
<1>. QED  BY <1>3, <1>4

LEMMA BaseSubmitFails ==
    ASSUME Base, NEW t \in Paths, SubmitFails(t)
    PROVE  Base'
<1>1. path[t].pc = "submit" /\ GivesUp(t) /\ StillTyped
  BY DEF SubmitFails, StillTyped
<1>. QED  BY <1>1, TypedStill, BaseGivesUp DEF Base

LEMMA BaseReplyLost ==
    ASSUME Base, NEW t \in Paths, ReplyLost(t)
    PROVE  Base'
<1>1. path[t].pc = "submit" /\ Len(orders) < MaxOrders /\ Takes(t, 0, Head(path[t].clips))
      /\ GivesUp(t) /\ UNCHANGED <<setting, held, book, unknown, ghosts>> /\ reserved' = reserved
  BY DEF ReplyLost, claims
<1>2. Head(path[t].clips) \in Nat
  BY <1>1, HeadIs
<1>3. Typed' /\ OrdersKept
  BY <1>1, <1>2, TypedTaken
<1>. QED  BY <1>1, <1>3, BaseGivesUp

LEMMA BaseRateRefused ==
    ASSUME Base, NEW t \in Paths, RateRefused(t)
    PROVE  Base'
<1>1. path[t].pc = "submit" /\ path[t].kind = "act" /\ StillTyped
  BY DEF RateRefused, StillTyped
<1>2. Moves(t)
      /\ LET p == path[t]
         IN  Fields(path'[t], "settle", p.kind, p.side, <<>>, p.base, p.got, p.bad, p.resting, p.next)
  BY CutShort DEF Base
<1>3. Typed' /\ OrdersKept /\ setting' = setting
  BY <1>1, TypedStill DEF Base
<1>4. Good(t, path[t], orders')
  BY <1>3, GoodKept DEF Base
<1>5. Good(t, path'[t], orders')
  BY <1>1, <1>2, <1>4, GoodCut
<1>. QED  BY <1>2, <1>3, <1>5, BaseStep

(* After settle, book and flag. *)
LEMMA GoodSettled ==
    ASSUME NEW t, NEW p, NEW ords, Good(t, p, ords), NEW q, NEW pc,
           Fields(q, pc, p.kind, p.side, p.clips, p.base, p.got, p.bad, p.resting, p.next),
           \/ p.pc = "settle" /\ pc \in {"book", "sync"}
           \/ p.pc = "book" /\ (pc = "sync" \/ (pc = "flag" /\ p.kind \in {"exit", "manual"}))
           \/ p.pc = "flag" /\ pc = "sync"
    PROVE  Good(t, q, ords)
<1>1. Fits(p, DOMAIN ords) /\ Roles(t, p) /\ Meant(p, ords) /\ Sized(p)
  BY DEF Good
<1>2. IsPath(q) /\ q.pc = pc /\ q.kind = p.kind /\ q.side = p.side /\ q.clips = p.clips
      /\ q.base = p.base /\ q.got = p.got /\ q.bad = p.bad /\ q.resting = p.resting
      /\ q.next = p.next
  BY DEF Fields
<1>3. Asked(p) /\ p.next # "measure" /\ p # NoPath
  BY <1>1, NoPathIs DEF Asked, Asking, Roles, Fields
<1>4. pc \in {"book", "flag", "sync"} /\ ~Watching(q) /\ ~Late(q)
  BY <1>1, <1>2, <1>3 DEF Watching, Late
<1>5. Roles(t, q)
  BY <1>1, <1>2, <1>3, <1>4 DEF Roles, Asked, Asking
<1>6. Meant(q, ords)
  BY <1>1, <1>2, <1>3, <1>4 DEF Meant
<1>7. Sized(q)
  BY <1>1, <1>2, <1>3 DEF Sized, Confirmed
<1>8. p.base \in Int /\ p.next \in {"idle", "measure"} /\ pc \in PCs /\ Clipped(p.clips)
  BY <1>1, <1>4, FitsParts DEF PCs
<1>. QED  BY <1>5, <1>6, <1>7, <1>8, GoodMoved

LEMMA SettledGuardIs ==
    ASSUME Base, NEW t \in Paths, path[t].pc = "settle", path[t].side = "sell"
    PROVE  SettledGuard(path[t]) \in Nat /\ path[t].base - Confirmed(path[t]) \in Nat
<1> DEFINE p == path[t]
<1>1. Confirmed(p) \in Nat /\ p.base \in Int /\ Rest(p.clips) \in Nat
  BY BaseParts, FitsParts
<1>2. Confirmed(p) + Rest(p.clips) <= p.base
  BY BaseParts DEF Sized, Asked, Asking
<1> HIDE DEF p
<1>3. p.base \in Nat /\ p.base - Confirmed(p) \in Nat
  BY <1>1, <1>2
<1>4. SettledGuard(p) \in {p.base - Confirmed(p), 0, p.base}
  BY DEF SettledGuard
<1>5. SettledGuard(p) \in Nat
  BY <1>3, <1>4
<1>. QED  BY <1>3, <1>5 DEF p

LEMMA BaseSettle ==
    ASSUME Base, NEW t \in Paths, Settle(t)
    PROVE  Base'
<1> DEFINE pc == IF Confirmed(path[t]) > 0 THEN "book" ELSE "sync"
<1>1. path[t].pc = "settle" /\ Goto(t, pc)
      /\ guard' = (IF path[t].side = "sell" THEN SettledGuard(path[t]) ELSE guard)
      /\ unknown' \in {unknown, unknown \cup path[t].bad}
      /\ UNCHANGED <<setting, venue, held, open, untracked, reserved, ghosts>>
  BY DEF Settle
<1>2. guard' \in Nat
  BY <1>1, SettledGuardIs DEF Base, Typed
<1>3. path[t].bad \subseteq Ids
  BY BaseParts, FitsParts
<1>4. Typed' /\ OrdersKept
  BY <1>1, <1>2, <1>3, Kept DEF Base, Typed, venue, ghosts, Ids, MaxOrders
<1>5. pc \in {"book", "sync"}
  OBVIOUS
<1> HIDE DEF pc
<1>6. Moves(t)
      /\ LET p == path[t]
         IN  Fields(path'[t], pc, p.kind, p.side, p.clips, p.base, p.got, p.bad, p.resting, p.next)
  BY <1>1, Moved DEF Base
<1>7. Good(t, path[t], orders')
  BY <1>4, GoodKept DEF Base
<1>8. Good(t, path'[t], orders')
  BY <1>1, <1>5, <1>6, <1>7, GoodSettled
<1>. QED  BY <1>1, <1>4, <1>6, <1>8, BaseStep

(* The record after a purchase and after a sale. *)
LEMMA RecordIs ==
    ASSUME Typed, NEW qty \in Nat
    PROVE  /\ RecordOpen(qty) => open' = open + qty /\ guard' = 0 /\ open' \in Nat
           /\ RecordClose(qty) => /\ guard' = guard /\ open' \in Nat
                                  /\ open' <= open /\ open' >= open - qty
                                  /\ (open' = 0 \/ open' = open - qty)
BY DEF Typed, RecordOpen, RecordClose, Larger

LEMMA BaseBook ==
    ASSUME Base, NEW t \in Paths, Book(t)
    PROVE  Base'
<1> DEFINE p == path[t]
           pc == IF p.bad # {} /\ p.kind \in {"exit", "manual"} THEN "flag" ELSE "sync"
<1>1. p.pc = "book" /\ Goto(t, pc) /\ Booked(p.got)
      /\ (IF p.side = "buy" THEN RecordOpen(Confirmed(p)) ELSE RecordClose(Confirmed(p)))
      /\ UNCHANGED <<setting, real, held, untracked, claims, ghosts>>
  BY DEF Book
<1>2. Typed /\ Confirmed(p) \in Nat /\ \A id \in DOMAIN p.got : p.got[id] \in Nat
  BY BaseParts, FitsParts
<1>3. open' \in Nat /\ guard' \in Nat
  BY <1>1, <1>2, RecordIs DEF Typed
<1>4. orders' \in Seq(OrderStates) /\ Len(orders') = Len(orders) /\ Ids' = Ids /\ OrdersKept
  <2> DEFINE fills == p.got
  <2>1. Booked(fills) /\ \A id \in DOMAIN fills : fills[id] \in Nat
    BY <1>1, <1>2
  <2> HIDE DEF fills, p
  <2>. QED  BY <1>2, <2>1, BookedIs
<1>5. Typed'
  BY <1>1, <1>2, <1>3, <1>4 DEF Typed, claims, ghosts, MaxOrders
<1>6. p.pc = "book" /\ (pc = "sync" \/ (pc = "flag" /\ p.kind \in {"exit", "manual"}))
  BY <1>1
<1> HIDE DEF pc
<1>7. Moves(t) /\ Fields(path'[t], pc, p.kind, p.side, p.clips, p.base, p.got, p.bad, p.resting, p.next)
  BY <1>1, Moved DEF Base
<1>8. Good(t, p, orders')
  BY <1>4, <1>5, GoodKept DEF Base
<1>9. Good(t, path'[t], orders')
  <2> HIDE DEF p
  <2>. QED  BY <1>6, <1>7, <1>8, GoodSettled
<1>. QED  BY <1>1, <1>4, <1>5, <1>7, <1>9, BaseStep

LEMMA BaseFlag ==
    ASSUME Base, NEW t \in Paths, Flag(t)
    PROVE  Base'
<1> DEFINE p == path[t]
<1>1. p.pc = "flag" /\ Goto(t, "sync")
      /\ guard' = (IF p.side = "sell" THEN p.base - Confirmed(p) ELSE guard)
      /\ unknown' = unknown \cup p.bad
      /\ UNCHANGED <<setting, venue, held, open, untracked, reserved, ghosts>>
  BY DEF Flag
<1>2. Typed /\ Confirmed(p) \in Nat /\ p.base \in Int /\ Rest(p.clips) \in Nat
      /\ p.bad \subseteq Ids
  BY BaseParts, FitsParts
<1>3. p.side = "sell" => Confirmed(p) + Rest(p.clips) <= p.base
  BY <1>1, BaseParts DEF Sized, Asked
<1>4. guard' \in Nat
  BY <1>1, <1>2, <1>3 DEF Typed
<1>5. Typed' /\ OrdersKept
  BY <1>1, <1>2, <1>4, Kept DEF Typed, venue, ghosts, Ids, MaxOrders
<1>7. Moves(t) /\ Fields(path'[t], "sync", p.kind, p.side, p.clips, p.base, p.got, p.bad, p.resting, p.next)
  BY <1>1, Moved DEF Base
<1>8. Good(t, p, orders')
  BY <1>5, GoodKept DEF Base
<1>9. Good(t, path'[t], orders')
  <2> HIDE DEF p
  <2>. QED  BY <1>1, <1>7, <1>8, GoodSettled
<1>. QED  BY <1>1, <1>5, <1>7, <1>9, BaseStep

LEMMA MarketWatchers ==
    ASSUME NEW t, NEW p, Roles(t, p), p.pc # "idle", Execution = "market"
    PROVE  t \notin Watchers
BY NoPathIs DEF Roles, Fields

LEMMA BaseStartSync ==
    ASSUME Base, StartSync
    PROVE  Base'
<1>1. path[Loop].pc = "idle" /\ Goto(Loop, "sync") /\ StillTyped /\ Loop \in Paths
  BY PathsAre DEF StartSync, Idle, StillTyped
<1>2. path[Loop] = NoPath
  BY <1>1, BaseParts DEF Roles
<1>3. Moves(Loop) /\ Fields(path'[Loop], "sync", "none", "none", <<>>, 0, <<>>, {}, FALSE, "idle")
  BY <1>1, <1>2, Moved, NoPathIs DEF Base, Fields
<1>4. Good(Loop, path'[Loop], orders')
  BY <1>3, GoodSync, PathsAre
<1>. QED  BY <1>1, <1>3, <1>4, TypedStill, BaseStep DEF Base

LEMMA BaseReconcileList ==
    ASSUME Base, ReconcileList
    PROVE  Base'
<1>1. path[Loop].pc = "idle" /\ Goto(Loop, "reconcile") /\ StillTyped /\ Loop \in Paths
  BY PathsAre DEF ReconcileList, Idle, StillTyped
<1>2. path[Loop] = NoPath
  BY <1>1, BaseParts DEF Roles
<1>3. Moves(Loop) /\ Fields(path'[Loop], "reconcile", "none", "none", <<>>, 0, <<>>, {}, FALSE, "idle")
  BY <1>1, <1>2, Moved, NoPathIs DEF Base, Fields
<1>4. Good(Loop, path'[Loop], orders')
  BY <1>3, GoodReconcile
<1>. QED  BY <1>1, <1>3, <1>4, TypedStill, BaseStep DEF Base

LEMMA BaseReconcileClear ==
    ASSUME Base, ReconcileClear
    PROVE  Base' /\ path'[Loop] = NoPath
<1>1. path[Loop].pc = "reconcile" /\ Goto(Loop, "idle") /\ Loop \in Paths /\ guard' = 0
      /\ UNCHANGED <<setting, venue, held, open, untracked, claims, ghosts>>
  BY PathsAre DEF ReconcileClear
<1>2. Fields(path[Loop], "reconcile", "none", "none", <<>>, 0, <<>>, {}, FALSE, "idle")
  BY <1>1, BaseParts DEF Roles
<1>3. Moves(Loop) /\ Fields(path'[Loop], "idle", "none", "none", <<>>, 0, <<>>, {}, FALSE, "idle")
  BY <1>1, <1>2, Moved DEF Base, Fields
<1>4. path'[Loop] = NoPath
  BY <1>3, NoPathIs DEF Fields, IsPath
<1>5. Typed' /\ OrdersKept
  BY <1>1, Kept DEF Base, Typed, venue, claims, ghosts, Ids, MaxOrders
<1>. QED  BY <1>1, <1>3, <1>4, <1>5, GoodNoPath, BaseStep

LEMMA BaseGraceElapses ==
    ASSUME Base, GraceElapses
    PROVE  Base'
<1>1. Typed' /\ OrdersKept /\ setting' = setting /\ path' = path
  BY Kept DEF GraceElapses, Base, Typed, venue, claims, ghosts, Ids, MaxOrders
<1>. QED  BY <1>1, BaseStill

LEMMA BaseSyncRead ==
    ASSUME Base, NEW t \in Paths, SyncRead(t)
    PROVE  Base'
<1> DEFINE p == path[t]
           q == path'[t]
<1>1. p.pc = "sync" /\ StillTyped /\ setting' = setting
  BY DEF SyncRead, StillTyped
<1>2. Moves(t) /\ Fields(q, "apply", p.kind, p.side, p.clips, real, p.got, p.bad, p.resting, p.next)
  BY Read DEF Base
<1>3. Typed' /\ OrdersKept
  BY <1>1, TypedStill DEF Base
<1>4. Good(t, p, orders')
  BY <1>3, GoodKept DEF Base
<1> HIDE DEF p, q
<1>5. Fits(p, DOMAIN orders') /\ Roles(t, p) /\ Meant(p, orders')
  BY <1>4 DEF Good
<1>6. IsPath(q) /\ q.pc = "apply" /\ q.kind = p.kind /\ q.side = p.side /\ q.clips = p.clips
      /\ q.base = real /\ q.got = p.got /\ q.bad = p.bad /\ q.resting = p.resting
      /\ q.next = p.next
  BY <1>2 DEF Fields
<1>7. Execution = "market" => t \notin Watchers
  BY <1>1, <1>5, MarketWatchers
<1>8. Roles(t, q)
  BY <1>1, <1>5, <1>6, <1>7 DEF Roles, Asked, Asking, Watching
<1>9. Meant(q, orders') /\ Sized(q)
  BY <1>1, <1>5, <1>6 DEF Meant, Sized, Asked, Asking, Watching, Late
<1>10. "apply" \in PCs /\ real \in Int /\ p.next \in {"idle", "measure"} /\ Clipped(p.clips)
  BY <1>5, FitsParts DEF PCs, Base, Typed
<1>11. Good(t, q, orders')
  BY <1>2, <1>4, <1>8, <1>9, <1>10, GoodMoved
<1>. QED  BY <1>1, <1>2, <1>3, <1>11, BaseStep DEF q

LEMMA BaseSynced ==
    ASSUME Base, Typed', setting' = setting, OrdersKept, NEW t \in Paths, Synced(t),
           path[t].pc \in {"sync", "apply"}
    PROVE  Base'
<1> DEFINE p == path[t]
           q == path'[t]
<1>2. Moves(t)
      /\ (IF p.next = "idle" THEN q = NoPath
          ELSE Fields(q, p.next, p.kind, p.side, p.clips, p.base, p.got, p.bad, p.resting, p.next))
  BY SyncedIs DEF Base
<1>4. Good(t, p, orders') /\ p.pc \in {"sync", "apply"}
  BY GoodKept DEF Base
<1>12. CASE p.next = "idle"
  BY <1>2, <1>12, GoodNoPath, BaseStep
<1>13. CASE p.next # "idle"
  <2> HIDE DEF p, q
  <2>5. Fits(p, DOMAIN orders') /\ Roles(t, p) /\ Meant(p, orders')
    BY <1>4 DEF Good
  <2>3. p.next = "measure"
    BY <1>13, <2>5, FitsParts
  <2>6. IsPath(q) /\ q.pc = "measure" /\ q.kind = p.kind /\ q.side = p.side /\ q.clips = p.clips
        /\ q.base = p.base /\ q.got = p.got /\ q.bad = p.bad /\ q.resting = p.resting
        /\ q.next = "measure"
    BY <1>2, <2>3 DEF Fields
  <2>7. Execution = "market" => t \notin Watchers
    BY <1>4, <2>5, MarketWatchers
  <2>8. Roles(t, q)
    BY <1>4, <2>3, <2>5, <2>6, <2>7 DEF Roles, Asked, Asking, Watching
  <2>9. Meant(q, orders') /\ Sized(q)
    BY <1>4, <2>3, <2>5, <2>6 DEF Meant, Sized, Asked, Asking, Watching, Late
  <2>10. "measure" \in PCs /\ p.base \in Int /\ Clipped(p.clips)
    BY <2>5, FitsParts DEF PCs
  <2>11. Fields(q, "measure", p.kind, p.side, p.clips, p.base, p.got, p.bad, p.resting, "measure")
    BY <1>2, <2>3
  <2>12. Good(t, q, orders')
    BY <1>4, <2>8, <2>9, <2>10, <2>11, GoodMoved
  <2>. QED  BY <1>2, <2>12, BaseStep DEF q
<1>. QED  BY <1>12, <1>13

LEMMA BaseSyncFails ==
    ASSUME Base, NEW t \in Paths, SyncFails(t)
    PROVE  Base'
<1>1. path[t].pc = "sync" /\ Synced(t) /\ StillTyped
  BY DEF SyncFails, StillTyped
<1>. QED  BY <1>1, TypedStill, BaseSynced DEF Base

LEMMA BaseSyncApply ==
    ASSUME Base, NEW t \in Paths, SyncApply(t)
    PROVE  Base'
<1>1. /\ path[t].pc = "apply" /\ Synced(t) /\ held' = path[t].base
      /\ UNCHANGED <<setting, venue, guard, claims, ghosts>>
      /\ untracked' \in {"seen", "no"}
      /\ open' = open \/ (open' = held' /\ held' > 0)
  BY DEF SyncApply
<1>2. held' \in Int
  BY <1>1, BaseParts, FitsParts
<1>3. open' \in Nat
  BY <1>1, <1>2 DEF Base, Typed
<1>4. Typed' /\ OrdersKept
  BY <1>1, <1>2, <1>3, Kept DEF Base, Typed, venue, claims, ghosts, Ids, MaxOrders
<1>. QED  BY <1>1, <1>4, BaseSynced

-----------------------------------------------------------------------------
(* The watchers *)

LEMMA ClipIs ==
    ASSUME Base, NEW w \in Paths, Watching(path[w])
    PROVE  /\ Clip(w) \in Ids /\ DOMAIN path[w].got = {Clip(w)} /\ path[w].got[Clip(w)] = 0
           /\ path[w].kind = "watch" /\ path[w].side \in Sides /\ path[w].bad = {}
           /\ Len(path[w].clips) = 1 /\ Head(path[w].clips) \in Nat /\ Head(path[w].clips) > 0
           /\ w \in Watchers /\ Execution # "market"
           /\ orders[Clip(w)].side = path[w].side
           /\ path[w].pc = "resting" \/ Lister
<1>1. Fits(path[w], Ids) /\ Roles(w, path[w]) /\ Meant(path[w], orders)
  BY BaseParts
<1>2. PICK id \in DOMAIN path[w].got : DOMAIN path[w].got = {id} /\ path[w].got[id] = 0
  BY <1>1 DEF Roles
<1>3. Clip(w) = id
  BY <1>2 DEF Clip
<1>4. id \in Ids
  BY <1>1, <1>2, FitsParts
<1>5. path[w].pc # "idle"
  BY <1>1, NoPathIs DEF Watching, Roles, Fields
<1>6. w \in Watchers /\ Execution # "market"
  BY <1>1, <1>5, MarketWatchers DEF Roles
<1>7. Len(path[w].clips) = 1 /\ Clipped(path[w].clips)
  BY <1>1, FitsParts DEF Roles
<1>8. Head(path[w].clips) \in Nat /\ Head(path[w].clips) > 0
  BY <1>7, ClippedTail
<1>. QED  BY <1>1, <1>2, <1>3, <1>4, <1>6, <1>7, <1>8 DEF Roles, Meant

LEMMA BaseLeaves ==
    ASSUME Base, Typed', setting' = setting, OrdersKept, NEW t \in Paths,
           path' = [path EXCEPT ![t] = NoPath]
    PROVE  Base'
<1>1. Moves(t) /\ path'[t] = NoPath
  BY PathEnds DEF Base
<1>2. Good(t, path'[t], orders')
  BY <1>1, GoodNoPath
<1>. QED  BY <1>1, <1>2, BaseStep

LEMMA BaseWakeGone ==
    ASSUME Base, NEW w \in Watchers, WakeGone(w)
    PROVE  Base'
<1>1. w \in Paths /\ Watching(path[w])
  BY PathsAre DEF WakeGone, Watching
<1>2. Clip(w) \in Ids
  BY <1>1, ClipIs
<1>3. Typed' /\ OrdersKept /\ setting' = setting
  BY <1>2, Kept DEF WakeGone, Base, Typed, venue, book, ghosts, Ids, MaxOrders
<1>. QED  BY <1>1, <1>3, BaseLeaves DEF WakeGone

LEMMA BaseWakeLeaves ==
    ASSUME Base, NEW w \in Watchers, WakeLeaves(w)
    PROVE  Base'
<1>1. w \in Paths /\ StillTyped
  BY PathsAre DEF WakeLeaves, StillTyped
<1>. QED  BY <1>1, TypedStill, BaseLeaves DEF WakeLeaves, Base

LEMMA BaseCancelFails ==
    ASSUME Base, NEW w \in Watchers, CancelFails(w)
    PROVE  Base'
<1>1. w \in Paths /\ StillTyped
  BY PathsAre DEF CancelFails, StillTyped
<1>. QED  BY <1>1, TypedStill, BaseLeaves DEF CancelFails, Base

(* A watcher goes on with its order. *)
LEMMA GoodWatcher ==
    ASSUME NEW w, NEW p, NEW ords, Good(w, p, ords), NEW q, NEW pc, NEW next,
           Fields(q, pc, p.kind, p.side, p.clips, p.base, p.got, p.bad, p.resting, next),
           Lister, p.next = "idle",
           \/ p.pc = "resting" /\ pc = "cancel" /\ next = "idle"
           \/ /\ p.pc = "cancel" /\ pc = "cancelled" /\ next = "idle"
              /\ \A id \in DOMAIN p.got : ords[id].left = 0
           \/ p.pc = "cancelled" /\ pc = "sync" /\ next = "measure"
    PROVE  Good(w, q, ords)
<1>1. Fits(p, DOMAIN ords) /\ Roles(w, p) /\ Meant(p, ords)
  BY DEF Good
<1>2. IsPath(q) /\ q.pc = pc /\ q.kind = p.kind /\ q.side = p.side /\ q.clips = p.clips
      /\ q.base = p.base /\ q.got = p.got /\ q.bad = p.bad /\ q.resting = p.resting
      /\ q.next = next
  BY DEF Fields
<1>3. Execution = "market" => w \notin Watchers
  BY <1>1, MarketWatchers
<1>4. Watching(p) /\ Watching(q) /\ ~Asked(q)
  BY <1>2 DEF Watching, Asked, Asking
<1>5. Roles(w, q)
  BY <1>1, <1>2, <1>3, <1>4 DEF Roles, Asking
<1>6. Meant(q, ords)
  BY <1>1, <1>2, <1>4 DEF Meant, Late
<1>7. Sized(q)
  BY <1>4 DEF Sized
<1>8. p.base \in Int /\ next \in {"idle", "measure"} /\ pc \in PCs /\ Clipped(p.clips)
  BY <1>1, FitsParts DEF PCs
<1>. QED  BY <1>5, <1>6, <1>7, <1>8, GoodMoved

LEMMA NotMeasuring ==
    ASSUME Base, NEW w \in Paths, path[w].pc \in {"resting", "cancel", "cancelled"}
    PROVE  path[w].next = "idle" /\ Watching(path[w])
BY BaseParts, FitsParts DEF Roles, Watching

LEMMA BaseWakeOpen ==
    ASSUME Base, NEW w \in Watchers, WakeOpen(w)
    PROVE  Base'
<1>1. w \in Paths /\ StillTyped /\ path[w].pc = "resting" /\ Lister /\ Goto(w, "cancel")
      /\ setting' = setting
  BY PathsAre DEF WakeOpen, StillTyped
<1>2. path[w].next = "idle"
  BY <1>1, NotMeasuring
<1>3. Moves(w)
      /\ LET p == path[w]
         IN  Fields(path'[w], "cancel", p.kind, p.side, p.clips, p.base, p.got, p.bad, p.resting, p.next)
  BY <1>1, Moved DEF Base
<1>4. Typed' /\ OrdersKept
  BY <1>1, TypedStill DEF Base
<1>5. Good(w, path[w], orders')
  BY <1>1, <1>4, GoodKept DEF Base
<1>6. Good(w, path'[w], orders')
  BY <1>1, <1>2, <1>3, <1>5, GoodWatcher
<1>. QED  BY <1>1, <1>3, <1>4, <1>6, BaseStep

LEMMA BaseCancelOk ==
    ASSUME Base, NEW w \in Watchers, CancelOk(w)
    PROVE  Base'
<1>1. w \in Paths /\ path[w].pc = "cancel" /\ Goto(w, "cancelled") /\ setting' = setting
      /\ orders' = [orders EXCEPT ![Clip(w)].left = 0] /\ reserved' = reserved \ {Clip(w)}
      /\ UNCHANGED <<real, held, book, unknown, ghosts>>
  BY PathsAre DEF CancelOk
<1>2. path[w].next = "idle" /\ Watching(path[w])
  BY <1>1, NotMeasuring
<1>3. Clip(w) \in Ids /\ DOMAIN path[w].got = {Clip(w)} /\ Lister
  BY <1>1, <1>2, ClipIs
<1>4. OneChanged(Clip(w), 0, orders[Clip(w)].filled, orders[Clip(w)].booked) /\ OrdersKept
  BY <1>1, <1>3, TakenOff DEF Base
<1>5. Typed'
  BY <1>1, <1>4 DEF OneChanged, Base, Typed, book, ghosts, MaxOrders
<1>6. Moves(w)
      /\ LET p == path[w]
         IN  Fields(path'[w], "cancelled", p.kind, p.side, p.clips, p.base, p.got, p.bad, p.resting, p.next)
  BY <1>1, Moved DEF Base
<1>7. Good(w, path[w], orders')
  BY <1>1, <1>4, <1>5, GoodKept DEF Base
<1>8. \A id \in DOMAIN path[w].got : orders'[id].left = 0
  BY <1>3, <1>4 DEF OneChanged
<1>9. Good(w, path'[w], orders')
  BY <1>1, <1>2, <1>3, <1>6, <1>7, <1>8, GoodWatcher
<1>. QED  BY <1>1, <1>4, <1>5, <1>6, <1>9, BaseStep

LEMMA BaseLock ==
    ASSUME Base, NEW w \in Watchers, Lock(w)
    PROVE  Base'
<1>1. w \in Paths /\ StillTyped /\ path[w].pc = "cancelled" /\ setting' = setting
  BY PathsAre DEF Lock, StillTyped
<1>2. path[w].next = "idle" /\ Lister
  BY <1>1, NotMeasuring, ClipIs
<1>3. Moves(w)
      /\ LET p == path[w]
         IN  Fields(path'[w], "sync", p.kind, p.side, p.clips, p.base, p.got, p.bad, p.resting, "measure")
  BY <1>1, Locked DEF Base
<1>4. Typed' /\ OrdersKept
  BY <1>1, TypedStill DEF Base
<1>5. Good(w, path[w], orders')
  BY <1>1, <1>4, GoodKept DEF Base
<1>6. Good(w, path'[w], orders')
  BY <1>1, <1>2, <1>3, <1>5, GoodWatcher
<1>. QED  BY <1>1, <1>3, <1>4, <1>6, BaseStep

LEMMA BaseGoesOn ==
    ASSUME Base, Typed', setting' = setting, OrdersKept, NEW w \in Paths, path[w].pc = "measure",
           NEW filled \in 0..Head(path[w].clips), GoesOn(w, filled)
    PROVE  Base'
<1>1. Watching(path[w])
  BY BaseParts DEF Roles, Watching
<1>2. w \in Watchers /\ Execution # "market" /\ path[w].side \in Sides
      /\ Head(path[w].clips) \in Nat
  BY <1>1, ClipIs
<1>3. held \in Int
  BY DEF Base, Typed
<1>4. Moves(w)
  BY WentOn DEF Base
<1> DEFINE qty == Resend(w, filled)
<1>5. CASE /\ qty > 0
           /\ Fields(path'[w], "submit", "watch", path[w].side, <<qty>>, held, <<>>, {}, FALSE, "idle")
  <2>1. qty \in Int /\ (path[w].side = "sell" => qty <= held)
    BY <1>2, <1>3 DEF Resend, Smaller, Sides
  <2> HIDE DEF qty
  <2> DEFINE clips == <<qty>>
  <2>2. Clipped(clips) /\ Rest(clips) = qty /\ Len(clips) = 1
    BY <1>5, <2>1, ClippedOne
  <2>3. Fields(path'[w], "submit", "watch", path[w].side, clips, held, <<>>, {}, FALSE, "idle")
    BY <1>5
  <2> HIDE DEF clips
  <2> DEFINE kind == "watch"
             side == path[w].side
  <2>5. kind \in {"act", "exit", "manual", "watch"} /\ kind = "watch"
    OBVIOUS
  <2>6. Fields(path'[w], "submit", kind, side, clips, held, <<>>, {}, FALSE, "idle")
    BY <2>3, Zenon
  <2>7. side \in Sides /\ Len(clips) > 0 /\ (side = "sell" => Rest(clips) <= held)
    BY <1>2, <2>1, <2>2
  <2> HIDE DEF kind, side
  <2>4. Good(w, path'[w], orders')
    BY <1>2, <1>3, <2>2, <2>5, <2>6, <2>7, GoodBegun
  <2>. QED  BY <1>4, <2>4, BaseStep
<1>6. CASE path'[w] = NoPath
  BY <1>4, <1>6, GoodNoPath, BaseStep
<1>7. CASE Fields(path'[w], "sync", "none", "none", <<>>, 0, <<>>, {}, FALSE, "idle")
  BY <1>2, <1>7, GoodSync, <1>4, BaseStep
<1>. QED  BY <1>5, <1>6, <1>7, WentOn DEF Base

LEMMA MeasuredIs ==
    ASSUME Base, NEW w \in Paths, path[w].pc = "measure"
    PROVE  Measured(w) \in 0..Head(path[w].clips)
<1>1. Watching(path[w])
  BY BaseParts DEF Roles, Watching
<1>2. Head(path[w].clips) \in Nat
  BY <1>1, ClipIs
<1>. QED  BY <1>2 DEF Measured, Smaller, Larger, Base, Typed

(* What a watcher books, and what it does to the record. *)
LEMMA MeasureBooks ==
    ASSUME Base, NEW w \in Watchers, Measure(w)
    PROVE  /\ path[w].pc = "measure" /\ Watching(path[w]) /\ w \in Paths
           /\ Ids' = Ids /\ orders' \in Seq(OrderStates) /\ Len(orders') = Len(orders)
           /\ OrdersKept /\ Typed'
           /\ \A id \in Ids : /\ orders'[id].side = orders[id].side
                              /\ orders'[id].left = orders[id].left
                              /\ orders'[id].filled = orders[id].filled
                              /\ orders'[id].booked = IF id = Clip(w)
                                                      THEN orders[id].booked + Measured(w)
                                                      ELSE orders[id].booked
<1> DEFINE m == Measured(w)
           fills == Noting(<<>>, Clip(w), m)
<1>1. path[w].pc = "measure" /\ w \in Paths /\ Booked(fills)
      /\ (IF m = 0 THEN UNCHANGED <<open, guard>>
          ELSE IF path[w].side = "buy" THEN RecordOpen(m) ELSE RecordClose(m))
      /\ UNCHANGED <<setting, real, held, untracked, claims, ghosts>>
  BY PathsAre DEF Measure
<1>2. Watching(path[w])
  BY <1>1, BaseParts DEF Roles, Watching
<1>3. m \in 0..Head(path[w].clips) /\ m \in Nat
  BY <1>1, <1>2, ClipIs, MeasuredIs
<1> HIDE DEF m
<1>4. Only(fills, Clip(w), m)
  BY <1>3, NotedFirst
<1> HIDE DEF fills
<1>5. DOMAIN fills = {Clip(w)} /\ fills[Clip(w)] = m /\ \A id \in DOMAIN fills : fills[id] \in Nat
  BY <1>3, <1>4 DEF Only
<1>6. /\ orders' \in Seq(OrderStates) /\ Len(orders') = Len(orders) /\ Ids' = Ids
      /\ \A id \in Ids : /\ orders'[id].side = orders[id].side
                         /\ orders'[id].left = orders[id].left
                         /\ orders'[id].filled = orders[id].filled
                         /\ orders'[id].booked = IF id \in DOMAIN fills
                                                 THEN orders[id].booked + fills[id]
                                                 ELSE orders[id].booked
      /\ OrdersKept
  BY <1>1, <1>5, BookedIs DEF Base
<1>7. open' \in Nat /\ guard' \in Nat
  BY <1>1, <1>3, RecordIs DEF Base, Typed
<1>8. Typed'
  BY <1>1, <1>6, <1>7 DEF Base, Typed, claims, ghosts, MaxOrders
<1>. QED  BY <1>1, <1>2, <1>5, <1>6, <1>8 DEF m

LEMMA BaseMeasure ==
    ASSUME Base, NEW w \in Watchers, Measure(w)
    PROVE  Base'
<1>1. path[w].pc = "measure" /\ w \in Paths /\ OrdersKept /\ Typed'
  BY MeasureBooks
<1>2. GoesOn(w, Measured(w)) /\ setting' = setting
  BY DEF Measure
<1>. QED  BY <1>1, <1>2, MeasuredIs, BaseGoesOn

LEMMA BaseMeasureUnknown ==
    ASSUME Base, NEW w \in Watchers, MeasureUnknown(w)
    PROVE  Base'
<1>1. path[w].pc = "measure" /\ w \in Paths /\ givenUp' = givenUp \cup {Clip(w)}
      /\ UNCHANGED <<setting, venue, held, book, claims, byHand>>
  BY PathsAre DEF MeasureUnknown
<1>2. Watching(path[w])
  BY <1>1, BaseParts DEF Roles, Watching
<1>3. Clip(w) \in Ids /\ Head(path[w].clips) \in Nat
  BY <1>1, <1>2, ClipIs
<1>4. Typed' /\ OrdersKept
  BY <1>1, <1>3, Kept DEF Base, Typed, venue, book, claims, Ids, MaxOrders
<1>5. 0 \in 0..Head(path[w].clips)
  BY <1>3
<1>6. GoesOn(w, 0) \/ path' = [path EXCEPT ![w] = NoPath]
  BY DEF MeasureUnknown
<1>. QED  BY <1>1, <1>4, <1>5, <1>6, BaseGoesOn, BaseLeaves

-----------------------------------------------------------------------------
(* The operator, the broker and the end of the process *)

LEMMA BaseClear ==
    ASSUME Base, NEW id \in Ids, ClearUnconfirmed(id)
    PROVE  Base'
<1>1. Typed' /\ OrdersKept /\ setting' = setting /\ path' = path
  BY Kept DEF ClearUnconfirmed, Base, Typed, venue, book, Ids, MaxOrders
<1>. QED  BY <1>1, BaseStill

LEMMA BaseVenueFill ==
    ASSUME Base, NEW id \in Ids, VenueFill(id)
    PROVE  Base'
<1>1. PICK n \in 1..orders[id].left :
        /\ OneChanged(id, orders[id].left - n, orders[id].filled + n, orders[id].booked)
        /\ OrdersKept /\ real' \in Int
  BY FilledAtVenue DEF Base
<1>2. Typed' /\ setting' = setting /\ path' = path
  BY <1>1 DEF VenueFill, OneChanged, Base, Typed, book, claims, ghosts, MaxOrders
<1>. QED  BY <1>1, <1>2, BaseStill

LEMMA BaseVenueCancels ==
    ASSUME Base, NEW id \in Ids, VenueCancels(id)
    PROVE  Base'
<1>1. OneChanged(id, 0, orders[id].filled, orders[id].booked) /\ OrdersKept
  BY TakenOff DEF VenueCancels, Base
<1>2. Typed' /\ setting' = setting /\ path' = path
  BY <1>1 DEF VenueCancels, OneChanged, Base, Typed, book, claims, ghosts, MaxOrders
<1>. QED  BY <1>1, <1>2, BaseStill

LEMMA BaseAdopt ==
    ASSUME Base, Adopt
    PROVE  Base'
<1>1. held > 0 /\ StillTyped /\ held \in Int /\ setting' = setting
  BY DEF Adopt, StillTyped, Base, Typed
<1>2. Moves(Operator)
      /\ Fields(path'[Operator], "adopt", "none", "none", <<>>, held, <<>>, {}, FALSE, "idle")
  BY Adopting DEF Base
<1> DEFINE pc == "adopt"
<1>3. Fields(path'[Operator], pc, "none", "none", <<>>, held, <<>>, {}, FALSE, "idle")
  BY <1>2, Zenon
<1>4. pc = "adopt"
  OBVIOUS
<1> HIDE DEF pc
<1>5. Good(Operator, path'[Operator], orders')
  BY <1>1, <1>3, <1>4, GoodPlain, PathsAre
<1>. QED  BY <1>1, <1>2, <1>5, TypedStill, BaseStep, PathsAre DEF Base

LEMMA BaseAdoptWrite ==
    ASSUME Base, AdoptWrite
    PROVE  Base'
<1>1. Operator \in Paths
  BY PathsAre
<1>2. path[Operator].base \in Int /\ path[Operator].base > 0
  BY <1>1, BaseParts, FitsParts DEF AdoptWrite, Roles
<1>3. Typed' /\ OrdersKept /\ setting' = setting
  BY <1>2, Kept DEF AdoptWrite, Base, Typed, venue, claims, ghosts, Ids, MaxOrders
<1>. QED  BY <1>1, <1>3, BaseLeaves DEF AdoptWrite

LEMMA BaseForget ==
    ASSUME Base, Forget
    PROVE  Base'
<1>1. Typed' /\ OrdersKept /\ setting' = setting /\ path' = path
  BY Kept DEF Forget, Base, Typed, venue, claims, Ids, MaxOrders
<1>. QED  BY <1>1, BaseStill

LEMMA BaseBoughtByHand ==
    ASSUME Base, BoughtByHand
    PROVE  Base'
<1>1. Typed' /\ OrdersKept /\ setting' = setting /\ path' = path
  BY Kept DEF BoughtByHand, Base, Typed, book, claims, ghosts, Ids, MaxOrders
<1>. QED  BY <1>1, BaseStill

LEMMA BaseSoldByHand ==
    ASSUME Base, SoldByHand
    PROVE  Base'
<1>1. Typed' /\ OrdersKept /\ setting' = setting /\ path' = path
  BY Kept DEF SoldByHand, Base, Typed, book, claims, Ids, MaxOrders
<1>. QED  BY <1>1, BaseStill

LEMMA BaseCrash ==
    ASSUME Base, Crash
    PROVE  Base'
<1>1. Typed' /\ OrdersKept /\ setting' = setting
  BY Kept DEF Crash, Base, Typed, venue, Ids, MaxOrders
<1>2. /\ PathShape'
      /\ Fields(path'[Loop], "sync", "none", "none", <<>>, 0, <<>>, {}, FALSE, "idle")
      /\ \A t \in Paths \ {Loop} : path'[t] = NoPath
  BY Crashed DEF Base
<1>3. ASSUME NEW t \in Paths
      PROVE  Good(t, path'[t], orders')
  <2>1. CASE t = Loop
    BY <1>2, <2>1, GoodSync, PathsAre
  <2>2. CASE t # Loop
    BY <1>2, <2>2, GoodNoPath
  <2>. QED  BY <2>1, <2>2
<1>4. \A t \in Paths : Good(t, path[t], orders)'
  BY <1>1, <1>3, GoodNext
<1>. QED  BY <1>1, <1>2, <1>4 DEF Base, Paths

-----------------------------------------------------------------------------
LEMMA BaseInit ==
    ASSUME Init
    PROVE  Base
<1>1. DOMAIN orders = {} /\ orders \in Seq(OrderStates) /\ Len(orders) = 0
  BY DEF Init
<1>2. MaxOrders \in Nat
  BY LifecycleAssumption DEF Init, MaxOrders
<1>3. Typed
  BY <1>1, <1>2 DEF Init, Typed, Ids
<1>4. \A t \in Paths : path[t] = NoPath
  BY DEF Init
<1>5. PathShape
  BY <1>4, NoPathIs DEF Init, PathShape, Fields
<1>. QED  BY <1>3, <1>4, <1>5, GoodNoPath DEF Base

LEMMA BaseStutter ==
    ASSUME Base, UNCHANGED vars
    PROVE  Base'
<1>1. Typed' /\ OrdersKept /\ setting' = setting /\ path' = path
  BY Kept DEF vars, Base, Typed, Ids, MaxOrders
<1>. QED  BY <1>1, BaseStill

LEMMA BaseNext ==
    ASSUME Base, [Next]_vars
    PROVE  Base'
<1>1. ASSUME NEW qty \in 1..MaxQty,
             ActBuy(qty) \/ Exit(qty) \/ \E side \in {"buy", "sell"} : Manual(side, qty)
      PROVE  Base'
  BY <1>1, BaseActBuy, BaseExit, BaseManual
<1>2. ASSUME NEW t \in Paths, PathStep(t)
      PROVE  Base'
  BY <1>2, BaseSubmitFinal, BaseSubmitOpen, BaseSubmitResting, BaseSubmitFails, BaseReplyLost,
     BaseRateRefused, BaseSettle, BaseBook, BaseFlag, BaseSyncRead, BaseSyncFails, BaseSyncApply
     DEF PathStep
<1>3. ASSUME NEW w \in Watchers, WatcherStep(w)
      PROVE  Base'
  BY <1>3, BaseWakeGone, BaseWakeOpen, BaseWakeLeaves, BaseCancelOk, BaseCancelFails, BaseLock,
     BaseMeasure, BaseMeasureUnknown
     DEF WatcherStep
<1>4. ASSUME NEW id \in Ids, ClearUnconfirmed(id) \/ VenueFill(id) \/ VenueCancels(id)
      PROVE  Base'
  BY <1>4, BaseClear, BaseVenueFill, BaseVenueCancels
<1>5. ASSUME \/ ActSell \/ ActSellNothing
             \/ StartSync \/ ReconcileList \/ ReconcileClear \/ GraceElapses
             \/ Adopt \/ AdoptWrite \/ Forget \/ BoughtByHand \/ SoldByHand \/ Crash
      PROVE  Base'
  BY <1>5, BaseActSell, BaseActSellNothing, BaseStartSync, BaseReconcileList, BaseReconcileClear,
     BaseGraceElapses, BaseAdopt, BaseAdoptWrite, BaseForget, BaseBoughtByHand, BaseSoldByHand,
     BaseCrash
<1>. QED  BY <1>1, <1>2, <1>3, <1>4, <1>5, BaseStutter DEF Next

LEMMA BaseIsTyped == Base => TypeOK
<1>1. ASSUME Base, NEW t \in Paths
      PROVE  /\ path[t].base \in Int /\ DOMAIN path[t].got \subseteq Ids /\ path[t].bad \subseteq Ids
             /\ path[t].pc \in {"submit", "settle"} => path[t].side \in {"buy", "sell"}
  BY <1>1, BaseParts, FitsParts DEF Roles, Asked, Asking, Sides
<1>. QED  BY <1>1 DEF Base, Typed, TypeOK

LEMMA BaseHolds == Spec => []Base
<1>1. Init => Base
  BY BaseInit
<1>2. Base /\ [Next]_vars => Base'
  BY BaseNext
<1>. QED  BY <1>1, <1>2, PTL DEF Spec

(* Every variable keeps its shape, under every fault: the record and the    *)
(* marker of a sell are never negative (recordOpen, recordClose,            *)
(* exitPosition).                                                          *)
THEOREM TypeCorrect == Spec => []TypeOK
BY BaseHolds, BaseIsTyped, PTL

-----------------------------------------------------------------------------
(* Paths apart: one at a time, or with market orders only, each order is   *)
(* booked by nobody but the path that sent it.                             *)

Serial == "overlap" \notin Faults
Apart == Serial \/ Execution = "market"

Over(p) == p.pc \in {"flag", "sync", "apply"} /\ ~Watching(p)

Told(p, ords) ==
    /\ Asking(p) => \A id \in DOMAIN p.got : ords[id].booked = 0
    /\ Over(p) => \A id \in DOMAIN p.got : ords[id].booked = p.got[id]

OneAtATime == Serial => \A t, u \in Paths : t # u => AtRest(t) \/ AtRest(u)
Disjoint == Execution = "market" => \A t, u \in Paths : t # u => Handles(t) \cap Handles(u) = {}
AllTold == Apart => \A t \in Paths : Told(path[t], orders)
OpenBooked == Apart => \A id \in Ids : orders[id].left > 0 => orders[id].booked <= orders[id].filled
ApartInv == OneAtATime /\ Disjoint /\ AllTold /\ OpenBooked

(* What the record has of an order only its path changes, while it is at   *)
(* work; a new order is not in the record.                                 *)
BookedBy(t) ==
    /\ \A id \in Ids : \/ orders'[id].booked = orders[id].booked
                       \/ id \in Handles(t) /\ ~AtRest(t)
    /\ \A id \in Ids' \ Ids : orders'[id].booked = 0

LEMMA ToldIfNone ==
    ASSUME NEW p, NEW ords, DOMAIN p.got = {} \/ Watching(p) \/ p.pc \in {"idle", "resting"}, ~Asking(p) \/ DOMAIN p.got = {}
    PROVE  Told(p, ords)
BY DEF Told, Over, Asking

LEMMA Resting ==
    ASSUME NEW t, AtRest(t), NEW ords
    PROVE  Told(path[t], ords) /\ ~Asking(path[t]) /\ ~Asked(path[t])
BY DEF AtRest, Told, Over, Asking, Asked

LEMMA HandlesAre ==
    ASSUME Base, NEW t \in Paths
    PROVE  Handles(t) \subseteq Ids
BY BaseParts, FitsParts DEF Handles

LEMMA ApartStep ==
    ASSUME Base, ApartInv, Base', setting' = setting, OrdersKept, NEW t, Moves(t), BookedBy(t),
           path'[t].pc \in {"idle", "resting"} \/ ~AtRest(t) \/ Quiet,
           Apart => Told(path'[t], orders'),
           Apart => \A id \in Handles(t) : \/ orders'[id].booked = orders[id].booked
                                           \/ orders'[id].left = 0
                                           \/ orders'[id].booked <= orders'[id].filled,
           DOMAIN path'[t].got \subseteq Handles(t) \cup (Ids' \ Ids)
    PROVE  ApartInv'
<1>1. /\ t \in Paths /\ \A u \in Paths \ {t} : path'[u] = path[u]
      /\ \A u \in Paths : Handles(u) \subseteq Ids
  BY HandlesAre DEF Moves, Others
<1>2. /\ (Serial' <=> Serial) /\ (Apart' <=> Apart) /\ Execution' = Execution
      /\ Paths' = Paths
  BY DEF Serial, Apart, Faults, Execution, Paths
<1>3. OneAtATime'
  <2>1. ASSUME Serial, NEW u \in Paths, u # t, ~AtRest(u)
        PROVE  path'[t].pc \in {"idle", "resting"}
    BY <1>1, <2>1 DEF ApartInv, OneAtATime, Quiet, Serial
  <2>. QED  BY <1>1, <1>2, <2>1 DEF ApartInv, OneAtATime, AtRest
<1>4. Disjoint'
  <2>1. ASSUME Execution = "market", NEW u \in Paths, u # t
        PROVE  Handles(u) \cap DOMAIN path'[t].got = {}
    BY <1>1, <2>1 DEF ApartInv, Disjoint
  <2>. QED  BY <1>1, <1>2, <2>1 DEF ApartInv, Disjoint, Handles
<1>5. ASSUME Apart, NEW u \in Paths
      PROVE  Told(path'[u], orders')
  <2>1. CASE u = t
    BY <1>5, <2>1
  <2>2. CASE u # t /\ AtRest(u)
    BY <1>1, <2>2, Resting
  <2>3. CASE u # t /\ ~AtRest(u)
    <3>1. Told(path[u], orders) /\ path'[u] = path[u]
      BY <1>1, <1>5, <2>3 DEF ApartInv, AllTold
    <3>2. ASSUME NEW id \in Handles(u)
          PROVE  orders'[id].booked = orders[id].booked
      BY <1>1, <1>5, <2>3 DEF BookedBy, ApartInv, OneAtATime, Apart, Disjoint
    <3>. QED  BY <3>1, <3>2 DEF Told, Handles
  <2>. QED  BY <2>1, <2>2, <2>3
<1>6. AllTold'
  BY <1>2, <1>5 DEF AllTold
<1>7. ASSUME Apart, NEW id \in Ids', orders'[id].left > 0
      PROVE  orders'[id].booked <= orders'[id].filled
  <2>0. OrdersTyped /\ OrdersTyped'
    <3>1. Typed /\ Typed'
      BY DEF Base
    <3>. QED  BY <3>1, OrdersAreTyped, PTL
  <2>1. CASE id \notin Ids
    BY <1>7, <2>0, <2>1 DEF BookedBy, OrdersTyped
  <2>2. CASE id \in Handles(t) /\ orders'[id].booked # orders[id].booked
    BY <1>7, <2>2
  <2>3. CASE id \in Ids /\ (id \notin Handles(t) \/ orders'[id].booked = orders[id].booked)
    BY <1>7, <2>0, <2>3 DEF BookedBy, OrdersKept, OrdersTyped, ApartInv, OpenBooked
  <2>. QED  BY <2>1, <2>2, <2>3
<1>8. OpenBooked'
  BY <1>2, <1>7 DEF OpenBooked
<1>. QED  BY <1>3, <1>4, <1>6, <1>8 DEF ApartInv

BookedStill ==
    /\ \A id \in Ids : orders'[id].booked = orders[id].booked
    /\ \A id \in Ids' \ Ids : orders'[id].booked = 0

LEMMA ToldStill ==
    ASSUME Base, ApartInv, Apart, BookedStill, NEW t \in Paths
    PROVE  Told(path[t], orders')
<1>1. Told(path[t], orders) /\ Handles(t) \subseteq Ids
  BY HandlesAre DEF ApartInv, AllTold
<1>. QED  BY <1>1 DEF Told, BookedStill, Handles

(* A step that books nothing, by a path that goes from what it is in the   *)
(* middle of to q.                                                         *)
LEMMA ApartMove ==
    ASSUME Base, ApartInv, Base', setting' = setting, OrdersKept, BookedStill, NEW t, Moves(t),
           path'[t].pc \in {"idle", "resting"} \/ ~AtRest(t) \/ Quiet,
           Apart => Told(path'[t], orders'),
           DOMAIN path'[t].got \subseteq Handles(t) \cup (Ids' \ Ids)
    PROVE  ApartInv'
<1>1. BookedBy(t)
  BY DEF BookedBy, BookedStill
<1>2. \A id \in Handles(t) : orders'[id].booked = orders[id].booked
  BY HandlesAre DEF BookedStill, Moves
<1>. QED  BY <1>1, <1>2, ApartStep

LEMMA ApartStill ==
    ASSUME Base, ApartInv, Base', setting' = setting, OrdersKept, path' = path, BookedStill
    PROVE  ApartInv'
<1>1. Moves(Loop) /\ path'[Loop] = path[Loop] /\ Loop \in Paths
  BY PathsAre DEF Base, PathShape, Moves, Others, Paths
<1>2. path'[Loop].pc \in {"idle", "resting"} \/ ~AtRest(Loop)
  BY <1>1 DEF AtRest
<1>3. DOMAIN path'[Loop].got \subseteq Handles(Loop)
  BY <1>1 DEF Handles
<1>. QED  BY <1>1, <1>2, <1>3, ToldStill, ApartMove

LEMMA StillBooked ==
    ASSUME Base, orders' = orders
    PROVE  OrdersKept /\ BookedStill /\ Ids' = Ids
BY Kept DEF Base, BookedStill

LEMMA TakesBooked ==
    ASSUME Base, NEW t \in Paths, NEW fill \in Nat, NEW left \in Nat, Takes(t, fill, left),
           path[t].pc = "submit", Len(orders) < MaxOrders
    PROVE  OrdersKept /\ BookedStill /\ Ids' = Ids \cup {NextId} /\ NextId \notin Ids
<1>1. Typed /\ path[t].side \in Sides
  BY BaseParts DEF Roles, Asked, Asking
<1>. QED  BY <1>1, Taken DEF BookedStill

(* The path ends, or starts something that has no order yet. *)
LEMMA ApartEmpty ==
    ASSUME Base, ApartInv, Base', setting' = setting, OrdersKept, BookedStill, NEW t, Moves(t),
           DOMAIN path'[t].got = {}, path'[t] = NoPath \/ ~AtRest(t) \/ Quiet
    PROVE  ApartInv'
<1>1. Told(path'[t], orders')
  BY ToldIfNone
<1>2. path'[t].pc \in {"idle", "resting"} \/ ~AtRest(t) \/ Quiet
  BY NoPathIs DEF Fields
<1>. QED  BY <1>1, <1>2, ApartMove

LEMMA ApartLeaves ==
    ASSUME Base, ApartInv, Base', setting' = setting, OrdersKept, BookedStill, NEW t \in Paths,
           path' = [path EXCEPT ![t] = NoPath]
    PROVE  ApartInv'
<1>1. Moves(t) /\ path'[t] = NoPath
  BY PathEnds DEF Base
<1>2. DOMAIN path'[t].got = {}
  BY <1>1, NoPathIs, NoneGot DEF Fields
<1>. QED  BY <1>1, <1>2, ApartEmpty

LEMMA ApartBegin ==
    ASSUME Base, ApartInv, Base', setting' = setting, orders' = orders, NEW t \in Paths, Quiet,
           NEW kind, NEW side, NEW clips, Begin(t, kind, side, clips)
    PROVE  ApartInv'
<1>1. Moves(t) /\ Fields(path'[t], "submit", kind, side, clips, held, <<>>, {}, FALSE, "idle")
  BY Begun DEF Base
<1>2. DOMAIN path'[t].got = {}
  BY <1>1, NoneGot DEF Fields
<1>. QED  BY <1>1, <1>2, StillBooked, ApartEmpty

(* A path goes on with the orders it has. *)
LEMMA ApartGoesOn ==
    ASSUME Base, ApartInv, Base', setting' = setting, OrdersKept, BookedStill, NEW t \in Paths, Moves(t),
           ~AtRest(t) \/ Quiet, path'[t].got = path[t].got,
           Apart => Told(path'[t], orders')
    PROVE  ApartInv'
<1>1. DOMAIN path'[t].got \subseteq Handles(t)
  BY DEF Handles
<1>. QED  BY <1>1, ApartMove

LEMMA ApartAnswered ==
    ASSUME Base, ApartInv, Base', setting' = setting, NEW t \in Paths, NEW fill \in Nat, NEW left \in Nat,
           path[t].pc = "submit", Len(orders) < MaxOrders, Takes(t, fill, left), NEW q,
           NEW clips, NEW bad, NEW resting,
           LET p == path[t]
           IN  Fields(q, IF Len(p.clips) > 1 THEN "submit" ELSE "settle", p.kind, p.side,
                      clips, p.base, Noting(p.got, NextId, fill), bad, resting, p.next)
    PROVE  /\ Apart => Told(q, orders')
           /\ DOMAIN q.got \subseteq Handles(t) \cup (Ids' \ Ids) /\ ~AtRest(t)
<1>1. path[t].side \in Sides /\ Roles(t, path[t]) /\ DOMAIN path[t].got \subseteq Ids /\ Typed
  BY BaseParts, FitsParts DEF Roles, Asked, Asking
<1>2. /\ Ids' = Ids \cup {NextId} /\ NextId \notin Ids /\ orders'[NextId].booked = 0
      /\ \A id \in Ids : orders'[id] = orders[id]
  BY <1>1, Taken
<1>3. q.got = Noting(path[t].got, NextId, fill) /\ q.pc \in {"submit", "settle"}
  BY DEF Fields
<1>4. DOMAIN q.got = Handles(t) \cup {NextId}
  BY <1>3 DEF Noting, Handles
<1>5. ASSUME Apart, NEW id \in Handles(t)
      PROVE  orders'[id].booked = 0
  BY <1>5, <1>1, <1>2 DEF ApartInv, AllTold, Asking, Told, Handles
<1>6. Apart => Told(q, orders')
  BY <1>2, <1>3, <1>4, <1>5 DEF Told, Over
<1>. QED  BY <1>2, <1>4, <1>6 DEF AtRest

LEMMA ApartSubmitFinal ==
    ASSUME Base, ApartInv, Base', NEW t \in Paths, SubmitFinal(t)
    PROVE  ApartInv'
<1>1. path[t].pc = "submit" /\ Len(orders) < MaxOrders /\ setting' = setting
  BY DEF SubmitFinal
<1>2. PICK fill \in 0..Head(path[t].clips) :
        /\ Takes(t, fill, 0) /\ Moves(t)
        /\ LET p == path[t]
           IN  Fields(path'[t], IF Len(p.clips) > 1 THEN "submit" ELSE "settle", p.kind, p.side,
                      Tail(p.clips), p.base, Noting(p.got, NextId, fill), p.bad, p.resting, p.next)
  BY Finals DEF Base
<1>3. fill \in Nat
  BY <1>1, HeadIs
<1>4. (Apart => Told(path'[t], orders')) /\ ~AtRest(t)
      /\ DOMAIN path'[t].got \subseteq Handles(t) \cup (Ids' \ Ids)
  BY <1>1, <1>2, <1>3, ApartAnswered
<1>. QED  BY <1>1, <1>2, <1>3, <1>4, TakesBooked, ApartMove

LEMMA ApartSubmitOpen ==
    ASSUME Base, ApartInv, Base', NEW t \in Paths, SubmitOpen(t)
    PROVE  ApartInv'
<1>1. path[t].pc = "submit" /\ Len(orders) < MaxOrders /\ setting' = setting
  BY DEF SubmitOpen
<1>2. PICK fill \in 0..(Head(path[t].clips) - 1) :
        /\ Takes(t, fill, Head(path[t].clips) - fill) /\ Moves(t)
        /\ LET p == path[t]
           IN  Fields(path'[t], IF Len(p.clips) > 1 THEN "submit" ELSE "settle", p.kind, p.side,
                      Tail(p.clips), p.base, Noting(p.got, NextId, fill), p.bad \cup {NextId},
                      p.resting, p.next)
  BY Opens DEF Base
<1>3. fill \in Nat /\ Head(path[t].clips) - fill \in Nat
  BY <1>1, HeadIs
<1>4. (Apart => Told(path'[t], orders')) /\ ~AtRest(t)
      /\ DOMAIN path'[t].got \subseteq Handles(t) \cup (Ids' \ Ids)
  BY <1>1, <1>2, <1>3, ApartAnswered
<1>. QED  BY <1>1, <1>2, <1>3, <1>4, TakesBooked, ApartMove

LEMMA ApartSubmitResting ==
    ASSUME Base, ApartInv, Base', NEW t \in Paths, NEW w \in Watchers, SubmitResting(t, w)
    PROVE  ApartInv'
<1>1. path[t].pc = "submit" /\ Len(orders) < MaxOrders /\ setting' = setting /\ Execution # "market"
  BY DEF SubmitResting, Limit
<1>2. PICK fill \in 0..(Head(path[t].clips) - 1) :
        /\ Takes(t, fill, Head(path[t].clips) - fill)
        /\ t # w /\ \A u \in Paths \ {t, w} : path'[u] = path[u]
        /\ LET p == path[t]
           IN  /\ Fields(path'[t], IF Len(p.clips) > 1 THEN "submit" ELSE "settle", p.kind,
                         p.side, Tail(p.clips), p.base, Noting(p.got, NextId, fill), p.bad,
                         TRUE, p.next)
               /\ path'[w].pc = "resting"
  BY Rests DEF Base, Fields
<1>3. fill \in Nat /\ Head(path[t].clips) - fill \in Nat
  BY <1>1, HeadIs
<1>4. (Apart => Told(path'[t], orders')) /\ ~AtRest(t)
  BY <1>1, <1>2, <1>3, ApartAnswered
<1>5. OrdersKept /\ BookedStill
  BY <1>1, <1>2, <1>3, TakesBooked
<1>6. (Serial' <=> Serial) /\ (Apart' <=> Apart) /\ Execution' = Execution /\ Paths' = Paths
  BY <1>1 DEF Serial, Apart, Faults, Execution, Paths
<1>7. OneAtATime'
  BY <1>2, <1>4, <1>6 DEF AtRest, ApartInv, OneAtATime
<1>8. ASSUME Apart, NEW u \in Paths
      PROVE  Told(path'[u], orders')
  BY <1>4, <1>8, <1>2, ToldIfNone, <1>5, ToldStill DEF Asking
<1>9. OpenBooked'
  <2>0. OrdersTyped /\ OrdersTyped'
    <3>1. Typed /\ Typed'
      BY DEF Base
    <3>. QED  BY <3>1, OrdersAreTyped, PTL
  <2>1. ASSUME Apart, NEW id \in Ids', orders'[id].left > 0
        PROVE  orders'[id].booked <= orders'[id].filled
    BY <1>5, <2>0, <2>1 DEF BookedStill, OrdersKept, OrdersTyped, ApartInv, OpenBooked
  <2>. QED  BY <1>6, <2>1 DEF OpenBooked
<1>10. AllTold'
  BY <1>6, <1>8 DEF AllTold
<1>11. Disjoint'
  BY <1>1, <1>6 DEF Disjoint
<1>. QED  BY <1>7, <1>9, <1>10, <1>11 DEF ApartInv

LEMMA ApartCut ==
    ASSUME Base, ApartInv, Base', setting' = setting, OrdersKept, BookedStill, NEW t \in Paths,
           path[t].pc = "submit", Moves(t),
           \/ path'[t] = NoPath
           \/ LET p == path[t]
              IN  Fields(path'[t], "settle", p.kind, p.side, <<>>, p.base, p.got, p.bad, p.resting,
                         p.next)
    PROVE  ApartInv'
<1>1. CASE path'[t] = NoPath
  BY <1>1, NoPathIs, NoneGot, ApartEmpty DEF Fields
<1>2. CASE path'[t] # NoPath
  BY <1>2, ToldStill, ApartGoesOn DEF Fields, AtRest, Asking, Told, Over
<1>. QED  BY <1>1, <1>2

LEMMA ApartGivesUp ==
    ASSUME Base, ApartInv, Base', setting' = setting, OrdersKept, BookedStill, NEW t \in Paths,
           path[t].pc = "submit", GivesUp(t)
    PROVE  ApartInv'
<1>1. Moves(t)
      /\ LET p == path[t]
         IN  IF DOMAIN p.got = {} THEN path'[t] = NoPath
             ELSE Fields(path'[t], "settle", p.kind, p.side, <<>>, p.base, p.got, p.bad, p.resting,
                         p.next)
  BY PlanGivenUp DEF Base
<1>. QED  BY <1>1, ApartCut

LEMMA ApartSubmitStops ==
    ASSUME Base, ApartInv, Base', NEW t \in Paths, SubmitFails(t) \/ ReplyLost(t) \/ RateRefused(t)
    PROVE  ApartInv'
<1>1. path[t].pc = "submit" /\ setting' = setting
  BY DEF SubmitFails, ReplyLost, RateRefused
<1>2. OrdersKept /\ BookedStill
  BY StillBooked, <1>1, HeadIs, TakesBooked DEF ReplyLost, SubmitFails, RateRefused, venue
<1>3. CASE GivesUp(t)
  BY <1>1, <1>2, <1>3, ApartGivesUp
<1>4. CASE RateRefused(t)
  BY <1>1, <1>2, <1>4, CutShort, ApartCut DEF Base
<1>. QED  BY <1>3, <1>4 DEF SubmitFails, ReplyLost

LEMMA ApartSettle ==
    ASSUME Base, ApartInv, Base', NEW t \in Paths, Settle(t)
    PROVE  ApartInv'
<1> DEFINE pc == IF Confirmed(path[t]) > 0 THEN "book" ELSE "sync"
<1>1. path[t].pc = "settle" /\ Goto(t, pc) /\ setting' = setting /\ orders' = orders
  BY DEF Settle, venue
<1>2. pc = "book" \/ (pc = "sync" /\ ~(Confirmed(path[t]) > 0))
  OBVIOUS
<1>3. Asking(path[t]) /\ ~AtRest(t) /\ path[t].next = "idle"
  BY <1>1, BaseParts, FitsParts DEF Asking, AtRest, Roles
<1>4. Summable(path[t].got) /\ Confirmed(path[t]) \in Nat
  BY BaseParts, FitsParts
<1> HIDE DEF pc
<1>5. Moves(t) /\ path'[t].pc = pc /\ path'[t].got = path[t].got /\ path'[t].next = "idle"
  BY <1>1, <1>3, Moved DEF Base, Fields
<1>6. ASSUME Apart
      PROVE  Told(path'[t], orders')
  <2>1. \A id \in Handles(t) : orders'[id].booked = 0
    BY <1>1, <1>3, <1>6 DEF ApartInv, AllTold, Told, Handles
  <2>2. CASE pc = "book"
    BY <1>5, <2>1, <2>2 DEF Told, Over, Handles
  <2>3. CASE pc = "sync" /\ ~(Confirmed(path[t]) > 0)
    BY <1>4, <2>3, SumOfZeros, <1>5, <2>1 DEF Confirmed, Told, Asking, Handles
  <2>. QED  BY <1>2, <2>2, <2>3
<1>. QED  BY <1>1, <1>3, <1>5, <1>6, StillBooked, ApartGoesOn

(* What is booked after Book: nothing was booked of these orders before. *)
LEMMA BookFacts ==
    ASSUME Base, NEW t \in Paths, Book(t)
    PROVE  /\ path[t].pc = "book" /\ setting' = setting /\ Asking(path[t]) /\ ~AtRest(t) /\ Asked(path[t])
           /\ Ids' = Ids /\ OrdersKept /\ Handles(t) \subseteq Ids
           /\ \A id \in Ids : /\ orders'[id].side = orders[id].side
                              /\ orders'[id].left = orders[id].left
                              /\ orders'[id].filled = orders[id].filled
                              /\ orders'[id].booked = IF id \in Handles(t)
                                                      THEN orders[id].booked + path[t].got[id]
                                                      ELSE orders[id].booked
           /\ \A id \in Handles(t) : /\ orders[id].side = path[t].side /\ path[t].got[id] \in Nat
                                     /\ path[t].got[id] <= orders[id].filled
           /\ Confirmed(path[t]) \in Nat /\ path[t].side \in Sides
           /\ \E pc : /\ pc = "sync" \/ (/\ pc = "flag" /\ path[t].bad # {}
                                          /\ path[t].kind \in {"exit", "manual"})
                      /\ pc = "sync" => path[t].bad = {} \/ path[t].kind \notin {"exit", "manual"}
                      /\ Moves(t)
                      /\ LET p == path[t]
                         IN  Fields(path'[t], pc, p.kind, p.side, p.clips, p.base, p.got, p.bad,
                                    p.resting, "idle")
           /\ UNCHANGED <<real, held, untracked, claims, ghosts>>
           /\ IF path[t].side = "buy" THEN RecordOpen(Confirmed(path[t]))
              ELSE RecordClose(Confirmed(path[t]))
<1> DEFINE p == path[t]
           pc == IF p.bad # {} /\ p.kind \in {"exit", "manual"} THEN "flag" ELSE "sync"
<1>1. p.pc = "book" /\ Goto(t, pc) /\ Booked(p.got) /\ setting' = setting
      /\ UNCHANGED <<real, held, untracked, claims, ghosts>>
      /\ IF path[t].side = "buy" THEN RecordOpen(Confirmed(path[t]))
         ELSE RecordClose(Confirmed(path[t]))
  BY DEF Book
<1>2. Typed /\ Confirmed(p) \in Nat /\ (\A id \in DOMAIN p.got : p.got[id] \in Nat)
      /\ DOMAIN p.got \subseteq Ids /\ Roles(t, p) /\ Meant(p, orders)
  BY BaseParts, FitsParts
<1>3. Asking(p) /\ Asked(p) /\ ~AtRest(t)
  BY <1>1 DEF Asking, Asked, AtRest
<1>4. /\ Ids' = Ids /\ OrdersKept
      /\ \A id \in Ids : /\ orders'[id].side = orders[id].side
                         /\ orders'[id].left = orders[id].left
                         /\ orders'[id].filled = orders[id].filled
                         /\ orders'[id].booked = IF id \in DOMAIN p.got
                                                 THEN orders[id].booked + p.got[id]
                                                 ELSE orders[id].booked
  <2> DEFINE fills == p.got
  <2>1. Booked(fills) /\ \A id \in DOMAIN fills : fills[id] \in Nat
    BY <1>1, <1>2
  <2>2. p.got = fills
    OBVIOUS
  <2> HIDE DEF fills, p
  <2>. QED  BY <1>2, <2>1, <2>2, BookedIs
<1>5. /\ pc = "sync" \/ (pc = "flag" /\ p.bad # {} /\ p.kind \in {"exit", "manual"})
      /\ pc = "sync" => p.bad = {} \/ p.kind \notin {"exit", "manual"}
  OBVIOUS
<1>6. p.next = "idle"
  BY <1>1, BaseParts, FitsParts DEF Roles
<1> HIDE DEF pc
<1>7. Moves(t) /\ Fields(path'[t], pc, p.kind, p.side, p.clips, p.base, p.got, p.bad, p.resting, "idle")
  BY <1>1, <1>6, Moved DEF Base
<1>8. \A id \in DOMAIN p.got : orders[id].side = p.side /\ p.got[id] <= orders[id].filled
  BY <1>2, <1>3 DEF Meant
<1>9. p.side \in Sides
  BY <1>2, <1>3 DEF Roles
<1>10. \E x : /\ x = "sync" \/ (x = "flag" /\ p.bad # {} /\ p.kind \in {"exit", "manual"})
              /\ x = "sync" => p.bad = {} \/ p.kind \notin {"exit", "manual"}
              /\ Moves(t)
              /\ Fields(path'[t], x, p.kind, p.side, p.clips, p.base, p.got, p.bad, p.resting, "idle")
  BY <1>5, <1>7
<1>. QED  BY <1>1, <1>2, <1>3, <1>4, <1>8, <1>9, <1>10 DEF Handles

LEMMA ApartBook ==
    ASSUME Base, ApartInv, Base', NEW t \in Paths, Book(t)
    PROVE  ApartInv'
<1>1. /\ setting' = setting /\ Asking(path[t]) /\ ~AtRest(t) /\ Ids' = Ids /\ OrdersKept
      /\ Handles(t) \subseteq Ids
      /\ \A id \in Ids : /\ orders'[id].filled = orders[id].filled
                         /\ orders'[id].booked = IF id \in Handles(t)
                                                 THEN orders[id].booked + path[t].got[id]
                                                 ELSE orders[id].booked
      /\ \A id \in Handles(t) : path[t].got[id] \in Nat /\ path[t].got[id] <= orders[id].filled
  BY BookFacts
<1>2. PICK pc : /\ pc = "sync" \/ pc = "flag"
                /\ Moves(t)
                /\ LET p == path[t]
                   IN  Fields(path'[t], pc, p.kind, p.side, p.clips, p.base, p.got, p.bad, p.resting,
                              "idle")
  BY BookFacts
<1>3. BookedBy(t)
  BY <1>1 DEF BookedBy
<1>4. path'[t].got = path[t].got /\ path'[t].pc \in {"sync", "flag"}
  BY <1>2 DEF Fields
<1>5. ASSUME Apart, NEW id \in Handles(t)
      PROVE  orders'[id].booked = path[t].got[id]
  BY <1>1, <1>5 DEF ApartInv, AllTold, Told, Handles
<1>6. Apart => Told(path'[t], orders')
  BY <1>4, <1>5 DEF Told, Asking, Handles
<1>7. Apart => \A id \in Handles(t) : orders'[id].booked <= orders'[id].filled
  BY <1>1, <1>5
<1>8. DOMAIN path'[t].got \subseteq Handles(t)
  BY <1>4 DEF Handles
<1>. QED  BY <1>1, <1>2, <1>3, <1>6, <1>7, <1>8, ApartStep

LEMMA ApartFlag ==
    ASSUME Base, ApartInv, Base', NEW t \in Paths, Flag(t)
    PROVE  ApartInv'
<1>1. path[t].pc = "flag" /\ Goto(t, "sync") /\ setting' = setting /\ orders' = orders
  BY DEF Flag, venue
<1>2. Moves(t) /\ path'[t].pc = "sync" /\ path'[t].got = path[t].got
  BY <1>1, Moved DEF Base, Fields
<1>3. Over(path[t]) /\ ~AtRest(t)
  BY <1>1, BaseParts DEF Over, Watching, AtRest, Roles
<1>4. Apart => Told(path'[t], orders')
  BY <1>2, <1>3, <1>1, StillBooked, ToldStill DEF Told, Asking
<1>. QED  BY <1>1, <1>2, <1>3, <1>4, StillBooked, ApartGoesOn

LEMMA ApartSyncRead ==
    ASSUME Base, ApartInv, Base', NEW t \in Paths, SyncRead(t)
    PROVE  ApartInv'
<1>1. path[t].pc = "sync" /\ setting' = setting /\ orders' = orders
  BY DEF SyncRead, venue
<1>2. Moves(t) /\ path'[t].pc = "apply" /\ path'[t].got = path[t].got /\ path'[t].next = path[t].next
  BY Read DEF Base, Fields
<1>3. ~AtRest(t)
  BY <1>1 DEF AtRest
<1>4. Apart => Told(path'[t], orders')
  BY <1>1, <1>2, StillBooked, ToldStill DEF Told, Asking, Over, Watching
<1>. QED  BY <1>1, <1>2, <1>3, <1>4, StillBooked, ApartGoesOn

LEMMA ApartSynced ==
    ASSUME Base, ApartInv, Base', setting' = setting, orders' = orders, NEW t \in Paths, Synced(t),
           path[t].pc \in {"sync", "apply"}
    PROVE  ApartInv'
<1>1. path[t].next \in {"idle", "measure"} /\ ~AtRest(t)
  BY BaseParts, FitsParts DEF AtRest
<1>2. CASE path[t].next = "idle"
  BY <1>2, StillBooked, ApartLeaves DEF Synced
<1>3. CASE path[t].next = "measure"
  BY <1>3, SyncedIs, ToldIfNone, <1>1, StillBooked, ApartGoesOn DEF Base, Fields, Watching, Asking
<1>. QED  BY <1>1, <1>2, <1>3

LEMMA ApartSync ==
    ASSUME Base, ApartInv, Base', NEW t \in Paths, SyncFails(t) \/ SyncApply(t)
    PROVE  ApartInv'
BY ApartSynced DEF SyncFails, SyncApply, venue

LEMMA ApartWatched ==
    ASSUME Base, ApartInv, Base', setting' = setting, OrdersKept, BookedStill, NEW w \in Watchers,
           Moves(w), ~AtRest(w) \/ Quiet, path'[w].got = path[w].got, Watching(path'[w]),
           ~Asking(path'[w])
    PROVE  ApartInv'
BY PathsAre, ToldIfNone, ApartGoesOn

LEMMA OneStillBooked ==
    ASSUME Base, NEW id \in Ids, NEW left, NEW filled, OneChanged(id, left, filled, orders[id].booked)
    PROVE  BookedStill
BY DEF OneChanged, BookedStill

LEMMA ApartWakes ==
    ASSUME Base, ApartInv, Base', NEW w \in Watchers,
           WakeGone(w) \/ WakeLeaves(w) \/ WakeOpen(w) \/ CancelFails(w)
    PROVE  ApartInv'
<1>1. w \in Paths /\ setting' = setting /\ orders' = orders
  BY PathsAre DEF WakeGone, WakeLeaves, WakeOpen, CancelFails, venue
<1>2. CASE path' = [path EXCEPT ![w] = NoPath]
  BY <1>1, <1>2, StillBooked, ApartLeaves
<1>3. CASE WakeOpen(w)
  BY <1>3, <1>1, Moved, StillBooked, ApartWatched DEF WakeOpen, Base, Fields, Watching, Asking
<1>. QED  BY <1>2, <1>3 DEF WakeGone, WakeLeaves, CancelFails

(* A cancelled order stays as it is, but for what was still working of it. *)
LEMMA CancelFacts ==
    ASSUME Base, NEW w \in Watchers, CancelOk(w)
    PROVE  /\ w \in Paths /\ path[w].pc = "cancel" /\ Watching(path[w]) /\ setting' = setting
           /\ Clip(w) \in Ids /\ Handles(w) = {Clip(w)} /\ orders[Clip(w)].left > 0
           /\ OneChanged(Clip(w), 0, orders[Clip(w)].filled, orders[Clip(w)].booked) /\ OrdersKept
           /\ reserved' = reserved \ {Clip(w)}
           /\ UNCHANGED <<real, held, book, unknown, ghosts>>
           /\ Moves(w)
           /\ LET p == path[w]
              IN  Fields(path'[w], "cancelled", p.kind, p.side, p.clips, p.base, p.got, p.bad,
                         p.resting, "idle")
<1>1. w \in Paths /\ path[w].pc = "cancel" /\ Goto(w, "cancelled") /\ setting' = setting
      /\ orders[Clip(w)].left > 0
      /\ orders' = [orders EXCEPT ![Clip(w)].left = 0] /\ reserved' = reserved \ {Clip(w)}
      /\ UNCHANGED <<real, held, book, unknown, ghosts>>
  BY PathsAre DEF CancelOk
<1>2. path[w].next = "idle" /\ Watching(path[w])
  BY <1>1, NotMeasuring
<1>3. Clip(w) \in Ids /\ Handles(w) = {Clip(w)}
  BY <1>1, <1>2, ClipIs DEF Handles
<1>4. OneChanged(Clip(w), 0, orders[Clip(w)].filled, orders[Clip(w)].booked) /\ OrdersKept
  BY <1>1, <1>3, TakenOff DEF Base
<1>. QED  BY <1>1, <1>2, <1>3, <1>4, Moved DEF Base

LEMMA LockFacts ==
    ASSUME Base, NEW w \in Watchers, Lock(w)
    PROVE  /\ w \in Paths /\ path[w].pc = "cancelled" /\ Watching(path[w]) /\ setting' = setting
           /\ UNCHANGED <<setting, venue, held, book, claims, ghosts>>
           /\ Moves(w)
           /\ LET p == path[w]
              IN  Fields(path'[w], "sync", p.kind, p.side, p.clips, p.base, p.got, p.bad,
                         p.resting, "measure")
BY PathsAre, Locked DEF Lock, Watching, Base

LEMMA ApartCancels ==
    ASSUME Base, ApartInv, Base', NEW w \in Watchers, CancelOk(w) \/ Lock(w)
    PROVE  ApartInv'
<1>1. CASE CancelOk(w)
  BY <1>1, CancelFacts, OneStillBooked, ApartWatched DEF Fields, Watching, Asking, AtRest
<1>2. CASE Lock(w)
  BY <1>2, LockFacts, StillBooked, ApartWatched DEF Fields, Watching, Asking, AtRest, venue
<1>. QED  BY <1>1, <1>2

(* What a watcher goes on to has no order yet. *)
LEMMA GoesOnEmpty ==
    ASSUME Base, NEW w \in Paths, NEW filled, GoesOn(w, filled)
    PROVE  Moves(w) /\ DOMAIN path'[w].got = {} /\ path'[w].bad = {} /\ path'[w].next = "idle"
           /\ path'[w].resting = FALSE /\ path'[w].pc \in {"idle", "submit", "sync"}
BY WentOn, NoPathIs, NoneGot DEF Base, Fields

LEMMA ApartMeasures ==
    ASSUME Base, ApartInv, Base', NEW w \in Watchers, Measure(w) \/ MeasureUnknown(w)
    PROVE  ApartInv'
<1>1. w \in Paths /\ path[w].pc = "measure" /\ setting' = setting /\ ~AtRest(w)
  BY PathsAre DEF Measure, MeasureUnknown, AtRest
<1>2. CASE MeasureUnknown(w)
  BY <1>2, <1>1, StillBooked, ApartLeaves, GoesOnEmpty, ApartEmpty DEF MeasureUnknown, venue
<1>3. CASE Measure(w)
  <2>1. Moves(w) /\ DOMAIN path'[w].got = {}
    BY <1>1, <1>3, GoesOnEmpty DEF Measure
  <2>2. /\ Watching(path[w]) /\ Ids' = Ids /\ OrdersKept
        /\ \A id \in Ids : /\ orders'[id].left = orders[id].left
                           /\ id # Clip(w) => orders'[id].booked = orders[id].booked
    BY <1>3, MeasureBooks
  <2>3. Clip(w) \in Ids /\ Handles(w) = {Clip(w)}
    BY <1>1, <2>2, ClipIs DEF Handles
  <2>4. orders[Clip(w)].left = 0
    BY <1>1, <2>2, <2>3, BaseParts DEF Meant, Late, Handles
  <2>5. BookedBy(w)
    BY <1>1, <2>2, <2>3 DEF BookedBy
  <2>6. \A id \in Handles(w) : orders'[id].left = 0
    BY <2>2, <2>3, <2>4
  <2>7. Told(path'[w], orders')
    BY <2>1, ToldIfNone
  <2>. QED  BY <1>1, <2>1, <2>2, <2>5, <2>6, <2>7, ApartStep
<1>. QED  BY <1>2, <1>3

-----------------------------------------------------------------------------
LEMMA ApartOrders ==
    ASSUME Base, ApartInv, Base',
           \/ ActSell \/ StartSync \/ ReconcileList \/ ReconcileClear \/ Adopt \/ AdoptWrite
           \/ \E qty \in 1..MaxQty :
                 ActBuy(qty) \/ Exit(qty) \/ \E side \in {"buy", "sell"} : Manual(side, qty)
    PROVE  ApartInv'
<1>1. Loop \in Paths /\ Operator \in Paths
  BY PathsAre
<1>2. ASSUME NEW qty \in 1..MaxQty, ActBuy(qty) \/ Exit(qty)
      PROVE  ApartInv'
  BY <1>2, <1>1, ApartBegin DEF ActBuy, Exit, venue
<1>3. ASSUME NEW qty \in 1..MaxQty, NEW side \in {"buy", "sell"}, Manual(side, qty)
      PROVE  ApartInv'
  BY <1>3, <1>1, ApartBegin DEF Manual, venue
<1>4. CASE ActSell
  BY <1>4, <1>1, ApartBegin DEF ActSell, venue
<1>5. CASE StartSync \/ ReconcileList
  <2>1. setting' = setting /\ orders' = orders /\ Quiet /\ path[Loop].pc = "idle"
        /\ \E pc \in {"sync", "reconcile"} : Goto(Loop, pc)
    BY <1>5 DEF StartSync, ReconcileList, venue, Idle
  <2>2. Moves(Loop) /\ path'[Loop].got = path[Loop].got
    BY <1>1, <2>1, Moved DEF Base, Fields
  <2>3. path[Loop] = NoPath
    BY <1>1, <2>1, BaseParts DEF Roles
  <2>4. DOMAIN path'[Loop].got = {}
    BY <2>2, <2>3, NoPathIs, NoneGot DEF Fields
  <2>. QED  BY <2>1, <2>2, <2>4, StillBooked, ApartEmpty
<1>6. CASE ReconcileClear
  <2>1. setting' = setting /\ orders' = orders /\ path[Loop].pc = "reconcile" /\ Goto(Loop, "idle")
    BY <1>6 DEF ReconcileClear, venue
  <2>2. path'[Loop] = NoPath /\ Moves(Loop)
    BY <1>1, <1>6, <2>1, BaseReconcileClear, Moved DEF Base
  <2>3. DOMAIN path'[Loop].got = {}
    BY <2>2, NoPathIs, NoneGot DEF Fields
  <2>. QED  BY <2>1, <2>2, <2>3, StillBooked, ApartEmpty
<1>7. CASE Adopt
  BY <1>7, Adopting, NoneGot, StillBooked, ApartEmpty DEF Adopt, venue, Base, Fields
<1>8. CASE AdoptWrite
  BY <1>1, <1>8, StillBooked, ApartLeaves DEF AdoptWrite, venue
<1>. QED  BY <1>2, <1>3, <1>4, <1>5, <1>6, <1>7, <1>8

LEMMA ApartOthers ==
    ASSUME Base, ApartInv, Base',
           \/ ActSellNothing \/ GraceElapses \/ Forget \/ BoughtByHand \/ SoldByHand
           \/ \E id \in Ids : ClearUnconfirmed(id) \/ VenueFill(id) \/ VenueCancels(id)
           \/ UNCHANGED vars
    PROVE  ApartInv'
<1>1. setting' = setting /\ path' = path
  BY DEF ActSellNothing, GraceElapses, Forget, BoughtByHand, SoldByHand, ClearUnconfirmed, VenueFill,
         VenueCancels, vars
<1>2. CASE orders' = orders
  BY <1>1, <1>2, StillBooked, ApartStill
<1>3. ASSUME NEW id \in Ids, VenueFill(id) \/ VenueCancels(id)
      PROVE  ApartInv'
  BY <1>3, FilledAtVenue, TakenOff, <1>1, OneStillBooked, ApartStill DEF Base, VenueCancels
<1>. QED  BY <1>2, <1>3
     DEF ActSellNothing, GraceElapses, Forget, BoughtByHand, SoldByHand, ClearUnconfirmed, venue, vars

LEMMA ApartCrash ==
    ASSUME Base, ApartInv, Base', Crash
    PROVE  ApartInv'
<1>1. setting' = setting /\ orders' = orders /\ Ids' = Ids
  BY StillBooked DEF Crash, venue
<1>2. /\ Fields(path'[Loop], "sync", "none", "none", <<>>, 0, <<>>, {}, FALSE, "idle")
      /\ \A t \in Paths \ {Loop} : path'[t] = NoPath
  BY Crashed DEF Base
<1>3. \A t \in Paths : DOMAIN path'[t].got = {} /\ (t # Loop => path'[t].pc = "idle")
  BY <1>2, NoPathIs, NoneGot DEF Fields
<1>4. OneAtATime'
  BY <1>3 DEF OneAtATime, AtRest, Paths
<1>5. Disjoint'
  BY <1>3 DEF Disjoint, Handles, Paths
<1>6. AllTold'
  BY <1>3, ToldIfNone DEF AllTold, Paths
<1>7. OpenBooked'
  BY <1>1 DEF ApartInv, OpenBooked, Apart, Serial, Faults, Execution
<1>. QED  BY <1>4, <1>5, <1>6, <1>7 DEF ApartInv

LEMMA ApartInit ==
    ASSUME Init
    PROVE  ApartInv
<1>1. \A t \in Paths : path[t] = NoPath
  BY DEF Init
<1>2. \A t \in Paths : DOMAIN path[t].got = {} /\ path[t].pc = "idle"
  BY <1>1, NoPathIs, NoneGot DEF Fields
<1>3. Ids = {}
  BY DEF Init, Ids
<1>4. \A t \in Paths : Told(path[t], orders)
  BY <1>2, ToldIfNone
<1>. QED  BY <1>2, <1>3, <1>4 DEF ApartInv, OneAtATime, Disjoint, AllTold, OpenBooked, AtRest, Handles

LEMMA ApartNext ==
    ASSUME Base, ApartInv, Base', [Next]_vars
    PROVE  ApartInv'
<1>1. ASSUME NEW t \in Paths, PathStep(t)
      PROVE  ApartInv'
  BY <1>1, ApartSubmitFinal, ApartSubmitOpen, ApartSubmitResting, ApartSubmitStops, ApartSettle,
     ApartBook, ApartFlag, ApartSyncRead, ApartSync
     DEF PathStep
<1>2. ASSUME NEW w \in Watchers, WatcherStep(w)
      PROVE  ApartInv'
  BY <1>2, ApartWakes, ApartCancels, ApartMeasures DEF WatcherStep
<1>. QED  BY <1>1, <1>2, ApartOrders, ApartOthers, ApartCrash DEF Next

LEMMA ApartHolds == Spec => [](Base /\ ApartInv)
<1>1. Init => Base /\ ApartInv
  BY BaseInit, ApartInit
<1>2. Base /\ ApartInv /\ [Next]_vars => (Base /\ ApartInv)'
  BY BaseNext, ApartNext
<1>. QED  BY <1>1, <1>2, PTL DEF Spec

-----------------------------------------------------------------------------
(* What has filled and is not in the record yet                            *)

Due(o) == Larger(0, o.filled - o.booked)
Owing(ords, side) == [id \in {i \in DOMAIN ords : ords[i].side = side} |-> Due(ords[id])]
Owed(ords, side) == Total(Owing(ords, side))

AreOrders(ords) ==
    /\ IsFiniteSet(DOMAIN ords)
    /\ \A id \in DOMAIN ords : /\ ords[id].side \in Sides /\ ords[id].left \in Nat
                               /\ ords[id].filled \in Nat /\ ords[id].booked \in Nat

LEMMA UnbookedIs ==
    ASSUME NEW side
    PROVE  Unbooked(side) = Owed(orders, side) /\ Unbooked(side)' = Owed(orders', side)
BY DEF Unbooked, Owed, Owing, Due, Ids

LEMMA TheyAreOrders == Typed => AreOrders(orders)
BY OrdersAreTyped DEF OrdersTyped, AreOrders, Ids

LEMMA DueIs ==
    ASSUME NEW ords, AreOrders(ords), NEW id \in DOMAIN ords
    PROVE  /\ Due(ords[id]) \in Nat
           /\ ords[id].booked <= ords[id].filled => Due(ords[id]) = ords[id].filled - ords[id].booked
           /\ ords[id].booked >= ords[id].filled => Due(ords[id]) = 0
BY DEF AreOrders, Due, Larger

(* f is what is owing, order by order. *)
IsOwing(f, ords, side) ==
    /\ Summable(f)
    /\ DOMAIN f = {i \in DOMAIN ords : ords[i].side = side}
    /\ \A id \in DOMAIN f : f[id] = Due(ords[id])

LEMMA OwingIs ==
    ASSUME NEW ords, AreOrders(ords), NEW side
    PROVE  IsOwing(Owing(ords, side), ords, side)
<1>1. /\ DOMAIN Owing(ords, side) = {i \in DOMAIN ords : ords[i].side = side}
      /\ \A id \in DOMAIN Owing(ords, side) : Owing(ords, side)[id] = Due(ords[id])
  BY DEF Owing
<1>2. IsFiniteSet({i \in DOMAIN ords : ords[i].side = side})
  BY FS_Subset DEF AreOrders
<1>3. Summable(Owing(ords, side))
  BY <1>1, <1>2, DueIs DEF Summable
<1>. QED  BY <1>1, <1>3 DEF IsOwing

LEMMA OwedIsNat ==
    ASSUME NEW ords, AreOrders(ords), NEW side
    PROVE  Owed(ords, side) \in Nat
<1> DEFINE f == Owing(ords, side)
<1>1. IsOwing(f, ords, side)
  BY OwingIs
<1> HIDE DEF f
<1>2. Summable(f)
  BY <1>1 DEF IsOwing
<1>3. Total(f) \in Nat
  BY <1>2, SumIsNat
<1>. QED  BY <1>3 DEF f, Owed

(* Nothing has changed for this side. *)
LEMMA OwedAlike ==
    ASSUME NEW ords, NEW new, DOMAIN new = DOMAIN ords, NEW side,
           \A id \in DOMAIN ords : /\ new[id].side = ords[id].side
                                   /\ ords[id].side = side => Due(new[id]) = Due(ords[id])
    PROVE  Owed(new, side) = Owed(ords, side)
<1>1. Owing(new, side) = Owing(ords, side)
  BY DEF Owing
<1>. QED  BY <1>1 DEF Owed

(* A new order, with what filled at once. *)
LEMMA OwedTaken ==
    ASSUME NEW ords, NEW new, AreOrders(ords), AreOrders(new), NEW a, a \notin DOMAIN ords,
           DOMAIN new = DOMAIN ords \cup {a}, \A id \in DOMAIN ords : new[id] = ords[id],
           new[a].booked = 0, NEW side
    PROVE  Owed(new, side) = Owed(ords, side) + (IF new[a].side = side THEN new[a].filled ELSE 0)
<1>1. Due(new[a]) = new[a].filled /\ new[a].filled \in Nat
  BY DueIs DEF AreOrders
<1>2. CASE new[a].side # side
  <2>1. {i \in DOMAIN new : new[i].side = side} = {i \in DOMAIN ords : ords[i].side = side}
    BY <1>2
  <2>2. Owing(new, side) = Owing(ords, side)
    BY <1>2, <2>1 DEF Owing
  <2>3. Owed(new, side) = Owed(ords, side)
    BY <2>2 DEF Owed
  <2>4. Owed(ords, side) \in Nat
    BY OwedIsNat
  <2>. QED  BY <1>2, <2>3, <2>4
<1>3. CASE new[a].side = side
  <2> DEFINE f == Owing(ords, side)
             g == Owing(new, side)
  <2>0. IsOwing(f, ords, side) /\ IsOwing(g, new, side)
    BY OwingIs
  <2> HIDE DEF f, g
  <2>1. /\ Summable(f) /\ DOMAIN f = {i \in DOMAIN ords : ords[i].side = side}
        /\ \A id \in DOMAIN f : f[id] = Due(ords[id])
        /\ DOMAIN g = {i \in DOMAIN new : new[i].side = side}
        /\ \A id \in DOMAIN g : g[id] = Due(new[id])
    BY <2>0 DEF IsOwing
  <2>2. a \notin DOMAIN f /\ DOMAIN g = DOMAIN f \cup {a} /\ g[a] = new[a].filled
        /\ \A x \in DOMAIN f : g[x] = f[x]
    BY <1>1, <1>3, <2>1
  <2>3. Total(g) = Total(f) + g[a]
    BY <1>1, <2>1, <2>2, SumAdded
  <2>. QED  BY <1>3, <2>2, <2>3 DEF f, g, Owed
<1>. QED  BY <1>2, <1>3

(* One order has filled some more. *)
LEMMA OwedFilled ==
    ASSUME NEW ords, NEW new, AreOrders(ords), AreOrders(new), NEW a \in DOMAIN ords,
           DOMAIN new = DOMAIN ords, \A id \in DOMAIN ords \ {a} : new[id] = ords[id],
           new[a].side = ords[a].side, NEW n \in Nat, new[a].filled = ords[a].filled + n,
           new[a].booked = ords[a].booked, ords[a].booked <= ords[a].filled, NEW side
    PROVE  Owed(new, side) = Owed(ords, side) + (IF ords[a].side = side THEN n ELSE 0)
<1>1. CASE ords[a].side # side
  BY <1>1, OwedAlike, OwedIsNat
<1>2. CASE ords[a].side = side
  <2> DEFINE f == Owing(ords, side)
             g == Owing(new, side)
  <2>0. IsOwing(f, ords, side) /\ IsOwing(g, new, side)
    BY OwingIs
  <2> HIDE DEF f, g
  <2>1. /\ Summable(f) /\ DOMAIN f = {i \in DOMAIN ords : ords[i].side = side}
        /\ \A id \in DOMAIN f : f[id] = Due(ords[id])
        /\ DOMAIN g = {i \in DOMAIN new : new[i].side = side}
        /\ \A id \in DOMAIN g : g[id] = Due(new[id])
        /\ Summable(g)
    BY <2>0 DEF IsOwing
  <2>9. Total(f) \in Nat
    BY <2>1, SumIsNat
  <2>2. Due(ords[a]) \in Nat /\ Due(new[a]) = Due(ords[a]) + n
    BY DueIs DEF AreOrders
  <2>3. a \in DOMAIN f /\ DOMAIN g = DOMAIN f /\ g[a] = f[a] + n /\ f[a] \in Nat
        /\ \A x \in DOMAIN f \ {a} : g[x] = f[x]
    BY <1>2, <2>1, <2>2
  <2>5. g[a] \in Nat
    BY <2>3
  <2>4. Total(g) = Total(f) - f[a] + g[a]
    BY <2>1, <2>3, <2>5, SumChanged
  <2>6. Total(g) = Total(f) + n
    BY <2>3, <2>4, <2>9
  <2>. QED  BY <1>2, <2>6 DEF f, g, Owed
<1>. QED  BY <1>1, <1>2

(* What was reported filled of some orders is booked. *)
LEMMA OwedBooked ==
    ASSUME NEW ords, NEW new, AreOrders(ords), AreOrders(new), DOMAIN new = DOMAIN ords, NEW got,
           DOMAIN got \subseteq DOMAIN ords, NEW own, Summable(got),
           \A id \in DOMAIN got : /\ ords[id].side = own /\ ords[id].booked = 0
                                  /\ got[id] <= ords[id].filled,
           \A id \in DOMAIN ords : /\ new[id].side = ords[id].side
                                   /\ new[id].filled = ords[id].filled
                                   /\ new[id].booked = IF id \in DOMAIN got
                                                       THEN ords[id].booked + got[id]
                                                       ELSE ords[id].booked,
           NEW side
    PROVE  Owed(new, side) = Owed(ords, side) - (IF own = side THEN Total(got) ELSE 0)
<1>1. \A id \in DOMAIN ords \ DOMAIN got : Due(new[id]) = Due(ords[id])
  BY DEF Due
<1>2. ASSUME NEW id \in DOMAIN got
      PROVE  Due(ords[id]) = Due(new[id]) + got[id] /\ Due(new[id]) \in Nat /\ got[id] \in Nat
  BY DueIs DEF Summable, AreOrders
<1>3. CASE own # side
  BY <1>1, <1>3, OwedAlike, OwedIsNat
<1>4. CASE own = side
  <2> DEFINE f == Owing(ords, side)
             g == Owing(new, side)
             h == [id \in DOMAIN f |-> IF id \in DOMAIN got THEN got[id] ELSE 0]
  <2>0. IsOwing(f, ords, side) /\ IsOwing(g, new, side)
    BY OwingIs
  <2>2. DOMAIN h = DOMAIN f /\ \A id \in DOMAIN f : h[id] = IF id \in DOMAIN got THEN got[id] ELSE 0
    OBVIOUS
  <2> HIDE DEF f, g, h
  <2>1. /\ Summable(f) /\ DOMAIN f = {i \in DOMAIN ords : ords[i].side = side}
        /\ \A id \in DOMAIN f : f[id] = Due(ords[id])
        /\ Summable(g) /\ DOMAIN g = {i \in DOMAIN new : new[i].side = side}
        /\ \A id \in DOMAIN g : g[id] = Due(new[id])
    BY <2>0 DEF IsOwing
  <2>9. Total(f) \in Nat /\ Total(g) \in Nat
    BY <2>1, SumIsNat
  <2>3. DOMAIN g = DOMAIN f /\ DOMAIN got \subseteq DOMAIN f
    BY <1>4, <2>1
  <2>4. Summable(h)
    BY <1>2, <2>1, <2>2 DEF Summable
  <2>5. \A id \in DOMAIN f : f[id] = g[id] + h[id]
    <3>1. ASSUME NEW id \in DOMAIN f
          PROVE  f[id] = g[id] + h[id]
      BY <1>2, <2>1, <2>2, <2>3, <1>1 DEF Summable
    <3>. QED  BY <3>1
  <2>6. Total(f) = Total(g) + Total(h)
    BY <2>1, <2>2, <2>3, <2>4, <2>5, SumOfBoth
  <2>7. Total(h) = Total(got)
    <3> DEFINE A == DOMAIN got
               B == DOMAIN f \ DOMAIN got
               ha == [x \in A |-> h[x]]
               hb == [x \in B |-> h[x]]
    <3>1. DOMAIN h = A \cup B /\ A \cap B = {}
      BY <2>2, <2>3
    <3>2. Summable(ha) /\ Summable(hb) /\ Total(h) = Total(ha) + Total(hb)
      <4> HIDE DEF A, B
      <4>. QED  BY <2>4, <3>1, SumInParts
    <3>3. \A x \in DOMAIN hb : hb[x] = 0
      BY <2>2
    <3>4. Total(hb) = 0
      <4> HIDE DEF hb
      <4>. QED  BY <3>2, <3>3, SumOfZeros
    <3>5. Total(ha) = Total(got)
      <4>1. DOMAIN ha = DOMAIN got /\ \A x \in DOMAIN got : ha[x] = got[x]
        BY <2>2, <2>3
      <4> HIDE DEF ha
      <4>2. \A x \in DOMAIN got : ha[x] \in Nat /\ got[x] \in Nat /\ ha[x] <= got[x] /\ got[x] <= ha[x]
        BY <4>1 DEF Summable
      <4>3. Total(ha) <= Total(got) /\ Total(got) <= Total(ha)
        BY <3>2, <4>1, <4>2, SumAtMost
      <4>4. Total(ha) \in Nat /\ Total(got) \in Nat
        BY <3>2, SumIsNat
      <4>. QED  BY <4>3, <4>4
    <3>6. Total(ha) \in Nat
      BY <3>2, SumIsNat
    <3>. QED  BY <3>2, <3>4, <3>5, <3>6
  <2>8. Total(h) \in Nat
    BY <2>4, SumIsNat
  <2>10. Total(g) = Total(f) - Total(got)
    BY <2>6, <2>7, <2>8, <2>9
  <2>. QED  BY <1>4, <2>10 DEF f, g, Owed
<1>. QED  BY <1>3, <1>4

-----------------------------------------------------------------------------
(* One path at a time, whose syncs succeed, and orders that fill whole:    *)
(* what the portfolio snapshot shows is then as far from the broker's      *)
(* holding as orders have filled that are not booked, and no further.      *)

Punctual == Faults \cap {"overlap", "syncFails", "latePartial"} = {}

(* No other path is at work. *)
Lone(t) == \A u \in Paths \ {t} : AtRest(u)

Seen(p) ==
    \/ p.pc \in {"idle", "resting", "cancel", "cancelled", "measure", "adopt", "reconcile"}
    \/ p.pc = "submit" /\ DOMAIN p.got = {}
Reading(p) == p.pc \in {"apply", "adopt"}

(* What is confirmed and about to be booked. *)
Bought(p) == IF Asking(p) /\ p.side = "buy" THEN Confirmed(p) ELSE 0
Sold(p) == IF Asking(p) /\ p.side = "sell" THEN Confirmed(p) ELSE 0

Handled(p) == Watching(p) /\ p.pc \notin {"idle", "resting"}

(* The shares a record may show: the broker's, those whose sale it has not *)
(* heard of, and those the operator sold.                                  *)
Shares(rl, ords, bh) == rl + Owed(ords, "sell") + bh

(* q is a holding somebody has read and may decide on. *)
Near(q, ords, rl, op, bh) ==
    /\ q <= Shares(rl, ords, bh)
    /\ q >= 0 => rl + Owed(ords, "sell") >= 0
    /\ Calm => /\ op <= q + Owed(ords, "sell") + bh
               /\ q <= op + Owed(ords, "buy") /\ rl <= q + Owed(ords, "buy")

(* The one path at work is in the middle of p. *)
Sound(p, ords, rl, hd, op, bh) ==
    /\ Seen(p) => Near(hd, ords, rl, op, bh)
    /\ Reading(p) => Near(p.base, ords, rl, op, bh)
    /\ p.pc = "adopt" => p.base = hd
    /\ op + Bought(p) <= Shares(rl, ords, bh)
    /\ Asking(p) /\ p.side = "sell" => Confirmed(p) + Rest(p.clips) <= Shares(rl, ords, bh)
    /\ Calm => rl + Sold(p) <= op + Owed(ords, "buy")
    /\ Handled(p) => \A id \in DOMAIN p.got :
          (p.pc = "cancel" /\ ords[id].left = 0) \/ ords[id].filled = ords[id].booked

(* What has filled of an order is in the record, or about to be. *)
Backed(p, id, ords) ==
    \/ ords[id].filled = ords[id].booked
    \/ Asking(p) /\ id \in DOMAIN p.got /\ p.got[id] = ords[id].filled

Tidy(p, ords, ps) ==
    \A w \in Paths : ps[w].pc = "resting" =>
        \A id \in DOMAIN ps[w].got : ords[id].left > 0 => Backed(p, id, ords)

PunctualInv ==
    Punctual => \A t \in Paths : Lone(t) => /\ Sound(path[t], orders, real, held, open, byHand)
                                            /\ Tidy(path[t], orders, path)

LEMMA PunctualIs == Punctual => Serial /\ Apart
BY DEF Punctual, Serial, Apart

LEMMA LoneIf ==
    ASSUME ApartInv, Punctual, NEW t \in Paths, ~AtRest(t) \/ Quiet
    PROVE  Lone(t)
BY PunctualIs DEF ApartInv, OneAtATime, Lone, Quiet, Serial

LEMMA SomeLone ==
    ASSUME ApartInv, Punctual
    PROVE  \E t \in Paths : Lone(t)
<1>1. CASE \E t \in Paths : ~AtRest(t)
  BY <1>1, LoneIf
<1>2. CASE \A t \in Paths : AtRest(t)
  BY <1>2, PathsAre DEF Lone
<1>. QED  BY <1>1, <1>2

LEMMA GoodAfter ==
    ASSUME Base', setting' = setting, NEW t \in Paths
    PROVE  Good(t, path'[t], orders')
BY DEF Base, Paths, Good, Fits, Roles, Meant, Sized, Confirmed, Asked, Asking, Watching, Late, Single,
       Execution, Lister, Fields, IsPath

(* A path at rest has no say in it. *)
LEMMA SoundAtRest ==
    ASSUME NEW p, NEW q, p.pc \in {"idle", "resting"}, q.pc \in {"idle", "resting"},
           NEW ords, NEW rl, NEW hd, NEW op, NEW bh, Sound(p, ords, rl, hd, op, bh)
    PROVE  Sound(q, ords, rl, hd, op, bh)
BY DEF Sound, Seen, Reading, Bought, Sold, Asking, Handled

LEMMA PunctualStep ==
    ASSUME setting' = setting, NEW t \in Paths,
           \A u \in Paths \ {t} : path'[u].pc \in {"idle", "resting"},
           Punctual => /\ Sound(path'[t], orders', real', held', open', byHand')
                       /\ Tidy(path'[t], orders', path')
    PROVE  PunctualInv'
<1>1. (Punctual' <=> Punctual) /\ Paths' = Paths /\ (Calm' <=> Calm)
  BY DEF Punctual, Calm, Faults, Paths
<1>2. ASSUME Punctual, NEW u \in Paths, u # t => path'[t].pc \in {"idle", "resting"}
      PROVE  /\ Sound(path'[u], orders', real', held', open', byHand')
             /\ Tidy(path'[u], orders', path')
  BY <1>2, SoundAtRest DEF Asking, Tidy, Backed
<1>3. ASSUME Punctual, NEW u \in Paths, Lone(u)'
      PROVE  u # t => path'[t].pc \in {"idle", "resting"}
  BY <1>1, <1>3 DEF Lone, AtRest
<1>4. ASSUME NEW u \in Paths, Sound(path'[u], orders', real', held', open', byHand'),
             Tidy(path'[u], orders', path')
      PROVE  Sound(path[u], orders, real, held, open, byHand)' /\ Tidy(path[u], orders, path)'
  BY <1>1, <1>4 DEF Sound, Near, Tidy, Paths
<1>. QED  BY <1>1, <1>2, <1>3, <1>4 DEF PunctualInv

(* A step of one path. *)
LEMMA PunctualMove ==
    ASSUME ApartInv, PunctualInv, setting' = setting, NEW t, Moves(t), ~AtRest(t) \/ Quiet,
           Lone(t) /\ Punctual /\ Sound(path[t], orders, real, held, open, byHand)
                   /\ Tidy(path[t], orders, path)
             => /\ Sound(path'[t], orders', real', held', open', byHand')
                /\ Tidy(path'[t], orders', path')
    PROVE  PunctualInv'
<1>1. t \in Paths
  BY DEF Moves
<1>2. CASE ~Punctual
  BY <1>2 DEF PunctualInv, Punctual, Faults
<1>3. CASE Punctual
  BY <1>1, <1>3, LoneIf, PunctualStep DEF Moves, Others, Lone, AtRest, PunctualInv
<1>. QED  BY <1>2, <1>3

LEMMA TidyMove ==
    ASSUME Base, Base', OrdersKept, NEW t, Moves(t), Tidy(path[t], orders, path),
           path'[t].pc # "resting" \/ path'[t] = path[t],
           \A id \in Ids : orders'[id].left > 0 /\ Backed(path[t], id, orders)
                             => Backed(path'[t], id, orders')
    PROVE  Tidy(path'[t], orders', path')
<1>1. OrdersTyped /\ OrdersTyped'
  <2>1. Typed /\ Typed'
    BY DEF Base
  <2>. QED  BY <2>1, OrdersAreTyped, PTL
<1>2. ASSUME NEW w \in Paths, path'[w].pc = "resting", NEW id \in DOMAIN path'[w].got,
             orders'[id].left > 0
      PROVE  Backed(path'[t], id, orders')
  <2>1. path'[w] = path[w]
    BY <1>2 DEF Moves, Others
  <2>2. id \in Ids
    BY <1>2, <2>1, HandlesAre DEF Handles
  <2>3. orders[id].left \in Nat /\ orders'[id].left \in Nat /\ orders'[id].left <= orders[id].left
    BY <1>1, <2>2 DEF OrdersTyped, OrdersKept
  <2>4. orders[id].left > 0
    BY <1>2, <2>3
  <2>5. Backed(path[t], id, orders)
    BY <1>2, <2>1, <2>4 DEF Tidy
  <2>. QED  BY <1>2, <2>2, <2>5
<1>. QED  BY <1>2 DEF Tidy

(* No order has filled or was booked, and the path goes on asking. *)
FillsStill ==
    \A id \in Ids : orders'[id].filled = orders[id].filled /\ orders'[id].booked = orders[id].booked

LEMMA TidyStill ==
    ASSUME Base, Base', OrdersKept, FillsStill, NEW t, Moves(t), Tidy(path[t], orders, path),
           path'[t].pc # "resting" \/ path'[t] = path[t],
           \/ ~Asking(path[t]) \/ DOMAIN path[t].got = {}
           \/ Asking(path'[t]) /\ path'[t].got = path[t].got
    PROVE  Tidy(path'[t], orders', path')
<1>1. \A id \in Ids : Backed(path[t], id, orders) => Backed(path'[t], id, orders')
  BY DEF Backed, FillsStill
<1>. QED  BY <1>1, TidyMove

LEMMA NothingFills ==
    ASSUME Base, orders' = orders
    PROVE  OrdersKept /\ FillsStill
BY Kept DEF Base, FillsStill

LEMMA OwedAre ==
    ASSUME Base
    PROVE  AreOrders(orders) /\ Owed(orders, "buy") \in Nat /\ Owed(orders, "sell") \in Nat
BY TheyAreOrders, OwedIsNat DEF Base

LEMMA StateIs ==
    ASSUME Base
    PROVE  /\ real \in Int /\ held \in Int /\ open \in Nat /\ byHand \in Nat
           /\ \A t \in Paths : Confirmed(path[t]) \in Nat /\ Rest(path[t].clips) \in Nat
BY BaseParts, FitsParts DEF Base, Typed

LEMMA Freed ==
    ASSUME Base, NEW t \in Paths, Sound(path[t], orders, real, held, open, byHand)
    PROVE  /\ open <= Shares(real, orders, byHand) /\ Shares(real, orders, byHand) \in Int
           /\ Calm => real <= open + Owed(orders, "buy")
<1>1. Owed(orders, "buy") \in Nat /\ Owed(orders, "sell") \in Nat
  BY OwedAre
<1>2. real \in Int /\ open \in Nat /\ byHand \in Nat /\ Confirmed(path[t]) \in Nat
  BY StateIs
<1>3. Bought(path[t]) \in Nat /\ Sold(path[t]) \in Nat
  BY <1>2 DEF Bought, Sold
<1> DEFINE shares == Shares(real, orders, byHand)
           owed == Owed(orders, "buy")
<1>4. shares \in Int /\ owed \in Nat
  BY <1>1, <1>2 DEF Shares
<1>5. open + Bought(path[t]) <= shares /\ (Calm => real + Sold(path[t]) <= open + owed)
  BY DEF Sound
<1> HIDE DEF shares, owed
<1>6. open <= shares /\ (Calm => real <= open + owed)
  BY <1>2, <1>3, <1>4, <1>5
<1>. QED  BY <1>4, <1>6 DEF shares, owed

(* What the broker holds now is near enough. *)
LEMMA NearReal ==
    ASSUME Base, NEW t \in Paths, Sound(path[t], orders, real, held, open, byHand)
    PROVE  Near(real, orders, real, open, byHand)
<1> DEFINE sells == Owed(orders, "sell")
           buys == Owed(orders, "buy")
<1>1. /\ real \in Int /\ open \in Nat /\ byHand \in Nat /\ sells \in Nat /\ buys \in Nat
      /\ open <= real + sells + byHand /\ (Calm => real <= open + buys)
  BY StateIs, OwedAre, Freed DEF Shares
<1> HIDE DEF sells, buys
<1>2. /\ real <= real + sells + byHand /\ (real >= 0 => real + sells >= 0)
      /\ Calm => open <= real + sells + byHand /\ real <= open + buys /\ real <= real + buys
  BY <1>1
<1>. QED  BY <1>2 DEF Near, Shares, sells, buys

(* A path that asks for nothing. *)
LEMMA SoundPlain ==
    ASSUME NEW q, ~Asking(q), NEW ords, NEW rl \in Int, NEW hd, NEW op \in Int, NEW bh,
           Seen(q) => Near(hd, ords, rl, op, bh),
           Reading(q) => Near(q.base, ords, rl, op, bh) /\ (q.pc = "adopt" => q.base = hd),
           op <= Shares(rl, ords, bh), Calm => rl <= op + Owed(ords, "buy"),
           Handled(q) => \A id \in DOMAIN q.got : ords[id].filled = ords[id].booked
    PROVE  Sound(q, ords, rl, hd, op, bh)
<1>1. op + Bought(q) = op /\ rl + Sold(q) = rl
  BY DEF Bought, Sold
<1>. QED  BY <1>1 DEF Sound, Reading

(* A path that has decided on an order: it knows what there is. *)
LEMMA SoundBegun ==
    ASSUME NEW q, NEW kind, NEW side, NEW clips, NEW base \in Int, NEW ords, NEW rl \in Int,
           NEW op \in Int, NEW bh,
           Fields(q, "submit", kind, side, clips, base, <<>>, {}, FALSE, "idle"), Sized(q),
           Near(base, ords, rl, op, bh),
           Rest(clips) \in Nat, Owed(ords, "sell") \in Nat, bh \in Nat,
           op <= Shares(rl, ords, bh), Calm => rl <= op + Owed(ords, "buy")
    PROVE  Sound(q, ords, rl, base, op, bh)
<1>1. q.pc = "submit" /\ q.base = base /\ q.got = <<>> /\ q.clips = clips /\ q.next = "idle"
  BY DEF Fields
<1>2. Confirmed(q) = 0 /\ DOMAIN q.got = {}
  BY <1>1, NoneGot DEF Confirmed
<1>3. op + Bought(q) = op /\ rl + Sold(q) = rl
  BY <1>2 DEF Bought, Sold
<1>4. ASSUME q.side = "sell"
      PROVE  Confirmed(q) + Rest(q.clips) <= Shares(rl, ords, bh)
  <2> DEFINE shares == Shares(rl, ords, bh)
             rest == Rest(q.clips)
  <2>1. shares \in Int /\ base <= shares /\ rest \in Nat
    BY <1>1 DEF Shares, Near
  <2>2. Confirmed(q) + rest <= base
    BY <1>1, <1>4 DEF Sized, Asked, Asking
  <2> HIDE DEF shares, rest
  <2>3. Confirmed(q) + rest <= shares
    BY <1>2, <2>1, <2>2
  <2>. QED  BY <2>3 DEF shares, rest
<1>5. ~Handled(q) /\ ~Reading(q)
  BY <1>1 DEF Handled, Watching, Reading
<1>. QED  BY <1>1, <1>3, <1>4, <1>5 DEF Sound

(* What the paths do between the broker's answers: *)
(* a path that asks for nothing goes on to something that asks for nothing; *)
LEMMA PunctualPlain ==
    ASSUME Base, ApartInv, PunctualInv, Base',
           UNCHANGED <<setting, real, orders, held, open, byHand>>, NEW t, Moves(t), ~AtRest(t) \/ Quiet,
           ~Asking(path[t]) \/ DOMAIN path[t].got = {}, ~Asking(path'[t]),
           path'[t].pc # "resting", Seen(path'[t]) => Seen(path[t]),
           Reading(path'[t]) => \/ path'[t].pc = "apply" /\ path'[t].base = real
                                \/ Seen(path[t]) /\ path'[t].base = held,
           Handled(path'[t]) => /\ path'[t].got = path[t].got /\ ~Asking(path[t])
                                /\ \/ Handled(path[t]) /\ path[t].pc # "cancel"
                                   \/ /\ path[t].pc = "resting"
                                      /\ \A id \in Handles(t) : orders[id].left > 0
    PROVE  PunctualInv'
<1> SUFFICES ASSUME Sound(path[t], orders, real, held, open, byHand), Tidy(path[t], orders, path)
             PROVE  /\ Sound(path'[t], orders', real', held', open', byHand')
                    /\ Tidy(path'[t], orders', path')
  BY PunctualMove
<1>1. t \in Paths
  BY DEF Moves
<1>2. Tidy(path'[t], orders', path')
  BY NothingFills, TidyStill
<1>3. open <= Shares(real, orders, byHand) /\ (Calm => real <= open + Owed(orders, "buy"))
  BY <1>1, Freed
<1>4. ASSUME Handled(path'[t]), NEW id \in DOMAIN path'[t].got
      PROVE  orders[id].filled = orders[id].booked
  BY <1>4, <1>1 DEF Sound, Tidy, Backed, Handles
<1>5. /\ Seen(path'[t]) => Near(held, orders, real, open, byHand)
      /\ Reading(path'[t]) => Near(path'[t].base, orders, real, open, byHand)
      /\ path'[t].pc = "adopt" => path'[t].base = held
  BY <1>1, NearReal DEF Sound, Reading
<1>6. real \in Int /\ open \in Int
  BY StateIs
<1>7. Sound(path'[t], orders, real, held, open, byHand)
  BY <1>3, <1>4, <1>5, <1>6, SoundPlain
<1>. QED  BY <1>2, <1>7

(* a path decides on an order;                                             *)
LEMMA PunctualBegun ==
    ASSUME Base, ApartInv, PunctualInv, Base',
           UNCHANGED <<setting, real, orders, held, open, byHand>>, NEW t, Moves(t), ~AtRest(t) \/ Quiet,
           ~Asking(path[t]), Seen(path[t]), NEW kind, NEW side, NEW clips,
           Fields(path'[t], "submit", kind, side, clips, held, <<>>, {}, FALSE, "idle")
    PROVE  PunctualInv'
<1> SUFFICES ASSUME Sound(path[t], orders, real, held, open, byHand), Tidy(path[t], orders, path)
             PROVE  /\ Sound(path'[t], orders', real', held', open', byHand')
                    /\ Tidy(path'[t], orders', path')
  BY PunctualMove
<1>1. t \in Paths /\ path'[t].pc = "submit" /\ path'[t].clips = clips
  BY DEF Moves, Fields
<1>2. Tidy(path'[t], orders', path')
  BY <1>1, NothingFills, TidyStill
<1>3. open <= Shares(real, orders, byHand) /\ (Calm => real <= open + Owed(orders, "buy"))
  BY <1>1, Freed
<1>4. Sized(path'[t]) /\ Rest(clips) \in Nat
  BY <1>1, GoodAfter, FitsParts DEF Good
<1>5. real \in Int /\ held \in Int /\ open \in Int /\ byHand \in Nat /\ Owed(orders, "sell") \in Nat
      /\ Near(held, orders, real, open, byHand)
  BY StateIs, OwedAre DEF Sound
<1>6. Sound(path'[t], orders, real, held, open, byHand)
  BY <1>3, <1>4, <1>5, SoundBegun
<1>. QED  BY <1>2, <1>6

(* a path goes on asking.                                                  *)
LEMMA PunctualAsks ==
    ASSUME Base, ApartInv, PunctualInv, Base', setting' = setting, held' = held, open' = open,
           byHand' = byHand, real' = real, OrdersKept, FillsStill,
           Owed(orders', "buy") = Owed(orders, "buy"), Owed(orders', "sell") = Owed(orders, "sell"),
           NEW t, Moves(t), Asking(path[t]), path'[t].pc \in {"settle", "book"},
           path'[t].side = path[t].side, path'[t].got = path[t].got, path'[t].next = "idle",
           Rest(path'[t].clips) = 0 \/ path'[t].clips = path[t].clips
    PROVE  PunctualInv'
<1> SUFFICES ASSUME Sound(path[t], orders, real, held, open, byHand), Tidy(path[t], orders, path)
             PROVE  /\ Sound(path'[t], orders', real', held', open', byHand')
                    /\ Tidy(path'[t], orders', path')
  BY PunctualMove DEF Asking, AtRest
<1>1. t \in Paths /\ Asking(path'[t])
  BY DEF Moves, Asking
<1>2. Tidy(path'[t], orders', path')
  BY <1>1, TidyStill
<1>3. Confirmed(path'[t]) = Confirmed(path[t]) /\ Confirmed(path[t]) \in Nat
      /\ Rest(path[t].clips) \in Nat /\ Rest(path'[t].clips) <= Rest(path[t].clips)
  BY <1>1, StateIs DEF Confirmed
<1>4. Bought(path'[t]) = Bought(path[t]) /\ Sold(path'[t]) = Sold(path[t])
  BY <1>1, <1>3 DEF Bought, Sold
<1>5. Shares(real', orders', byHand') = Shares(real, orders, byHand)
  BY DEF Shares
<1>6. ~Seen(path'[t]) /\ ~Reading(path'[t]) /\ ~Handled(path'[t])
  BY <1>1 DEF Seen, Reading, Handled, Watching
<1>7. ASSUME path'[t].side = "sell"
      PROVE  Confirmed(path'[t]) + Rest(path'[t].clips) <= Shares(real, orders, byHand)
  BY <1>1, <1>7, Freed, <1>3 DEF Sound
<1>8. /\ open' + Bought(path'[t]) <= Shares(real', orders', byHand')
      /\ Calm => real' + Sold(path'[t]) <= open' + Owed(orders', "buy")
  BY <1>4, <1>5 DEF Sound
<1>9. Sound(path'[t], orders', real', held', open', byHand')
  BY <1>5, <1>6, <1>7, <1>8 DEF Sound, Reading
<1>. QED  BY <1>2, <1>9

LEMMA Stays ==
    ASSUME UNCHANGED <<setting, venue, held, book, claims, ghosts>>
    PROVE  UNCHANGED <<setting, real, orders, held, open, guard, untracked, unknown, reserved,
                       givenUp, byHand>>
BY DEF venue, book, claims, ghosts

LEMMA PunctualBegin ==
    ASSUME Base, ApartInv, PunctualInv, Base', StillTyped, NEW t \in Paths, Idle(t), Quiet,
           NEW kind, NEW side, NEW clips, Begin(t, kind, side, clips)
    PROVE  PunctualInv'
<1>1. Moves(t) /\ Fields(path'[t], "submit", kind, side, clips, held, <<>>, {}, FALSE, "idle")
  BY Begun DEF Base
<1>2. ~Asking(path[t]) /\ Seen(path[t])
  BY DEF Idle, Asking, Seen
<1>. QED  BY <1>1, <1>2, Stays, PunctualBegun DEF StillTyped

LEMMA PunctualOrders ==
    ASSUME Base, ApartInv, PunctualInv, Base',
           \/ ActSell
           \/ \E qty \in 1..MaxQty :
                 ActBuy(qty) \/ Exit(qty) \/ \E side \in {"buy", "sell"} : Manual(side, qty)
    PROVE  PunctualInv'
<1>1. Loop \in Paths /\ Operator \in Paths
  BY PathsAre
<1>2. ASSUME NEW qty \in 1..MaxQty, ActBuy(qty) \/ Exit(qty)
      PROVE  PunctualInv'
  BY <1>2, <1>1, PunctualBegin DEF ActBuy, Exit, StillTyped
<1>3. ASSUME NEW qty \in 1..MaxQty, NEW side \in {"buy", "sell"}, Manual(side, qty)
      PROVE  PunctualInv'
  BY <1>3, <1>1, PunctualBegin DEF Manual, StillTyped
<1>4. CASE ActSell
  BY <1>4, <1>1, PunctualBegin DEF ActSell, StillTyped
<1>. QED  BY <1>2, <1>3, <1>4

LEMMA NoPathAsks ==
    ~Asking(NoPath) /\ ~Handled(NoPath) /\ ~Reading(NoPath) /\ Seen(NoPath) /\ NoPath.pc = "idle"
BY NoPathIs DEF Fields, Asking, Handled, Watching, Reading, Seen

(* A path ends that has seen all there is. *)
LEMMA PunctualEnds ==
    ASSUME Base, ApartInv, PunctualInv, Base',
           UNCHANGED <<setting, real, orders, held, open, byHand>>, NEW t \in Paths,
           ~AtRest(t) \/ Quiet, ~Asking(path[t]) \/ DOMAIN path[t].got = {}, Seen(path[t]),
           path' = [path EXCEPT ![t] = NoPath]
    PROVE  PunctualInv'
BY PathEnds, NoPathAsks, PunctualPlain DEF Base

LEMMA BaseHasOrders == Base => AreOrders(orders)
BY OwedAre

LEMMA OwedAreNext ==
    ASSUME Base'
    PROVE  AreOrders(orders') /\ Owed(orders', "buy") \in Nat /\ Owed(orders', "sell") \in Nat
<1>1. AreOrders(orders)'
  BY BaseHasOrders, PTL
<1>2. AreOrders(orders')
  BY <1>1 DEF AreOrders
<1>. QED  BY <1>2, OwedIsNat

(* What the broker has taken and not filled leaves everything as it was. *)
LEMMA TakenUnfilled ==
    ASSUME Base, Base', NEW t \in Paths, NEW left \in Nat, Takes(t, 0, left), path[t].pc = "submit",
           Len(orders) < MaxOrders
    PROVE  /\ OrdersKept /\ FillsStill /\ real' = real
           /\ \A side \in Sides : Owed(orders', side) = Owed(orders, side)
<1>1. Typed /\ path[t].side \in Sides /\ 0 \in Nat
  BY BaseParts DEF Roles, Asked, Asking
<1>2. /\ Ids' = Ids \cup {NextId} /\ NextId \notin Ids
      /\ orders'[NextId].filled = 0 /\ orders'[NextId].booked = 0
      /\ \A id \in Ids : orders'[id] = orders[id]
      /\ OrdersKept
      /\ real' = IF path[t].side = "buy" THEN real + 0 ELSE real - 0
  BY <1>1, Taken
<1>3. real' = real
  BY <1>1, <1>2 DEF Typed
<1>4. AreOrders(orders) /\ AreOrders(orders')
  BY OwedAre, OwedAreNext
<1>5. ASSUME NEW side \in Sides
      PROVE  Owed(orders', side) = Owed(orders, side)
  BY <1>2, <1>4, OwedTaken, OwedIsNat DEF Ids
<1>. QED  BY <1>2, <1>3, <1>5 DEF FillsStill

LEMMA PunctualGivesUp ==
    ASSUME Base, ApartInv, PunctualInv, Base', setting' = setting, held' = held, open' = open,
           byHand' = byHand, real' = real, OrdersKept, FillsStill,
           Owed(orders', "buy") = Owed(orders, "buy"), Owed(orders', "sell") = Owed(orders, "sell"),
           NEW t \in Paths, path[t].pc = "submit", GivesUp(t)
    PROVE  PunctualInv'
<1>1. Moves(t)
      /\ LET p == path[t]
         IN  IF DOMAIN p.got = {} THEN path'[t] = NoPath
             ELSE Fields(path'[t], "settle", p.kind, p.side, <<>>, p.base, p.got, p.bad, p.resting,
                         p.next)
  BY PlanGivenUp DEF Base
<1>2. Asking(path[t]) /\ path[t].next = "idle" /\ ~AtRest(t)
  BY BaseParts, FitsParts DEF Roles, Asking, AtRest
<1>3. CASE DOMAIN path[t].got # {}
  BY <1>1, <1>2, <1>3, ClippedNone, PunctualAsks DEF Fields
<1>4. CASE DOMAIN path[t].got = {}
  <2> SUFFICES ASSUME Sound(path[t], orders, real, held, open, byHand), Tidy(path[t], orders, path)
               PROVE  /\ Sound(path'[t], orders', real', held', open', byHand')
                      /\ Tidy(path'[t], orders', path')
    BY <1>1, <1>2, PunctualMove
  <2>1. path'[t] = NoPath
    BY <1>1, <1>4
  <2>2. Tidy(path'[t], orders', path')
    BY <1>1, <1>4, <2>1, NoPathAsks, TidyStill
  <2>3. Seen(path[t])
    BY <1>4 DEF Seen
  <2>4. /\ open <= Shares(real, orders, byHand) /\ real \in Int /\ open \in Int
        /\ Calm => real <= open + Owed(orders, "buy")
    BY Freed, StateIs
  <2>5. open' <= Shares(real', orders', byHand') /\ (Calm => real' <= open' + Owed(orders', "buy"))
    BY <2>4 DEF Shares
  <2>6. Near(held', orders', real', open', byHand') /\ real' \in Int /\ open' \in Int
    BY <2>3, <2>4 DEF Sound, Near, Shares
  <2>7. Sound(NoPath, orders', real', held', open', byHand')
    BY <2>5, <2>6, NoPathAsks, SoundPlain
  <2>. QED  BY <2>1, <2>2, <2>7
<1>. QED  BY <1>3, <1>4

LEMMA PunctualSubmitStops ==
    ASSUME Base, ApartInv, PunctualInv, Base', NEW t \in Paths,
           SubmitFails(t) \/ ReplyLost(t) \/ RateRefused(t)
    PROVE  PunctualInv'
<1>1. CASE SubmitFails(t)
  BY <1>1, Stays, NothingFills, PunctualGivesUp DEF SubmitFails
<1>2. CASE ReplyLost(t)
  <2>1. path[t].pc = "submit" /\ GivesUp(t) /\ Takes(t, 0, Head(path[t].clips))
        /\ Len(orders) < MaxOrders /\ setting' = setting /\ held' = held /\ open' = open
        /\ byHand' = byHand
    BY <1>2 DEF ReplyLost, book, ghosts
  <2>2. Head(path[t].clips) \in Nat
    BY <2>1, HeadIs
  <2> DEFINE left == Head(path[t].clips)
  <2>3. Takes(t, 0, left) /\ left \in Nat
    BY <2>1, <2>2
  <2> HIDE DEF left
  <2>4. /\ OrdersKept /\ FillsStill /\ real' = real
        /\ \A side \in Sides : Owed(orders', side) = Owed(orders, side)
    BY <2>1, <2>3, TakenUnfilled
  <2>5. Owed(orders', "buy") = Owed(orders, "buy") /\ Owed(orders', "sell") = Owed(orders, "sell")
    BY <2>4 DEF Sides
  <2>. QED  BY <2>1, <2>4, <2>5, PunctualGivesUp
<1>3. CASE RateRefused(t)
  <2>1. path[t].pc = "submit" /\ UNCHANGED <<setting, real, orders, held, open, byHand>>
    BY <1>3, Stays DEF RateRefused
  <2>2. OrdersKept /\ FillsStill
    BY <2>1, NothingFills
  <2>3. Asking(path[t]) /\ path[t].next = "idle"
    BY <2>1, BaseParts, FitsParts DEF Roles, Asking
  <2>4. Moves(t) /\ path'[t].pc = "settle" /\ path'[t].side = path[t].side
        /\ path'[t].got = path[t].got /\ path'[t].next = "idle" /\ path'[t].clips = <<>>
    BY <1>3, <2>3, CutShort DEF Base, Fields
  <2>5. Rest(path'[t].clips) = 0
    BY <2>4, ClippedNone
  <2>. QED  BY <2>1, <2>2, <2>3, <2>4, <2>5, PunctualAsks
<1>. QED  BY <1>1, <1>2, <1>3

LEMMA PunctualSettle ==
    ASSUME Base, ApartInv, PunctualInv, Base', NEW t \in Paths, Settle(t)
    PROVE  PunctualInv'
<1> DEFINE pc == IF Confirmed(path[t]) > 0 THEN "book" ELSE "sync"
<1>1. path[t].pc = "settle" /\ Goto(t, pc) /\ UNCHANGED <<setting, real, orders, held, open, byHand>>
  BY DEF Settle, venue, ghosts
<1>2. pc = "book" \/ (pc = "sync" /\ ~(Confirmed(path[t]) > 0))
  OBVIOUS
<1>3. Asking(path[t]) /\ ~AtRest(t) /\ path[t].next = "idle"
  BY <1>1, BaseParts, FitsParts DEF Asking, AtRest, Roles
<1> HIDE DEF pc
<1>4. Moves(t) /\ path'[t].pc = pc /\ path'[t].got = path[t].got /\ path'[t].next = "idle"
      /\ path'[t].side = path[t].side /\ path'[t].clips = path[t].clips
  BY <1>1, <1>3, Moved DEF Base, Fields
<1>5. OrdersKept /\ FillsStill
  BY <1>1, NothingFills
<1>6. CASE pc = "book"
  BY <1>1, <1>3, <1>4, <1>5, <1>6, PunctualAsks
<1>7. CASE pc = "sync" /\ ~(Confirmed(path[t]) > 0)
  <2> SUFFICES ASSUME Sound(path[t], orders, real, held, open, byHand), Tidy(path[t], orders, path), Punctual
               PROVE  /\ Sound(path'[t], orders', real', held', open', byHand')
                      /\ Tidy(path'[t], orders', path')
    BY <1>1, <1>3, <1>4, PunctualMove
  <2>1. Summable(path[t].got) /\ Confirmed(path[t]) \in Nat
    BY BaseParts, FitsParts
  <2>2. \A id \in Handles(t) : path[t].got[id] = 0
    BY <1>7, <2>1, SumOfZeros DEF Confirmed, Handles
  <2>3. \A id \in Handles(t) : orders[id].booked = 0
    BY <1>3, PunctualIs DEF ApartInv, AllTold, Told, Handles
  <2>4. \A id \in Ids : Backed(path[t], id, orders) => Backed(path'[t], id, orders')
    BY <1>1, <2>2, <2>3 DEF Backed, Handles
  <2>5. Tidy(path'[t], orders', path')
    BY <1>4, <1>5, <1>7, <2>4, TidyMove
  <2>6. ~Asking(path'[t]) /\ ~Seen(path'[t]) /\ ~Reading(path'[t]) /\ ~Handled(path'[t])
    BY <1>4, <1>7 DEF Asking, Seen, Reading, Handled, Watching
  <2>7. Sound(path'[t], orders, real, held, open, byHand)
    BY <2>6, Freed, StateIs, SoundPlain
  <2>. QED  BY <1>1, <2>5, <2>7
<1>. QED  BY <1>2, <1>6, <1>7

LEMMA SoundAnswered ==
    ASSUME Base, Base', NEW t \in Paths, NEW fill \in Nat, NEW left \in Nat, path[t].pc = "submit",
           Len(orders) < MaxOrders, Takes(t, fill, left), fill <= Head(path[t].clips), NEW q,
           NEW bad, NEW resting,
           LET p == path[t]
           IN  Fields(q, IF Len(p.clips) > 1 THEN "submit" ELSE "settle", p.kind, p.side,
                      Tail(p.clips), p.base, Noting(p.got, NextId, fill), bad, resting, p.next),
           Sound(path[t], orders, real, held, open, byHand)
    PROVE  /\ Sound(q, orders', real', held, open, byHand)
           /\ \A id \in Ids : Backed(path[t], id, orders) => Backed(q, id, orders')
           /\ Backed(q, NextId, orders')
<1> DEFINE p == path[t]
<1>1. Typed /\ p.side \in Sides /\ Asking(p) /\ p.next = "idle" /\ Summable(p.got) /\ Clipped(p.clips)
      /\ DOMAIN p.got \subseteq Ids /\ Confirmed(p) \in Nat /\ Len(p.clips) > 0
  BY BaseParts, FitsParts DEF Roles, Asked, Asking
<1>2. /\ Ids' = Ids \cup {NextId} /\ NextId \notin Ids
      /\ orders'[NextId].side = p.side /\ orders'[NextId].filled = fill
      /\ orders'[NextId].booked = 0
      /\ \A id \in Ids : orders'[id] = orders[id]
      /\ real' = IF p.side = "buy" THEN real + fill ELSE real - fill
  BY <1>1, Taken
<1>3. /\ q.pc \in {"submit", "settle"} /\ q.side = p.side /\ q.clips = Tail(p.clips)
      /\ q.got = Noting(p.got, NextId, fill) /\ q.next = "idle"
  BY <1>1 DEF Fields
<1>4. /\ DOMAIN q.got = DOMAIN p.got \cup {NextId} /\ q.got[NextId] = fill
      /\ \A i \in DOMAIN p.got : q.got[i] = p.got[i]
      /\ Confirmed(q) = Confirmed(p) + fill
  <2>1. q.got = Noting(p.got, NextId, fill) /\ NextId \notin DOMAIN p.got
    BY <1>1, <1>2, <1>3
  <2> HIDE DEF p
  <2>2. Adds(Noting(p.got, NextId, fill), p.got, NextId, fill)
    BY <1>1, <2>1, NotedIs
  <2>3. Adds(q.got, p.got, NextId, fill)
    BY <2>1, <2>2
  <2>. QED  BY <2>3 DEF Adds, Confirmed
<1>5. Rest(p.clips) = Head(p.clips) + Rest(q.clips) /\ Rest(q.clips) \in Nat /\ Head(p.clips) \in Nat
  BY <1>1, <1>3, ClippedTail
<1>6. Asking(q) /\ ~Seen(q) /\ ~Reading(q) /\ ~Handled(q)
  BY <1>3, <1>4 DEF Asking, Seen, Reading, Handled, Watching
<1>7. AreOrders(orders) /\ AreOrders(orders')
  BY OwedAre, OwedAreNext
<1>8. \A side \in Sides : Owed(orders', side) = Owed(orders, side) + (IF p.side = side THEN fill ELSE 0)
  <2>1. ASSUME NEW side \in Sides
        PROVE  Owed(orders', side) = Owed(orders, side) + (IF orders'[NextId].side = side THEN orders'[NextId].filled ELSE 0)
    BY <1>2, <1>7, OwedTaken DEF Ids
  <2>. QED  BY <1>2, <2>1
<1>9. fill <= Head(p.clips) /\ Sound(p, orders, real, held, open, byHand)
  OBVIOUS
<1>10. real \in Int /\ open \in Nat /\ byHand \in Nat /\ Owed(orders, "buy") \in Nat
       /\ Owed(orders, "sell") \in Nat
  BY StateIs, OwedAre
<1> HIDE DEF p
<1>11. Sound(q, orders', real', held, open, byHand)
  <2> DEFINE buys == Owed(orders, "buy")
             sells == Owed(orders, "sell")
             cp == Confirmed(p)
  <2>1. CASE p.side = "buy"
    <3>1. Owed(orders', "buy") = buys + fill /\ Owed(orders', "sell") = sells + 0
          /\ real' = real + fill
      BY <1>2, <1>8, <2>1 DEF Sides
    <3>2. Bought(p) = cp /\ Sold(p) = 0 /\ Bought(q) = cp + fill /\ Sold(q) = 0
      BY <1>1, <1>3, <1>4, <1>6, <2>1 DEF Bought, Sold
    <3>3. open + cp <= real + sells + byHand /\ (Calm => real + 0 <= open + buys)
      BY <1>9, <3>2 DEF Sound, Shares
    <3>4. cp \in Nat /\ buys \in Nat /\ sells \in Nat
      BY <1>1, <1>10
    <3> HIDE DEF buys, sells, cp
    <3>5. /\ open + (cp + fill) <= (real + fill) + (sells + 0) + byHand
          /\ Calm => (real + fill) + 0 <= open + (buys + fill)
      BY <1>10, <3>3, <3>4
    <3>6. /\ open + Bought(q) <= Shares(real', orders', byHand)
          /\ Calm => real' + Sold(q) <= open + Owed(orders', "buy")
      BY <3>1, <3>2, <3>5 DEF Shares
    <3>. QED  BY <1>3, <1>6, <2>1, <3>6 DEF Sound, Reading
  <2>2. CASE p.side = "sell"
    <3>1. Owed(orders', "buy") = buys + 0 /\ Owed(orders', "sell") = sells + fill
          /\ real' = real - fill
      BY <1>2, <1>8, <2>2 DEF Sides
    <3>2. Bought(p) = 0 /\ Sold(p) = cp /\ Bought(q) = 0 /\ Sold(q) = cp + fill
      BY <1>1, <1>3, <1>4, <1>6, <2>2 DEF Bought, Sold
    <3>3. /\ open + 0 <= real + sells + byHand /\ (Calm => real + cp <= open + buys)
          /\ cp + Rest(p.clips) <= real + sells + byHand
      BY <1>1, <1>9, <2>2, <3>2 DEF Sound, Shares
    <3>4. cp \in Nat /\ buys \in Nat /\ sells \in Nat
      BY <1>1, <1>10
    <3> DEFINE head == Head(p.clips)
               rp == Rest(p.clips)
               rq == Rest(q.clips)
    <3>7. rp = head + rq /\ rq \in Nat /\ head \in Nat /\ fill <= head
      BY <1>5, <1>9
    <3> HIDE DEF buys, sells, cp, head, rp, rq
    <3>8. cp + rp <= real + sells + byHand
      BY <3>3 DEF rp
    <3>5. /\ open + 0 <= (real - fill) + (sells + fill) + byHand
          /\ Calm => (real - fill) + (cp + fill) <= open + (buys + 0)
          /\ (cp + fill) + rq <= (real - fill) + (sells + fill) + byHand
      BY <1>10, <3>3, <3>4, <3>7, <3>8
    <3>6. /\ open + Bought(q) <= Shares(real', orders', byHand)
          /\ Calm => real' + Sold(q) <= open + Owed(orders', "buy")
          /\ Confirmed(q) + Rest(q.clips) <= Shares(real', orders', byHand)
      BY <1>4, <3>1, <3>2, <3>5 DEF Shares, cp, rq
    <3>. QED  BY <1>3, <1>6, <2>2, <3>6 DEF Sound, Reading
  <2>. QED  BY <1>1, <2>1, <2>2 DEF Sides
<1>12. \A id \in Ids : Backed(p, id, orders) => Backed(q, id, orders')
  BY <1>2, <1>4, <1>6 DEF Backed
<1>13. Backed(q, NextId, orders')
  BY <1>2, <1>4, <1>6 DEF Backed
<1>. QED  BY <1>11, <1>12, <1>13 DEF p

LEMMA PunctualSubmits ==
    ASSUME Base, ApartInv, PunctualInv, Base', NEW t \in Paths, SubmitFinal(t) \/ SubmitOpen(t)
    PROVE  PunctualInv'
<1>1. path[t].pc = "submit" /\ Len(orders) < MaxOrders /\ setting' = setting /\ held' = held
      /\ open' = open /\ byHand' = byHand
  BY DEF SubmitFinal, SubmitOpen, book, ghosts
<1>2. Head(path[t].clips) \in Nat /\ ~AtRest(t)
  BY <1>1, HeadIs DEF AtRest
<1>3. \E bad, resting : \E fill \in Nat, left \in Nat :
         /\ Takes(t, fill, left) /\ fill <= Head(path[t].clips) /\ Moves(t)
         /\ LET p == path[t]
            IN  Fields(path'[t], IF Len(p.clips) > 1 THEN "submit" ELSE "settle", p.kind, p.side,
                       Tail(p.clips), p.base, Noting(p.got, NextId, fill), bad, resting, p.next)
  <2>1. CASE SubmitFinal(t)
    <3>1. PICK fill \in 0..Head(path[t].clips) :
            /\ Takes(t, fill, 0) /\ Moves(t)
            /\ LET p == path[t]
               IN  Fields(path'[t], IF Len(p.clips) > 1 THEN "submit" ELSE "settle", p.kind, p.side,
                          Tail(p.clips), p.base, Noting(p.got, NextId, fill), p.bad, p.resting, p.next)
      BY <2>1, Finals DEF Base
    <3>2. fill \in Nat /\ fill <= Head(path[t].clips) /\ 0 \in Nat
      BY <1>2
    <3>. QED  BY <3>1, <3>2
  <2>2. CASE SubmitOpen(t)
    <3>1. PICK fill \in 0..(Head(path[t].clips) - 1) :
            /\ Takes(t, fill, Head(path[t].clips) - fill) /\ Moves(t)
            /\ LET p == path[t]
               IN  Fields(path'[t], IF Len(p.clips) > 1 THEN "submit" ELSE "settle", p.kind, p.side,
                          Tail(p.clips), p.base, Noting(p.got, NextId, fill), p.bad \cup {NextId},
                          p.resting, p.next)
      BY <2>2, Opens DEF Base
    <3>2. fill \in Nat /\ fill <= Head(path[t].clips) /\ Head(path[t].clips) - fill \in Nat
      BY <1>2
    <3>. QED  BY <3>1, <3>2
  <2>. QED  BY <2>1, <2>2
<1>31. PICK bad, resting : \E fill \in Nat, left \in Nat :
         /\ Takes(t, fill, left) /\ fill <= Head(path[t].clips) /\ Moves(t)
         /\ LET p == path[t]
            IN  Fields(path'[t], IF Len(p.clips) > 1 THEN "submit" ELSE "settle", p.kind, p.side,
                       Tail(p.clips), p.base, Noting(p.got, NextId, fill), bad, resting, p.next)
  BY <1>3
<1>4. PICK fill \in Nat, left \in Nat :
         /\ Takes(t, fill, left) /\ fill <= Head(path[t].clips) /\ Moves(t)
         /\ LET p == path[t]
            IN  Fields(path'[t], IF Len(p.clips) > 1 THEN "submit" ELSE "settle", p.kind, p.side,
                       Tail(p.clips), p.base, Noting(p.got, NextId, fill), bad, resting, p.next)
  BY <1>31
<1> SUFFICES ASSUME Sound(path[t], orders, real, held, open, byHand), Tidy(path[t], orders, path)
             PROVE  /\ Sound(path'[t], orders', real', held', open', byHand')
                    /\ Tidy(path'[t], orders', path')
  BY <1>1, <1>2, <1>4, PunctualMove
<1>5. /\ Sound(path'[t], orders', real', held, open, byHand)
      /\ \A id \in Ids : Backed(path[t], id, orders) => Backed(path'[t], id, orders')
  BY <1>1, <1>4, SoundAnswered
<1>6. path'[t].pc # "resting"
  BY <1>4 DEF Fields
<1>7. OrdersKept
  BY <1>1, <1>4, TakesBooked
<1>8. Tidy(path'[t], orders', path')
  BY <1>4, <1>5, <1>6, <1>7, TidyMove
<1>. QED  BY <1>1, <1>5, <1>8

LEMMA PunctualResting ==
    ASSUME Base, ApartInv, PunctualInv, Base', NEW t \in Paths, NEW w \in Watchers, SubmitResting(t, w)
    PROVE  PunctualInv'
<1>1. path[t].pc = "submit" /\ Len(orders) < MaxOrders /\ setting' = setting /\ held' = held
      /\ open' = open /\ byHand' = byHand
  BY DEF SubmitResting, book, ghosts
<1>2. Head(path[t].clips) \in Nat /\ ~AtRest(t) /\ w \in Paths
  BY <1>1, HeadIs, PathsAre DEF AtRest
<1>3. PICK fill \in 0..(Head(path[t].clips) - 1) :
        /\ Takes(t, fill, Head(path[t].clips) - fill)
        /\ t # w /\ \A u \in Paths \ {t, w} : path'[u] = path[u]
        /\ LET p == path[t]
           IN  /\ Fields(path'[t], IF Len(p.clips) > 1 THEN "submit" ELSE "settle", p.kind,
                         p.side, Tail(p.clips), p.base, Noting(p.got, NextId, fill), p.bad,
                         TRUE, p.next)
               /\ path'[w].pc = "resting" /\ path'[w].got = Noting(<<>>, NextId, 0)
  BY Rests DEF Base, Fields
<1>4. fill \in Nat /\ fill <= Head(path[t].clips) /\ Head(path[t].clips) - fill \in Nat
  BY <1>2
<1>5. CASE ~Punctual
  BY <1>1, <1>5 DEF PunctualInv, Punctual, Faults
<1>6. CASE Punctual
  <2>1. Lone(t)
    BY <1>2, <1>6, LoneIf
  <2>2. Sound(path[t], orders, real, held, open, byHand) /\ Tidy(path[t], orders, path)
    BY <1>6, <2>1 DEF PunctualInv
  <2>3. /\ Sound(path'[t], orders', real', held, open, byHand)
        /\ \A id \in Ids : Backed(path[t], id, orders) => Backed(path'[t], id, orders')
        /\ Backed(path'[t], NextId, orders')
    BY <1>1, <1>3, <1>4, <2>2, SoundAnswered
  <2>4. \A u \in Paths \ {t} : path'[u].pc \in {"idle", "resting"}
    BY <1>3, <2>1 DEF Lone, AtRest
  <2>5. path'[t].pc # "resting" /\ DOMAIN path'[w].got = {NextId}
    <3>1. Only(path'[w].got, NextId, 0)
      BY <1>3, NotedFirst
    <3>. QED  BY <1>3, <3>1 DEF Fields, Only
  <2>6. OrdersTyped /\ OrdersTyped'
    <3>1. Typed /\ Typed'
      BY DEF Base
    <3>. QED  BY <3>1, OrdersAreTyped, PTL
  <2>7. OrdersKept
    BY <1>1, <1>3, <1>4, TakesBooked
  <2>8. ASSUME NEW u \in Paths, path'[u].pc = "resting", NEW id \in DOMAIN path'[u].got,
               orders'[id].left > 0
        PROVE  Backed(path'[t], id, orders')
    <3>1. CASE u = w
      BY <2>3, <2>5, <2>8, <3>1
    <3>2. CASE u # w
      <4>1. path'[u] = path[u] /\ id \in Ids
        BY <1>3, <2>5, <2>8, <3>2, HandlesAre DEF Handles
      <4>2. orders[id].left \in Nat /\ orders'[id].left \in Nat /\ orders'[id].left <= orders[id].left
        BY <2>6, <2>7, <4>1 DEF OrdersTyped, OrdersKept
      <4>3. orders[id].left > 0
        BY <2>8, <4>2
      <4>. QED  BY <2>2, <2>3, <2>8, <4>1, <4>3 DEF Tidy
    <3>. QED  BY <3>1, <3>2
  <2>9. Tidy(path'[t], orders', path')
    BY <2>8 DEF Tidy
  <2>. QED  BY <1>1, <2>3, <2>4, <2>9, PunctualStep
<1>. QED  BY <1>5, <1>6

(* What Book does to what is owing. *)
LEMMA OwedAfterBook ==
    ASSUME Base, Base', ApartInv, Apart, NEW t \in Paths, Book(t)
    PROVE  /\ \A id \in Handles(t) : orders[id].booked = 0 /\ orders'[id].booked = path[t].got[id]
           /\ \A side \in Sides : Owed(orders', side) =
                 Owed(orders, side) - (IF path[t].side = side THEN Confirmed(path[t]) ELSE 0)
<1> DEFINE got == path[t].got
           own == path[t].side
<1>1. /\ Asking(path[t]) /\ Ids' = Ids /\ Handles(t) \subseteq Ids
      /\ \A id \in Ids : /\ orders'[id].side = orders[id].side
                         /\ orders'[id].filled = orders[id].filled
                         /\ orders'[id].booked = IF id \in Handles(t)
                                                 THEN orders[id].booked + path[t].got[id]
                                                 ELSE orders[id].booked
      /\ \A id \in Handles(t) : /\ orders[id].side = path[t].side /\ path[t].got[id] \in Nat
                                /\ path[t].got[id] <= orders[id].filled
  BY BookFacts
<1>2. \A id \in Handles(t) : orders[id].booked = 0
  BY <1>1 DEF ApartInv, AllTold, Told, Handles
<1>3. AreOrders(orders) /\ AreOrders(orders') /\ Summable(got)
  BY OwedAre, OwedAreNext, BaseParts, FitsParts
<1>4. DOMAIN orders' = DOMAIN orders /\ DOMAIN got \subseteq DOMAIN orders
      /\ \A id \in DOMAIN got : /\ orders[id].side = own /\ orders[id].booked = 0
                                /\ got[id] <= orders[id].filled
  BY <1>1, <1>2 DEF Ids, Handles
<1>5. \A id \in DOMAIN orders : /\ orders'[id].side = orders[id].side
                                /\ orders'[id].filled = orders[id].filled
                                /\ orders'[id].booked = IF id \in DOMAIN got
                                                        THEN orders[id].booked + got[id]
                                                        ELSE orders[id].booked
  BY <1>1 DEF Ids, Handles
<1>6. \A id \in Handles(t) : orders'[id].booked = path[t].got[id]
  BY <1>1, <1>2
<1> HIDE DEF got, own
<1>7. \A side : Owed(orders', side) = Owed(orders, side) - (IF own = side THEN Total(got) ELSE 0)
  BY <1>3, <1>4, <1>5, OwedBooked
<1>. QED  BY <1>2, <1>6, <1>7 DEF got, own, Confirmed

LEMMA PunctualBook ==
    ASSUME Base, ApartInv, PunctualInv, Base', NEW t \in Paths, Book(t)
    PROVE  PunctualInv'
<1> DEFINE p == path[t]
           q == path'[t]
<1>1. /\ setting' = setting /\ Asking(p) /\ ~AtRest(t) /\ Ids' = Ids /\ OrdersKept
      /\ \A id \in Ids : /\ orders'[id].filled = orders[id].filled
                         /\ orders'[id].booked = IF id \in Handles(t)
                                                 THEN orders[id].booked + path[t].got[id]
                                                 ELSE orders[id].booked
      /\ \A id \in Handles(t) : path[t].got[id] \in Nat /\ path[t].got[id] <= orders[id].filled
      /\ Confirmed(p) \in Nat /\ p.side \in Sides
      /\ real' = real /\ held' = held /\ byHand' = byHand
      /\ IF p.side = "buy" THEN RecordOpen(Confirmed(p)) ELSE RecordClose(Confirmed(p))
  BY BookFacts DEF ghosts
<1>2. PICK pc : /\ pc = "sync" \/ pc = "flag"
                /\ Moves(t)
                /\ Fields(q, pc, p.kind, p.side, p.clips, p.base, p.got, p.bad, p.resting, "idle")
  BY BookFacts
<1>3. q.pc \in {"sync", "flag"} /\ q.next = "idle"
  BY <1>2 DEF Fields
<1>4. ~Asking(q) /\ ~Seen(q) /\ ~Reading(q) /\ ~Handled(q) /\ q.pc # "resting"
  BY <1>3 DEF Asking, Seen, Reading, Handled, Watching
<1> SUFFICES ASSUME Sound(p, orders, real, held, open, byHand), Tidy(p, orders, path), Punctual
             PROVE  /\ Sound(q, orders', real', held', open', byHand') /\ Tidy(q, orders', path')
  BY <1>1, <1>2, PunctualMove
<1>5. /\ \A id \in Handles(t) : orders[id].booked = 0 /\ orders'[id].booked = path[t].got[id]
      /\ \A side \in Sides : Owed(orders', side) =
                 Owed(orders, side) - (IF p.side = side THEN Confirmed(p) ELSE 0)
  BY PunctualIs, OwedAfterBook
<1>6. Tidy(q, orders', path')
  <2>1. ASSUME NEW id \in Ids, Backed(p, id, orders)
        PROVE  Backed(q, id, orders')
    BY <1>1, <1>5, <2>1 DEF Backed, Handles
  <2>. QED  BY <1>1, <1>2, <1>4, <2>1, TidyMove
<1>7. real \in Int /\ open \in Nat /\ byHand \in Nat /\ Owed(orders, "buy") \in Nat
      /\ Owed(orders, "sell") \in Nat /\ Typed
  BY StateIs, OwedAre DEF Base
<1>8. Rest(p.clips) \in Nat
  BY StateIs
<1> HIDE DEF p, q
<1> DEFINE buys == Owed(orders, "buy")
           sells == Owed(orders, "sell")
           cp == Confirmed(p)
<1>9. CASE p.side = "buy"
  <2>1. Owed(orders', "buy") = buys - cp /\ Owed(orders', "sell") = sells - 0 /\ open' = open + cp
    BY <1>1, <1>5, <1>9 DEF Sides, RecordOpen
  <2>2. Bought(p) = cp /\ Sold(p) = 0
    BY <1>1, <1>9 DEF Bought, Sold
  <2>3. open + cp <= real + sells + byHand /\ (Calm => real + 0 <= open + buys)
    BY <2>2 DEF Sound, Shares
  <2>4. cp \in Nat /\ buys \in Nat /\ sells \in Nat
    BY <1>1, <1>7
  <2> HIDE DEF buys, sells, cp
  <2>5. /\ open + cp <= real + (sells - 0) + byHand /\ (Calm => real <= (open + cp) + (buys - cp))
    BY <1>7, <2>3, <2>4
  <2>6. /\ open' <= Shares(real', orders', byHand') /\ (Calm => real' <= open' + Owed(orders', "buy"))
        /\ open' \in Int
    BY <1>1, <1>7, <2>1, <2>4, <2>5 DEF Shares
  <2>7. Sound(q, orders', real', held', open', byHand')
    BY <1>1, <1>4, <1>7, <2>6, SoundPlain
  <2>. QED  BY <1>6, <2>7
<1>10. CASE p.side = "sell"
  <2>1. /\ Owed(orders', "buy") = buys - 0 /\ Owed(orders', "sell") = sells - cp
        /\ open' >= open - cp /\ (open' = 0 \/ open' = open - cp) /\ open' \in Nat
    BY <1>1, <1>10, <1>7, RecordIs, <1>5 DEF Sides
  <2>2. Bought(p) = 0 /\ Sold(p) = cp
    BY <1>1, <1>10 DEF Bought, Sold
  <2>3. /\ open + 0 <= real + sells + byHand /\ (Calm => real + cp <= open + buys)
        /\ cp + Rest(p.clips) <= real + sells + byHand
    BY <1>1, <1>10, <2>2 DEF Sound, Shares
  <2>4. cp \in Nat /\ buys \in Nat /\ sells \in Nat
    BY <1>1, <1>7
  <2> DEFINE rp == Rest(p.clips)
  <2>5. cp + rp <= real + sells + byHand /\ rp \in Nat
    BY <1>8, <2>3
  <2> HIDE DEF buys, sells, cp, rp
  <2> DEFINE after == open'
  <2>9. after >= open - cp /\ (after = 0 \/ after = open - cp) /\ after \in Nat
    BY <2>1 DEF cp
  <2> HIDE DEF after
  <2>10. real + sells + byHand - cp >= 0
    BY <1>7, <2>4, <2>5
  <2>11. after <= real + (sells - cp) + byHand
    BY <1>7, <2>3, <2>4, <2>9, <2>10
  <2>12. Calm => real <= after + (buys - 0)
    BY <1>7, <2>3, <2>4, <2>9
  <2>6. open' <= real + (sells - cp) + byHand /\ (Calm => real <= open' + (buys - 0))
    BY <2>11, <2>12 DEF after
  <2>7. /\ open' <= Shares(real', orders', byHand') /\ (Calm => real' <= open' + Owed(orders', "buy"))
        /\ open' \in Int
    BY <1>1, <2>1, <2>6 DEF Shares
  <2>8. Sound(q, orders', real', held', open', byHand')
    BY <1>1, <1>4, <1>7, <2>7, SoundPlain
  <2>. QED  BY <1>6, <2>8
<1>. QED  BY <1>1, <1>9, <1>10 DEF Sides

LEMMA PunctualFlag ==
    ASSUME Base, ApartInv, PunctualInv, Base', NEW t \in Paths, Flag(t)
    PROVE  PunctualInv'
<1>1. path[t].pc = "flag" /\ Goto(t, "sync") /\ UNCHANGED <<setting, real, orders, held, open, byHand>>
  BY DEF Flag, venue, ghosts
<1>2. path[t].next = "idle" /\ ~Asking(path[t]) /\ ~AtRest(t)
  BY <1>1, BaseParts, FitsParts DEF Asking, AtRest, Roles
<1>3. Moves(t) /\ path'[t].pc = "sync" /\ path'[t].next = "idle"
  BY <1>1, <1>2, Moved DEF Base, Fields
<1>4. ~Asking(path'[t]) /\ ~Seen(path'[t]) /\ ~Reading(path'[t]) /\ ~Handled(path'[t])
  BY <1>3 DEF Asking, Seen, Reading, Handled, Watching
<1>. QED  BY <1>1, <1>2, <1>3, <1>4, PunctualPlain

LEMMA PunctualSyncRead ==
    ASSUME Base, ApartInv, PunctualInv, Base', NEW t \in Paths, SyncRead(t)
    PROVE  PunctualInv'
<1>1. path[t].pc = "sync" /\ UNCHANGED <<setting, real, orders, held, open, byHand>>
  BY Stays DEF SyncRead
<1>2. Moves(t) /\ path'[t].pc = "apply" /\ path'[t].next = path[t].next
      /\ path'[t].got = path[t].got /\ path'[t].base = real
  BY Read DEF Base, Fields
<1>3. ~Asking(path[t]) /\ ~AtRest(t) /\ ~Asking(path'[t]) /\ ~Seen(path'[t])
  BY <1>1, <1>2 DEF Asking, AtRest, Seen
<1>4. Handled(path'[t]) => Handled(path[t])
  BY <1>1, <1>2 DEF Handled, Watching
<1>. QED  BY <1>1, <1>2, <1>3, <1>4, PunctualPlain

LEMMA PunctualSyncApply ==
    ASSUME Base, ApartInv, PunctualInv, Base', NEW t \in Paths, SyncApply(t)
    PROVE  PunctualInv'
<1>1. path[t].pc = "apply" /\ setting' = setting /\ orders' = orders /\ real' = real /\ byHand' = byHand
      /\ held' = path[t].base
      /\ (open' = open \/ (held' > 0 /\ open = 0 /\ open' = held'))
      /\ Synced(t)
  BY DEF SyncApply, venue, ghosts
<1>2. path[t].next \in {"idle", "measure"} /\ ~AtRest(t) /\ ~Asking(path[t])
  BY <1>1, BaseParts, FitsParts DEF AtRest, Asking
<1>3. /\ Moves(t) /\ path'[t].pc \in {"idle", "measure"} /\ ~Asking(path'[t]) /\ ~Reading(path'[t])
      /\ Handled(path'[t]) => path'[t].got = path[t].got /\ Handled(path[t])
  BY <1>1, SyncedIs, NoPathAsks, <1>2 DEF Base, Fields, Asking, Reading, Handled, Watching
<1> SUFFICES ASSUME Sound(path[t], orders, real, held, open, byHand), Tidy(path[t], orders, path)
             PROVE  /\ Sound(path'[t], orders', real', held', open', byHand')
                    /\ Tidy(path'[t], orders', path')
  BY <1>1, <1>2, <1>3, PunctualMove
<1>4. Tidy(path'[t], orders', path')
  BY <1>1, <1>2, <1>3, NothingFills, TidyStill
<1>5. Near(held', orders, real, open, byHand) /\ held' \in Int
  BY <1>1, BaseParts, FitsParts DEF Sound, Reading
<1> DEFINE sells == Owed(orders, "sell")
           buys == Owed(orders, "buy")
           now == held'
           after == open'
<1>6. /\ real \in Int /\ open \in Nat /\ byHand \in Nat /\ buys \in Nat /\ sells \in Nat
      /\ open <= real + sells + byHand /\ (Calm => real <= open + buys)
  BY StateIs, OwedAre, Freed DEF Shares
<1>7. /\ now \in Int /\ now <= real + sells + byHand /\ (now >= 0 => real + sells >= 0)
      /\ Calm => open <= now + sells + byHand /\ now <= open + buys /\ real <= now + buys
      /\ after = open \/ (now > 0 /\ open = 0 /\ after = now)
  BY <1>1, <1>5 DEF Near, Shares
<1> HIDE DEF sells, buys, now, after
<1>8. /\ after \in Int /\ after <= real + sells + byHand
      /\ Calm => real <= after + buys /\ after <= now + sells + byHand /\ now <= after + buys
  BY <1>6, <1>7
<1>9. /\ open' \in Int /\ open' <= Shares(real, orders, byHand)
      /\ Calm => real <= open' + Owed(orders, "buy")
      /\ Near(held', orders, real, open', byHand)
  BY <1>7, <1>8 DEF Near, Shares, sells, buys, now, after
<1>10. Handled(path'[t]) => \A id \in DOMAIN path'[t].got : orders[id].filled = orders[id].booked
  BY <1>1, <1>3 DEF Sound
<1>11. path'[t].pc # "adopt"
  BY <1>3
<1>12. Sound(path'[t], orders, real, held', open', byHand)
  BY <1>3, <1>6, <1>9, <1>10, <1>11, SoundPlain
<1>. QED  BY <1>1, <1>4, <1>12

LEMMA PunctualLoops ==
    ASSUME Base, ApartInv, PunctualInv, Base', StartSync \/ ReconcileList \/ ReconcileClear \/ Adopt
    PROVE  PunctualInv'
<1>1. Loop \in Paths /\ Operator \in Paths
  BY PathsAre
<1>2. CASE StartSync \/ ReconcileList
  <2>1. UNCHANGED <<setting, real, orders, held, open, byHand>> /\ Quiet /\ path[Loop].pc = "idle"
        /\ \E pc \in {"sync", "reconcile"} : Goto(Loop, pc)
    BY <1>2, Stays DEF StartSync, ReconcileList, Idle
  <2>2. path[Loop] = NoPath
    BY <1>1, <2>1, BaseParts DEF Roles
  <2>3. Moves(Loop) /\ path'[Loop].pc \in {"sync", "reconcile"} /\ path'[Loop].next = "idle"
    BY <1>1, <2>1, <2>2, Moved, NoPathIs DEF Base, Fields
  <2>4. ~Asking(path'[Loop]) /\ ~Handled(path'[Loop]) /\ ~Reading(path'[Loop])
        /\ path'[Loop].pc # "resting"
    BY <2>3 DEF Asking, Handled, Watching, Reading
  <2>. QED  BY <2>1, <2>2, <2>3, <2>4, NoPathAsks, PunctualPlain
<1>3. CASE ReconcileClear
  BY <1>3, <1>1, BaseReconcileClear, Moved, NoPathAsks, PunctualPlain DEF ReconcileClear, venue, ghosts, Base,
     Asking, Seen, AtRest
<1>4. CASE Adopt
  <2>1. UNCHANGED <<setting, real, orders, held, open, byHand>> /\ Quiet /\ path[Operator].pc = "idle"
    BY <1>4, Stays DEF Adopt, Idle
  <2>2. Moves(Operator) /\ path'[Operator].pc = "adopt" /\ path'[Operator].base = held
        /\ path'[Operator].next = "idle"
    BY <1>4, Adopting DEF Base, Fields
  <2>3. ~Asking(path[Operator]) /\ Seen(path[Operator])
    BY <2>1 DEF Asking, Seen
  <2>4. ~Asking(path'[Operator]) /\ ~Handled(path'[Operator])
    BY <2>2 DEF Asking, Handled, Watching
  <2>. QED  BY <2>1, <2>2, <2>3, <2>4, PunctualPlain
<1>. QED  BY <1>2, <1>3, <1>4

LEMMA PunctualAdoptWrite ==
    ASSUME Base, ApartInv, PunctualInv, Base', AdoptWrite
    PROVE  PunctualInv'
<1>1. path[Operator].pc = "adopt" /\ setting' = setting /\ orders' = orders /\ real' = real
      /\ byHand' = byHand /\ held' = held
      /\ (open' = open \/ (open = 0 /\ open' = path[Operator].base))
  BY DEF AdoptWrite, venue, ghosts
<1>2. Operator \in Paths /\ ~AtRest(Operator) /\ ~Asking(path[Operator]) /\ Seen(path[Operator])
      /\ Reading(path[Operator])
  BY <1>1, PathsAre DEF AtRest, Asking, Seen, Reading
<1>3. Moves(Operator) /\ path'[Operator] = NoPath
  BY <1>2, PathEnds DEF AdoptWrite, Base
<1> SUFFICES ASSUME Sound(path[Operator], orders, real, held, open, byHand),
                    Tidy(path[Operator], orders, path)
             PROVE  /\ Sound(path'[Operator], orders', real', held', open', byHand')
                    /\ Tidy(path'[Operator], orders', path')
  BY <1>1, <1>2, <1>3, PunctualMove
<1>4. Tidy(path'[Operator], orders', path')
  BY <1>1, <1>2, <1>3, NoPathAsks, NothingFills, TidyStill
<1>5. Near(held, orders, real, open, byHand) /\ path[Operator].base = held /\ held > 0 /\ held \in Int
  BY <1>1, <1>2, BaseParts, StateIs DEF Sound, Roles
<1> DEFINE sells == Owed(orders, "sell")
           buys == Owed(orders, "buy")
           after == open'
<1>6. /\ real \in Int /\ open \in Nat /\ byHand \in Nat /\ buys \in Nat /\ sells \in Nat
      /\ open <= real + sells + byHand /\ (Calm => real <= open + buys)
  BY <1>2, StateIs, OwedAre, Freed DEF Shares
<1>7. /\ held <= real + sells + byHand /\ (held >= 0 => real + sells >= 0)
      /\ Calm => open <= held + sells + byHand /\ held <= open + buys /\ real <= held + buys
      /\ after = open \/ after = held
  BY <1>1, <1>5 DEF Near, Shares
<1> HIDE DEF sells, buys, after
<1>8. /\ after \in Int /\ after <= real + sells + byHand
      /\ Calm => real <= after + buys /\ after <= held + sells + byHand /\ held <= after + buys
  BY <1>5, <1>6, <1>7
<1>9. /\ open' \in Int /\ open' <= Shares(real, orders, byHand)
      /\ Calm => real <= open' + Owed(orders, "buy")
      /\ Near(held, orders, real, open', byHand)
  BY <1>7, <1>8 DEF Near, Shares, sells, buys, after
<1>10. Sound(NoPath, orders, real, held, open', byHand)
  BY <1>6, <1>9, NoPathAsks, SoundPlain
<1>. QED  BY <1>1, <1>3, <1>4, <1>10

LEMMA PunctualWakes ==
    ASSUME Base, ApartInv, PunctualInv, Base', NEW w \in Watchers,
           WakeGone(w) \/ WakeLeaves(w) \/ WakeOpen(w) \/ CancelFails(w) \/ Lock(w)
    PROVE  PunctualInv'
<1>1. w \in Paths /\ UNCHANGED <<setting, real, orders, held, open, byHand>>
  BY PathsAre DEF WakeGone, WakeLeaves, WakeOpen, CancelFails, Lock, venue, book, ghosts
<1>2. CASE WakeGone(w) \/ WakeLeaves(w) \/ CancelFails(w)
  BY <1>2, <1>1, PunctualEnds DEF WakeGone, WakeLeaves, CancelFails, Asking, Seen, AtRest
<1>3. CASE WakeOpen(w)
  <2>1. Goto(w, "cancel") /\ Quiet /\ path[w].pc = "resting" /\ orders[Clip(w)].left > 0
    BY <1>3 DEF WakeOpen
  <2>2. Moves(w) /\ path'[w].pc = "cancel" /\ path'[w].got = path[w].got
    BY <1>1, <2>1, Moved DEF Base, Fields
  <2>3. Handles(w) = {Clip(w)}
    BY <1>1, <2>1, ClipIs DEF Handles, Watching
  <2>4. ~Asking(path[w]) /\ ~Asking(path'[w]) /\ Seen(path[w]) /\ ~Reading(path'[w])
        /\ path'[w].pc # "resting"
    BY <2>1, <2>2 DEF Asking, Seen, Reading
  <2>. QED  BY <1>1, <2>1, <2>2, <2>3, <2>4, PunctualPlain
<1>4. CASE Lock(w)
  BY <1>4, LockFacts, <1>1, PunctualPlain DEF Fields, Asking, Seen, Reading, Handled, Watching, AtRest
<1>. QED  BY <1>2, <1>3, <1>4

(* An order works less, and nothing else is new about it. *)
LEMMA OneTakenOff ==
    ASSUME Base, Base', NEW id \in Ids,
           OneChanged(id, 0, orders[id].filled, orders[id].booked)
    PROVE  /\ FillsStill
           /\ \A side \in Sides : Owed(orders', side) = Owed(orders, side)
<1>1. FillsStill
  BY DEF OneChanged, FillsStill
<1>2. /\ DOMAIN orders' = DOMAIN orders
      /\ \A i \in DOMAIN orders : orders'[i].side = orders[i].side
  BY DEF OneChanged, Ids
<1>3. \A i \in DOMAIN orders : Due(orders'[i]) = Due(orders[i])
  BY <1>1 DEF FillsStill, Due, Ids
<1>4. ASSUME NEW side \in Sides
      PROVE  Owed(orders', side) = Owed(orders, side)
  BY <1>2, <1>3, OwedAlike
<1>. QED  BY <1>1, <1>4

LEMMA PunctualCancelOk ==
    ASSUME Base, ApartInv, PunctualInv, Base', NEW w \in Watchers, CancelOk(w)
    PROVE  PunctualInv'
<1>1. /\ w \in Paths /\ path[w].pc = "cancel" /\ setting' = setting /\ Clip(w) \in Ids
      /\ OneChanged(Clip(w), 0, orders[Clip(w)].filled, orders[Clip(w)].booked) /\ OrdersKept
      /\ real' = real /\ held' = held /\ open' = open /\ byHand' = byHand
      /\ Moves(w) /\ path'[w].pc = "cancelled" /\ path'[w].got = path[w].got
  BY CancelFacts DEF book, ghosts, Fields
<1>2. ~Asking(path[w]) /\ ~Asking(path'[w]) /\ Seen(path[w]) /\ ~Reading(path'[w])
      /\ Handled(path[w]) /\ ~AtRest(w) /\ path'[w].pc # "resting"
  BY <1>1 DEF Asking, Seen, Reading, Handled, Watching, AtRest
<1>3. FillsStill /\ Owed(orders', "buy") = Owed(orders, "buy")
      /\ Owed(orders', "sell") = Owed(orders, "sell")
  BY <1>1, OneTakenOff DEF Sides
<1> SUFFICES ASSUME Sound(path[w], orders, real, held, open, byHand), Tidy(path[w], orders, path)
             PROVE  /\ Sound(path'[w], orders', real', held', open', byHand')
                    /\ Tidy(path'[w], orders', path')
  BY <1>1, <1>2, PunctualMove
<1>4. Tidy(path'[w], orders', path')
  BY <1>1, <1>2, <1>3, TidyStill
<1>5. Shares(real', orders', byHand') = Shares(real, orders, byHand)
  BY <1>1, <1>3 DEF Shares
<1>6. /\ open' <= Shares(real', orders', byHand') /\ (Calm => real' <= open' + Owed(orders', "buy"))
      /\ real' \in Int /\ open' \in Int
  BY <1>1, <1>3, <1>5, Freed, StateIs
<1>7. \A id \in DOMAIN path'[w].got : orders'[id].filled = orders'[id].booked
  BY CancelFacts, <1>1, <1>2, <1>3 DEF Sound, Handles, FillsStill
<1>8. Near(held', orders', real', open', byHand') /\ path'[w].pc # "adopt"
  BY <1>1, <1>2, <1>3, <1>5 DEF Sound, Near
<1>9. Sound(path'[w], orders', real', held', open', byHand')
  BY <1>2, <1>6, <1>7, <1>8, SoundPlain
<1>. QED  BY <1>4, <1>9

(* filledWhileResting, soldWhileResting: what a watcher books closes the    *)
(* gap between record and holding, and goes no further.                    *)
LEMMA MeasureOpens ==
    ASSUME Base, NEW w \in Watchers, Measure(w)
    PROVE  /\ open' \in Nat
           /\ path[w].side = "buy" => open' >= open /\ (open' = open \/ open' <= held)
           /\ path[w].side = "sell" => open' <= open /\ (open' = open \/ open' >= held)
           /\ path[w].side \in Sides
           /\ guard' = guard \/ (path[w].side = "buy" /\ guard' = 0)
<1> DEFINE m == Measured(w)
<1>1. path[w].pc = "measure" /\ Watching(path[w]) /\ w \in Paths /\ m \in 0..Head(path[w].clips)
  BY MeasureBooks, MeasuredIs
<1>2. path[w].side \in Sides /\ Head(path[w].clips) \in Nat /\ Typed
  BY <1>1, ClipIs DEF Base
<1>3. held \in Int /\ open \in Nat /\ guard \in Nat
  BY <1>2 DEF Typed
<1>4. m = Smaller(Larger(IF path[w].side = "buy" THEN held - open ELSE open - held, 0),
                  Head(path[w].clips))
  BY DEF Measured
<1>5. IF m = 0 THEN UNCHANGED <<open, guard>>
      ELSE IF path[w].side = "buy" THEN RecordOpen(m) ELSE RecordClose(m)
  BY DEF Measure
<1>6. m \in Nat
  BY <1>1, <1>2
<1>7. m = 0 \/ (path[w].side = "buy" /\ m <= held - open) \/ (path[w].side = "sell" /\ m <= open - held)
  BY <1>2, <1>3, <1>4 DEF Smaller, Larger, Sides
<1> HIDE DEF m
<1>8. CASE m = 0
  BY <1>2, <1>3, <1>5, <1>8
<1>9. CASE m # 0 /\ path[w].side = "buy"
  <2>1. open' = open + m /\ guard' = 0 /\ open' \in Nat
    BY <1>2, <1>5, <1>6, <1>9, RecordIs
  <2>. QED  BY <1>2, <1>3, <1>6, <1>7, <1>9, <2>1
<1>10. CASE m # 0 /\ path[w].side = "sell"
  <2>1. open' <= open /\ open' >= open - m /\ guard' = guard /\ open' \in Nat
    BY <1>2, <1>5, <1>6, <1>10, RecordIs
  <2>. QED  BY <1>2, <1>3, <1>6, <1>7, <1>10, <2>1
<1>. QED  BY <1>2, <1>8, <1>9, <1>10 DEF Sides

LEMMA PunctualMeasure ==
    ASSUME Base, ApartInv, PunctualInv, Base', NEW w \in Watchers, Measure(w)
    PROVE  PunctualInv'
<1>1. /\ path[w].pc = "measure" /\ Watching(path[w]) /\ w \in Paths /\ Ids' = Ids /\ OrdersKept
      /\ \A id \in Ids : /\ orders'[id].side = orders[id].side
                         /\ orders'[id].left = orders[id].left
                         /\ orders'[id].filled = orders[id].filled
                         /\ orders'[id].booked = IF id = Clip(w)
                                                 THEN orders[id].booked + Measured(w)
                                                 ELSE orders[id].booked
  BY MeasureBooks
<1>2. /\ setting' = setting /\ real' = real /\ held' = held /\ byHand' = byHand
      /\ GoesOn(w, Measured(w))
  BY DEF Measure, ghosts
<1>3. Clip(w) \in Ids /\ Handles(w) = {Clip(w)} /\ Measured(w) \in Nat
  BY <1>1, ClipIs, MeasuredIs DEF Handles
<1>4. orders[Clip(w)].left = 0
  BY <1>1, <1>3, BaseParts DEF Meant, Late, Handles
<1>5. ~Asking(path[w]) /\ Seen(path[w]) /\ Handled(path[w]) /\ ~AtRest(w)
  BY <1>1 DEF Asking, Seen, Handled, AtRest
<1>6. /\ Moves(w)
      /\ \/ Fields(path'[w], "submit", "watch", path[w].side, <<Resend(w, Measured(w))>>, held, <<>>,
                   {}, FALSE, "idle")
         \/ path'[w] = NoPath
         \/ Fields(path'[w], "sync", "none", "none", <<>>, 0, <<>>, {}, FALSE, "idle")
  BY <1>1, <1>2, WentOn DEF Base
<1> SUFFICES ASSUME Sound(path[w], orders, real, held, open, byHand), Tidy(path[w], orders, path)
             PROVE  /\ Sound(path'[w], orders', real', held', open', byHand')
                    /\ Tidy(path'[w], orders', path')
  BY <1>2, <1>5, <1>6, PunctualMove
<1>7. orders[Clip(w)].filled = orders[Clip(w)].booked /\ Near(held, orders, real, open, byHand)
  BY <1>1, <1>3, <1>5 DEF Sound, Handles
<1>8. path'[w].pc \in {"submit", "idle", "sync"}
  BY <1>6, NoPathAsks DEF Fields
<1>9. Tidy(path'[w], orders', path')
  <2>1. ASSUME NEW id \in Ids, orders'[id].left > 0, Backed(path[w], id, orders)
        PROVE  Backed(path'[w], id, orders')
    BY <1>1, <1>4, <2>1, <1>5 DEF Backed
  <2>. QED  BY <1>1, <1>6, <1>8, <2>1, TidyMove
<1>10. AreOrders(orders) /\ AreOrders(orders') /\ Owed(orders, "sell") \in Nat
       /\ Owed(orders', "sell") \in Nat /\ Owed(orders, "buy") \in Nat
  BY OwedAre, OwedAreNext
<1>11. \A side \in Sides : Owed(orders', side) = Owed(orders, side)
  <2>1. DOMAIN orders' = DOMAIN orders /\ \A id \in DOMAIN orders : orders'[id].side = orders[id].side
    BY <1>1 DEF Ids
  <2>2. ASSUME NEW id \in DOMAIN orders
        PROVE  Due(orders'[id]) = Due(orders[id])
    <3>1. CASE id = Clip(w)
      <4>1. id \in DOMAIN orders' /\ orders[id].booked >= orders[id].filled
            /\ orders'[id].booked >= orders'[id].filled
        BY <1>1, <1>3, <1>7, <1>10, <2>1, <3>1 DEF AreOrders, Ids
      <4>. QED  BY <1>10, <4>1, DueIs
    <3>2. CASE id # Clip(w)
      BY <1>1, <3>2 DEF Due, Ids
    <3>. QED  BY <3>1, <3>2
  <2>. QED  BY <2>1, <2>2, OwedAlike
<1>12. /\ real \in Int /\ open \in Nat /\ byHand \in Nat
       /\ open <= Shares(real, orders, byHand) /\ Shares(real, orders, byHand) \in Int
       /\ Calm => real <= open + Owed(orders, "buy")
  BY <1>1, StateIs, Freed
<1>14. /\ open' \in Int /\ open' <= Shares(real, orders, byHand)
       /\ Calm => real <= open' + Owed(orders, "buy")
       /\ Near(held, orders, real, open', byHand)
  <2> DEFINE after == open'
             sells == Owed(orders, "sell")
             buys == Owed(orders, "buy")
  <2>1. /\ after \in Nat
        /\ \/ after >= open /\ (after = open \/ after <= held)
           \/ after <= open /\ (after = open \/ after >= held)
    BY MeasureOpens DEF Sides
  <2>2. /\ sells \in Nat /\ buys \in Nat /\ open <= real + sells + byHand
        /\ held <= real + sells + byHand /\ (held >= 0 => real + sells >= 0)
        /\ Calm => /\ real <= open + buys /\ open <= held + sells + byHand
                   /\ held <= open + buys /\ real <= held + buys
    BY <1>7, <1>10, <1>12 DEF Near, Shares
  <2>3. held \in Int /\ real \in Int /\ open \in Nat /\ byHand \in Nat
    BY StateIs
  <2> HIDE DEF after, sells, buys
  <2>4. after <= real + sells + byHand
    BY <2>1, <2>2, <2>3
  <2>5. Calm => real <= after + buys /\ after <= held + sells + byHand /\ held <= after + buys
    BY <2>1, <2>2, <2>3
  <2>. QED  BY <2>1, <2>2, <2>4, <2>5 DEF Near, Shares, after, sells, buys
<1>15. /\ Owed(orders', "buy") = Owed(orders, "buy") /\ Owed(orders', "sell") = Owed(orders, "sell")
       /\ Shares(real', orders', byHand') = Shares(real, orders, byHand)
  BY <1>2, <1>11 DEF Sides, Shares
<1>16. CASE path'[w] = NoPath \/ Fields(path'[w], "sync", "none", "none", <<>>, 0, <<>>, {}, FALSE, "idle")
  <2>1. ~Asking(path'[w]) /\ ~Handled(path'[w]) /\ ~Reading(path'[w])
    BY <1>16, NoPathAsks DEF Fields, Asking, Handled, Watching, Reading
  <2>2. Near(held', orders', real', open', byHand') /\ path'[w].pc # "adopt"
    BY <1>2, <1>8, <1>14, <1>15 DEF Near
  <2>3. Sound(path'[w], orders', real', held', open', byHand')
    BY <1>2, <1>12, <1>14, <1>15, <2>1, <2>2, SoundPlain
  <2>. QED  BY <1>9, <2>3
<1>17. CASE Fields(path'[w], "submit", "watch", path[w].side, <<Resend(w, Measured(w))>>, held, <<>>,
                   {}, FALSE, "idle")
  <2> DEFINE clips == <<Resend(w, Measured(w))>>
             side == path[w].side
             kind == "watch"
  <2>1. Fields(path'[w], "submit", kind, side, clips, held, <<>>, {}, FALSE, "idle")
    BY <1>17
  <2> HIDE DEF clips, side, kind
  <2>2. path'[w].clips = clips
    BY <2>1 DEF Fields
  <2>3. Sized(path'[w]) /\ Rest(clips) \in Nat
    BY <1>1, <1>2, <2>2, GoodAfter, FitsParts DEF Good
  <2>4. open' \in Int /\ open' <= Shares(real', orders', byHand')
        /\ (Calm => real' <= open' + Owed(orders', "buy")) /\ real' \in Int /\ held \in Int
        /\ byHand' \in Nat /\ Near(held, orders', real', open', byHand')
    BY <1>2, <1>12, <1>14, <1>15, StateIs DEF Near
  <2>5. Sound(path'[w], orders', real', held, open', byHand')
    BY <1>10, <2>1, <2>3, <2>4, SoundBegun
  <2>. QED  BY <1>2, <1>9, <2>5
<1>. QED  BY <1>6, <1>16, <1>17

LEMMA PunctualUnknown ==
    ASSUME Base, ApartInv, PunctualInv, Base', NEW w \in Watchers, MeasureUnknown(w)
    PROVE  PunctualInv'
<1>1. /\ w \in Paths /\ path[w].pc = "measure"
      /\ UNCHANGED <<setting, real, orders, held, open, byHand>>
      /\ GoesOn(w, 0) \/ path' = [path EXCEPT ![w] = NoPath]
  BY PathsAre DEF MeasureUnknown, venue, book
<1>2. ~Asking(path[w]) /\ Seen(path[w]) /\ ~AtRest(w)
  BY <1>1 DEF Asking, Seen, AtRest
<1>3. CASE path' = [path EXCEPT ![w] = NoPath]
  BY <1>1, <1>2, <1>3, PunctualEnds
<1>4. CASE GoesOn(w, 0)
  <2>1. /\ Moves(w)
        /\ \/ Fields(path'[w], "submit", "watch", path[w].side, <<Resend(w, 0)>>, held, <<>>,
                     {}, FALSE, "idle")
           \/ path'[w] = NoPath
           \/ Fields(path'[w], "sync", "none", "none", <<>>, 0, <<>>, {}, FALSE, "idle")
    BY <1>1, <1>4, WentOn DEF Base
  <2>2. CASE path'[w] = NoPath \/ Fields(path'[w], "sync", "none", "none", <<>>, 0, <<>>, {}, FALSE, "idle")
    BY <2>2, NoPathAsks, <1>1, <1>2, <2>1, PunctualPlain DEF Fields, Asking, Handled, Watching, Reading
  <2>3. CASE Fields(path'[w], "submit", "watch", path[w].side, <<Resend(w, 0)>>, held, <<>>,
                    {}, FALSE, "idle")
    BY <1>1, <1>2, <2>1, <2>3, PunctualBegun
  <2>. QED  BY <2>1, <2>2, <2>3
<1>. QED  BY <1>1, <1>3, <1>4

(* Something happens at the broker, at any moment. *)
LEMMA FillCovered ==
    ASSUME NEW before \in Int, NEW after \in Int, NEW had \in Nat, NEW has \in Nat,
           NEW sold \in Nat, NEW opened \in Nat,
           before + sold <= opened + had, after - has <= before - had
    PROVE  after + sold <= opened + has
OBVIOUS

LEMMA NearVenue ==
    ASSUME NEW ords, NEW rl \in Int, NEW bh \in Nat, NEW ords2, NEW rl2 \in Int, NEW bh2 \in Nat,
           Owed(ords, "sell") \in Nat, Owed(ords2, "sell") \in Nat,
           Owed(ords, "buy") \in Nat, Owed(ords2, "buy") \in Nat,
           Shares(rl2, ords2, bh2) >= Shares(rl, ords, bh),
           rl + Owed(ords, "sell") >= 0 => rl2 + Owed(ords2, "sell") >= 0,
           Calm => /\ Owed(ords2, "sell") + bh2 >= Owed(ords, "sell") + bh
                   /\ Owed(ords2, "buy") >= Owed(ords, "buy")
                   /\ rl2 - Owed(ords2, "buy") <= rl - Owed(ords, "buy"),
           NEW q \in Int, NEW op \in Nat, Near(q, ords, rl, op, bh)
    PROVE  Near(q, ords2, rl2, op, bh2)
<1> DEFINE sells == Owed(ords, "sell")
           sells2 == Owed(ords2, "sell")
           buys == Owed(ords, "buy")
           buys2 == Owed(ords2, "buy")
<1>1. /\ sells \in Nat /\ sells2 \in Nat /\ buys \in Nat /\ buys2 \in Nat
      /\ rl2 + sells2 + bh2 >= rl + sells + bh /\ q <= rl + sells + bh
      /\ rl + sells >= 0 => rl2 + sells2 >= 0
      /\ q >= 0 => rl + sells >= 0
      /\ Calm => /\ sells2 + bh2 >= sells + bh /\ buys2 >= buys /\ rl2 - buys2 <= rl - buys
                 /\ op <= q + sells + bh /\ q <= op + buys /\ rl <= q + buys
  BY DEF Near, Shares
<1> HIDE DEF sells, sells2, buys, buys2
<1>2. q <= rl2 + sells2 + bh2 /\ (q >= 0 => rl2 + sells2 >= 0)
  BY <1>1
<1>3. Calm => op <= q + sells2 + bh2 /\ q <= op + buys2 /\ rl2 <= q + buys2
  BY <1>1
<1>. QED  BY <1>2, <1>3 DEF Near, Shares, sells2, buys2

LEMMA PunctualVenue ==
    ASSUME Base, ApartInv, PunctualInv, Base', setting' = setting, path' = path, held' = held,
           open' = open, OrdersKept,
           Punctual => \A id \in Ids : orders'[id].left > 0 =>
              orders'[id].filled = orders[id].filled /\ orders'[id].booked = orders[id].booked,
           \A id \in Ids : orders[id].left = 0 =>
              orders'[id].filled = orders[id].filled /\ orders'[id].booked = orders[id].booked,
           Punctual => /\ Shares(real', orders', byHand') >= Shares(real, orders, byHand)
                       /\ real + Owed(orders, "sell") >= 0 => real' + Owed(orders', "sell") >= 0,
           Calm => /\ Owed(orders', "sell") + byHand' >= Owed(orders, "sell") + byHand
                   /\ Owed(orders', "buy") >= Owed(orders, "buy")
                   /\ real' - Owed(orders', "buy") <= real - Owed(orders, "buy")
    PROVE  PunctualInv'
<1>1. CASE ~Punctual
  BY <1>1 DEF PunctualInv, Punctual, Faults
<1>2. CASE Punctual
  <2>1. PICK t \in Paths : Lone(t)
    BY <1>2, SomeLone
  <2>2. \A u \in Paths \ {t} : path'[u].pc \in {"idle", "resting"}
    BY <2>1 DEF Lone, AtRest
  <2>3. Moves(t)
    BY <2>1 DEF Base, Moves, PathShape, Others, Paths
  <2>0. Sound(path[t], orders, real, held, open, byHand) /\ Tidy(path[t], orders, path)
    BY <1>2, <2>1 DEF PunctualInv
  <2> SUFFICES /\ Sound(path[t], orders', real', held', open', byHand')
               /\ Tidy(path[t], orders', path')
    BY <2>2, PunctualStep
  <2>4. Tidy(path[t], orders', path')
    BY <1>2, <2>0, <2>3, TidyMove DEF Backed
  <2>14. OrdersTyped /\ OrdersTyped'
    <3>1. Typed /\ Typed'
      BY DEF Base
    <3>. QED  BY <3>1, OrdersAreTyped, PTL
  <2>5. ASSUME Handled(path[t]), NEW id \in DOMAIN path[t].got
        PROVE  (path[t].pc = "cancel" /\ orders'[id].left = 0) \/ orders'[id].filled = orders'[id].booked
    <3>1. id \in Ids
      BY HandlesAre DEF Handles
    <3>2. (path[t].pc = "cancel" /\ orders[id].left = 0) \/ orders[id].filled = orders[id].booked
      BY <2>0, <2>5 DEF Sound
    <3>3. /\ orders[id].left \in Nat /\ orders'[id].left \in Nat /\ orders'[id].left <= orders[id].left
      BY <2>14, <3>1 DEF OrdersKept, OrdersTyped
    <3>4. CASE path[t].pc = "cancel"
      BY <1>2, <3>1, <3>2, <3>3, <3>4
    <3>5. CASE path[t].pc # "cancel"
      BY <2>5, <3>5, BaseParts, <3>1, <3>2 DEF Handled, Late, Watching, Meant
    <3>. QED  BY <3>4, <3>5
  <2>6. Shares(real, orders, byHand) \in Int /\ open \in Nat /\ real \in Int /\ real' \in Int
        /\ Confirmed(path[t]) \in Nat /\ Rest(path[t].clips) \in Nat
        /\ byHand' \in Nat /\ Owed(orders', "sell") \in Nat /\ Owed(orders', "buy") \in Nat
        /\ Owed(orders, "buy") \in Nat /\ Owed(orders, "sell") \in Nat /\ byHand \in Nat
        /\ held \in Int /\ path[t].base \in Int
    BY <2>0, Freed, StateIs, OwedAre, OwedAreNext, FitsParts, BaseParts DEF Base, Typed
  <2>12. \A q \in Int : Near(q, orders, real, open, byHand) => Near(q, orders', real', open', byHand')
    BY <1>2, <2>6, NearVenue
  <2>13. /\ Seen(path[t]) => Near(held', orders', real', open', byHand')
         /\ Reading(path[t]) => Near(path[t].base, orders', real', open', byHand')
         /\ path[t].pc = "adopt" => path[t].base = held'
    BY <2>0, <2>6, <2>12 DEF Sound
  <2> DEFINE shares == Shares(real, orders, byHand)
             new == Shares(real', orders', byHand')
             owed == Owed(orders, "buy")
             newly == Owed(orders', "buy")
  <2>7. new \in Int /\ new >= shares /\ shares \in Int /\ owed \in Nat /\ newly \in Nat
    BY <1>2, <2>6 DEF Shares
  <2>8. /\ open + Bought(path[t]) <= shares
        /\ Asking(path[t]) /\ path[t].side = "sell" => Confirmed(path[t]) + Rest(path[t].clips) <= shares
        /\ Calm => real + Sold(path[t]) <= open + owed /\ real' - newly <= real - owed
    BY <2>0 DEF Sound
  <2>9. Bought(path[t]) \in Nat /\ Sold(path[t]) \in Nat
    BY <2>6 DEF Bought, Sold
  <2> HIDE DEF shares, new, owed, newly
  <2>10. /\ open + Bought(path[t]) <= new
         /\ Asking(path[t]) /\ path[t].side = "sell" => Confirmed(path[t]) + Rest(path[t].clips) <= new
         /\ Calm => real' + Sold(path[t]) <= open + newly
    <3>1. open + Bought(path[t]) <= new
      BY <2>6, <2>7, <2>8, <2>9
    <3>2. Asking(path[t]) /\ path[t].side = "sell" => Confirmed(path[t]) + Rest(path[t].clips) <= new
      <4>. DEFINE asked == Confirmed(path[t]) + Rest(path[t].clips)
      <4>1. asked \in Nat /\ (Asking(path[t]) /\ path[t].side = "sell" => asked <= shares)
        BY <2>6, <2>8
      <4>. HIDE DEF asked
      <4>2. Asking(path[t]) /\ path[t].side = "sell" => asked <= new
        BY <2>7, <4>1
      <4>. QED  BY <4>2 DEF asked
    <3>3. ASSUME Calm
          PROVE  real' + Sold(path[t]) <= open + newly
      <4>. DEFINE sold == Sold(path[t])
      <4>1. sold \in Nat /\ real + sold <= open + owed /\ real' - newly <= real - owed
        BY <2>8, <2>9, <3>3
      <4>. HIDE DEF sold
      <4>2. real \in Int /\ real' \in Int /\ open \in Nat /\ owed \in Nat /\ newly \in Nat
        BY <2>6, <2>7
      <4>4. real' + sold <= open + newly
        BY <4>1, <4>2, FillCovered
      <4>. QED  BY <4>4 DEF sold
    <3>. QED  BY <3>1, <3>2, <3>3
  <2>11. Sound(path[t], orders', real', held', open', byHand')
    BY <2>5, <2>10, <2>13 DEF Sound, new, newly
  <2>. QED  BY <2>4, <2>11
<1>. QED  BY <1>1, <1>2

LEMMA AddedToBoth ==
    ASSUME NEW a \in Int, NEW b \in Int, NEW c \in Int, NEW d \in Int, NEW e \in Int, c + d >= a + b
    PROVE  c + d + e >= a + b + e /\ (a + b >= 0 => c + d >= 0)
OBVIOUS

LEMMA PunctualFill ==
    ASSUME Base, ApartInv, PunctualInv, Base', NEW id \in Ids, VenueFill(id)
    PROVE  PunctualInv'
<1>1. /\ setting' = setting /\ path' = path /\ held' = held /\ open' = open /\ byHand' = byHand
      /\ orders[id].left > 0
  BY DEF VenueFill, book, ghosts
<1>2. PICK n \in 1..orders[id].left :
         /\ n < orders[id].left => "latePartial" \in Faults
         /\ OneChanged(id, orders[id].left - n, orders[id].filled + n, orders[id].booked)
         /\ OrdersKept
         /\ real' = IF orders[id].side = "buy" THEN real + n ELSE real - n
  BY FilledAtVenue DEF Base
<1>3. orders[id].left \in Nat /\ n \in Nat /\ n <= orders[id].left /\ n > 0 /\ orders[id].side \in Sides
  BY IdsAre DEF Base
<1>4. ASSUME Punctual
      PROVE  /\ orders'[id].left = 0
             /\ orders[id].booked <= orders[id].filled
  BY <1>4, <1>1, <1>2, <1>3, PunctualIs DEF Punctual, OneChanged, ApartInv, OpenBooked
<1>5. \A i \in Ids : orders'[i].left > 0 \/ orders[i].left = 0 => i # id \/ ~Punctual
  BY <1>1, <1>4
<1>6. AreOrders(orders) /\ AreOrders(orders')
  BY OwedAre, OwedAreNext
<1>7. Punctual => \A side \in Sides :
         Owed(orders', side) = Owed(orders, side) + (IF orders[id].side = side THEN n ELSE 0)
  <2>1. /\ DOMAIN orders' = DOMAIN orders /\ \A i \in DOMAIN orders \ {id} : orders'[i] = orders[i]
        /\ orders'[id].side = orders[id].side /\ orders'[id].filled = orders[id].filled + n
        /\ orders'[id].booked = orders[id].booked /\ id \in DOMAIN orders
    BY <1>2 DEF OneChanged, Ids
  <2>. QED  BY <1>3, <1>4, <1>6, <2>1, OwedFilled
<1>8. \A i \in Ids \ {id} : orders'[i] = orders[i]
  BY <1>2 DEF OneChanged
<1>9. real \in Int /\ byHand \in Nat /\ Owed(orders, "buy") \in Nat /\ Owed(orders, "sell") \in Nat
  BY StateIs, OwedAre
<1>10. ASSUME Punctual
       PROVE  /\ Shares(real', orders', byHand') >= Shares(real, orders, byHand)
              /\ real + Owed(orders, "sell") >= 0 => real' + Owed(orders', "sell") >= 0
  <2>. DEFINE sells == Owed(orders, "sell")
              sells2 == Owed(orders', "sell")
  <2>1. sells2 = sells + (IF orders[id].side = "sell" THEN n ELSE 0) /\ sells \in Nat
    BY <1>7, <1>9, <1>10 DEF Sides
  <2>. HIDE DEF sells, sells2
  <2>2. real' + sells2 >= real + sells
    BY <1>2, <1>3, <1>9, <2>1 DEF Sides
  <2>3. real' \in Int /\ sells2 \in Int
    BY <1>2, <1>3, <1>9, <2>1
  <2>4. real' + sells2 + byHand >= real + sells + byHand /\ (real + sells >= 0 => real' + sells2 >= 0)
    <3>1. real \in Int /\ byHand \in Int /\ sells \in Int
      BY <1>9, <2>1
    <3>. QED  BY <2>2, <2>3, <3>1, AddedToBoth
  <2>. QED  BY <1>1, <2>4 DEF Shares, sells, sells2
<1>11. ASSUME Calm
       PROVE  /\ Owed(orders', "sell") + byHand' >= Owed(orders, "sell") + byHand
              /\ Owed(orders', "buy") >= Owed(orders, "buy")
              /\ real' - Owed(orders', "buy") <= real - Owed(orders, "buy")
  <2>. DEFINE sells == Owed(orders, "sell")
              sells2 == Owed(orders', "sell")
              before == Owed(orders, "buy")
              after == Owed(orders', "buy")
  <2>1. Punctual
    BY <1>11 DEF Calm, Punctual
  <2>3. /\ before \in Nat /\ after = before + (IF orders[id].side = "buy" THEN n ELSE 0)
        /\ sells \in Nat /\ sells2 = sells + (IF orders[id].side = "sell" THEN n ELSE 0)
    BY <1>7, <1>9, <2>1 DEF Sides
  <2>. HIDE DEF before, after, sells, sells2
  <2>4. sells2 >= sells /\ after >= before /\ sells2 \in Nat
    BY <1>3, <2>3
  <2>5. real' - after <= real - before
    BY <1>2, <1>3, <1>9, <2>3 DEF Sides
  <2>6. sells2 + byHand >= sells + byHand
    BY <1>9, <2>3, <2>4
  <2>. QED  BY <1>1, <2>4, <2>5, <2>6 DEF before, after, sells, sells2
<1>12. \A i \in Ids : orders[i].left = 0 => i # id
  BY <1>1
<1>. QED  BY <1>1, <1>2, <1>5, <1>8, <1>10, <1>11, <1>12, PunctualVenue

LEMMA PunctualCancels ==
    ASSUME Base, ApartInv, PunctualInv, Base', NEW id \in Ids, VenueCancels(id)
    PROVE  PunctualInv'
<1>1. /\ setting' = setting /\ path' = path /\ held' = held /\ open' = open /\ byHand' = byHand
      /\ real' = real /\ orders' = [orders EXCEPT ![id].left = 0]
  BY DEF VenueCancels, book, ghosts
<1>2. OneChanged(id, 0, orders[id].filled, orders[id].booked) /\ OrdersKept
  BY <1>1, TakenOff DEF Base
<1>3. FillsStill /\ Owed(orders', "buy") = Owed(orders, "buy")
      /\ Owed(orders', "sell") = Owed(orders, "sell")
  BY <1>2, OneTakenOff DEF Sides
<1>4. Loop \in Paths /\ real \in Int /\ byHand \in Nat /\ Owed(orders, "sell") \in Nat
  BY PathsAre, StateIs, OwedAre
<1>5. /\ Shares(real', orders', byHand') >= Shares(real, orders, byHand)
      /\ real + Owed(orders, "sell") >= 0 => real' + Owed(orders', "sell") >= 0
      /\ Owed(orders', "sell") + byHand' >= Owed(orders, "sell") + byHand
      /\ Owed(orders', "buy") >= Owed(orders, "buy")
      /\ real' - Owed(orders', "buy") <= real - Owed(orders, "buy")
  <2>. DEFINE sells == Owed(orders, "sell")
              buys == Owed(orders, "buy")
  <2>1. sells \in Nat /\ buys \in Nat
    BY OwedAre
  <2>. HIDE DEF sells, buys
  <2>2. /\ real + sells + byHand >= real + sells + byHand /\ sells + byHand >= sells + byHand
        /\ buys >= buys /\ real - buys <= real - buys
    BY <1>4, <2>1
  <2>. QED  BY <1>1, <1>3, <2>2 DEF Shares, sells, buys
<1>. QED  BY <1>1, <1>2, <1>3, <1>5, PunctualVenue DEF FillsStill

LEMMA LeftIsNat ==
    ASSUME Base, NEW side
    PROVE  Left(Working(side)) \in Nat
<1> DEFINE f == [id \in Working(side) |-> orders[id].left]
<1>1. DOMAIN f \subseteq Ids /\ IsFiniteSet(Ids) /\ \A id \in Ids : orders[id].left \in Nat
  BY IdsAre DEF Working, Base
<1>2. Summable(f)
  BY <1>1, FS_Subset DEF Summable
<1>. QED  BY <1>2, SumIsNat DEF Left

LEMMA PunctualByHand ==
    ASSUME Base, ApartInv, PunctualInv, Base', BoughtByHand \/ SoldByHand
    PROVE  PunctualInv'
<1>1. /\ setting' = setting /\ path' = path /\ held' = held /\ open' = open
      /\ orders' = orders /\ "hand" \in Faults
      /\ \/ real' = real + 1 /\ byHand' = byHand
         \/ real' = real - 1 /\ byHand' = byHand + 1 /\ real > Left(Working("sell"))
  BY DEF BoughtByHand, SoldByHand, book, ghosts
<1>2. OrdersKept /\ FillsStill /\ ~Calm
  BY <1>1, NothingFills DEF Calm
<1>3. real \in Int /\ byHand \in Nat /\ Owed(orders, "sell") \in Nat
  BY StateIs, OwedAre
<1>4. Left(Working("sell")) \in Nat
  BY LeftIsNat
<1> DEFINE sells == Owed(orders, "sell")
           working == Left(Working("sell"))
<1>5. sells \in Nat /\ working \in Nat
      /\ \/ real' = real + 1 /\ byHand' = byHand
         \/ real' = real - 1 /\ byHand' = byHand + 1 /\ real > working
  BY <1>1, <1>3, <1>4
<1> HIDE DEF sells, working
<1>6. real' + sells + byHand' >= real + sells + byHand /\ (real + sells >= 0 => real' + sells >= 0)
  BY <1>3, <1>5
<1>7. /\ Shares(real', orders', byHand') >= Shares(real, orders, byHand)
      /\ real + Owed(orders, "sell") >= 0 => real' + Owed(orders', "sell") >= 0
  BY <1>1, <1>6 DEF Shares, sells
<1>. QED  BY <1>1, <1>2, <1>7, PunctualVenue DEF FillsStill

LEMMA PunctualForget ==
    ASSUME Base, ApartInv, PunctualInv, Base', Forget
    PROVE  PunctualInv'
<1>1. /\ setting' = setting /\ path' = path /\ orders' = orders /\ real' = real /\ held' = held
      /\ Idle(Operator) /\ Quiet /\ held = 0 /\ open' = 0 /\ byHand' = 0
  BY DEF Forget, venue
<1>2. Operator \in Paths /\ Seen(path[Operator]) /\ ~Asking(path[Operator])
      /\ ~Reading(path[Operator]) /\ ~Handled(path[Operator])
  BY <1>1, PathsAre DEF Idle, Seen, Asking, Reading, Handled
<1>3. Moves(Operator)
  BY <1>1, <1>2 DEF Base, Moves, PathShape, Others, Paths
<1> SUFFICES ASSUME Sound(path[Operator], orders, real, held, open, byHand),
                    Tidy(path[Operator], orders, path)
             PROVE  /\ Sound(path[Operator], orders', real', held', open', byHand')
                    /\ Tidy(path[Operator], orders', path')
  BY <1>1, <1>3, PunctualMove
<1>4. Tidy(path[Operator], orders', path')
  BY <1>1 DEF Tidy
<1> DEFINE sells == Owed(orders, "sell")
           buys == Owed(orders, "buy")
<1>5. sells \in Nat /\ buys \in Nat /\ real \in Int
  BY OwedAre, StateIs
<1>6. 0 <= real + sells /\ (Calm => real <= 0 + buys)
  BY <1>1, <1>2 DEF Sound, Near
<1> HIDE DEF sells, buys
<1>7. /\ 0 <= real + sells + 0 /\ (0 >= 0 => real + sells >= 0)
      /\ Calm => 0 <= 0 + sells + 0 /\ 0 <= 0 + buys /\ real <= 0 + buys
  BY <1>5, <1>6
<1>8. /\ Near(0, orders, real, 0, 0) /\ 0 <= Shares(real, orders, 0)
      /\ Calm => real <= 0 + Owed(orders, "buy")
  BY <1>7 DEF Near, Shares, sells, buys
<1>9. path[Operator].pc # "adopt"
  BY <1>2 DEF Reading
<1> DEFINE q == 0
           op == 0
           bh == 0
<1>11. op \in Int /\ Near(q, orders, real, op, bh) /\ op <= Shares(real, orders, bh)
       /\ (Calm => real <= op + Owed(orders, "buy"))
  BY <1>8
<1> HIDE DEF q, op, bh
<1>12. Sound(path[Operator], orders, real, q, op, bh)
  BY <1>2, <1>5, <1>9, <1>11, SoundPlain
<1>13. Sound(path[Operator], orders, real, 0, 0, 0)
  BY <1>12 DEF q, op, bh
<1>. QED  BY <1>1, <1>4, <1>13

LEMMA PunctualSame ==
    ASSUME PunctualInv, UNCHANGED <<setting, real, orders, held, open, byHand, path>>
    PROVE  PunctualInv'
BY DEF PunctualInv, Punctual, Faults, Calm, Lone, AtRest, Paths, Sound, Near, Tidy

LEMMA PunctualOpen ==
    ASSUME Base, ApartInv, PunctualInv, Punctual
    PROVE  /\ open <= Shares(real, orders, byHand)
           /\ Calm => real <= open + Owed(orders, "buy")
BY SomeLone, Freed DEF PunctualInv

LEMMA PunctualCrash ==
    ASSUME Base, ApartInv, PunctualInv, Base', Crash
    PROVE  PunctualInv'
<1>1. setting' = setting /\ orders' = orders /\ real' = real /\ open' = open /\ byHand' = byHand
  BY DEF Crash, venue
<1>2. /\ Fields(path'[Loop], "sync", "none", "none", <<>>, 0, <<>>, {}, FALSE, "idle")
      /\ \A t \in Paths \ {Loop} : path'[t] = NoPath
  BY Crashed DEF Base
<1>3. Loop \in Paths /\ \A t \in Paths \ {Loop} : path'[t].pc = "idle"
  BY <1>2, NoPathAsks, PathsAre
<1>4. ~Asking(path'[Loop]) /\ ~Seen(path'[Loop]) /\ ~Reading(path'[Loop]) /\ ~Handled(path'[Loop])
      /\ path'[Loop].pc # "resting"
  BY <1>2 DEF Fields, Asking, Seen, Reading, Handled, Watching
<1>5. real \in Int /\ open \in Int
  BY StateIs
<1>6. Punctual => Sound(path'[Loop], orders, real, held', open, byHand)
  BY <1>4, <1>5, PunctualOpen, SoundPlain
<1>7. Tidy(path'[Loop], orders', path')
  BY <1>3, <1>4 DEF Tidy
<1>. QED  BY <1>1, <1>3, <1>6, <1>7, PunctualStep

LEMMA PunctualInit ==
    ASSUME Init
    PROVE  PunctualInv
<1>1. /\ \A t \in Paths : path[t] = NoPath
      /\ orders = <<>> /\ real = 0 /\ held = 0 /\ open = 0 /\ byHand = 0
  BY DEF Init
<1>2. \A side \in Sides : Owed(<<>>, side) = 0
  <2>1. ASSUME NEW side \in Sides
        PROVE  Owed(<<>>, side) = 0
    BY SumOfNone DEF Owing, Owed
  <2>. QED  BY <2>1
<1>3. Shares(0, <<>>, 0) = 0 /\ Owed(<<>>, "buy") = 0 /\ Owed(<<>>, "sell") = 0
  BY <1>2 DEF Shares, Sides
<1>4. Near(0, <<>>, 0, 0, 0)
  BY <1>3 DEF Near
<1>6. Sound(NoPath, <<>>, 0, 0, 0, 0)
  BY <1>3, <1>4, NoPathAsks DEF Sound, Bought, Sold, Reading
<1>5. \A t \in Paths : path[t].pc # "resting"
  BY <1>1, NoPathAsks
<1>. QED  BY <1>1, <1>5, <1>6 DEF PunctualInv, Tidy

LEMMA PunctualOthers ==
    ASSUME Base, ApartInv, PunctualInv, Base',
           \/ ActSellNothing \/ GraceElapses \/ UNCHANGED vars
           \/ \E id \in Ids : ClearUnconfirmed(id)
    PROVE  PunctualInv'
<1>1. UNCHANGED <<setting, real, orders, held, open, byHand, path>>
  BY DEF ActSellNothing, GraceElapses, ClearUnconfirmed, vars, venue, book, ghosts
<1>. QED  BY <1>1, PunctualSame

LEMMA PunctualNext ==
    ASSUME Base, ApartInv, PunctualInv, Base', [Next]_vars
    PROVE  PunctualInv'
<1>1. ASSUME NEW t \in Paths, SyncFails(t)
      PROVE  PunctualInv'
  BY <1>1 DEF SyncFails, Punctual, PunctualInv, Faults
<1>2. ASSUME NEW t \in Paths, PathStep(t)
      PROVE  PunctualInv'
  BY <1>1, <1>2, PunctualSubmits, PunctualResting, PunctualSubmitStops, PunctualSettle,
     PunctualBook, PunctualFlag, PunctualSyncRead, PunctualSyncApply
     DEF PathStep
<1>3. ASSUME NEW w \in Watchers, WatcherStep(w)
      PROVE  PunctualInv'
  BY <1>3, PunctualWakes, PunctualCancelOk, PunctualMeasure, PunctualUnknown DEF WatcherStep
<1>. QED  BY <1>2, <1>3, PunctualOrders, PunctualLoops, PunctualAdoptWrite, PunctualFill,
             PunctualCancels, PunctualByHand, PunctualForget, PunctualCrash, PunctualOthers
          DEF Next

LEMMA PunctualHolds == Spec => [](Base /\ ApartInv /\ PunctualInv)
<1>1. Init => Base /\ ApartInv /\ PunctualInv
  BY BaseInit, ApartInit, PunctualInit
<1>2. Base /\ ApartInv /\ PunctualInv /\ [Next]_vars => (Base /\ ApartInv /\ PunctualInv)'
  BY BaseNext, ApartNext, PunctualNext
<1>. QED  BY <1>1, <1>2, PTL DEF Spec

(* recordOpen, recordClose, adoptUntrackedHoldings: whatever brokers, the   *)
(* operator and crashes do to orders that are answered in time, the record *)
(* shows no shares that are not there, but for sales about to be booked or *)
(* made by hand.                                                           *)
THEOREM NoPhantoms == Spec => []NoPhantomShares
<1>1. ASSUME Base, ApartInv, PunctualInv
      PROVE  NoPhantomShares
  <2>1. ASSUME Punctual
        PROVE  open <= real + Unbooked("sell") + byHand
    BY <2>1, <1>1, PunctualOpen, UnbookedIs DEF Shares
  <2>. QED  BY <2>1 DEF NoPhantomShares, Punctual
<1>. QED  BY <1>1, PunctualHolds, PTL

-----------------------------------------------------------------------------
(* Orders are accounted for.  Under timely answers, or market orders only,  *)
(* an order is over when nothing of it works, all of its fill is booked and *)
(* no reservation is held for it: until then a path has it, or the operator *)
(* knows of it.                                                             *)
Sure == Calm \/ Contended

Ended(id, ords, res) == ords[id].left = 0 /\ ords[id].filled = ords[id].booked /\ id \notin res

Shared(t, id, ps) == \E u \in Paths \ {t} : id \in DOMAIN ps[u].got

(* A path that is still to report the orders it has an open answer of. *)
Answering(p) ==
    \/ p.pc \in {"submit", "settle", "flag"}
    \/ p.pc = "book" /\ p.kind \in {"exit", "manual"}

(* What path t owes the orders it has: those with an open answer are yet to *)
(* be reported, are reported, or are over; the rest filled as the answer    *)
(* says, or a watcher has them too; a watcher that cancelled one gave its   *)
(* reservation back.                                                        *)
Owns(t, ps, ords, unk, res) ==
    LET p == ps[t]
    IN  /\ \A id \in p.bad : Answering(p) \/ id \in unk \/ Ended(id, ords, res)
        /\ Calm => \A id \in p.bad : p.got[id] = 0
        /\ Late(p) => \A id \in DOMAIN p.got : id \notin res
        /\ Lister /\ ~Watching(p) => \A id \in DOMAIN p.got \ p.bad :
              \/ Shared(t, id, ps)
              \/ ords[id].left = 0 /\ id \notin res /\ ords[id].filled = p.got[id]

SeenTo(id, ps, ords, unk, res) ==
    id \in unk \/ (\E t \in Paths : id \in DOMAIN ps[t].got) \/ Ended(id, ords, res)

NoHand == "hand" \notin Faults => byHand = 0
AllBooked == Sure => \A id \in Ids : orders[id].booked <= orders[id].filled
AllOwned == Sure => \A t \in Paths : Owns(t, path, orders, unknown, reserved)
AllSeenTo == Sure /\ Lister => \A id \in Ids : SeenTo(id, path, orders, unknown, reserved)
SureInv == NoHand /\ AllBooked /\ AllOwned /\ AllSeenTo

(* What no step does to an order: fill or book one that is over, hold a new *)
(* reservation for one there is, or clear one that is not over.             *)
Carries ==
    /\ OrdersKept
    /\ \A id \in Ids :
          /\ orders[id].left = 0 => orders'[id].left = 0 /\ orders'[id].filled = orders[id].filled
          /\ id \in reserved' => id \in reserved
          /\ id \in unknown => id \in unknown' \/ Ended(id, orders', reserved')
          /\ Ended(id, orders, reserved) => orders'[id].booked = orders[id].booked

LEMMA SureIs == Sure => Apart /\ (Serial \/ Execution = "market")
BY DEF Sure, Calm, Contended, Apart, Serial

LEMMA EndedStays ==
    ASSUME Carries, NEW id \in Ids, Ended(id, orders, reserved)
    PROVE  Ended(id, orders', reserved')
BY DEF Carries, Ended

(* A path that keeps its orders, and is as far with them as before. *)
LEMMA OwnsKept ==
    ASSUME Carries, NEW t, Owns(t, path, orders, unknown, reserved), DOMAIN path[t].got \subseteq Ids,
           path[t].bad \subseteq DOMAIN path[t].got,
           path'[t].got = path[t].got, path'[t].bad = path[t].bad,
           \A id \in path[t].bad : Answering(path[t]) =>
               Answering(path'[t]) \/ id \in unknown' \/ Ended(id, orders', reserved'),
           Late(path'[t]) => Late(path[t]) \/ \A id \in DOMAIN path[t].got : id \notin reserved',
           Watching(path[t]) => Watching(path'[t]),
           Lister /\ ~Watching(path[t]) =>
               \A id \in DOMAIN path[t].got : Shared(t, id, path) => Shared(t, id, path')
    PROVE  Owns(t, path', orders', unknown', reserved')
<1>1. ASSUME NEW id \in path[t].bad
      PROVE  Answering(path'[t]) \/ id \in unknown' \/ Ended(id, orders', reserved')
  BY EndedStays DEF Owns, Carries
<1>2. Calm => \A id \in path[t].bad : path[t].got[id] = 0
  BY DEF Owns
<1>3. Late(path'[t]) => \A id \in DOMAIN path[t].got : id \notin reserved'
  BY DEF Owns, Carries
<1>4. ASSUME Lister, ~Watching(path'[t]), NEW id \in DOMAIN path[t].got \ path[t].bad
      PROVE  \/ Shared(t, id, path')
             \/ orders'[id].left = 0 /\ id \notin reserved' /\ orders'[id].filled = path[t].got[id]
  BY <1>4 DEF Owns, Carries
<1>. QED  BY <1>1, <1>2, <1>3, <1>4 DEF Owns

LEMMA OwnsNone ==
    ASSUME NEW t, NEW ps, DOMAIN ps[t].got = {}, ps[t].bad \subseteq DOMAIN ps[t].got,
           NEW ords, NEW unk, NEW res
    PROVE  Owns(t, ps, ords, unk, res)
BY DEF Owns

LEMMA BadAre ==
    ASSUME Base, NEW t \in Paths
    PROVE  DOMAIN path[t].got \subseteq Ids /\ path[t].bad \subseteq DOMAIN path[t].got
BY BaseParts, FitsParts

LEMMA BadAreNext ==
    ASSUME Base', setting' = setting, NEW t \in Paths
    PROVE  DOMAIN path'[t].got \subseteq Ids' /\ path'[t].bad \subseteq DOMAIN path'[t].got
<1>1. Good(t, path'[t], orders')
  BY GoodAfter
<1>. QED  BY <1>1, FitsParts DEF Good, Ids

(* A step in which the paths of S do something, while the others are as    *)
(* they were: at rest, or apart from them.                                 *)
LEMMA SureStep ==
    ASSUME Base, ApartInv, SureInv, setting' = setting, Carries, NEW S, S \subseteq Paths,
           \A u \in Paths \ S : path'[u] = path[u],
           S = {} \/ (Serial => \A u \in Paths \ S : AtRest(u)),
           "hand" \notin Faults => byHand' = 0,
           Sure => \A id \in Ids' : orders'[id].booked <= orders'[id].filled,
           Sure => \A t \in S : Owns(t, path', orders', unknown', reserved'),
           Sure /\ Lister => \A t \in S : \A id \in Handles(t) :
               SeenTo(id, path', orders', unknown', reserved'),
           Sure /\ Lister => \A id \in Ids' \ Ids : SeenTo(id, path', orders', unknown', reserved')
    PROVE  SureInv'
<1>1. /\ (Sure' <=> Sure) /\ (Lister' <=> Lister) /\ (Calm' <=> Calm) /\ Paths' = Paths
      /\ Faults' = Faults
  BY DEF Sure, Calm, Contended, Lister, Faults, Execution, Paths
<1>2. ASSUME Sure, NEW u \in Paths \ S
      PROVE  Owns(u, path', orders', unknown', reserved')
  <2>1. /\ path'[u] = path[u] /\ Owns(u, path, orders, unknown, reserved)
        /\ DOMAIN path[u].got \subseteq Ids /\ path[u].bad \subseteq DOMAIN path[u].got
    BY <1>2, BadAre DEF SureInv, AllOwned
  <2>2. ASSUME ~Watching(path[u]), NEW id \in DOMAIN path[u].got, Shared(u, id, path)
        PROVE  Shared(u, id, path')
    <3>1. CASE S = {}
      BY <2>2, <3>1 DEF Shared
    <3>2. CASE AtRest(u)
      BY <2>2, <3>2, <1>2, BaseParts, NoPathIs, NoneGot DEF AtRest, Watching, Roles, Fields
    <3>3. CASE Execution = "market"
      <4>1. PICK v \in Paths \ {u} : id \in DOMAIN path[v].got
        BY <2>2 DEF Shared
      <4>2. Handles(u) \cap Handles(v) = {}
        BY <1>2, <3>3, <4>1 DEF ApartInv, Disjoint
      <4>. QED  BY <2>2, <4>1, <4>2 DEF Handles
    <3>. QED  BY <1>2, <3>1, <3>2, <3>3, SureIs
  <2>. QED  BY <2>1, <2>2, OwnsKept
<1>3. AllOwned'
  BY <1>1, <1>2 DEF AllOwned, Owns, Shared, Ended, Answering, Late, Watching
<1>4. ASSUME Sure, Lister, NEW id \in Ids'
      PROVE  SeenTo(id, path', orders', unknown', reserved')
  <2>1. CASE id \in Ids
    <3>1. SeenTo(id, path, orders, unknown, reserved)
      BY <1>4, <2>1 DEF SureInv, AllSeenTo
    <3>2. CASE id \in unknown
      BY <2>1, <3>2 DEF Carries, SeenTo
    <3>3. CASE Ended(id, orders, reserved)
      BY <2>1, <3>3, EndedStays DEF SeenTo
    <3>4. ASSUME NEW t \in Paths, id \in DOMAIN path[t].got
          PROVE  SeenTo(id, path', orders', unknown', reserved')
      BY <1>4, <3>4 DEF Handles, SeenTo
    <3>. QED  BY <3>1, <3>2, <3>3, <3>4 DEF SeenTo
  <2>2. CASE id \notin Ids
    BY <1>4, <2>2
  <2>. QED  BY <2>1, <2>2
<1>5. AllSeenTo'
  BY <1>1, <1>4 DEF AllSeenTo, SeenTo, Ended
<1>6. AllBooked' /\ NoHand'
  BY <1>1 DEF AllBooked, NoHand
<1>. QED  BY <1>3, <1>5, <1>6 DEF SureInv

LEMMA SureLone ==
    ASSUME ApartInv, NEW t \in Paths, ~AtRest(t) \/ Quiet, Serial
    PROVE  \A u \in Paths \ {t} : AtRest(u)
BY DEF ApartInv, OneAtATime, Quiet, Serial

LEMMA SureMove ==
    ASSUME Base, ApartInv, SureInv, setting' = setting, byHand' = byHand, Carries, NEW t, Moves(t),
           ~AtRest(t) \/ Quiet,
           Sure => \A id \in Ids' : orders'[id].booked <= orders'[id].filled,
           Sure => Owns(t, path', orders', unknown', reserved'),
           Sure /\ Lister => \A id \in Handles(t) : SeenTo(id, path', orders', unknown', reserved'),
           Sure /\ Lister => \A id \in Ids' \ Ids : SeenTo(id, path', orders', unknown', reserved')
    PROVE  SureInv'
<1>1. t \in Paths /\ \A u \in Paths \ {t} : path'[u] = path[u]
  BY DEF Moves, Others
<1>2. Serial => \A u \in Paths \ {t} : AtRest(u)
  BY <1>1, SureLone
<1>3. "hand" \notin Faults => byHand' = 0
  BY DEF SureInv, NoHand
<1> DEFINE S == {t}
<1>4. /\ S \subseteq Paths /\ \A u \in Paths \ S : path'[u] = path[u]
      /\ S = {} \/ (Serial => \A u \in Paths \ S : AtRest(u))
      /\ Sure => \A u \in S : Owns(u, path', orders', unknown', reserved')
      /\ Sure /\ Lister => \A u \in S : \A id \in Handles(u) :
             SeenTo(id, path', orders', unknown', reserved')
  BY <1>1, <1>2
<1> HIDE DEF S
<1>. QED  BY <1>3, <1>4, SureStep

LEMMA SureStill ==
    ASSUME Base, ApartInv, SureInv, setting' = setting, path' = path, Ids' = Ids, Carries,
           "hand" \notin Faults => byHand' = 0,
           Sure => \A id \in Ids' : orders'[id].booked <= orders'[id].filled
    PROVE  SureInv'
<1> DEFINE S == {}
<1>1. /\ S \subseteq Paths /\ \A u \in Paths \ S : path'[u] = path[u]
      /\ S = {} \/ (Serial => \A u \in Paths \ S : AtRest(u))
      /\ \A u \in S : /\ Owns(u, path', orders', unknown', reserved')
                      /\ \A id \in Handles(u) : SeenTo(id, path', orders', unknown', reserved')
      /\ \A id \in Ids' \ Ids : SeenTo(id, path', orders', unknown', reserved')
  OBVIOUS
<1> HIDE DEF S
<1>. QED  BY <1>1, SureStep

(* Where the invariant says nothing but of trades by hand. *)
LEMMA SureFaulty ==
    ASSUME setting' = setting, ~Sure, "hand" \notin Faults => byHand' = 0
    PROVE  SureInv'
<1>1. (Sure' <=> Sure) /\ Faults' = Faults
  BY DEF Sure, Calm, Contended, Faults, Execution
<1>. QED  BY <1>1 DEF SureInv, NoHand, AllBooked, AllOwned, AllSeenTo

(* Steps that leave the orders and the reservations alone. *)
LEMMA CarriesSame ==
    ASSUME Base, SureInv, orders' = orders, reserved' = reserved, unknown \subseteq unknown'
    PROVE  /\ Carries /\ Ids' = Ids
           /\ Sure => \A id \in Ids' : orders'[id].booked <= orders'[id].filled
<1>1. OrdersKept /\ Ids' = Ids
  BY Kept DEF Base
<1>2. Carries
  BY <1>1 DEF Carries, Ended
<1>. QED  BY <1>1, <1>2 DEF SureInv, AllBooked

LEMMA SureKeeps ==
    ASSUME Base, ApartInv, SureInv, UNCHANGED <<setting, orders, reserved, byHand>>,
           unknown \subseteq unknown', NEW t, Moves(t), ~AtRest(t) \/ Quiet,
           path'[t].got = path[t].got, path'[t].bad = path[t].bad,
           Sure => \A id \in path[t].bad : Answering(path[t]) =>
                       Answering(path'[t]) \/ id \in unknown',
           Late(path'[t]) => Late(path[t]),
           Watching(path[t]) => Watching(path'[t])
    PROVE  SureInv'
<1>1. /\ Carries /\ Ids' = Ids
      /\ Sure => \A id \in Ids' : orders'[id].booked <= orders'[id].filled
  BY CarriesSame
<1>2. t \in Paths /\ \A u \in Paths \ {t} : path'[u] = path[u]
  BY DEF Moves, Others
<1>3. \A id : Shared(t, id, path) => Shared(t, id, path')
  BY <1>2 DEF Shared
<1>4. DOMAIN path[t].got \subseteq Ids /\ path[t].bad \subseteq DOMAIN path[t].got
  BY <1>2, BadAre
<1>5. Sure => Owns(t, path', orders', unknown', reserved')
  BY <1>1, <1>2, <1>3, <1>4, OwnsKept DEF SureInv, AllOwned
<1>6. \A id \in Handles(t) : SeenTo(id, path', orders', unknown', reserved')
  BY <1>2 DEF SeenTo, Handles
<1>. QED  BY <1>1, <1>5, <1>6, SureMove

LEMMA SureEmpties ==
    ASSUME Base, ApartInv, SureInv, Base', UNCHANGED <<setting, orders, reserved, byHand>>,
           unknown \subseteq unknown', NEW t, Moves(t), ~AtRest(t) \/ Quiet,
           DOMAIN path'[t].got = {},
           Sure /\ Lister => \A id \in Handles(t) : SeenTo(id, path', orders', unknown', reserved')
    PROVE  SureInv'
<1>1. /\ Carries /\ Ids' = Ids
      /\ Sure => \A id \in Ids' : orders'[id].booked <= orders'[id].filled
  BY CarriesSame
<1>2. path'[t].bad \subseteq DOMAIN path'[t].got
  BY BadAreNext DEF Moves
<1>3. Owns(t, path', orders', unknown', reserved')
  BY <1>2, OwnsNone
<1>. QED  BY <1>1, <1>3, SureMove

LEMMA SureBegins ==
    ASSUME Base, ApartInv, SureInv, Base', UNCHANGED <<setting, orders, unknown, reserved, byHand>>,
           NEW t, Moves(t), ~AtRest(t) \/ Quiet, DOMAIN path[t].got = {}, DOMAIN path'[t].got = {}
    PROVE  SureInv'
BY SureEmpties DEF Handles

LEMMA SureOrders ==
    ASSUME Base, ApartInv, SureInv, Base',
           \/ ActSell \/ StartSync \/ ReconcileList \/ ReconcileClear \/ Adopt \/ AdoptWrite
           \/ \E qty \in 1..MaxQty :
                 ActBuy(qty) \/ Exit(qty) \/ \E side \in {"buy", "sell"} : Manual(side, qty)
    PROVE  SureInv'
<1>1. Loop \in Paths /\ Operator \in Paths
  BY PathsAre
<1>2. UNCHANGED <<setting, orders, unknown, reserved, byHand>>
  BY DEF ActBuy, ActSell, Exit, Manual, StartSync, ReconcileList, ReconcileClear, Adopt, AdoptWrite,
         venue, claims, ghosts
<1>3. ASSUME NEW t \in Paths, path[t].pc = "idle"
      PROVE  DOMAIN path[t].got = {}
  BY <1>3, BaseParts, NoPathIs, NoneGot DEF Roles, Fields
<1>4. ASSUME NEW t \in Paths, path[t].pc = "idle", Quiet, NEW kind, NEW side, NEW clips,
             Begin(t, kind, side, clips)
      PROVE  SureInv'
  BY <1>4, Begun, NoneGot, <1>2, <1>3, SureBegins DEF Base, Fields
<1>5. ASSUME NEW qty \in 1..MaxQty, ActBuy(qty) \/ Exit(qty)
      PROVE  SureInv'
  BY <1>5, <1>1, <1>4 DEF ActBuy, Exit, Idle
<1>6. ASSUME NEW qty \in 1..MaxQty, NEW side \in {"buy", "sell"}, Manual(side, qty)
      PROVE  SureInv'
  BY <1>6, <1>1, <1>4 DEF Manual, Idle
<1>7. CASE ActSell
  BY <1>7, <1>1, <1>4 DEF ActSell, Idle
<1>8. CASE StartSync \/ ReconcileList
  BY <1>8, <1>1, Moved, <1>2, <1>3, SureBegins DEF StartSync, ReconcileList, Idle, Base, Fields
<1>9. CASE ReconcileClear
  <2>1. path[Loop].pc = "reconcile" /\ Goto(Loop, "idle") /\ ~AtRest(Loop)
    BY <1>9 DEF ReconcileClear, AtRest
  <2>2. Moves(Loop) /\ path'[Loop].got = path[Loop].got
    BY <1>1, <2>1, Moved DEF Base, Fields
  <2>3. DOMAIN path[Loop].got = {}
    BY <1>1, <2>1, BaseParts, NoneGot DEF Roles, Fields
  <2>. QED  BY <1>1, <1>2, <2>1, <2>2, <2>3, SureBegins
<1>10. CASE Adopt
  <2>1. Quiet /\ path[Operator].pc = "idle"
    BY <1>10 DEF Adopt, Idle
  <2>2. Moves(Operator) /\ DOMAIN path'[Operator].got = {}
    BY <1>10, Adopting, NoneGot DEF Base, Fields
  <2>. QED  BY <1>1, <1>2, <1>3, <2>1, <2>2, SureBegins
<1>11. CASE AdoptWrite
  <2>1. path[Operator].pc = "adopt" /\ path' = [path EXCEPT ![Operator] = NoPath] /\ ~AtRest(Operator)
    BY <1>11 DEF AdoptWrite, AtRest
  <2>2. Moves(Operator) /\ DOMAIN path'[Operator].got = {}
    BY <1>1, <2>1, PathEnds, NoPathIs, NoneGot DEF Base, Fields
  <2>3. DOMAIN path[Operator].got = {}
    BY <1>1, <2>1, BaseParts DEF Roles
  <2>. QED  BY <1>1, <1>2, <2>1, <2>2, <2>3, SureBegins
<1>. QED  BY <1>5, <1>6, <1>7, <1>8, <1>9, <1>10, <1>11

(* An order the broker just took: its answer is final, or open and noted    *)
(* as such, or a watcher has it too.                                        *)
LEMMA OwnsAnswered ==
    ASSUME Base, SureInv, Sure, NEW t \in Paths, NEW fill \in Nat, NEW left \in Nat,
           path[t].pc = "submit", Len(orders) < MaxOrders, Takes(t, fill, left),
           NEW clips, NEW bad, NEW resting,
           LET p == path[t]
           IN  Fields(path'[t], IF Len(p.clips) > 1 THEN "submit" ELSE "settle", p.kind, p.side,
                      clips, p.base, Noting(p.got, NextId, fill), bad, resting, p.next),
           unknown' = unknown, reserved' \subseteq reserved \cup {NextId},
           \/ /\ bad = path[t].bad
              /\ Shared(t, NextId, path') \/ (left = 0 /\ NextId \notin reserved')
           \/ bad = path[t].bad \cup {NextId} /\ (Calm => fill = 0),
           \A id : Shared(t, id, path) => Shared(t, id, path')
    PROVE  /\ Carries /\ Owns(t, path', orders', unknown', reserved')
           /\ \A id \in Ids' : orders'[id].booked <= orders'[id].filled
           /\ DOMAIN path'[t].got = Handles(t) \cup {NextId}
           /\ Ids' = Ids \cup {NextId} /\ ~AtRest(t)
<1>1. path[t].side \in Sides /\ Typed /\ Roles(t, path[t])
  BY BaseParts DEF Roles, Asked, Asking
<1>2. DOMAIN path[t].got \subseteq Ids /\ path[t].bad \subseteq DOMAIN path[t].got
  BY BadAre
<1>3. /\ Ids' = Ids \cup {NextId} /\ NextId \notin Ids /\ OrdersKept
      /\ orders'[NextId].left = left /\ orders'[NextId].filled = fill /\ orders'[NextId].booked = 0
      /\ \A id \in Ids : orders'[id] = orders[id]
  BY <1>1, Taken
<1>4. Carries
  BY <1>3 DEF Carries, Ended
<1>5. \A id \in Ids' : orders'[id].booked <= orders'[id].filled
  BY <1>3 DEF SureInv, AllBooked
<1>6. /\ path'[t].got = Noting(path[t].got, NextId, fill) /\ path'[t].bad = bad
      /\ path'[t].pc \in {"submit", "settle"} /\ path'[t].next = path[t].next
  BY DEF Fields
<1>7. /\ DOMAIN path'[t].got = Handles(t) \cup {NextId}
      /\ path'[t].got[NextId] = fill
      /\ \A id \in Handles(t) : path'[t].got[id] = path[t].got[id]
  BY <1>2, <1>3, <1>6 DEF Noting, Handles
<1>8. Owns(t, path, orders, unknown, reserved) /\ ~Watching(path[t])
  BY <1>1 DEF SureInv, AllOwned, Watching, Roles
<1>9. Answering(path'[t]) /\ ~Watching(path'[t])
  BY <1>6, <1>8 DEF Answering, Watching
<1>10. ASSUME Calm, NEW id \in bad
       PROVE  path'[t].got[id] = 0
  BY <1>2, <1>7, <1>8, <1>10 DEF Owns, Handles
<1>11. ASSUME Lister, NEW id \in DOMAIN path'[t].got \ bad
       PROVE  \/ Shared(t, id, path')
              \/ orders'[id].left = 0 /\ id \notin reserved' /\ orders'[id].filled = path'[t].got[id]
  BY <1>3, <1>7, <1>11, <1>2, <1>8 DEF Handles, Owns
<1>12. Owns(t, path', orders', unknown', reserved')
  BY <1>6, <1>9, <1>10, <1>11 DEF Owns, Late
<1>. QED  BY <1>3, <1>4, <1>5, <1>7, <1>12 DEF AtRest

LEMMA SureSubmits ==
    ASSUME Base, ApartInv, SureInv, NEW t \in Paths, SubmitFinal(t) \/ SubmitOpen(t)
    PROVE  SureInv'
<1>1. path[t].pc = "submit" /\ Len(orders) < MaxOrders /\ UNCHANGED <<setting, unknown, byHand>>
  BY DEF SubmitFinal, SubmitOpen, claims, ghosts
<1>2. \E fill \in Nat, left \in Nat, bad \in {path[t].bad, path[t].bad \cup {NextId}} :
        /\ Takes(t, fill, left) /\ Moves(t)
        /\ LET p == path[t]
           IN  Fields(path'[t], IF Len(p.clips) > 1 THEN "submit" ELSE "settle", p.kind, p.side,
                      Tail(p.clips), p.base, Noting(p.got, NextId, fill), bad, p.resting, p.next)
        /\ reserved' \subseteq reserved \cup {NextId}
        /\ \/ bad = path[t].bad /\ left = 0 /\ reserved' = reserved
           \/ bad = path[t].bad \cup {NextId} /\ (Calm => fill = 0)
  <2>1. CASE SubmitFinal(t)
    <3>1. PICK fill \in 0..Head(path[t].clips) :
            /\ Takes(t, fill, 0) /\ Moves(t)
            /\ LET p == path[t]
               IN  Fields(path'[t], IF Len(p.clips) > 1 THEN "submit" ELSE "settle", p.kind, p.side,
                          Tail(p.clips), p.base, Noting(p.got, NextId, fill), p.bad, p.resting, p.next)
      BY <2>1, Finals DEF Base
    <3>2. fill \in Nat /\ 0 \in Nat
      BY <1>1, HeadIs
    <3>3. reserved' = reserved
      BY <2>1 DEF SubmitFinal, claims
    <3>. QED  BY <3>1, <3>2, <3>3
  <2>2. CASE SubmitOpen(t)
    <3>1. PICK fill \in 0..(Head(path[t].clips) - 1) :
            /\ fill > 0 => "partial" \in Faults
            /\ Takes(t, fill, Head(path[t].clips) - fill) /\ Moves(t)
            /\ reserved' = IF path[t].kind = "watch" /\ fill > 0 THEN reserved ELSE Reserving(t)
            /\ LET p == path[t]
               IN  Fields(path'[t], IF Len(p.clips) > 1 THEN "submit" ELSE "settle", p.kind, p.side,
                          Tail(p.clips), p.base, Noting(p.got, NextId, fill), p.bad \cup {NextId},
                          p.resting, p.next)
      BY <2>2, Opens DEF Base
    <3>2. fill \in Nat /\ Head(path[t].clips) - fill \in Nat
      BY <1>1, HeadIs
    <3>3. reserved' \subseteq reserved \cup {NextId}
      BY <3>1 DEF Reserving
    <3>4. Calm => fill = 0
      BY <3>1, <3>2 DEF Calm
    <3>. QED  BY <3>1, <3>2, <3>3, <3>4
  <2>. QED  BY <2>1, <2>2
<1>3. PICK fill \in Nat, left \in Nat, bad \in {path[t].bad, path[t].bad \cup {NextId}} :
        /\ Takes(t, fill, left) /\ Moves(t)
        /\ LET p == path[t]
           IN  Fields(path'[t], IF Len(p.clips) > 1 THEN "submit" ELSE "settle", p.kind, p.side,
                      Tail(p.clips), p.base, Noting(p.got, NextId, fill), bad, p.resting, p.next)
        /\ reserved' \subseteq reserved \cup {NextId}
        /\ \/ bad = path[t].bad /\ left = 0 /\ reserved' = reserved
           \/ bad = path[t].bad \cup {NextId} /\ (Calm => fill = 0)
  BY <1>2
<1>4. NextId \notin reserved
  BY IdsAre DEF Base, Typed
<1>5. \A id : Shared(t, id, path) => Shared(t, id, path')
  BY <1>3 DEF Shared, Moves, Others
<1>6. CASE Sure
  <2>1. /\ Carries /\ Owns(t, path', orders', unknown', reserved')
        /\ \A id \in Ids' : orders'[id].booked <= orders'[id].filled
        /\ DOMAIN path'[t].got = Handles(t) \cup {NextId}
        /\ Ids' = Ids \cup {NextId} /\ ~AtRest(t)
    BY <1>1, <1>3, <1>4, <1>5, <1>6, OwnsAnswered
  <2>2. \A id \in Handles(t) \cup (Ids' \ Ids) : SeenTo(id, path', orders', unknown', reserved')
    BY <2>1 DEF SeenTo
  <2>. QED  BY <1>1, <1>3, <2>1, <2>2, SureMove
<1>7. CASE ~Sure
  BY <1>1, <1>7, SureFaulty DEF SureInv, NoHand
<1>. QED  BY <1>6, <1>7

LEMMA SureResting ==
    ASSUME Base, ApartInv, SureInv, NEW t \in Paths, NEW w \in Watchers, SubmitResting(t, w)
    PROVE  SureInv'
<1>1. /\ path[t].pc = "submit" /\ Len(orders) < MaxOrders /\ path[w].pc = "idle"
      /\ UNCHANGED <<setting, unknown, byHand>>
  BY DEF SubmitResting, Idle, ghosts
<1>2. PICK fill \in 0..(Head(path[t].clips) - 1) :
        /\ Takes(t, fill, Head(path[t].clips) - fill)
        /\ reserved' = Reserving(t)
        /\ t # w /\ \A u \in Paths \ {t, w} : path'[u] = path[u]
        /\ LET p == path[t]
           IN  /\ Fields(path'[t], IF Len(p.clips) > 1 THEN "submit" ELSE "settle", p.kind,
                         p.side, Tail(p.clips), p.base, Noting(p.got, NextId, fill), p.bad,
                         TRUE, p.next)
               /\ Fields(path'[w], "resting", "watch", p.side, <<Head(p.clips) - fill>>, 0,
                         Noting(<<>>, NextId, 0), {}, FALSE, "idle")
  BY Rests DEF Base
<1>3. fill \in Nat /\ Head(path[t].clips) - fill \in Nat
  BY <1>1, HeadIs
<1>4. w \in Paths /\ DOMAIN path[w].got = {}
  BY PathsAre, <1>1, BaseParts, NoPathIs, NoneGot DEF Roles, Fields
<1>5. /\ path'[w].pc = "resting" /\ path'[w].bad = {} /\ NextId \in DOMAIN path'[w].got
  BY <1>2 DEF Noting, Fields
<1>6. reserved' \subseteq reserved \cup {NextId}
  BY <1>2 DEF Reserving
<1>7. \A id : Shared(t, id, path) => Shared(t, id, path')
  BY <1>2, <1>4 DEF Shared
<1>8. Shared(t, NextId, path')
  BY <1>2, <1>4, <1>5 DEF Shared
<1>9. CASE Sure
  <2>1. /\ Carries /\ Owns(t, path', orders', unknown', reserved')
        /\ \A id \in Ids' : orders'[id].booked <= orders'[id].filled
        /\ DOMAIN path'[t].got = Handles(t) \cup {NextId}
        /\ Ids' = Ids \cup {NextId} /\ ~AtRest(t)
    BY <1>1, <1>2, <1>3, <1>6, <1>7, <1>8, <1>9, OwnsAnswered
  <2>2. Owns(w, path', orders', unknown', reserved')
    BY <1>5 DEF Owns, Late, Watching
  <2>3. \A id \in Handles(t) \cup (Ids' \ Ids) : SeenTo(id, path', orders', unknown', reserved')
    BY <2>1 DEF SeenTo
  <2>4. Serial => \A u \in Paths \ {t} : AtRest(u)
    BY <2>1, SureLone
  <2>5. "hand" \notin Faults => byHand' = 0
    BY <1>1 DEF SureInv, NoHand
  <2> DEFINE S == {t, w}
  <2>6. /\ S \subseteq Paths /\ \A u \in Paths \ S : path'[u] = path[u]
        /\ Serial => \A u \in Paths \ S : AtRest(u)
        /\ \A u \in S : Owns(u, path', orders', unknown', reserved')
        /\ \A u \in S : \A id \in Handles(u) : SeenTo(id, path', orders', unknown', reserved')
    BY <1>2, <1>4, <2>1, <2>2, <2>3, <2>4 DEF Handles
  <2> HIDE DEF S
  <2>. QED  BY <1>1, <2>1, <2>3, <2>5, <2>6, SureStep
<1>10. CASE ~Sure
  BY <1>1, <1>10, SureFaulty DEF SureInv, NoHand
<1>. QED  BY <1>9, <1>10

LEMMA SureSubmitStops ==
    ASSUME Base, ApartInv, SureInv, Base', NEW t \in Paths,
           SubmitFails(t) \/ ReplyLost(t) \/ RateRefused(t)
    PROVE  SureInv'
<1>1. path[t].pc = "submit" /\ UNCHANGED <<setting, byHand>> /\ ~AtRest(t)
  BY DEF SubmitFails, ReplyLost, RateRefused, ghosts, AtRest
<1>2. CASE ReplyLost(t)
  <2>1. ~Sure
    BY <1>2 DEF ReplyLost, Sure, Calm, Contended
  <2>. QED  BY <1>1, <2>1, SureFaulty DEF SureInv, NoHand
<1>3. CASE SubmitFails(t) \/ RateRefused(t)
  <2>1. UNCHANGED <<orders, unknown, reserved>>
    BY <1>3 DEF SubmitFails, RateRefused, venue, claims
  <2>2. /\ Moves(t)
        /\ \/ DOMAIN path[t].got = {} /\ path'[t] = NoPath
           \/ LET p == path[t]
              IN  Fields(path'[t], "settle", p.kind, p.side, <<>>, p.base, p.got, p.bad, p.resting,
                         p.next)
    BY <1>3, PlanGivenUp, CutShort DEF Base, SubmitFails
  <2>3. CASE DOMAIN path[t].got = {} /\ path'[t] = NoPath
    <3>1. DOMAIN path'[t].got = {}
      BY <2>3, NoPathIs, NoneGot DEF Fields
    <3>. QED  BY <1>1, <2>1, <2>2, <2>3, <3>1, SureBegins
  <2>4. CASE LET p == path[t]
             IN  Fields(path'[t], "settle", p.kind, p.side, <<>>, p.base, p.got, p.bad, p.resting,
                        p.next)
    BY <2>4, <1>1, BaseParts, <2>1, <2>2, SureKeeps DEF Fields, Roles, Answering, Late, Watching
  <2>. QED  BY <2>2, <2>3, <2>4
<1>. QED  BY <1>2, <1>3

(* Settle reports every open answer that no later step of the path will. *)
LEMMA SureSettle ==
    ASSUME Base, ApartInv, SureInv, NEW t \in Paths, Settle(t)
    PROVE  SureInv'
<1> DEFINE p == path[t]
           pc == IF Confirmed(p) > 0 THEN "book" ELSE "sync"
<1>1. /\ p.pc = "settle" /\ Goto(t, pc) /\ UNCHANGED <<setting, orders, reserved, byHand>>
      /\ unknown' = IF p.kind = "act" \/ Confirmed(p) = 0 THEN unknown \cup p.bad ELSE unknown
  BY DEF Settle, venue, ghosts
<1>2. Roles(t, p) /\ Summable(p.got) /\ p.bad \subseteq DOMAIN p.got /\ Confirmed(p) \in Nat
  BY BaseParts, FitsParts
<1>3. (Confirmed(p) > 0 /\ pc = "book") \/ (Confirmed(p) = 0 /\ pc = "sync")
  BY <1>2
<1>4. /\ p.kind \in {"act", "exit", "manual", "watch"} /\ p.next # "measure" /\ ~AtRest(t)
      /\ p.kind # "act" => \E id \in DOMAIN p.got : DOMAIN p.got = {id}
      /\ p.kind = "watch" => Execution # "market"
  BY <1>1, <1>2, BaseParts, FitsParts, MarketWatchers DEF Roles, Asked, Asking, AtRest
<1>5. ASSUME Sure, NEW id \in p.bad, ~(p.kind = "act" \/ Confirmed(p) = 0)
      PROVE  p.kind \in {"exit", "manual"}
  BY <1>4, <1>5, <1>2, SumOfZeros DEF Sure, Contended, SureInv, AllOwned, Owns, Confirmed
<1> HIDE DEF pc, p
<1>6. Moves(t) /\ path'[t].pc = pc /\ path'[t].got = p.got /\ path'[t].bad = p.bad
      /\ path'[t].next = p.next /\ path'[t].kind = p.kind
  BY <1>1, Moved DEF Base, Fields, p
<1>7. ASSUME Sure, NEW id \in p.bad
      PROVE  Answering(path'[t]) \/ id \in unknown'
  BY <1>1, <1>7, <1>3, <1>5, <1>6 DEF Answering
<1>8. ~Watching(path[t]) /\ ~Late(path'[t])
  BY <1>1, <1>3, <1>4, <1>6 DEF Watching, Late, p
<1>9. unknown \subseteq unknown'
  BY <1>1
<1>10. path'[t].got = path[t].got /\ path'[t].bad = path[t].bad
       /\ (Sure => \A id \in path[t].bad : Answering(path'[t]) \/ id \in unknown')
  BY <1>6, <1>7 DEF p
<1>. QED  BY <1>1, <1>4, <1>6, <1>8, <1>9, <1>10, SureKeeps

LEMMA SureBook ==
    ASSUME Base, ApartInv, SureInv, NEW t \in Paths, Book(t)
    PROVE  SureInv'
<1>1. /\ path[t].pc = "book" /\ setting' = setting /\ Asking(path[t]) /\ ~AtRest(t) /\ Ids' = Ids
      /\ OrdersKept /\ Handles(t) \subseteq Ids
      /\ \A id \in Ids : /\ orders'[id].left = orders[id].left
                         /\ orders'[id].filled = orders[id].filled
                         /\ orders'[id].booked = IF id \in Handles(t)
                                                 THEN orders[id].booked + path[t].got[id]
                                                 ELSE orders[id].booked
      /\ \A id \in Handles(t) : path[t].got[id] \in Nat /\ path[t].got[id] <= orders[id].filled
      /\ UNCHANGED <<unknown, reserved, byHand>>
  BY BookFacts DEF claims, ghosts
<1>2. PICK pc : /\ pc = "sync" \/ pc = "flag"
                /\ pc = "sync" => path[t].bad = {} \/ path[t].kind \notin {"exit", "manual"}
                /\ Moves(t)
                /\ LET p == path[t]
                   IN  Fields(path'[t], pc, p.kind, p.side, p.clips, p.base, p.got, p.bad, p.resting,
                              "idle")
  BY BookFacts
<1>3. /\ path'[t].pc = pc /\ path'[t].got = path[t].got /\ path'[t].bad = path[t].bad
      /\ path'[t].next = "idle"
  BY <1>2 DEF Fields
<1>4. CASE Sure
  <2>1. ASSUME NEW id \in Handles(t)
        PROVE  orders[id].booked = 0 /\ orders'[id].booked = path[t].got[id]
    BY <1>1, <1>4, <2>1, SureIs DEF ApartInv, AllTold, Told, Handles
  <2>2. ASSUME NEW id \in Ids
        PROVE  orders'[id].booked <= orders'[id].filled
    BY <1>1, <2>1, <1>4 DEF SureInv, AllBooked
  <2>3. ASSUME NEW id \in Ids, Ended(id, orders, reserved)
        PROVE  orders'[id].booked = orders[id].booked
    BY <1>1, <2>1, <2>3 DEF Ended
  <2>4. Carries
    BY <1>1, <2>3 DEF Carries
  <2>5. \A id : Shared(t, id, path) => Shared(t, id, path')
    BY <1>2 DEF Shared, Moves, Others
  <2>6. ASSUME NEW id \in path[t].bad, Answering(path[t])
        PROVE  Answering(path'[t])
    BY <1>1, <1>2, <1>3, <2>6 DEF Answering
  <2>7. ~Watching(path[t]) /\ ~Late(path'[t])
    BY <1>1, BaseParts, <1>2, <1>3 DEF Roles, Watching, Late
  <2>8. DOMAIN path[t].got \subseteq Ids /\ path[t].bad \subseteq DOMAIN path[t].got
    BY BadAre
  <2>9. Owns(t, path', orders', unknown', reserved')
    BY <1>3, <1>4, <2>4, <2>5, <2>6, <2>7, <2>8, OwnsKept DEF SureInv, AllOwned
  <2>10. \A id \in Handles(t) : SeenTo(id, path', orders', unknown', reserved')
    BY <1>3 DEF SeenTo, Handles
  <2>. QED  BY <1>1, <1>2, <2>2, <2>4, <2>9, <2>10, SureMove
<1>5. CASE ~Sure
  BY <1>1, <1>5, SureFaulty DEF SureInv, NoHand
<1>. QED  BY <1>4, <1>5

LEMMA SureFlag ==
    ASSUME Base, ApartInv, SureInv, NEW t \in Paths, Flag(t)
    PROVE  SureInv'
<1>1. /\ path[t].pc = "flag" /\ Goto(t, "sync") /\ UNCHANGED <<setting, orders, reserved, byHand>>
      /\ unknown' = unknown \cup path[t].bad /\ ~AtRest(t)
  BY DEF Flag, venue, ghosts, AtRest
<1>2. Moves(t) /\ path'[t].pc = "sync" /\ path'[t].got = path[t].got /\ path'[t].bad = path[t].bad
      /\ path'[t].next = path[t].next
  BY <1>1, Moved DEF Base, Fields
<1>3. ~Watching(path[t]) /\ ~Late(path'[t])
  BY <1>1, <1>2, BaseParts DEF Watching, Late, Roles
<1>. QED  BY <1>1, <1>2, <1>3, SureKeeps

LEMMA SureSyncRead ==
    ASSUME Base, ApartInv, SureInv, NEW t \in Paths, SyncRead(t)
    PROVE  SureInv'
<1>1. path[t].pc = "sync" /\ UNCHANGED <<setting, orders, unknown, reserved, byHand>> /\ ~AtRest(t)
  BY DEF SyncRead, venue, claims, ghosts, AtRest
<1>2. Moves(t) /\ path'[t].pc = "apply" /\ path'[t].got = path[t].got /\ path'[t].bad = path[t].bad
      /\ path'[t].next = path[t].next
  BY Read DEF Base, Fields
<1>3. ~Answering(path[t]) /\ (Watching(path'[t]) <=> Watching(path[t]))
      /\ (Late(path'[t]) <=> Late(path[t]))
  BY <1>1, <1>2 DEF Answering, Watching, Late
<1>. QED  BY <1>1, <1>2, <1>3, SureKeeps

(* A path that is done with its orders leaves each of them over, or to      *)
(* someone else.                                                            *)
LEMMA SureSynced ==
    ASSUME Base, ApartInv, SureInv, Base', NEW t \in Paths, SyncFails(t) \/ SyncApply(t)
    PROVE  SureInv'
<1>1. path[t].pc \in {"sync", "apply"} /\ UNCHANGED <<setting, orders, unknown, reserved, byHand>>
      /\ Synced(t)
  BY DEF SyncFails, SyncApply, venue, claims, ghosts
<1>2. path[t].next \in {"idle", "measure"} /\ ~AtRest(t) /\ ~Answering(path[t])
  BY <1>1, BaseParts, FitsParts DEF AtRest, Answering
<1>3. Moves(t)
      /\ LET p == path[t]
         IN  IF p.next = "idle" THEN path'[t] = NoPath
             ELSE Fields(path'[t], p.next, p.kind, p.side, p.clips, p.base, p.got, p.bad, p.resting,
                         p.next)
  BY <1>1, SyncedIs DEF Base
<1>4. CASE path[t].next = "measure"
  BY <1>3, <1>4, <1>1, <1>2, SureKeeps DEF Fields, Watching, Late
<1>5. CASE path[t].next = "idle"
  <2>1. DOMAIN path'[t].got = {}
    BY <1>3, <1>5, NoPathIs, NoneGot DEF Fields
  <2>2. Over(path[t]) /\ ~Watching(path[t])
    BY <1>1, <1>5 DEF Over, Watching
  <2>3. ASSUME Sure, Lister, NEW id \in Handles(t)
        PROVE  SeenTo(id, path', orders', unknown', reserved')
    <3>1. Owns(t, path, orders, unknown, reserved)
      BY <2>3 DEF SureInv, AllOwned
    <3>2. orders[id].booked = path[t].got[id]
      BY <2>2, <2>3, SureIs DEF ApartInv, AllTold, Told, Handles
    <3>3. CASE id \in path[t].bad
      BY <1>2, <3>1, <3>3, <1>1 DEF Owns, SeenTo
    <3>4. CASE id \notin path[t].bad /\ Shared(t, id, path)
      BY <1>3, <3>4 DEF Shared, SeenTo, Moves, Others
    <3>5. CASE id \notin path[t].bad /\ ~Shared(t, id, path)
      BY <2>2, <2>3, <3>1, <3>5, <3>2, <1>1 DEF Owns, Handles, Ended, SeenTo
    <3>. QED  BY <3>3, <3>4, <3>5
  <2>. QED  BY <1>1, <1>2, <1>3, <2>1, <2>3, SureEmpties
<1>. QED  BY <1>2, <1>4, <1>5

-----------------------------------------------------------------------------
LEMMA SureWakes ==
    ASSUME Base, ApartInv, SureInv, Base', NEW w \in Watchers,
           WakeGone(w) \/ WakeLeaves(w) \/ WakeOpen(w) \/ CancelFails(w)
    PROVE  SureInv'
<1>1. w \in Paths /\ UNCHANGED <<setting, orders, reserved, byHand>> /\ unknown \subseteq unknown'
  BY PathsAre DEF WakeGone, WakeLeaves, WakeOpen, CancelFails, venue, claims, ghosts
<1>2. CASE CancelFails(w)
  <2>1. ~Sure
    BY <1>2 DEF CancelFails, Sure, Calm, Contended
  <2>. QED  BY <1>1, <2>1, SureFaulty DEF SureInv, NoHand
<1>3. CASE WakeOpen(w)
  BY <1>3, <1>1, Moved, SureKeeps DEF WakeOpen, Base, Fields, Answering, Watching, Late
<1>4. CASE WakeGone(w) \/ WakeLeaves(w)
  <2>1. path[w].pc = "resting" /\ Quiet /\ path' = [path EXCEPT ![w] = NoPath]
    BY <1>4 DEF WakeGone, WakeLeaves
  <2>2. Moves(w) /\ DOMAIN path'[w].got = {}
    BY <1>1, <2>1, PathEnds, NoPathIs, NoneGot DEF Base, Fields
  <2>3. Handles(w) = {Clip(w)}
    BY <1>1, <2>1, NotMeasuring, ClipIs DEF Handles
  <2>4. Lister => \A id \in Handles(w) : SeenTo(id, path', orders', unknown', reserved')
    BY <1>4, <2>3 DEF WakeGone, WakeLeaves, SeenTo
  <2>. QED  BY <1>1, <2>1, <2>2, <2>4, SureEmpties
<1>. QED  BY <1>2, <1>3, <1>4

LEMMA SureCancelOk ==
    ASSUME Base, ApartInv, SureInv, NEW w \in Watchers, CancelOk(w)
    PROVE  SureInv'
<1>1. /\ w \in Paths /\ path[w].pc = "cancel" /\ Watching(path[w]) /\ setting' = setting
      /\ Clip(w) \in Ids /\ Handles(w) = {Clip(w)} /\ Moves(w) /\ OrdersKept
      /\ OneChanged(Clip(w), 0, orders[Clip(w)].filled, orders[Clip(w)].booked)
      /\ reserved' = reserved \ {Clip(w)} /\ UNCHANGED <<unknown, byHand>>
  BY CancelFacts DEF ghosts
<1>2. path'[w].pc = "cancelled" /\ path'[w].got = path[w].got /\ path'[w].bad = path[w].bad
  BY CancelFacts DEF Fields
<1>3. /\ Ids' = Ids /\ orders'[Clip(w)].left = 0
      /\ \A id \in Ids : /\ orders'[id].filled = orders[id].filled
                         /\ orders'[id].booked = orders[id].booked
                         /\ id # Clip(w) => orders'[id].left = orders[id].left
  BY <1>1 DEF OneChanged
<1>4. Carries
  BY <1>1, <1>3 DEF Carries, Ended
<1>5. Sure => \A id \in Ids' : orders'[id].booked <= orders'[id].filled
  BY <1>3 DEF SureInv, AllBooked
<1>6. /\ ~Answering(path[w]) /\ Watching(path'[w])
      /\ \A id \in DOMAIN path[w].got : id \notin reserved'
  BY <1>1, <1>2 DEF Answering, Watching, Handles
<1>7. DOMAIN path[w].got \subseteq Ids /\ path[w].bad \subseteq DOMAIN path[w].got
  BY <1>1, BadAre
<1>8. Sure => Owns(w, path', orders', unknown', reserved')
  BY <1>1, <1>2, <1>4, <1>6, <1>7, OwnsKept DEF SureInv, AllOwned
<1>9. \A id \in Handles(w) : SeenTo(id, path', orders', unknown', reserved')
  BY <1>1, <1>2 DEF SeenTo, Handles
<1>10. ~AtRest(w)
  BY <1>1 DEF AtRest
<1>. QED  BY <1>1, <1>3, <1>4, <1>5, <1>8, <1>9, <1>10, SureMove

LEMMA SureLock ==
    ASSUME Base, ApartInv, SureInv, NEW w \in Watchers, Lock(w)
    PROVE  SureInv'
<1>1. /\ path[w].pc = "cancelled" /\ Moves(w)
      /\ UNCHANGED <<setting, orders, unknown, reserved, byHand>>
  BY LockFacts DEF venue, claims, ghosts
<1>2. path'[w].pc = "sync" /\ path'[w].next = "measure" /\ path'[w].got = path[w].got
      /\ path'[w].bad = path[w].bad
  BY LockFacts DEF Fields
<1>3. ~Answering(path[w]) /\ Watching(path'[w]) /\ Late(path[w]) /\ ~AtRest(w)
  BY <1>1, <1>2 DEF Answering, Watching, Late, AtRest
<1>. QED  BY <1>1, <1>2, <1>3, SureKeeps

LEMMA WatchedIsCalm ==
    ASSUME Base, Sure, NEW w \in Watchers, path[w].pc # "idle"
    PROVE  Calm
<1>1. w \in Paths /\ Roles(w, path[w])
  BY PathsAre, BaseParts
<1>2. Execution # "market"
  BY <1>1, MarketWatchers
<1>. QED  BY <1>2 DEF Sure, Contended

(* The order a watcher measures is over: it was cancelled, nothing of it    *)
(* is left to be booked, and its reservation is gone.                       *)
LEMMA MeasuredIsOver ==
    ASSUME Base, ApartInv, PunctualInv, SureInv, Sure, NEW w \in Watchers, path[w].pc = "measure"
    PROVE  /\ Calm /\ Lister /\ Clip(w) \in Ids /\ Handles(w) = {Clip(w)}
           /\ Ended(Clip(w), orders, reserved)
           /\ Near(held, orders, real, open, byHand)
           /\ path[w].side \in Sides /\ \A u \in Paths \ {w} : AtRest(u)
<1>1. w \in Paths /\ Roles(w, path[w]) /\ Meant(path[w], orders)
  BY PathsAre, BaseParts
<1>2. Watching(path[w]) /\ Late(path[w]) /\ Handled(path[w]) /\ Seen(path[w]) /\ ~AtRest(w)
  BY <1>1 DEF Roles, Watching, Late, Handled, Seen, AtRest
<1>3. Calm /\ Lister /\ Punctual
  <2>1. Calm
    BY WatchedIsCalm
  <2>. QED  BY <1>1, <1>2, <2>1 DEF Roles, Calm, Punctual
<1>4. Lone(w) /\ Sound(path[w], orders, real, held, open, byHand)
  BY <1>1, <1>2, <1>3, LoneIf DEF PunctualInv
<1>5. Clip(w) \in Ids /\ Handles(w) = {Clip(w)} /\ path[w].side \in Sides
  BY <1>1, <1>2, ClipIs DEF Handles
<1>6. orders[Clip(w)].left = 0 /\ orders[Clip(w)].filled = orders[Clip(w)].booked
  BY <1>1, <1>2, <1>4, <1>5 DEF Meant, Sound, Handles
<1>7. Clip(w) \notin reserved
  BY <1>1, <1>2, <1>5 DEF SureInv, AllOwned, Owns, Handles
<1>. QED  BY <1>2, <1>3, <1>4, <1>5, <1>6, <1>7 DEF Ended, Lone, Sound

(* filledWhileResting, soldWhileResting: when no other order of that side   *)
(* can be meant, record and holding agree, and there is nothing to book.    *)
LEMMA MeasuredNothing ==
    ASSUME Base, ApartInv, PunctualInv, SureInv, Sure, NEW w \in Watchers, path[w].pc = "measure",
           Known(w)
    PROVE  Measured(w) = 0
<1> DEFINE side == path[w].side
<1>1. /\ Calm /\ Lister /\ Clip(w) \in Ids /\ Handles(w) = {Clip(w)}
      /\ Ended(Clip(w), orders, reserved)
      /\ Near(held, orders, real, open, byHand)
      /\ side \in Sides /\ \A u \in Paths \ {w} : AtRest(u)
  BY MeasuredIsOver
<1>2. ASSUME NEW u \in Paths \ {w}
      PROVE  DOMAIN path[u].got = {}
  <2>1. path[u].pc = "idle"
    BY <1>2, BaseParts, <1>1 DEF Known, Idle, Roles, Watching, AtRest
  <2>2. path[u] = NoPath
    BY <1>2, <2>1, BaseParts DEF Roles
  <2>. QED  BY <2>2, NoPathIs, NoneGot DEF Fields
<1>3. ASSUME NEW id \in Ids, orders[id].side = side
      PROVE  orders[id].filled = orders[id].booked
  <2>1. SeenTo(id, path, orders, unknown, reserved)
    BY <1>1, <1>3 DEF SureInv, AllSeenTo
  <2>2. id \notin unknown
    BY <1>3 DEF Known, Unconfirmed
  <2>3. ASSUME NEW u \in Paths, id \in DOMAIN path[u].got
        PROVE  id = Clip(w)
    BY <1>1, <1>2, <2>3 DEF Handles
  <2>. QED  BY <1>1, <2>1, <2>2, <2>3 DEF SeenTo, Ended
<1>4. Owed(orders, side) = 0
  <2> DEFINE f == Owing(orders, side)
  <2>1. AreOrders(orders)
    BY BaseHasOrders
  <2>2. Summable(f) /\ DOMAIN f = {i \in DOMAIN orders : orders[i].side = side}
        /\ \A id \in DOMAIN f : f[id] = Due(orders[id])
    BY <2>1, OwingIs DEF IsOwing
  <2>3. ASSUME NEW id \in DOMAIN f
        PROVE  f[id] = 0
    BY <1>3, <2>1, <2>2, <2>3, DueIs DEF Ids, AreOrders
  <2> HIDE DEF f
  <2>4. Total(f) = 0
    BY <2>2, <2>3, SumOfZeros
  <2>. QED  BY <2>4 DEF f, Owed
<1>5. open <= held + Owed(orders, "sell") + 0 /\ held <= open + Owed(orders, "buy")
  BY <1>1 DEF Calm, SureInv, NoHand, Near
<1>6. held \in Int /\ open \in Nat /\ Owed(orders, "buy") \in Nat /\ Owed(orders, "sell") \in Nat
  BY OwedAre, StateIs
<1>7. Head(path[w].clips) \in Nat
  BY PathsAre, BaseParts, ClipIs DEF Roles, Watching
<1>8. CASE side = "buy"
  BY <1>1, <1>4, <1>5, <1>6, <1>8, <1>7 DEF Larger, Measured, Smaller
<1>9. CASE side = "sell"
  BY <1>1, <1>4, <1>5, <1>6, <1>9, <1>7 DEF Larger, Measured, Smaller
<1>. QED  BY <1>1, <1>8, <1>9 DEF Sides

LEMMA SureMeasures ==
    ASSUME Base, ApartInv, PunctualInv, SureInv, Base', NEW w \in Watchers,
           Measure(w) \/ MeasureUnknown(w)
    PROVE  SureInv'
<1>1. w \in Paths /\ path[w].pc = "measure" /\ ~AtRest(w)
      /\ UNCHANGED <<setting, unknown, reserved, byHand>>
  BY PathsAre DEF Measure, MeasureUnknown, AtRest, claims, ghosts
<1>2. CASE ~Sure
  BY <1>1, <1>2, SureFaulty DEF SureInv, NoHand
<1>3. CASE Sure
  <2>1. Clip(w) \in Ids /\ Handles(w) = {Clip(w)} /\ Ended(Clip(w), orders, reserved)
    BY <1>1, <1>3, MeasuredIsOver
  <2>2. Moves(w) /\ DOMAIN path'[w].got = {}
    <3>1. CASE path' = [path EXCEPT ![w] = NoPath]
      BY <1>1, <3>1, PathEnds, NoPathIs, NoneGot DEF Base, Fields
    <3>2. ASSUME NEW filled, GoesOn(w, filled)
          PROVE  Moves(w) /\ DOMAIN path'[w].got = {}
      BY <1>1, <3>2, GoesOnEmpty
    <3>. QED  BY <3>1, <3>2 DEF Measure, MeasureUnknown
  <2>3. CASE MeasureUnknown(w)
    BY <2>3, <1>1, <2>1, <2>2, SureEmpties DEF MeasureUnknown, venue, SeenTo
  <2>4. CASE Measure(w)
    <3>1. /\ Ids' = Ids /\ OrdersKept
          /\ \A id \in Ids : /\ orders'[id].left = orders[id].left
                             /\ orders'[id].filled = orders[id].filled
                             /\ orders'[id].booked = IF id = Clip(w)
                                                     THEN orders[id].booked + Measured(w)
                                                     ELSE orders[id].booked
      BY <2>4, MeasureBooks
    <3>2. Measured(w) = 0
      BY <1>1, <1>3, <2>4, MeasuredNothing DEF Measure
    <3>3. \A id \in Ids : orders'[id].booked = orders[id].booked
      BY BaseHasOrders, <3>1, <3>2 DEF AreOrders, Ids
    <3>4. Carries
      BY <1>1, <3>1, <3>3 DEF Carries
    <3>5. \A id \in Ids' : orders'[id].booked <= orders'[id].filled
      BY <1>3, <3>1, <3>3 DEF SureInv, AllBooked
    <3>6. path'[w].bad \subseteq DOMAIN path'[w].got
      BY <1>1, BadAreNext
    <3>7. Owns(w, path', orders', unknown', reserved')
      BY <2>2, <3>6, OwnsNone
    <3>8. \A id \in Handles(w) : SeenTo(id, path', orders', unknown', reserved')
      BY <2>1, <3>4, EndedStays DEF SeenTo
    <3>. QED  BY <1>1, <2>2, <3>1, <3>4, <3>5, <3>7, <3>8, SureMove
  <2>. QED  BY <2>3, <2>4
<1>. QED  BY <1>2, <1>3

-----------------------------------------------------------------------------
(* The operator clears an order that is over, and its reservation with it. *)
LEMMA SureClears ==
    ASSUME Base, ApartInv, SureInv, NEW id \in Ids, ClearUnconfirmed(id)
    PROVE  SureInv'
<1>1. /\ UNCHANGED <<setting, orders, path, byHand>>
      /\ unknown' = unknown \ {id} /\ reserved' = reserved \ {id}
      /\ "clearEarly" \in Faults \/ orders[id].left = 0
      /\ "clearFilled" \in Faults \/ orders[id].filled = orders[id].booked
  BY DEF ClearUnconfirmed, venue
<1>2. "hand" \notin Faults => byHand' = 0
  BY <1>1 DEF SureInv, NoHand
<1>3. CASE ~Sure
  BY <1>1, <1>2, <1>3, SureFaulty
<1>4. CASE Sure
  BY <1>1, StillBooked, <1>4, <1>2, SureStill DEF Sure, Calm, Contended, Ended, Carries, SureInv, AllBooked
<1>. QED  BY <1>3, <1>4

LEMMA SureVenue ==
    ASSUME Base, ApartInv, SureInv, NEW id \in Ids, VenueFill(id) \/ VenueCancels(id)
    PROVE  SureInv'
<1>1. UNCHANGED <<setting, unknown, reserved, path, byHand>> /\ orders[id].left > 0
  BY DEF VenueFill, VenueCancels, claims, ghosts
<1>2. /\ OrdersKept
      /\ \E left, filled \in Nat : /\ filled >= orders[id].filled
                                   /\ OneChanged(id, left, filled, orders[id].booked)
  <2>1. Typed /\ orders[id].left \in Nat /\ orders[id].filled \in Nat
    BY IdsAre DEF Base
  <2>2. CASE VenueFill(id)
    <3>1. PICK n \in 1..orders[id].left :
            /\ OneChanged(id, orders[id].left - n, orders[id].filled + n, orders[id].booked)
            /\ OrdersKept
      BY <2>1, <2>2, FilledAtVenue
    <3>2. orders[id].left - n \in Nat /\ orders[id].filled + n \in Nat
          /\ orders[id].filled + n >= orders[id].filled
      BY <2>1
    <3>. QED  BY <3>1, <3>2
  <2>3. CASE VenueCancels(id)
    <3>1. OneChanged(id, 0, orders[id].filled, orders[id].booked) /\ OrdersKept
      BY <2>1, <2>3, TakenOff DEF VenueCancels
    <3>. QED  BY <2>1, <3>1
  <2>. QED  BY <2>2, <2>3
<1>3. /\ Ids' = Ids /\ orders'[id].booked = orders[id].booked
      /\ orders'[id].filled >= orders[id].filled
      /\ \A i \in Ids \ {id} : orders'[i] = orders[i]
  BY <1>2 DEF OneChanged
<1>4. \A i \in Ids : orders[i].left = 0 => orders'[i] = orders[i]
  BY <1>1, <1>3
<1>5. Carries
  BY <1>1, <1>2, <1>3, <1>4 DEF Carries, Ended
<1>6. Sure => \A i \in Ids' : orders'[i].booked <= orders'[i].filled
  BY <1>2, BaseHasOrders, <1>3 DEF OneChanged, AreOrders, Ids, SureInv, AllBooked
<1>7. "hand" \notin Faults => byHand' = 0
  BY <1>1 DEF SureInv, NoHand
<1>. QED  BY <1>1, <1>3, <1>5, <1>6, <1>7, SureStill

LEMMA SureOthers ==
    ASSUME Base, ApartInv, SureInv,
           \/ ActSellNothing \/ GraceElapses \/ Forget \/ BoughtByHand \/ SoldByHand
           \/ UNCHANGED vars
    PROVE  SureInv'
<1>1. UNCHANGED <<setting, orders, unknown, reserved, path>>
  BY DEF ActSellNothing, GraceElapses, Forget, BoughtByHand, SoldByHand, vars, venue, claims
<1>2. "hand" \notin Faults => byHand' = 0
  BY DEF ActSellNothing, GraceElapses, Forget, BoughtByHand, SoldByHand, vars, ghosts, SureInv, NoHand
<1>3. /\ Carries /\ Ids' = Ids
      /\ Sure => \A id \in Ids' : orders'[id].booked <= orders'[id].filled
  BY <1>1, CarriesSame
<1>. QED  BY <1>1, <1>2, <1>3, SureStill

LEMMA SureCrash ==
    ASSUME SureInv, Crash
    PROVE  SureInv'
<1>1. setting' = setting /\ byHand' = byHand /\ ~Sure
  BY DEF Crash, Sure, Calm, Contended
<1>. QED  BY <1>1, SureFaulty DEF SureInv, NoHand

LEMMA SureInit ==
    ASSUME Init
    PROVE  SureInv
<1>1. \A t \in Paths : path[t] = NoPath
  BY DEF Init
<1>2. \A t \in Paths : DOMAIN path[t].got = {} /\ path[t].bad = {}
  BY <1>1, NoPathIs, NoneGot DEF Fields
<1>3. Ids = {} /\ byHand = 0
  BY DEF Init, Ids
<1>4. \A t \in Paths : Owns(t, path, orders, unknown, reserved)
  BY <1>2, OwnsNone
<1>. QED  BY <1>3, <1>4 DEF SureInv, NoHand, AllBooked, AllOwned, AllSeenTo

LEMMA SureNext ==
    ASSUME Base, ApartInv, PunctualInv, SureInv, Base', [Next]_vars
    PROVE  SureInv'
<1>1. ASSUME NEW t \in Paths, PathStep(t)
      PROVE  SureInv'
  BY <1>1, SureSubmits, SureResting, SureSubmitStops, SureSettle, SureBook, SureFlag, SureSyncRead,
     SureSynced
     DEF PathStep
<1>2. ASSUME NEW w \in Watchers, WatcherStep(w)
      PROVE  SureInv'
  BY <1>2, SureWakes, SureCancelOk, SureLock, SureMeasures DEF WatcherStep
<1>. QED  BY <1>1, <1>2, SureOrders, SureClears, SureVenue, SureOthers, SureCrash DEF Next

LEMMA SureHolds == Spec => [](Base /\ ApartInv /\ PunctualInv /\ SureInv)
<1>1. Init => Base /\ ApartInv /\ PunctualInv /\ SureInv
  BY BaseInit, ApartInit, PunctualInit, SureInit
<1>2. Base /\ ApartInv /\ PunctualInv /\ SureInv /\ [Next]_vars
        => (Base /\ ApartInv /\ PunctualInv /\ SureInv)'
  BY BaseNext, ApartNext, PunctualNext, SureNext
<1>. QED  BY <1>1, <1>2, PTL DEF Spec

(* settledQty, submitPlan, the watchers and the unconfirmed orders: under   *)
(* timely answers, and for market orders whatever paths do to each other,   *)
(* nothing is booked that did not fill, and no order that works, has a fill *)
(* that is not booked or holds a reservation is out of everybody's sight.   *)
THEOREM OrdersAccounted == Spec => []OrdersAccountedFor
<1>1. ASSUME Base, SureInv
      PROVE  OrdersAccountedFor
  <2>1. TypeOK
    BY <1>1, BaseIsTyped
  <2>2. BookedAsFilled
    BY <1>1 DEF BookedAsFilled, SureInv, AllBooked, Sure
  <2>3. ASSUME Lister, Sure, NEW id \in Ids, id \notin unknown, \A t \in Paths : id \notin Handles(t)
        PROVE  Ended(id, orders, reserved)
    BY <1>1, <2>3 DEF SureInv, AllSeenTo, SeenTo, Handles
  <2>4. NoFillLost
    <3>1. ASSUME Lister, Calm \/ Contended, NEW id \in Ids \ givenUp,
                 orders[id].left > 0 \/ orders[id].filled # orders[id].booked
          PROVE  id \in unknown \/ \E t \in Paths : id \in Handles(t)
      BY <2>3, <3>1 DEF Sure, Ended
    <3>. QED  BY <3>1 DEF NoFillLost, EveryFillAccounted
  <2>5. ReservedForReason
    <3>1. ASSUME Lister, Calm \/ Contended, NEW id \in reserved
          PROVE  id \in unknown \/ \E t \in Paths : id \in Handles(t)
      BY <1>1, <3>1, <2>3 DEF Base, Typed, Sure, Ended
    <3>. QED  BY <3>1 DEF ReservedForReason
  <2>. QED  BY <2>1, <2>2, <2>4, <2>5 DEF OrdersAccountedFor
<1>. QED  BY <1>1, SureHolds, PTL

-----------------------------------------------------------------------------
(* No sells are stacked.  At most one sell works, its shares are there, and *)
(* the marker or a path about to set it stands for it; whoever sends a     *)
(* sell, drops the marker or clears it does so when no sell works, and no  *)
(* snapshot he decides on shows more than the broker holds.                *)
Narrow == (Faults = {} /\ Execution # "sliced") \/ Prompt

Selling(ords) == {id \in DOMAIN ords : ords[id].side = "sell" /\ ords[id].left > 0}

(* A path that is yet to set the marker for a sell that may still work. *)
Marking(p) == p.pc = "settle" \/ (p.pc \in {"book", "flag"} /\ p.kind \in {"exit", "manual"})

OneSell(ords, rl) ==
    rl >= 0 /\ \A id \in Selling(ords) : ords[id].left <= rl /\ Selling(ords) = {id}

(* What has filled of an order is booked, or p is about to book it. *)
Heard(p, id, ords) ==
    \/ ords[id].filled <= ords[id].booked
    \/ Asking(p) /\ id \in DOMAIN p.got /\ ords[id].filled <= p.got[id]

BuysReserved(ords, res, ps) ==
    Faults = {} => \A id \in DOMAIN ords : ords[id].side = "buy" =>
        id \in res \/ (ords[id].left = 0 /\ \E t \in Paths : Heard(ps[t], id, ords))

Marked(ords, rl, gd, ps) ==
    \A id \in Selling(ords) :
        (gd > 0 /\ gd <= rl) \/ \E t \in Paths : Marking(ps[t]) /\ id \in DOMAIN ps[t].got

(* A buy that rests has nothing beside it: no shares, no other order. *)
Alone(p, ords, rl) ==
    Watching(p) /\ p.side = "buy" =>
        \A id \in DOMAIN p.got : ords[id].left > 0 \/ p.pc # "resting" =>
            rl = 0 /\ \A i \in DOMAIN ords \ {id} : ords[i].left = 0

(* A path that goes on as if no sell worked. *)
Clear(p) ==
    \/ p.pc \in {"submit", "reconcile"}
    \/ Asking(p) /\ p.side = "buy"
    \/ Late(p) /\ p.side = "sell"

(* Whoever decides on the holding q is stopped by the marker, or no sell   *)
(* works and q is there.                                                   *)
Safe(q, ords, rl, gd) == (gd > 0 /\ gd <= q) \/ (q <= rl /\ Selling(ords) = {})

(* What path p relies on between two of its calls. *)
Free(p, ords, rl, gd, hd, ps) ==
    /\ p.pc = "submit" => ~p.resting /\ p.base <= rl
    /\ p.pc = "submit" /\ p.side = "buy" =>
          \A u \in Paths : Watching(ps[u]) => \A id \in DOMAIN ps[u].got : ords[id].left = 0
    /\ p.pc = "submit" /\ p.side = "buy" /\ p.kind = "act" /\ Faults = {} =>
          rl = 0 /\ \A id \in DOMAIN ords : ords[id].left = 0
    /\ Clear(p) => Selling(ords) = {}
    /\ p.pc \in {"reconcile", "measure"} => hd <= rl
    /\ p.pc = "apply" => Safe(p.base, ords, rl, gd) /\ (Late(p) => p.base <= rl)
    /\ p.resting => Confirmed(p) = 0
    /\ Marking(p) /\ p.side = "sell" /\ Selling(ords) # {} =>
          /\ p.base - Confirmed(p) > 0 /\ p.base - Confirmed(p) <= rl
          /\ Selling(ords) \subseteq DOMAIN p.got

AllSeen(ps) == \A u \in Paths : Seen(ps[u])

NarrowInv ==
    Narrow => /\ OneSell(orders, real) /\ BuysReserved(orders, reserved, path)
              /\ Marked(orders, real, guard, path)
              /\ AllSeen(path) => Safe(held, orders, real, guard)
              /\ \A t \in Paths : /\ Alone(path[t], orders, real)
                                  /\ Free(path[t], orders, real, guard, held, path)

LEMMA NarrowIs ==
    Narrow => /\ Punctual /\ Serial /\ Apart /\ Execution # "sliced"
              /\ Faults = {} \/ Execution = "market"
              /\ Faults \cap {"hand", "crash", "lostReply", "cancelFails", "hurry",
                              "staleList", "latePartial", "syncFails"} = {}
BY DEF Narrow, Prompt, Punctual, Serial, Apart

LEMMA AtRestIs ==
    ASSUME Base, NEW u \in Paths, AtRest(u)
    PROVE  /\ path[u].pc \in {"idle", "resting"} /\ ~path[u].resting /\ ~Late(path[u])
           /\ ~Asking(path[u]) /\ ~Marking(path[u])
<1>1. path[u].pc \in {"idle", "resting"} /\ Roles(u, path[u]) /\ path[u].resting \in BOOLEAN
  BY BaseParts, FitsParts DEF AtRest
<1>2. CASE path[u].pc = "idle"
  BY <1>1, <1>2, NoPathIs DEF Roles, Fields, Late, Watching, Asking, Marking
<1>3. CASE path[u].pc = "resting"
  BY <1>1, <1>3 DEF Roles, Late, Watching, Asking, Marking
<1>. QED  BY <1>1, <1>2, <1>3

(* What is at rest relies on nothing. *)
LEMMA FreeAtRest ==
    ASSUME NEW p, NEW ords, NEW rl, NEW gd, NEW hd, NEW ps,
           p.pc \in {"idle", "resting"}, ~p.resting, ~Late(p)
    PROVE  Free(p, ords, rl, gd, hd, ps)
BY DEF Free, Clear, Asking, Marking

(* NarrowInv of a next state, its bound variables and constants untangled. *)
LEMMA NarrowNow ==
    ASSUME setting' = setting,
           Narrow => /\ OneSell(orders', real') /\ BuysReserved(orders', reserved', path')
                     /\ Marked(orders', real', guard', path')
                     /\ AllSeen(path') => Safe(held', orders', real', guard')
                     /\ \A u \in Paths : /\ Alone(path'[u], orders', real')
                                         /\ Free(path'[u], orders', real', guard', held', path')
    PROVE  NarrowInv'
<1>1. (Narrow' <=> Narrow) /\ Paths' = Paths /\ Faults' = Faults
  BY DEF Narrow, Prompt, Faults, Execution, Paths
<1>2. ASSUME Narrow
      PROVE  /\ OneSell(orders, real)' /\ BuysReserved(orders, reserved, path)'
             /\ Marked(orders, real, guard, path)'
             /\ (AllSeen(path) => Safe(held, orders, real, guard))'
  BY <1>1, <1>2 DEF OneSell, BuysReserved, Heard, Marked, AllSeen, Seen, Safe, Selling, Marking, Asking
<1>3. ASSUME Narrow, NEW u \in Paths
      PROVE  Alone(path[u], orders, real)' /\ Free(path[u], orders, real, guard, held, path)'
  <2>1. Alone(path'[u], orders', real') /\ Free(path'[u], orders', real', guard', held', path')
    BY <1>3
  <2>2. Alone(path[u], orders, real)'
    BY <2>1 DEF Alone, Watching
  <2>3. Free(path[u], orders, real, guard, held, path)'
    BY <1>1, <2>1 DEF Free, Clear, Safe, Selling, Marking, Asking, Late, Watching, Confirmed
  <2>. QED  BY <2>2, <2>3
<1>. QED  BY <1>1, <1>2, <1>3 DEF NarrowInv

(* A step of path t, after which the others are at rest. *)
LEMMA NarrowStep ==
    ASSUME setting' = setting, NEW t \in Paths,
           Narrow => /\ OneSell(orders', real') /\ BuysReserved(orders', reserved', path')
                     /\ \A id \in Selling(orders') :
                           \/ guard' > 0 /\ guard' <= real'
                           \/ Marking(path'[t]) /\ id \in DOMAIN path'[t].got
                     /\ Seen(path'[t]) => Safe(held', orders', real', guard')
                     /\ Free(path'[t], orders', real', guard', held', path')
                     /\ \A u \in Paths \ {t} : /\ path'[u].pc \in {"idle", "resting"}
                                               /\ ~path'[u].resting /\ ~Late(path'[u])
                     /\ \A u \in Paths : Alone(path'[u], orders', real')
    PROVE  NarrowInv'
<1>1. ASSUME Narrow
      PROVE  /\ Marked(orders', real', guard', path')
             /\ AllSeen(path') => Safe(held', orders', real', guard')
             /\ \A u \in Paths : Free(path'[u], orders', real', guard', held', path')
  BY <1>1, FreeAtRest DEF Marked, AllSeen
<1>. QED  BY <1>1, NarrowNow

LEMMA NarrowFaulty ==
    ASSUME setting' = setting, ~Narrow
    PROVE  NarrowInv'
BY NarrowNow

LEMMA SellingLess ==
    ASSUME Base, Base', OrdersKept, Ids' = Ids
    PROVE  /\ DOMAIN orders' = DOMAIN orders
           /\ \A id \in DOMAIN orders : /\ orders'[id].side = orders[id].side
                                        /\ orders'[id].left <= orders[id].left
                                        /\ orders'[id].left > 0 => orders[id].left > 0
                                        /\ orders[id].left = 0 => orders'[id].left = 0
                                        /\ orders[id].left \in Nat /\ orders'[id].left \in Nat
           /\ Selling(orders') \subseteq Selling(orders)
<1>1. OrdersTyped /\ OrdersTyped'
  <2>1. Typed /\ Typed'
    BY DEF Base
  <2>. QED  BY <2>1, OrdersAreTyped, PTL
<1>2. DOMAIN orders' = DOMAIN orders
  BY DEF Ids
<1>3. ASSUME NEW id \in DOMAIN orders
      PROVE  /\ orders'[id].side = orders[id].side
             /\ orders'[id].left <= orders[id].left
             /\ orders[id].left \in Nat /\ orders'[id].left \in Nat
  BY <1>1, <1>2, <1>3 DEF OrdersKept, OrdersTyped, Ids
<1>. QED  BY <1>2, <1>3 DEF Selling

LEMMA AloneKept ==
    ASSUME Base, Base', OrdersKept, Ids' = Ids, NEW p, NEW q, NEW rl, Alone(p, orders, rl),
           DOMAIN p.got \subseteq Ids,
           Watching(q) /\ q.side = "buy" =>
               /\ Watching(p) /\ p.side = "buy" /\ q.got = p.got
               /\ q.pc = "resting" \/ p.pc # "resting" \/ \A id \in DOMAIN p.got : orders[id].left > 0
    PROVE  Alone(q, orders', rl)
<1>1. SUFFICES ASSUME Watching(q), q.side = "buy", NEW id \in DOMAIN q.got,
                      orders'[id].left > 0 \/ q.pc # "resting"
               PROVE  rl = 0 /\ \A i \in DOMAIN orders' \ {id} : orders'[i].left = 0
  BY DEF Alone
<1>2. id \in DOMAIN p.got /\ id \in DOMAIN orders
  BY <1>1 DEF Ids
<1>3. orders[id].left > 0 \/ p.pc # "resting"
  BY <1>1, <1>2, SellingLess
<1>4. rl = 0 /\ \A i \in DOMAIN orders \ {id} : orders[i].left = 0
  BY <1>1, <1>2, <1>3 DEF Alone
<1>. QED  BY <1>4, SellingLess

(* No order has filled, and what was booked stays booked. *)
BookedOn ==
    \A id \in Ids : orders'[id].filled = orders[id].filled /\ orders'[id].booked >= orders[id].booked

LEMMA BookedOnStill ==
    ASSUME Base, orders' = orders
    PROVE  BookedOn
BY IdsAre DEF Base, BookedOn

(* A step of one path, the others at rest, after which no more is working  *)
(* than before.                                                            *)
LEMMA NarrowMove ==
    ASSUME Base, ApartInv, NarrowInv, Base', setting' = setting, real' = real, Ids' = Ids, OrdersKept,
           BookedOn, NEW t, Moves(t), ~AtRest(t) \/ Quiet,
           Narrow => \A id \in Ids : /\ Heard(path[t], id, orders) => Heard(path'[t], id, orders')
                                     /\ id \in reserved =>
                                          \/ id \in reserved'
                                          \/ orders'[id].left = 0 /\ Heard(path'[t], id, orders'),
           Narrow => /\ Free(path'[t], orders', real, guard', held', path')
                     /\ Alone(path'[t], orders', real)
                     /\ Seen(path'[t]) => Safe(held', orders', real, guard'),
           Narrow => \A id \in Selling(orders') :
                         \/ guard' > 0 /\ guard' <= real
                         \/ Marking(path'[t]) /\ id \in DOMAIN path'[t].got
    PROVE  NarrowInv'
<1>1. t \in Paths /\ \A u \in Paths \ {t} : path'[u] = path[u]
  BY DEF Moves, Others
<1>2. SUFFICES ASSUME Narrow
               PROVE  /\ OneSell(orders', real) /\ BuysReserved(orders', reserved', path')
                      /\ \A u \in Paths \ {t} : /\ path'[u].pc \in {"idle", "resting"}
                                                /\ ~path'[u].resting /\ ~Late(path'[u])
                                                /\ Alone(path'[u], orders', real)
  BY <1>1, NarrowStep
<1>3. OneSell(orders, real) /\ BuysReserved(orders, reserved, path) /\ real \in Int
      /\ OrdersTyped /\ OrdersTyped'
  <2>1. Typed /\ Typed'
    BY DEF Base
  <2>2. OrdersTyped /\ OrdersTyped'
    BY <2>1, OrdersAreTyped, PTL
  <2>. QED  BY <1>2, <2>2, StateIs DEF NarrowInv
<1>4. OneSell(orders', real)
  <2>1. ASSUME NEW id \in Selling(orders')
        PROVE  orders'[id].left <= real /\ Selling(orders') = {id}
    BY <1>3, <2>1, SellingLess DEF OneSell, Selling
  <2>. QED  BY <1>3, <2>1 DEF OneSell
<1>5. BuysReserved(orders', reserved', path')
  <2>1. ASSUME Faults = {}, NEW id \in DOMAIN orders', orders'[id].side = "buy", id \notin reserved'
        PROVE  orders'[id].left = 0 /\ \E u \in Paths : Heard(path'[u], id, orders')
    <3>1. /\ id \in DOMAIN orders /\ id \in Ids /\ orders[id].side = "buy"
          /\ orders[id].left = 0 => orders'[id].left = 0
      BY <2>1, SellingLess DEF Ids
    <3>2. CASE id \in reserved
      BY <1>1, <1>2, <2>1, <3>1, <3>2
    <3>3. CASE id \notin reserved
      <4>1. orders[id].left = 0 /\ \E u \in Paths : Heard(path[u], id, orders)
        BY <1>3, <2>1, <3>1, <3>3 DEF BuysReserved
      <4>2. PICK u \in Paths : Heard(path[u], id, orders)
        BY <4>1
      <4>3. CASE u = t
        BY <1>1, <1>2, <3>1, <4>1, <4>2, <4>3
      <4>4. CASE u # t
        BY <1>1, <1>3, <3>1, <4>4, <4>2, <4>1 DEF BookedOn, OrdersTyped, Heard
      <4>. QED  BY <4>3, <4>4
    <3>. QED  BY <3>2, <3>3
  <2>. QED  BY <2>1 DEF BuysReserved
<1>6. Lone(t)
  BY <1>1, <1>2, NarrowIs, LoneIf
<1>7. ASSUME NEW u \in Paths \ {t}
      PROVE  /\ path'[u].pc \in {"idle", "resting"} /\ ~path'[u].resting /\ ~Late(path'[u])
             /\ Alone(path'[u], orders', real)
  <2>1. path'[u] = path[u] /\ AtRest(u) /\ DOMAIN path[u].got \subseteq Ids
    BY <1>1, <1>6, <1>7, BadAre DEF Lone
  <2>2. Alone(path[u], orders, real)
    BY <1>2, <1>7 DEF NarrowInv
  <2>3. Alone(path[u], orders', real)
    BY <2>1, <2>2, AloneKept
  <2>. QED  BY <1>7, <2>1, <2>3, AtRestIs
<1>. QED  BY <1>4, <1>5, <1>7

(* A path that books nothing leaves nothing unbooked. *)
LEMMA HeardStill ==
    ASSUME orders' = orders, NEW t,
           \/ ~Asking(path[t]) \/ DOMAIN path[t].got = {}
           \/ Asking(path'[t]) /\ path'[t].got = path[t].got
    PROVE  \A id \in Ids : Heard(path[t], id, orders) => Heard(path'[t], id, orders')
BY DEF Heard

(* Whose marker it is: t's, or one that is set. *)
LEMMA MarkedIs ==
    ASSUME Base, ApartInv, NarrowInv, Narrow, NEW t \in Paths, ~AtRest(t) \/ Quiet
    PROVE  \A id \in Selling(orders) :
               \/ guard > 0 /\ guard <= real
               \/ Marking(path[t]) /\ id \in DOMAIN path[t].got
<1>1. Lone(t)
  BY NarrowIs, LoneIf
<1>2. \A u \in Paths \ {t} : ~Marking(path[u])
  BY <1>1, AtRestIs DEF Lone
<1>. QED  BY <1>2 DEF NarrowInv, Marked

(* What the snapshot is worth to a path that has seen all there is. *)
LEMMA SafeIs ==
    ASSUME Base, ApartInv, NarrowInv, Narrow, NEW t \in Paths, ~AtRest(t) \/ Quiet, Seen(path[t])
    PROVE  Safe(held, orders, real, guard)
<1>1. Lone(t)
  BY NarrowIs, LoneIf
<1>2. AllSeen(path)
  BY <1>1 DEF Lone, AtRest, AllSeen, Seen
<1>. QED  BY <1>2 DEF NarrowInv

LEMMA NearIs ==
    ASSUME Base, ApartInv, PunctualInv, Narrow, NEW t \in Paths, ~AtRest(t) \/ Quiet, Seen(path[t])
    PROVE  Near(held, orders, real, open, byHand)
BY NarrowIs, LoneIf DEF PunctualInv, Sound

(* Steps of a path that is not asking, which leave orders, reservations,    *)
(* shares, snapshot and marker alone.                                       *)
LEMMA NarrowPlain ==
    ASSUME Base, ApartInv, NarrowInv, Base',
           UNCHANGED <<setting, real, orders, guard, reserved, held>>,
           NEW t, Moves(t), ~AtRest(t) \/ Quiet, Narrow => ~Marking(path[t]),
           Narrow => ~Asking(path[t]) \/ DOMAIN path[t].got = {},
           ~Asking(path'[t]), path'[t].pc \notin {"reconcile", "measure", "apply"},
           ~Marking(path'[t]), Narrow => (Seen(path'[t]) => Seen(path[t])),
           path'[t].resting => path[t].resting /\ path'[t].got = path[t].got,
           Late(path'[t]) => Late(path[t]) /\ path'[t].side = path[t].side,
           Watching(path'[t]) =>
               /\ Watching(path[t]) /\ path'[t].side = path[t].side /\ path'[t].got = path[t].got
               /\ path'[t].pc = "resting" \/ path[t].pc # "resting"
                    \/ \A id \in Handles(t) : orders[id].left > 0
    PROVE  NarrowInv'
<1>1. t \in Paths /\ OrdersKept /\ Ids' = Ids /\ BookedOn
  BY StillBooked, BookedOnStill DEF Moves
<1>2. ASSUME Narrow
      PROVE  /\ Free(path'[t], orders', real, guard', held', path') /\ Alone(path'[t], orders', real)
             /\ Seen(path'[t]) => Safe(held', orders', real, guard')
             /\ \A id \in Selling(orders') : guard' > 0 /\ guard' <= real
  <2>1. Free(path[t], orders, real, guard, held, path) /\ Alone(path[t], orders, real)
    BY <1>1, <1>2 DEF NarrowInv
  <2>2. Free(path'[t], orders', real, guard', held', path')
    BY <2>1 DEF Asking, Free, Clear, Confirmed
  <2>3. Alone(path'[t], orders', real)
    BY <1>1, <2>1, BadAre, AloneKept DEF Handles
  <2>4. \A id \in Selling(orders) : guard > 0 /\ guard <= real
    BY <1>1, <1>2, MarkedIs
  <2>5. Seen(path'[t]) => Safe(held, orders, real, guard)
    BY <1>1, <1>2, SafeIs
  <2>. QED  BY <2>2, <2>3, <2>4, <2>5
<1>3. Narrow => \A id \in Ids : /\ Heard(path[t], id, orders) => Heard(path'[t], id, orders')
                                /\ id \in reserved => id \in reserved'
  BY HeardStill
<1>. QED  BY <1>1, <1>2, <1>3, NarrowMove

LEMMA NarrowEnds ==
    ASSUME Base, ApartInv, NarrowInv, Base',
           UNCHANGED <<setting, real, orders, guard, reserved, held>>,
           NEW t, Moves(t), ~AtRest(t) \/ Quiet, Narrow => ~Marking(path[t]),
           Narrow => ~Asking(path[t]) \/ DOMAIN path[t].got = {},
           Narrow => Seen(path[t]), path'[t] = NoPath
    PROVE  NarrowInv'
<1>1. ~Asking(path'[t]) /\ path'[t].pc = "idle" /\ ~Marking(path'[t]) /\ ~path'[t].resting
      /\ ~Watching(path'[t]) /\ ~Late(path'[t])
  BY NoPathIs DEF Fields, Asking, Marking, Watching, Late
<1>. QED  BY <1>1, NarrowPlain

(* What is known when an order is decided on. *)
LEMMA NoneMarking ==
    ASSUME Base, ApartInv, NarrowInv, Narrow, NEW t \in Paths, AtRest(t), Quiet
    PROVE  \A id \in Selling(orders) : guard > 0 /\ guard <= real
BY MarkedIs, AtRestIs

LEMMA NarrowBegins ==
    ASSUME Base, ApartInv, NarrowInv, Base',
           UNCHANGED <<setting, real, orders, guard, reserved, held>>,
           NEW t \in Paths, Moves(t), AtRest(t), Quiet, NEW kind, NEW side, NEW clips,
           Fields(path'[t], "submit", kind, side, clips, held, <<>>, {}, FALSE, "idle"),
           Narrow => /\ Selling(orders) = {} /\ held <= real
                     /\ side = "buy" => \A u \in Paths :
                           Watching(path[u]) => \A id \in DOMAIN path[u].got : orders[id].left = 0
                     /\ side = "buy" /\ kind = "act" /\ Faults = {} =>
                           real = 0 /\ \A id \in Ids : orders[id].left = 0
    PROVE  NarrowInv'
<1>1. OrdersKept /\ Ids' = Ids /\ BookedOn
  BY StillBooked, BookedOnStill
<1>2. /\ path'[t].pc = "submit" /\ path'[t].side = side /\ path'[t].kind = kind
      /\ ~path'[t].resting /\ path'[t].next = "idle" /\ path'[t].base = held
  BY DEF Fields
<1>3. ~Watching(path'[t]) /\ ~Late(path'[t]) /\ ~Marking(path'[t]) /\ ~Asking(path[t])
  BY <1>2, AtRestIs DEF Watching, Late, Marking
<1>4. \A u \in Paths : Watching(path'[u]) => path'[u] = path[u]
  BY <1>3 DEF Moves, Others
<1>5. ASSUME Narrow
      PROVE  /\ Free(path'[t], orders', real, guard', held', path') /\ Alone(path'[t], orders', real)
             /\ Safe(held', orders', real, guard')
  BY <1>5, <1>2, <1>3, <1>4 DEF Free, Clear, Alone, Ids, Safe
<1>6. \A id \in Ids : Heard(path[t], id, orders) => Heard(path'[t], id, orders')
  BY <1>3, HeardStill
<1>. QED  BY <1>1, <1>5, <1>6, NarrowMove

LEMMA NarrowOrders ==
    ASSUME Base, ApartInv, PunctualInv, NarrowInv, Base',
           \/ ActSell
           \/ \E qty \in 1..MaxQty :
                 ActBuy(qty) \/ Exit(qty) \/ \E side \in {"buy", "sell"} : Manual(side, qty)
    PROVE  NarrowInv'
<1>1. Loop \in Paths /\ Operator \in Paths
  BY PathsAre
<1>2. UNCHANGED <<setting, real, orders, guard, reserved, held>>
  BY DEF ActBuy, ActSell, Exit, Manual, venue, book, claims
<1>3. ASSUME NEW t \in Paths, Idle(t), Quiet, Narrow
      PROVE  Safe(held, orders, real, guard) /\ AtRest(t) /\ Seen(path[t])
  BY <1>3, SafeIs DEF Idle, AtRest, Seen
<1>4. ASSUME NEW t \in Paths, Idle(t), Quiet, ~Blocked, Narrow
      PROVE  Selling(orders) = {} /\ held <= real
  BY <1>3, <1>4 DEF Base, Typed, Blocked, Safe
<1>5. ASSUME NEW t \in Paths, Idle(t), Quiet, NEW kind, NEW side, NEW clips,
             Begin(t, kind, side, clips),
             Narrow => /\ Selling(orders) = {} /\ held <= real
                       /\ side = "buy" => \A u \in Paths :
                             Watching(path[u]) => \A id \in DOMAIN path[u].got : orders[id].left = 0
                       /\ side = "buy" /\ kind = "act" /\ Faults = {} =>
                             real = 0 /\ \A id \in Ids : orders[id].left = 0
      PROVE  NarrowInv'
  BY <1>5, Begun, <1>2, NarrowBegins DEF Base, AtRest, Idle
<1>6. ASSUME NEW qty \in 1..MaxQty, ActBuy(qty)
      PROVE  NarrowInv'
  <2>1. /\ Idle(Loop) /\ Quiet /\ held = 0 /\ ~HasReservation
        /\ Begin(Loop, "act", "buy", Clips(qty))
    BY <1>6 DEF ActBuy
  <2>2. ASSUME Narrow
        PROVE  Selling(orders) = {} /\ held <= real
    BY <1>1, <1>3, <2>1, <2>2 DEF Base, Typed, Safe
  <2>3. ASSUME Narrow, Faults = {}
        PROVE  real = 0 /\ \A id \in Ids : orders[id].left = 0
    <3>1. AreOrders(orders) /\ OneSell(orders, real) /\ BuysReserved(orders, reserved, path)
      BY <2>3, BaseHasOrders DEF NarrowInv
    <3>2. reserved = {}
      BY <2>1 DEF HasReservation
    <3>3. \A u \in Paths : ~Asking(path[u])
      BY <2>1, <2>3, NarrowIs, AtRestIs DEF Quiet, Serial
    <3>4. ASSUME NEW id \in DOMAIN orders, orders[id].side = "buy"
          PROVE  orders[id].left = 0 /\ orders[id].filled <= orders[id].booked
      BY <2>3, <3>1, <3>2, <3>3, <3>4 DEF BuysReserved, Heard
    <3>5. \A id \in Ids : orders[id].left = 0
      BY <2>2, <2>3, <3>1, <3>4 DEF AreOrders, Ids, Selling, Sides
    <3>6. Owed(orders, "buy") = 0
      <4> DEFINE f == Owing(orders, "buy")
      <4>0. IsOwing(f, orders, "buy")
        BY <3>1, OwingIs
      <4>1. Summable(f) /\ DOMAIN f = {i \in DOMAIN orders : orders[i].side = "buy"}
            /\ \A id \in DOMAIN f : f[id] = Due(orders[id])
        BY <4>0 DEF IsOwing
      <4>2. ASSUME NEW id \in DOMAIN f
            PROVE  f[id] = 0
        BY <3>1, <3>4, <4>1, <4>2, DueIs DEF AreOrders
      <4> HIDE DEF f
      <4>3. Total(f) = 0
        BY <4>1, <4>2, SumOfZeros
      <4>. QED  BY <4>3 DEF f, Owed
    <3>7. Near(held, orders, real, open, byHand) /\ Calm
      BY <1>1, <1>3, <2>1, <2>3, NearIs DEF Calm
    <3>8. real <= 0 + 0
      BY <2>1, <3>6, <3>7 DEF Near
    <3>9. real >= 0 /\ real \in Int
      BY <3>1, StateIs DEF OneSell
    <3>. QED  BY <3>5, <3>8, <3>9
  <2>4. ASSUME Narrow, NEW u \in Paths, Watching(path[u]), NEW id \in DOMAIN path[u].got
        PROVE  orders[id].left = 0
    BY <2>4, ClipIs, BadAre, <2>3, NarrowIs
  <2>. QED  BY <1>1, <1>5, <2>1, <2>2, <2>3, <2>4
<1>7. ASSUME NEW qty \in 1..MaxQty, Exit(qty)
      PROVE  NarrowInv'
  BY <1>7, <1>1, <1>4, <1>5 DEF Exit
<1>8. CASE ActSell
  BY <1>8, <1>1, <1>4, <1>5 DEF ActSell
<1>9. ASSUME NEW qty \in 1..MaxQty, NEW side \in {"buy", "sell"}, Manual(side, qty)
      PROVE  NarrowInv'
  <2>1. Idle(Operator) /\ Quiet /\ Begin(Operator, "manual", side, <<qty>>)
        /\ ("hurry" \in Faults \/ ~Hasty(side))
    BY <1>9 DEF Manual
  <2>2. ASSUME Narrow
        PROVE  ~Blocked /\ (side = "buy" => \A w \in Watchers : Idle(w))
    BY <2>1, <2>2, NarrowIs DEF Hasty
  <2>3. ASSUME Narrow, side = "buy", NEW u \in Paths
        PROVE  ~Watching(path[u])
    <3>1. ASSUME Watching(path[u])
          PROVE  FALSE
      BY <3>1, ClipIs, <2>2, <2>3, BaseParts, NoPathIs DEF Idle, Roles, Fields, Watching
    <3>. QED  BY <3>1
  <2>. QED  BY <1>1, <1>4, <1>5, <2>1, <2>2, <2>3
<1>. QED  BY <1>6, <1>7, <1>8, <1>9

LEMMA NarrowLoops ==
    ASSUME Base, ApartInv, PunctualInv, NarrowInv, Base',
           StartSync \/ ReconcileList \/ ReconcileClear \/ Adopt \/ AdoptWrite
    PROVE  NarrowInv'
<1>1. Loop \in Paths /\ Operator \in Paths /\ UNCHANGED <<setting, real, orders, reserved, held>>
  BY PathsAre DEF StartSync, ReconcileList, ReconcileClear, Adopt, AdoptWrite, venue, claims
<1>2. ASSUME NEW t \in Paths, path[t].pc \in {"idle", "adopt", "reconcile"}
      PROVE  ~Marking(path[t]) /\ ~Asking(path[t]) /\ Seen(path[t])
  BY <1>2 DEF Marking, Asking, Seen
<1>3. OrdersKept /\ Ids' = Ids /\ BookedOn
  BY <1>1, StillBooked, BookedOnStill
<1>4. CASE StartSync \/ ReconcileList
  <2>1. /\ Quiet /\ path[Loop].pc = "idle" /\ guard' = guard /\ path[Loop] = NoPath
    BY <1>1, <1>4, BaseParts DEF StartSync, ReconcileList, Idle, book, Roles
  <2>2. PICK pc \in {"sync", "reconcile"} :
           /\ Goto(Loop, pc)
           /\ pc = "reconcile" => /\ Working("sell") = {}
                                  /\ "staleList" \in Faults \/ held <= real
    BY <1>4 DEF StartSync, ReconcileList
  <2>3. /\ Moves(Loop) /\ path'[Loop].pc = pc /\ path'[Loop].next = "idle"
        /\ path'[Loop].resting = FALSE
    BY <1>1, <2>1, <2>2, Moved, NoPathIs DEF Base, Fields
  <2>4. ~Asking(path'[Loop]) /\ ~Marking(path'[Loop]) /\ ~Watching(path'[Loop]) /\ ~Late(path'[Loop])
        /\ path'[Loop].pc # "submit"
    BY <2>3 DEF Asking, Marking, Watching, Late
  <2>5. CASE pc = "sync"
    <3>1. path'[Loop].pc \notin {"reconcile", "measure", "apply"} /\ ~Seen(path'[Loop])
      BY <2>3, <2>5 DEF Seen
    <3>. QED  BY <1>1, <1>2, <2>1, <2>3, <2>4, <3>1, NarrowPlain
  <2>6. CASE pc = "reconcile"
    <3>1. Selling(orders) = {}
      BY <2>2, <2>6 DEF Working, Selling, Ids
    <3>2. Narrow => held <= real
      BY <2>2, <2>6, NarrowIs
    <3>3. ASSUME Narrow
          PROVE  /\ Free(path'[Loop], orders', real, guard', held', path')
                 /\ Alone(path'[Loop], orders', real) /\ Safe(held', orders', real, guard')
      BY <1>1, <2>3, <2>4, <2>6, <3>1, <3>2, <3>3 DEF Free, Clear, Alone, Safe
    <3>4. \A id \in Ids : Heard(path[Loop], id, orders) => Heard(path'[Loop], id, orders')
      BY <1>1, <1>2, <2>1, HeardStill
    <3>. QED  BY <1>1, <1>3, <2>1, <2>3, <3>1, <3>3, <3>4, NarrowMove
  <2>. QED  BY <2>5, <2>6
<1>5. CASE ReconcileClear
  <2>1. path[Loop].pc = "reconcile" /\ Goto(Loop, "idle") /\ ~AtRest(Loop)
    BY <1>5 DEF ReconcileClear, AtRest
  <2>2. path'[Loop] = NoPath /\ Moves(Loop)
    BY <1>1, <1>5, <2>1, BaseReconcileClear, Moved DEF Base
  <2>3. /\ path'[Loop].pc = "idle" /\ ~path'[Loop].resting /\ ~Watching(path'[Loop])
        /\ ~Late(path'[Loop])
    BY <2>2, NoPathIs DEF Fields, Watching, Late
  <2>4. Free(path'[Loop], orders', real, guard', held', path') /\ Alone(path'[Loop], orders', real)
    BY <2>3, FreeAtRest DEF Alone
  <2>5. Narrow => Selling(orders) = {} /\ held <= real
    BY <1>1, <2>1 DEF NarrowInv, Free, Clear
  <2>6. \A id \in Ids : Heard(path[Loop], id, orders) => Heard(path'[Loop], id, orders')
    BY <1>1, <1>2, <2>1, HeardStill
  <2>7. Narrow => Safe(held', orders', real, guard')
    BY <1>1, <2>5 DEF Safe
  <2>. QED  BY <1>1, <1>3, <2>1, <2>2, <2>4, <2>5, <2>6, <2>7, NarrowMove
<1>6. CASE Adopt
  <2>1. Quiet /\ path[Operator].pc = "idle" /\ guard' = guard
    BY <1>6 DEF Adopt, Idle, book
  <2>2. /\ Moves(Operator) /\ path'[Operator].pc = "adopt" /\ ~path'[Operator].resting
        /\ path'[Operator].next = "idle"
    BY <1>6, Adopting DEF Base, Fields
  <2>3. ~Asking(path'[Operator]) /\ ~Marking(path'[Operator]) /\ ~Watching(path'[Operator])
        /\ ~Late(path'[Operator]) /\ path'[Operator].pc \notin {"reconcile", "measure", "apply"}
    BY <2>2 DEF Asking, Marking, Watching, Late
  <2>. QED  BY <1>1, <1>2, <2>1, <2>2, <2>3, NarrowPlain
<1>7. CASE AdoptWrite
  BY <1>7, <1>1, PathEnds, <1>2, NarrowEnds DEF AdoptWrite, AtRest, Base
<1>. QED  BY <1>4, <1>5, <1>6, <1>7

(* What is known when an order is sent: it is the only one of its path, no *)
(* sell works, and what it sells is there.                                 *)
LEMMA NarrowSends ==
    ASSUME Base, ApartInv, PunctualInv, NarrowInv, Narrow, NEW t \in Paths, path[t].pc = "submit"
    PROVE  /\ Lone(t) /\ DOMAIN path[t].got = {} /\ Summable(path[t].got) /\ Len(path[t].clips) = 1
           /\ ~path[t].resting /\ path[t].next = "idle" /\ path[t].side \in Sides
           /\ Selling(orders) = {} /\ real \in Int /\ real >= 0
           /\ path[t].base \in Int /\ path[t].base <= real
           /\ Head(path[t].clips) \in Nat /\ Head(path[t].clips) > 0
           /\ path[t].side = "sell" => Head(path[t].clips) <= path[t].base
           /\ path[t].side = "buy" => \A u \in Paths :
                 Watching(path[u]) => \A id \in DOMAIN path[u].got : orders[id].left = 0
           /\ path[t].side = "buy" /\ path[t].kind = "act" /\ Faults = {} =>
                 real = 0 /\ \A id \in DOMAIN orders : orders[id].left = 0
           /\ path[t].kind = "watch" => Faults = {}
<1>1. Fits(path[t], Ids) /\ Roles(t, path[t]) /\ Sized(path[t])
  BY BaseParts
<1>2. /\ Summable(path[t].got) /\ path[t].next \in {"idle", "measure"} /\ path[t].base \in Int
      /\ Clipped(path[t].clips)
  BY <1>1, FitsParts
<1>3. Single(path[t])
  BY NarrowIs DEF Single
<1>4. DOMAIN path[t].got = {} /\ Len(path[t].clips) = 1 /\ path[t].next = "idle"
  BY <1>1, <1>2, <1>3 DEF Roles
<1>5. path[t].side \in Sides /\ Asked(path[t])
  BY <1>1 DEF Roles, Asked, Asking
<1>6. Lone(t)
  BY NarrowIs, LoneIf DEF AtRest
<1>8. Head(path[t].clips) \in Nat /\ Head(path[t].clips) > 0
  BY HeadIs
<1>9. path[t].side = "sell" => Head(path[t].clips) <= path[t].base
  <2>1. Rest(path[t].clips) = Head(path[t].clips)
    BY <1>4 DEF Rest
  <2>2. Confirmed(path[t]) = 0
    BY <1>4, SumOfNone DEF Confirmed
  <2>. QED  BY <1>1, <1>5, <1>8, <2>1, <2>2 DEF Sized
<1>10. Free(path[t], orders, real, guard, held, path) /\ OneSell(orders, real) /\ real \in Int
  BY StateIs DEF NarrowInv
<1>11. /\ ~path[t].resting /\ Selling(orders) = {} /\ real >= 0 /\ path[t].base <= real
       /\ path[t].side = "buy" => \A u \in Paths :
             Watching(path[u]) => \A id \in DOMAIN path[u].got : orders[id].left = 0
       /\ path[t].side = "buy" /\ path[t].kind = "act" /\ Faults = {} =>
             real = 0 /\ \A id \in DOMAIN orders : orders[id].left = 0
  BY <1>10 DEF Free, Clear, OneSell
<1>12. path[t].kind = "watch" => Faults = {}
  BY <1>1, NarrowIs, MarketWatchers DEF Roles
<1>. QED  BY <1>2, <1>4, <1>5, <1>6, <1>8, <1>9, <1>10, <1>11, <1>12

LEMMA NarrowTaken ==
    ASSUME Base, ApartInv, PunctualInv, NarrowInv, Narrow, Base', NEW t \in Paths,
           path[t].pc = "submit", Len(orders) < MaxOrders, NEW fill \in Nat, NEW left \in Nat,
           Takes(t, fill, left), fill + left <= Head(path[t].clips), NEW clips, NEW bad, NEW resting,
           LET p == path[t]
           IN  Fields(path'[t], IF Len(p.clips) > 1 THEN "submit" ELSE "settle", p.kind, p.side,
                      clips, p.base, Noting(p.got, NextId, fill), bad, resting, p.next),
           resting => fill = 0, reserved \subseteq reserved',
           path[t].side = "buy" /\ left > 0 => NextId \in reserved'
    PROVE  /\ OneSell(orders', real') /\ BuysReserved(orders', reserved', path')
           /\ \A id \in Selling(orders') : Marking(path'[t]) /\ id \in DOMAIN path'[t].got
           /\ Free(path'[t], orders', real', guard', held', path') /\ ~Seen(path'[t])
           /\ Alone(path'[t], orders', real')
           /\ \A u \in Paths \ {t} : /\ path[u].pc \in {"idle", "resting"}
                                     /\ ~path[u].resting /\ ~Late(path[u])
                                     /\ Alone(path[u], orders', real')
<1> DEFINE p == path[t]
           q == path'[t]
           head == Head(p.clips)
<1>1. /\ Lone(t) /\ DOMAIN p.got = {} /\ Summable(p.got) /\ Len(p.clips) = 1
      /\ p.next = "idle" /\ p.side \in Sides
      /\ Selling(orders) = {} /\ real \in Int /\ real >= 0 /\ p.base \in Int /\ p.base <= real
      /\ head \in Nat /\ head > 0
      /\ p.side = "sell" => head <= p.base
      /\ p.side = "buy" => \A u \in Paths :
            Watching(path[u]) => \A id \in DOMAIN path[u].got : orders[id].left = 0
  BY NarrowSends
<1>2. /\ Ids' = Ids \cup {NextId} /\ NextId \notin Ids
      /\ orders'[NextId].side = p.side /\ orders'[NextId].left = left
      /\ orders'[NextId].filled = fill
      /\ \A id \in Ids : orders'[id] = orders[id]
      /\ real' = IF p.side = "buy" THEN real + fill ELSE real - fill
  BY <1>1, Taken DEF Base
<1>3. DOMAIN orders' = DOMAIN orders \cup {NextId} /\ NextId \notin DOMAIN orders
      /\ \A id \in DOMAIN orders : orders'[id] = orders[id]
  BY <1>2 DEF Ids
<1>4. /\ q.pc = "settle" /\ q.kind = p.kind /\ q.side = p.side /\ q.base = p.base
      /\ q.got = Noting(p.got, NextId, fill) /\ q.resting = resting /\ q.next = "idle"
  BY <1>1 DEF Fields
<1>5. DOMAIN q.got = {NextId} /\ Confirmed(q) = fill /\ q.got[NextId] = fill
  <2>1. Adds(Noting(p.got, NextId, fill), p.got, NextId, fill)
    BY <1>1, NotedIs
  <2>2. Total(p.got) = 0
    BY <1>1, SumOfNone
  <2>. QED  BY <1>1, <1>4, <2>1, <2>2 DEF Adds, Confirmed
<1>6. Selling(orders') \subseteq {NextId}
      /\ (Selling(orders') # {} => p.side = "sell" /\ left > 0)
  BY <1>1, <1>2, <1>3 DEF Selling
<1> HIDE DEF p, q, head
<1>7. /\ p.side = "sell" => real' = real - fill
      /\ p.side = "buy" => real' = real + fill
  BY <1>2 DEF Sides
<1>8. OneSell(orders', real')
  <2>1. real' >= 0
    BY <1>1, <1>7 DEF Sides, head, p
  <2>2. ASSUME NEW id \in Selling(orders')
        PROVE  orders'[id].left <= real' /\ Selling(orders') = {id}
    BY <1>6, <2>2, <1>1, <1>2, <1>7 DEF head, p
  <2>. QED  BY <2>1, <2>2 DEF OneSell
<1>9. BuysReserved(orders', reserved', path')
  <2>1. ASSUME Faults = {}, NEW id \in DOMAIN orders', orders'[id].side = "buy", id \notin reserved'
        PROVE  orders'[id].left = 0 /\ \E u \in Paths : Heard(path'[u], id, orders')
    <3>1. CASE id = NextId
      BY <1>2, <2>1, <3>1, <1>4, <1>5 DEF p, Heard, Asking, q
    <3>2. CASE id # NextId
      BY <1>3, <2>1, <3>2, <1>1, AtRestIs DEF NarrowInv, BuysReserved, Lone, p, Heard
    <3>. QED  BY <3>1, <3>2
  <2>. QED  BY <2>1 DEF BuysReserved
<1>10. Marking(q) /\ ~Watching(q) /\ ~Late(q) /\ ~Seen(q)
  BY <1>4 DEF Marking, Watching, Late, Seen
<1>11. Free(q, orders', real', guard', held', path')
  BY <1>4, <1>6, <1>10, <1>1, <1>7, <1>5 DEF Clear, Sides, head, p, Free
<1>12. ASSUME NEW u \in Paths \ {t}
       PROVE  /\ path[u].pc \in {"idle", "resting"} /\ ~path[u].resting /\ ~Late(path[u])
              /\ Alone(path[u], orders', real')
  <2>1. path[u].pc \in {"idle", "resting"} /\ ~path[u].resting /\ ~Late(path[u])
        /\ DOMAIN path[u].got \subseteq Ids
    BY <1>1, <1>12, AtRestIs, BadAre DEF Lone
  <2>2. Alone(path[u], orders, real)
    BY <1>12 DEF NarrowInv
  <2>3. ASSUME Watching(path[u]), path[u].side = "buy", NEW id \in DOMAIN path[u].got,
               orders'[id].left > 0
        PROVE  FALSE
    BY <1>3, <2>1, <2>3, <1>1, <1>12, <2>2 DEF Ids, Sides, p, Alone, head
  <2>4. Watching(path[u]) => path[u].pc = "resting"
    BY <2>1 DEF Late
  <2>. QED  BY <2>1, <2>3, <2>4 DEF Alone
<1>. QED  BY <1>5, <1>6, <1>8, <1>9, <1>10, <1>11, <1>12 DEF Alone, q

LEMMA NarrowSubmits ==
    ASSUME Base, ApartInv, PunctualInv, NarrowInv, Base', NEW t \in Paths,
           SubmitFinal(t) \/ SubmitOpen(t)
    PROVE  NarrowInv'
<1>1. path[t].pc = "submit" /\ Len(orders) < MaxOrders /\ setting' = setting
  BY DEF SubmitFinal, SubmitOpen
<1>2. CASE ~Narrow
  BY <1>1, <1>2, NarrowFaulty
<1>3. CASE Narrow
  <2>1. /\ Head(path[t].clips) \in Nat /\ Head(path[t].clips) > 0 /\ ~path[t].resting
        /\ path[t].kind = "watch" => Faults = {}
    BY <1>1, <1>3, NarrowSends
  <2>2. PICK fill \in Nat, left \in Nat, bad \in {path[t].bad, path[t].bad \cup {NextId}} :
          /\ Takes(t, fill, left) /\ Moves(t) /\ fill + left <= Head(path[t].clips)
          /\ LET p == path[t]
             IN  Fields(path'[t], IF Len(p.clips) > 1 THEN "submit" ELSE "settle", p.kind, p.side,
                        Tail(p.clips), p.base, Noting(p.got, NextId, fill), bad, p.resting, p.next)
          /\ reserved \subseteq reserved'
          /\ path[t].side = "buy" /\ left > 0 => NextId \in reserved'
    <3>1. CASE SubmitFinal(t)
      <4>1. PICK fill \in 0..Head(path[t].clips) :
              /\ Takes(t, fill, 0) /\ Moves(t)
              /\ LET p == path[t]
                 IN  Fields(path'[t], IF Len(p.clips) > 1 THEN "submit" ELSE "settle", p.kind, p.side,
                            Tail(p.clips), p.base, Noting(p.got, NextId, fill), p.bad, p.resting,
                            p.next)
        BY <3>1, Finals DEF Base
      <4>2. fill \in Nat /\ 0 \in Nat /\ fill + 0 <= Head(path[t].clips) /\ reserved' = reserved
        BY <2>1, <3>1 DEF SubmitFinal, claims
      <4>. QED  BY <4>1, <4>2
    <3>2. CASE SubmitOpen(t)
      <4>1. PICK fill \in 0..(Head(path[t].clips) - 1) :
              /\ fill > 0 => "partial" \in Faults
              /\ Takes(t, fill, Head(path[t].clips) - fill) /\ Moves(t)
              /\ reserved' = IF path[t].kind = "watch" /\ fill > 0 THEN reserved ELSE Reserving(t)
              /\ LET p == path[t]
                 IN  Fields(path'[t], IF Len(p.clips) > 1 THEN "submit" ELSE "settle", p.kind, p.side,
                            Tail(p.clips), p.base, Noting(p.got, NextId, fill), p.bad \cup {NextId},
                            p.resting, p.next)
        BY <3>2, Opens DEF Base
      <4> DEFINE left == Head(path[t].clips) - fill
      <4>2. fill \in Nat /\ left \in Nat /\ fill + left <= Head(path[t].clips)
        BY <2>1
      <4>3. ~(path[t].kind = "watch" /\ fill > 0)
        BY <2>1, <4>1
      <4>4. reserved \subseteq reserved' /\ (path[t].side = "buy" => NextId \in reserved')
        BY <4>1, <4>3 DEF Reserving
      <4> HIDE DEF left
      <4>5. Takes(t, fill, left)
        BY <4>1 DEF left
      <4>. QED  BY <4>1, <4>2, <4>4, <4>5
    <3>. QED  BY <3>1, <3>2
  <2>3. path[t].resting => fill = 0
    BY <2>1
  <2>4. /\ OneSell(orders', real') /\ BuysReserved(orders', reserved', path')
        /\ \A id \in Selling(orders') : Marking(path'[t]) /\ id \in DOMAIN path'[t].got
        /\ Free(path'[t], orders', real', guard', held', path') /\ ~Seen(path'[t])
        /\ Alone(path'[t], orders', real')
        /\ \A u \in Paths \ {t} : /\ path[u].pc \in {"idle", "resting"}
                                  /\ ~path[u].resting /\ ~Late(path[u])
                                  /\ Alone(path[u], orders', real')
    BY <1>1, <1>3, <2>2, <2>3, NarrowTaken
  <2>5. \A u \in Paths \ {t} : path'[u] = path[u]
    BY <2>2 DEF Moves, Others
  <2>. QED  BY <1>1, <2>4, <2>5, NarrowStep
<1>. QED  BY <1>2, <1>3

LEMMA NarrowResting ==
    ASSUME Base, ApartInv, PunctualInv, NarrowInv, Base', NEW t \in Paths, NEW w \in Watchers,
           SubmitResting(t, w)
    PROVE  NarrowInv'
<1>1. path[t].pc = "submit" /\ Len(orders) < MaxOrders /\ setting' = setting /\ Limit(path[t])
      /\ w \in Paths
  BY PathsAre DEF SubmitResting
<1>2. CASE ~Narrow
  BY <1>1, <1>2, NarrowFaulty
<1>3. CASE Narrow
  <2>1. /\ Head(path[t].clips) \in Nat /\ Head(path[t].clips) > 0
        /\ path[t].side = "buy" /\ path[t].kind = "act" /\ Faults = {} =>
              real = 0 /\ \A id \in DOMAIN orders : orders[id].left = 0
        /\ path[t].side \in Sides
    BY <1>1, <1>3, NarrowSends
  <2>2. Faults = {} /\ path[t].kind = "act"
    BY <1>1, <1>3, NarrowIs DEF Limit
  <2>3. PICK fill \in 0..(Head(path[t].clips) - 1) :
          /\ fill > 0 => "partial" \in Faults
          /\ Takes(t, fill, Head(path[t].clips) - fill)
          /\ reserved' = Reserving(t)
          /\ t # w /\ \A u \in Paths \ {t, w} : path'[u] = path[u]
          /\ LET p == path[t]
             IN  /\ Fields(path'[t], IF Len(p.clips) > 1 THEN "submit" ELSE "settle", p.kind,
                           p.side, Tail(p.clips), p.base, Noting(p.got, NextId, fill), p.bad,
                           TRUE, p.next)
                 /\ Fields(path'[w], "resting", "watch", p.side, <<Head(p.clips) - fill>>, 0,
                           Noting(<<>>, NextId, 0), {}, FALSE, "idle")
    BY <1>1, Rests DEF Base
  <2> DEFINE left == Head(path[t].clips) - fill
  <2>4. fill = 0 /\ fill \in Nat /\ left \in Nat /\ fill + left <= Head(path[t].clips)
    BY <2>1, <2>2, <2>3
  <2>5. reserved \subseteq reserved' /\ (path[t].side = "buy" => NextId \in reserved')
    BY <2>3 DEF Reserving
  <2> HIDE DEF left
  <2>6. Takes(t, fill, left)
    BY <2>3 DEF left
  <2>7. /\ OneSell(orders', real') /\ BuysReserved(orders', reserved', path')
        /\ \A id \in Selling(orders') : Marking(path'[t]) /\ id \in DOMAIN path'[t].got
        /\ Free(path'[t], orders', real', guard', held', path') /\ ~Seen(path'[t])
        /\ Alone(path'[t], orders', real')
        /\ \A u \in Paths \ {t} : /\ path[u].pc \in {"idle", "resting"}
                                  /\ ~path[u].resting /\ ~Late(path[u])
                                  /\ Alone(path[u], orders', real')
    BY <1>1, <1>3, <2>3, <2>4, <2>5, <2>6, NarrowTaken
  <2>8. /\ path'[w].pc = "resting" /\ path'[w].resting = FALSE /\ path'[w].side = path[t].side
        /\ DOMAIN path'[w].got = {NextId}
    <3>1. Only(Noting(<<>>, NextId, 0), NextId, 0)
      BY NotedFirst
    <3>2. DOMAIN Noting(<<>>, NextId, 0) = {NextId}
      BY <3>1 DEF Only
    <3>. QED  BY <2>3, <3>2 DEF Fields
  <2>9. ~Late(path'[w])
    BY <2>8 DEF Late
  <2>10. Alone(path'[w], orders', real')
    <3>1. /\ Ids' = Ids \cup {NextId} /\ \A id \in Ids : orders'[id] = orders[id]
          /\ real' = IF path[t].side = "buy" THEN real + fill ELSE real - fill
      BY <1>1, <2>1, <2>4, <2>6, Taken DEF Base
    <3>2. path[t].side = "buy" => real' = 0 /\ \A i \in Ids : orders'[i].left = 0
      BY <2>1, <2>2, <2>4, <3>1 DEF Ids
    <3>. QED  BY <2>8, <3>1, <3>2 DEF Alone, Ids
  <2>11. ASSUME NEW u \in Paths \ {t}
         PROVE  /\ path'[u].pc \in {"idle", "resting"} /\ ~path'[u].resting /\ ~Late(path'[u])
                /\ Alone(path'[u], orders', real')
    BY <2>8, <2>9, <2>10, <2>3, <2>7, <2>11
  <2>. QED  BY <1>1, <2>7, <2>11, NarrowStep
<1>. QED  BY <1>2, <1>3

LEMMA NarrowSubmitStops ==
    ASSUME Base, ApartInv, PunctualInv, NarrowInv, Base', NEW t \in Paths,
           SubmitFails(t) \/ ReplyLost(t) \/ RateRefused(t)
    PROVE  NarrowInv'
<1>1. path[t].pc = "submit" /\ setting' = setting /\ ~AtRest(t) /\ ~Marking(path[t])
  BY DEF SubmitFails, ReplyLost, RateRefused, AtRest, Marking
<1>2. CASE ~Narrow
  BY <1>1, <1>2, NarrowFaulty
<1>3. CASE ReplyLost(t)
  <2>1. ~Narrow
    BY <1>3, NarrowIs DEF ReplyLost
  <2>. QED  BY <1>2, <2>1
<1>4. CASE Narrow /\ SubmitFails(t)
  BY <1>1, <1>4, NarrowSends, PlanGivenUp, NarrowEnds DEF Seen, SubmitFails, venue, book, claims, Base
<1>5. CASE Narrow /\ RateRefused(t)
  <2>1. UNCHANGED <<real, orders, reserved>>
    BY <1>5 DEF RateRefused, venue, claims
  <2>2. /\ Moves(t) /\ path'[t].pc = "settle" /\ path'[t].resting = path[t].resting
        /\ path'[t].next = path[t].next
        /\ path'[t].got = path[t].got
    BY <1>5, CutShort DEF Base, Fields
  <2>3. DOMAIN path[t].got = {} /\ ~path[t].resting /\ path[t].next = "idle" /\ Selling(orders) = {}
    BY <1>1, <1>5, NarrowSends
  <2>4. ~Watching(path'[t]) /\ ~Seen(path'[t])
    BY <2>2, <2>3 DEF Watching, Seen
  <2>5. Free(path'[t], orders', real, guard', held', path') /\ Alone(path'[t], orders', real)
    BY <2>1, <2>2, <2>3, <2>4 DEF Free, Alone
  <2>6. OrdersKept /\ Ids' = Ids /\ BookedOn
    BY <2>1, StillBooked, BookedOnStill
  <2>7. \A id \in Ids : Heard(path[t], id, orders) => Heard(path'[t], id, orders')
    BY <2>1, <2>3, HeardStill
  <2>. QED  BY <1>1, <2>1, <2>2, <2>3, <2>4, <2>5, <2>6, <2>7, NarrowMove
<1>. QED  BY <1>2, <1>3, <1>4, <1>5

(* A watcher's market order that is still working has nothing confirmed.   *)
LEMMA ResentOpen ==
    ASSUME Base, SureInv, Narrow, NEW t \in Paths, path[t].pc = "settle", path[t].kind = "watch",
           path[t].bad # {}
    PROVE  Confirmed(path[t]) = 0
<1>1. Roles(t, path[t]) /\ Summable(path[t].got) /\ path[t].bad \subseteq DOMAIN path[t].got
  BY BaseParts, FitsParts
<1>2. Calm
  BY <1>1, NarrowIs, MarketWatchers DEF Roles, Calm
<1>3. PICK id \in DOMAIN path[t].got : DOMAIN path[t].got = {id}
  BY <1>1 DEF Roles
<1>4. path[t].got[id] = 0
  BY <1>1, <1>2, <1>3 DEF SureInv, AllOwned, Owns, Sure
<1>. QED  BY <1>1, <1>3, <1>4, SumOfZeros DEF Confirmed

(* The marker Settle leaves for a sell that works is what will be left of   *)
(* the holding when it has filled no more, or the path is yet to move it.  *)
LEMMA SettledIs ==
    ASSUME Base, SureInv, Narrow, NEW t \in Paths, path[t].pc = "settle", path[t].side = "sell",
           Free(path[t], orders, real, guard, held, path), NEW id \in Selling(orders)
    PROVE  \/ SettledGuard(path[t]) > 0 /\ SettledGuard(path[t]) <= real
           \/ path[t].kind \in {"exit", "manual"} /\ Confirmed(path[t]) > 0 /\ id \in DOMAIN path[t].got
<1> DEFINE p == path[t]
<1>1. Asked(p) /\ Marking(p) /\ Meant(p, orders) /\ Roles(t, p)
  BY BaseParts DEF Asked, Asking, Marking
<1>2. p.base \in Int /\ Confirmed(p) \in Nat /\ p.kind \in {"act", "exit", "manual", "watch"}
  BY <1>1, BaseParts, FitsParts DEF Roles
<1>3. p.base - Confirmed(p) > 0 /\ p.base - Confirmed(p) <= real /\ id \in DOMAIN p.got
      /\ (p.resting => Confirmed(p) = 0)
  BY <1>1 DEF Free
<1>4. orders[id].left > 0
  BY DEF Selling
<1>5. CASE p.bad = {}
  BY <1>1, <1>3, <1>4, <1>5, <1>2 DEF Meant, SettledGuard
<1>6. CASE p.bad # {} /\ p.kind = "act"
  BY <1>6, <1>3 DEF SettledGuard
<1>7. CASE p.bad # {} /\ p.kind # "act" /\ Confirmed(p) = 0
  BY <1>7, <1>2, <1>3 DEF SettledGuard
<1>8. CASE p.bad # {} /\ p.kind # "act" /\ Confirmed(p) # 0
  BY <1>8, ResentOpen, <1>2, <1>3
<1>. QED  BY <1>5, <1>6, <1>7, <1>8

LEMMA NarrowSettle ==
    ASSUME Base, ApartInv, SureInv, NarrowInv, Base', NEW t \in Paths, Settle(t)
    PROVE  NarrowInv'
<1> DEFINE p == path[t]
           pc == IF Confirmed(p) > 0 THEN "book" ELSE "sync"
           q == path'[t]
<1>1. /\ p.pc = "settle" /\ Goto(t, pc) /\ UNCHANGED <<setting, real, orders, reserved, held>>
      /\ guard' = IF p.side = "sell" THEN SettledGuard(p) ELSE guard
  BY DEF Settle, venue
<1>2. pc \in {"book", "sync"} /\ (Confirmed(p) > 0 => pc = "book")
  OBVIOUS
<1> HIDE DEF pc
<1>3. /\ Moves(t) /\ q.pc = pc /\ q.kind = p.kind /\ q.side = p.side /\ q.base = p.base
      /\ q.got = p.got /\ q.resting = p.resting /\ q.next = p.next
  BY <1>1, Moved DEF Base, Fields
<1>4. p.next # "measure" /\ p.side \in Sides /\ ~AtRest(t)
  BY <1>1, BaseParts DEF Roles, AtRest, Asked, Asking
<1>5. ~Watching(q) /\ ~Late(q) /\ ~Seen(q)
  BY <1>2, <1>3, <1>4 DEF Watching, Late, Seen
<1>6. ASSUME Narrow
      PROVE  /\ Free(q, orders', real, guard', held', path') /\ Alone(q, orders', real)
             /\ \A id \in Selling(orders') : \/ guard' > 0 /\ guard' <= real
                                             \/ Marking(q) /\ id \in DOMAIN q.got
  <2>1. Free(p, orders, real, guard, held, path)
    BY <1>6 DEF NarrowInv
  <2>2. Asking(p) /\ Marking(p) /\ Confirmed(q) = Confirmed(p)
    BY <1>1, <1>3 DEF Asking, Marking, Confirmed
  <2>3. p.side = "buy" => Selling(orders) = {}
    BY <2>1, <2>2 DEF Free, Clear
  <2>4. Free(q, orders', real, guard', held', path')
    BY <1>1, <1>2, <1>3, <1>5, <2>3, <2>1, <2>2 DEF Clear, Free
  <2>5. ASSUME NEW id \in Selling(orders)
        PROVE  (guard' > 0 /\ guard' <= real) \/ (Marking(q) /\ id \in DOMAIN q.got)
    <3>1. p.side = "sell" /\ guard' = SettledGuard(p)
      BY <1>1, <1>4, <2>3, <2>5 DEF Sides
    <3>2. \/ guard' > 0 /\ guard' <= real
          \/ p.kind \in {"exit", "manual"} /\ Confirmed(p) > 0 /\ id \in DOMAIN p.got
      BY <1>1, <1>6, <2>1, <2>5, <3>1, SettledIs
    <3>. QED  BY <1>2, <1>3, <3>2 DEF Marking
  <2>. QED  BY <1>1, <1>5, <2>4, <2>5 DEF Alone
<1>7. OrdersKept /\ Ids' = Ids /\ BookedOn
  BY <1>1, StillBooked, BookedOnStill
<1>8. \A id \in Ids : Heard(p, id, orders) => Heard(q, id, orders')
  <2>1. CASE pc = "book"
    BY <1>1, <1>3, <2>1, HeardStill DEF Asking
  <2>2. CASE pc # "book"
    <3>1. Summable(p.got) /\ Confirmed(p) \in Nat
      BY BaseParts, FitsParts
    <3>2. Confirmed(p) = 0
      BY <1>2, <2>2, <3>1
    <3>3. \A id \in DOMAIN p.got : p.got[id] = 0
      BY <3>1, <3>2, SumOfZeros DEF Confirmed
    <3>4. \A id \in Ids : orders[id].filled \in Nat /\ orders[id].booked \in Nat
      BY IdsAre DEF Base
    <3>. QED  BY <1>1, <3>3, <3>4 DEF Heard
  <2>. QED  BY <2>1, <2>2
<1> HIDE DEF p, q
<1>. QED  BY <1>1, <1>3, <1>4, <1>5, <1>6, <1>7, <1>8, NarrowMove DEF p, q

LEMMA NarrowBook ==
    ASSUME Base, ApartInv, NarrowInv, Base', NEW t \in Paths, Book(t)
    PROVE  NarrowInv'
<1> DEFINE p == path[t]
           q == path'[t]
<1>1. /\ p.pc = "book" /\ setting' = setting /\ Asking(p) /\ ~AtRest(t) /\ Asked(p)
      /\ Ids' = Ids /\ OrdersKept /\ p.side \in Sides
      /\ UNCHANGED <<real, reserved, held>>
      /\ p.side = "sell" => guard' = guard
  BY BookFacts DEF claims, RecordClose, Sides
<1>2. PICK pc : /\ pc = "sync" \/ (pc = "flag" /\ p.kind \in {"exit", "manual"})
                /\ pc = "sync" => p.bad = {} \/ p.kind \notin {"exit", "manual"}
                /\ Moves(t)
                /\ Fields(q, pc, p.kind, p.side, p.clips, p.base, p.got, p.bad, p.resting, "idle")
  BY BookFacts
<1>3. /\ q.pc = pc /\ q.kind = p.kind /\ q.side = p.side /\ q.base = p.base /\ q.got = p.got
      /\ q.resting = p.resting /\ q.next = "idle"
  BY <1>2 DEF Fields
<1>4. ~Watching(q) /\ ~Late(q) /\ ~Asking(q) /\ q.pc \in {"sync", "flag"} /\ ~Seen(q)
  BY <1>2, <1>3 DEF Watching, Late, Asking, Seen
<1>5. Roles(t, p) /\ Meant(p, orders)
  BY BaseParts
<1>6. ASSUME Narrow
      PROVE  /\ Free(q, orders', real, guard', held', path') /\ Alone(q, orders', real)
             /\ \A id \in Selling(orders') : \/ guard' > 0 /\ guard' <= real
                                             \/ Marking(q) /\ id \in DOMAIN q.got
  <2>1. Free(p, orders, real, guard, held, path) /\ Selling(orders') \subseteq Selling(orders)
    BY <1>1, <1>6, SellingLess DEF NarrowInv
  <2>2. p.side = "buy" => Selling(orders) = {}
    BY <1>1, <2>1 DEF Free, Clear
  <2>3. Marking(q) => Marking(p)
    BY <1>1, <1>2, <1>3 DEF Marking
  <2>4. Free(q, orders', real, guard', held', path')
    BY <1>3, <1>4, <2>1, <2>3 DEF Clear, Confirmed, Free
  <2>5. ASSUME NEW id \in Selling(orders')
        PROVE  (guard' > 0 /\ guard' <= real) \/ (Marking(q) /\ id \in DOMAIN q.got)
    <3>1. id \in Selling(orders) /\ guard' = guard
      BY <1>1, <2>1, <2>2, <2>5 DEF Sides
    <3>2. (guard > 0 /\ guard <= real) \/ (Marking(p) /\ id \in DOMAIN p.got)
      BY <1>1, <1>6, <3>1, MarkedIs
    <3>3. ASSUME Marking(p), id \in DOMAIN p.got, pc = "sync"
          PROVE  FALSE
      BY <1>1, <1>2, <1>5, <3>3, <3>1 DEF Marking, Roles, Meant, Selling
    <3>. QED  BY <1>2, <1>3, <3>1, <3>2, <3>3 DEF Marking
  <2>. QED  BY <1>4, <2>4, <2>5 DEF Alone
<1>7. \A id \in Ids : /\ orders[id].filled \in Nat /\ orders[id].booked \in Nat
                      /\ orders'[id].filled = orders[id].filled
                      /\ orders'[id].booked = IF id \in Handles(t) THEN orders[id].booked + p.got[id]
                                              ELSE orders[id].booked
                      /\ id \in Handles(t) => p.got[id] \in Nat
  BY BookFacts, IdsAre DEF Base
<1>8. ASSUME NEW id \in Ids
      PROVE  /\ orders'[id].filled = orders[id].filled /\ orders'[id].booked >= orders[id].booked
             /\ Heard(p, id, orders) => orders'[id].filled <= orders'[id].booked
  BY <1>7, <1>8 DEF Heard, Handles
<1>9. BookedOn /\ \A id \in Ids : Heard(p, id, orders) => Heard(q, id, orders')
  BY <1>8 DEF BookedOn, Heard
<1> HIDE DEF p, q
<1>. QED  BY <1>1, <1>2, <1>4, <1>6, <1>9, NarrowMove DEF p, q

LEMMA NarrowFlag ==
    ASSUME Base, ApartInv, NarrowInv, Base', NEW t \in Paths, Flag(t)
    PROVE  NarrowInv'
<1> DEFINE p == path[t]
           q == path'[t]
<1>1. /\ p.pc = "flag" /\ Goto(t, "sync") /\ UNCHANGED <<setting, real, orders, reserved, held>>
      /\ guard' = IF p.side = "sell" THEN p.base - Confirmed(p) ELSE guard
  BY DEF Flag, venue
<1>2. /\ Moves(t) /\ q.pc = "sync" /\ q.got = p.got /\ q.resting = p.resting /\ q.next = p.next
  BY <1>1, Moved DEF Base, Fields
<1>3. /\ p.next # "measure" /\ p.side \in Sides /\ ~AtRest(t) /\ p.kind \in {"exit", "manual"}
      /\ Meant(p, orders) /\ Asked(p)
  BY <1>1, BaseParts DEF Roles, AtRest, Asked
<1>4. ~Watching(q) /\ ~Late(q) /\ ~Asking(q) /\ ~Marking(q) /\ Marking(p)
      /\ ~Asking(p) /\ ~Seen(q)
  BY <1>1, <1>2, <1>3 DEF Watching, Late, Asking, Marking, Seen
<1>5. ASSUME Narrow
      PROVE  /\ Free(q, orders', real, guard', held', path') /\ Alone(q, orders', real)
             /\ \A id \in Selling(orders') : guard' > 0 /\ guard' <= real
  <2>1. Free(p, orders, real, guard, held, path)
    BY <1>5 DEF NarrowInv
  <2>2. Free(q, orders', real, guard', held', path')
    BY <1>1, <1>2, <1>4, <2>1 DEF Clear, Confirmed, Free
  <2>3. ASSUME NEW id \in Selling(orders)
        PROVE  guard' > 0 /\ guard' <= real
    <3>1. CASE p.side = "sell"
      BY <1>1, <1>4, <2>1, <2>3, <3>1 DEF Free
    <3>2. CASE p.side = "buy"
      BY <1>3, <2>3, <3>2, <1>5, MarkedIs, <1>1 DEF Meant, Selling
    <3>. QED  BY <1>3, <3>1, <3>2 DEF Sides
  <2>. QED  BY <1>1, <1>4, <2>2, <2>3 DEF Alone
<1>6. OrdersKept /\ Ids' = Ids /\ BookedOn
  BY <1>1, StillBooked, BookedOnStill
<1>7. \A id \in Ids : Heard(p, id, orders) => Heard(q, id, orders')
  BY <1>1, <1>4, HeardStill
<1> HIDE DEF p, q
<1>. QED  BY <1>1, <1>2, <1>3, <1>4, <1>5, <1>6, <1>7, NarrowMove DEF p, q

LEMMA NarrowSyncs ==
    ASSUME Base, ApartInv, NarrowInv, Base', NEW t \in Paths,
           SyncRead(t) \/ SyncFails(t) \/ SyncApply(t)
    PROVE  NarrowInv'
<1> DEFINE p == path[t]
           q == path'[t]
<1>1. p.pc \in {"sync", "apply"} /\ UNCHANGED <<setting, real, orders, guard, reserved>>
  BY DEF SyncRead, SyncFails, SyncApply, venue, book, claims
<1>2. ~AtRest(t) /\ ~Marking(p) /\ ~Asking(p) /\ p.next \in {"idle", "measure"}
  BY <1>1, BaseParts, FitsParts DEF AtRest, Marking, Asking
<1>3. OrdersKept /\ Ids' = Ids /\ BookedOn
      /\ \A id \in Ids : Heard(p, id, orders) => Heard(q, id, orders')
  BY <1>1, <1>2, StillBooked, BookedOnStill, HeardStill
<1>4. CASE ~Narrow
  BY <1>1, <1>4, NarrowFaulty
<1>5. ASSUME Narrow
      PROVE  /\ Free(p, orders, real, guard, held, path) /\ Alone(p, orders, real) /\ real \in Int
             /\ \A id \in Selling(orders) : guard > 0 /\ guard <= real
  BY <1>2, <1>5, MarkedIs, StateIs DEF NarrowInv
<1>6. CASE Narrow /\ SyncRead(t)
  <2>1. /\ Moves(t) /\ q.pc = "apply" /\ q.base = real /\ q.got = p.got /\ q.side = p.side
        /\ q.resting = p.resting /\ q.next = p.next /\ held' = held /\ p.pc = "sync"
    BY <1>6, Read DEF Base, Fields, SyncRead
  <2>2. /\ ~Asking(q) /\ ~Marking(q) /\ ~Seen(q) /\ (Late(q) <=> Late(p))
        /\ (Watching(q) <=> Watching(p))
    BY <2>1 DEF Asking, Marking, Seen, Late, Watching
  <2>3. Safe(real, orders, real, guard)
    BY <1>5, <1>6 DEF Safe
  <2>4. Free(q, orders', real, guard', held', path')
    BY <1>1, <1>5, <1>6, <2>1, <2>2, <2>3 DEF Free, Clear, Confirmed
  <2>5. Alone(q, orders', real)
    BY <1>1, <1>5, <1>6, <2>1, <2>2 DEF Alone
  <2> HIDE DEF p, q
  <2>. QED  BY <1>1, <1>2, <1>3, <1>5, <1>6, <2>1, <2>2, <2>4, <2>5, NarrowMove DEF p, q
<1>7. CASE Narrow /\ SyncFails(t)
  BY <1>7, NarrowIs DEF SyncFails
<1>8. CASE Narrow /\ SyncApply(t)
  <2>1. Moves(t) /\ held' = p.base /\ p.pc = "apply"
        /\ IF p.next = "idle" THEN q = NoPath
           ELSE Fields(q, p.next, p.kind, p.side, p.clips, p.base, p.got, p.bad, p.resting, p.next)
    BY <1>8, SyncedIs DEF Base, SyncApply
  <2>2. Safe(held', orders', real, guard')
    BY <1>1, <1>5, <1>8, <2>1 DEF Free
  <2>3. CASE p.next = "idle"
    <3>1. /\ ~Watching(q) /\ q.pc = "idle" /\ ~q.resting /\ ~Late(q)
      BY <2>1, <2>3, NoPathIs DEF Fields, Watching, Late
    <3>2. Free(q, orders', real, guard', held', path') /\ Alone(q, orders', real)
      BY <3>1, FreeAtRest DEF Alone
    <3> HIDE DEF p, q
    <3>. QED  BY <1>1, <1>2, <1>3, <1>5, <1>8, <2>1, <2>2, <3>2, NarrowMove DEF p, q
  <2>4. CASE p.next = "measure"
    <3>1. /\ q.pc = "measure" /\ q.got = p.got /\ q.side = p.side /\ q.resting = p.resting
          /\ q.next = "measure"
      BY <2>1, <2>4 DEF Fields
    <3>2. ~Asking(q) /\ ~Marking(q) /\ Late(q) /\ Late(p) /\ Watching(q) /\ Watching(p)
      BY <2>1, <2>4, <3>1 DEF Asking, Marking, Late, Watching
    <3>3. Free(q, orders', real, guard', held', path')
      BY <1>1, <1>5, <1>8, <2>1, <3>1, <3>2 DEF Free, Clear, Confirmed
    <3>4. Alone(q, orders', real)
      BY <1>1, <1>5, <1>8, <2>1, <3>1, <3>2 DEF Alone
    <3> HIDE DEF p, q
    <3>. QED  BY <1>1, <1>2, <1>3, <1>5, <1>8, <2>1, <2>2, <3>3, <3>4, NarrowMove DEF p, q
  <2>. QED  BY <1>2, <2>3, <2>4
<1>. QED  BY <1>4, <1>6, <1>7, <1>8

-----------------------------------------------------------------------------
LEMMA NarrowWakes ==
    ASSUME Base, ApartInv, NarrowInv, Base', NEW w \in Watchers,
           WakeGone(w) \/ WakeLeaves(w) \/ WakeOpen(w) \/ CancelFails(w) \/ Lock(w)
    PROVE  NarrowInv'
<1>1. w \in Paths /\ UNCHANGED <<setting, real, orders, guard, reserved, held>>
  BY PathsAre DEF WakeGone, WakeLeaves, WakeOpen, CancelFails, Lock, venue, book, claims
<1>2. CASE CancelFails(w)
  <2>1. ~Narrow
    BY <1>2, NarrowIs DEF CancelFails
  <2>. QED  BY <1>1, <2>1, NarrowFaulty
<1>3. CASE WakeOpen(w)
  <2>1. path[w].pc = "resting" /\ Goto(w, "cancel") /\ Quiet /\ orders[Clip(w)].left > 0
    BY <1>3 DEF WakeOpen
  <2>2. /\ Moves(w) /\ path'[w].pc = "cancel" /\ path'[w].got = path[w].got
        /\ path'[w].side = path[w].side /\ path'[w].resting = path[w].resting
    BY <1>1, <2>1, Moved DEF Base, Fields
  <2>3. /\ ~Marking(path[w]) /\ Watching(path[w]) /\ ~Asking(path'[w]) /\ ~Asking(path[w])
        /\ path'[w].pc \notin {"reconcile", "measure", "apply"} /\ ~Marking(path'[w])
        /\ ~Late(path'[w]) /\ Seen(path[w])
    BY <2>1, <2>2 DEF Marking, Watching, Asking, Late, Seen
  <2>4. \A id \in Handles(w) : orders[id].left > 0
    BY <1>1, <2>1, <2>3, ClipIs DEF Handles
  <2>. QED  BY <1>1, <2>1, <2>2, <2>3, <2>4, NarrowPlain
<1>4. CASE WakeGone(w) \/ WakeLeaves(w)
  BY <1>4, <1>1, PathEnds, NarrowEnds DEF WakeGone, WakeLeaves, Base, Marking, Asking, Seen
<1>5. CASE Lock(w)
  BY <1>5, LockFacts, <1>1, NarrowPlain DEF Fields, Marking, Watching, Asking, Late, Seen, AtRest
<1>. QED  BY <1>2, <1>3, <1>4, <1>5

LEMMA NarrowCancelOk ==
    ASSUME Base, ApartInv, PunctualInv, NarrowInv, Base', NEW w \in Watchers, CancelOk(w)
    PROVE  NarrowInv'
<1> DEFINE p == path[w]
           q == path'[w]
<1>1. /\ w \in Paths /\ p.pc = "cancel" /\ Watching(p) /\ setting' = setting
      /\ Clip(w) \in Ids /\ Handles(w) = {Clip(w)} /\ orders[Clip(w)].left > 0
      /\ OneChanged(Clip(w), 0, orders[Clip(w)].filled, orders[Clip(w)].booked) /\ OrdersKept
      /\ reserved' = reserved \ {Clip(w)} /\ UNCHANGED <<real, guard, held>> /\ Moves(w)
  BY CancelFacts DEF book
<1>2. /\ q.pc = "cancelled" /\ q.side = p.side /\ q.got = p.got /\ q.resting = p.resting
  BY CancelFacts DEF Fields
<1>3. Ids' = Ids /\ orders'[Clip(w)].left = 0
  BY <1>1 DEF OneChanged
<1>4. ~AtRest(w) /\ ~Marking(p) /\ ~Marking(q) /\ ~Asking(q) /\ ~Asking(p)
      /\ q.pc \notin {"submit", "reconcile", "measure", "apply"} /\ Seen(p)
  BY <1>1, <1>2 DEF AtRest, Marking, Asking, Seen
<1>5. orders[Clip(w)].side = p.side /\ DOMAIN p.got \subseteq Ids
  BY <1>1, ClipIs, BadAre
<1>6. BookedOn /\ \A id \in Ids : Heard(p, id, orders) => Heard(q, id, orders')
  <2>1. \A id \in Ids : /\ orders'[id].filled = orders[id].filled
                         /\ orders'[id].booked = orders[id].booked
                         /\ orders[id].booked \in Nat
    BY <1>1, IdsAre DEF OneChanged, Base
  <2>. QED  BY <2>1, <1>4 DEF BookedOn, Heard
<1>8. ASSUME Narrow, NEW id \in reserved
      PROVE  id \in reserved' \/ (orders'[id].left = 0 /\ Heard(q, id, orders'))
  <2>1. Lone(w) /\ Sound(p, orders, real, held, open, byHand)
    BY <1>1, <1>4, <1>8, NarrowIs, LoneIf DEF PunctualInv
  <2>2. orders[Clip(w)].filled = orders[Clip(w)].booked /\ orders[Clip(w)].booked \in Nat
    BY <1>1, <2>1, IdsAre DEF Sound, Handled, Handles, Base
  <2>3. orders'[Clip(w)].filled <= orders'[Clip(w)].booked
    BY <1>1, <2>2 DEF OneChanged
  <2>. QED  BY <1>1, <1>3, <2>3 DEF Heard
<1>7. ASSUME Narrow
      PROVE  /\ Free(q, orders', real, guard', held', path') /\ Alone(q, orders', real)
             /\ Safe(held', orders', real, guard')
             /\ \A id \in Selling(orders') : guard' > 0 /\ guard' <= real
  <2>1. Free(p, orders, real, guard, held, path) /\ Alone(p, orders, real) /\ OneSell(orders, real)
    BY <1>1, <1>7 DEF NarrowInv
  <2>2. Selling(orders') \subseteq Selling(orders)
    BY <1>1, <1>3, SellingLess
  <2>3. p.side = "sell" => Selling(orders') = {}
    BY <1>1, <1>5, <1>3, <2>1, <2>2 DEF Selling, Ids, OneSell
  <2>4. Free(q, orders', real, guard', held', path')
    BY <1>2, <1>4, <2>3, <2>1 DEF Clear, Confirmed, Free
  <2>5. Alone(q, orders', real)
    BY <1>1, <1>2, <1>3, <1>5, <2>1, AloneKept
  <2>6. \A id \in Selling(orders) : guard > 0 /\ guard <= real
    BY <1>1, <1>4, <1>7, MarkedIs
  <2>7. Safe(held', orders', real, guard')
    BY <1>1, <1>4, <1>7, <2>2, SafeIs DEF Safe
  <2>. QED  BY <1>1, <2>2, <2>4, <2>5, <2>6, <2>7
<1> HIDE DEF p, q
<1>. QED  BY <1>1, <1>3, <1>4, <1>6, <1>7, <1>8, NarrowMove DEF p, q

(* When a watcher measures, no sell works; and if it watched a buy, there   *)
(* is nothing at all.                                                      *)
LEMMA NarrowMeasured ==
    ASSUME Base, NarrowInv, Narrow, NEW w \in Paths, path[w].pc = "measure"
    PROVE  /\ Selling(orders) = {} /\ held <= real
           /\ path[w].side = "buy" => real = 0 /\ \A id \in Ids : orders[id].left = 0
<1>1. Roles(w, path[w]) /\ Meant(path[w], orders)
  BY BaseParts
<1>2. Watching(path[w]) /\ Late(path[w])
  BY <1>1 DEF Roles, Watching, Late
<1>3. /\ Clip(w) \in Ids /\ DOMAIN path[w].got = {Clip(w)} /\ path[w].side \in Sides
  BY <1>2, ClipIs
<1>4. Free(path[w], orders, real, guard, held, path) /\ Alone(path[w], orders, real)
  BY DEF NarrowInv
<1>5. held <= real
  BY <1>4 DEF Free
<1>6. CASE path[w].side = "buy"
  BY <1>1, <1>2, <1>3, <1>4, <1>6, <1>5 DEF Meant, Alone, Late, Ids, Selling
<1>7. CASE path[w].side = "sell"
  BY <1>2, <1>4, <1>5, <1>7 DEF Free, Clear
<1>. QED  BY <1>3, <1>6, <1>7 DEF Sides

LEMMA NarrowMeasures ==
    ASSUME Base, ApartInv, NarrowInv, Base', NEW w \in Watchers, Measure(w) \/ MeasureUnknown(w)
    PROVE  NarrowInv'
<1>1. w \in Paths /\ path[w].pc = "measure" /\ ~AtRest(w) /\ UNCHANGED <<setting, real, reserved, held>>
      /\ ~Asking(path[w])
  BY PathsAre DEF Measure, MeasureUnknown, AtRest, Asking, claims, venue
<1>2. OrdersKept /\ Ids' = Ids
  BY MeasureBooks, StillBooked DEF MeasureUnknown, venue
<1>3. Moves(w)
      /\ \/ /\ path'[w].pc = "submit" /\ path'[w].side = path[w].side /\ path'[w].next = "idle"
            /\ ~path'[w].resting /\ path'[w].base = held /\ path'[w].kind = "watch"
         \/ /\ path'[w].pc \in {"idle", "sync"} /\ ~path'[w].resting /\ path'[w].next = "idle"
  <2>1. CASE path' = [path EXCEPT ![w] = NoPath]
    BY <1>1, <2>1, PathEnds, NoPathIs DEF Base, Fields
  <2>2. ASSUME NEW filled, GoesOn(w, filled)
        PROVE  Moves(w)
               /\ \/ /\ path'[w].pc = "submit" /\ path'[w].side = path[w].side
                     /\ path'[w].next = "idle" /\ ~path'[w].resting
                     /\ path'[w].base = held /\ path'[w].kind = "watch"
                  \/ /\ path'[w].pc \in {"idle", "sync"} /\ ~path'[w].resting
                     /\ path'[w].next = "idle"
    BY <1>1, <2>2, WentOn, NoPathIs DEF Base, Fields
  <2>. QED  BY <2>1, <2>2 DEF Measure, MeasureUnknown
<1>4. ~Watching(path'[w]) /\ ~Late(path'[w]) /\ ~Marking(path'[w]) /\ path'[w].pc # "reconcile"
  BY <1>3 DEF Watching, Late, Marking
<1>5. ASSUME Narrow
      PROVE  /\ Free(path'[w], orders', real, guard', held', path')
             /\ Alone(path'[w], orders', real) /\ Safe(held', orders', real, guard')
             /\ Selling(orders') = {}
  <2>1. /\ Selling(orders) = {} /\ held <= real
        /\ path[w].side = "buy" => real = 0 /\ \A id \in Ids : orders[id].left = 0
    BY <1>1, <1>5, NarrowMeasured
  <2>2. /\ Selling(orders') = {}
        /\ path[w].side = "buy" => \A id \in DOMAIN orders' : orders'[id].left = 0
    BY <1>2, <2>1, SellingLess DEF Ids
  <2>3. ASSUME path[w].side = "buy", NEW u \in Paths, Watching(path'[u]), NEW id \in DOMAIN path'[u].got
        PROVE  orders'[id].left = 0
    BY <1>3, <1>4, <2>3, <1>2, BadAre, <2>2 DEF Moves, Others, Ids
  <2>4. Free(path'[w], orders', real, guard', held', path')
    BY <1>1, <1>3, <1>4, <2>1, <2>2, <2>3 DEF Free, Clear
  <2>. QED  BY <1>1, <1>4, <2>1, <2>2, <2>4 DEF Alone, Safe
<1>6. BookedOn /\ \A id \in Ids : Heard(path[w], id, orders) => Heard(path'[w], id, orders')
  <2>1. CASE MeasureUnknown(w)
    BY <1>1, <2>1, BookedOnStill, HeardStill DEF MeasureUnknown, venue
  <2>2. CASE Measure(w)
    <3>1. \A id \in Ids : /\ orders[id].filled \in Nat /\ orders[id].booked \in Nat
                           /\ orders'[id].filled = orders[id].filled
                           /\ orders'[id].booked = IF id = Clip(w) THEN orders[id].booked + Measured(w)
                                                   ELSE orders[id].booked
      BY <2>2, MeasureBooks, IdsAre DEF Base
    <3>2. Measured(w) \in Nat
      BY <1>1, <2>2, MeasureBooks, MeasuredIs, ClipIs
    <3> HIDE DEF Measured
    <3>. QED  BY <1>1, <3>1, <3>2 DEF BookedOn, Heard
  <2>. QED  BY <2>1, <2>2
<1>. QED  BY <1>1, <1>2, <1>3, <1>5, <1>6, NarrowMove

-----------------------------------------------------------------------------
(* What happens while no path moves.                                       *)
LEMMA NarrowUnmoved ==
    ASSUME UNCHANGED <<setting, path>>,
           Narrow => /\ OneSell(orders', real') /\ BuysReserved(orders', reserved', path)
                     /\ Marked(orders', real', guard', path)
                     /\ AllSeen(path) => Safe(held', orders', real', guard')
                     /\ \A t \in Paths : /\ Alone(path[t], orders', real')
                                         /\ Free(path[t], orders', real', guard', held', path)
    PROVE  NarrowInv'
BY NarrowNow

(* A marker is dropped when nothing is held; the operator clears an order,  *)
(* and its reservation with it.                                            *)
LEMMA NarrowOthers ==
    ASSUME Base, ApartInv, PunctualInv, SureInv, NarrowInv,
           \/ ActSellNothing \/ GraceElapses \/ Forget \/ BoughtByHand \/ SoldByHand \/ Crash
           \/ (\E id \in Ids : ClearUnconfirmed(id)) \/ UNCHANGED vars
    PROVE  NarrowInv'
<1>1. setting' = setting
  BY DEF ActSellNothing, GraceElapses, Forget, BoughtByHand, SoldByHand, Crash, ClearUnconfirmed, vars
<1>2. CASE ~Narrow
  BY <1>1, <1>2, NarrowFaulty
<1>3. CASE Forget \/ BoughtByHand \/ SoldByHand \/ Crash
  BY NarrowIs, <1>2, <1>3 DEF Forget, SureInv, NoHand, BoughtByHand, SoldByHand, Crash
<1>4. CASE Narrow /\ ActSellNothing
  <2>1. Idle(Loop) /\ Quiet /\ held = 0 /\ guard' = 0 /\ UNCHANGED <<path, orders, real, reserved, held>>
    BY <1>4 DEF ActSellNothing, venue, claims
  <2>2. Loop \in Paths /\ Seen(path[Loop])
    BY <2>1, PathsAre DEF Idle, Seen
  <2>3. Safe(0, orders, real, guard) /\ guard \in Nat
    BY <1>4, <2>1, <2>2, SafeIs DEF Base, Typed
  <2>4. OneSell(orders, real) /\ real \in Int
    BY <1>4, StateIs DEF NarrowInv
  <2>5. Selling(orders) = {}
    BY <2>3 DEF Safe
  <2>6. Marked(orders, real, guard', path) /\ Safe(held', orders, real, guard')
    BY <2>1, <2>4, <2>5 DEF Marked, Safe, OneSell
  <2>7. \A u \in Paths : path[u].pc \in {"idle", "resting"} /\ ~path[u].resting /\ ~Late(path[u])
    BY <1>4, <2>1, NarrowIs, AtRestIs DEF Quiet, Serial
  <2>8. \A u \in Paths : Free(path[u], orders, real, guard', held', path)
    BY <2>7, FreeAtRest
  <2>. QED  BY <1>1, <1>4, <2>1, <2>6, <2>8, NarrowUnmoved DEF NarrowInv
<1>5. CASE Narrow /\ (GraceElapses \/ UNCHANGED vars)
  BY <1>5, <1>1, NarrowUnmoved DEF GraceElapses, vars, venue, claims, NarrowInv
<1>6. CASE Narrow /\ \E id \in Ids : ClearUnconfirmed(id)
  <2>1. PICK id \in Ids : ClearUnconfirmed(id)
    BY <1>6
  <2>2. /\ UNCHANGED <<path, orders, real, guard, held>> /\ reserved' = reserved \ {id}
        /\ "clearEarly" \in Faults \/ orders[id].left = 0
        /\ "clearFilled" \in Faults \/ orders[id].filled = orders[id].booked
    BY <2>1 DEF ClearUnconfirmed, venue, book
  <2>3. ASSUME Faults = {}
        PROVE  orders[id].left = 0 /\ orders[id].filled <= orders[id].booked
    BY IdsAre, <2>2, <2>3 DEF Base
  <2>4. BuysReserved(orders, reserved', path)
    BY <1>6, <2>2, <2>3, PathsAre DEF NarrowInv, BuysReserved, Heard
  <2>. QED  BY <1>1, <1>6, <2>2, <2>4, NarrowUnmoved DEF NarrowInv
<1>. QED  BY <1>2, <1>3, <1>4, <1>5, <1>6

(* An order fills, whole, or the broker cancels it: never one that a        *)
(* watcher is about to cancel.                                             *)
LEMMA NarrowVenue ==
    ASSUME Base, ApartInv, NarrowInv, NEW id \in Ids, VenueFill(id) \/ VenueCancels(id)
    PROVE  NarrowInv'
<1>1. UNCHANGED <<setting, reserved, guard, path, held>> /\ orders[id].left > 0 /\ MayFill(id)
  BY DEF VenueFill, VenueCancels, claims, book
<1>2. SUFFICES ASSUME Narrow
               PROVE  /\ OneSell(orders', real') /\ BuysReserved(orders', reserved', path)
                      /\ Marked(orders', real', guard', path)
                      /\ AllSeen(path) => Safe(held, orders', real', guard)
                      /\ \A t \in Paths : /\ Alone(path[t], orders', real')
                                          /\ Free(path[t], orders', real', guard, held, path)
  BY <1>1, NarrowUnmoved
<1>3. /\ OneSell(orders, real) /\ BuysReserved(orders, reserved, path)
      /\ Marked(orders, real, guard, path) /\ (AllSeen(path) => Safe(held, orders, real, guard))
      /\ \A t \in Paths : /\ Alone(path[t], orders, real)
                          /\ Free(path[t], orders, real, guard, held, path)
      /\ real \in Int /\ AreOrders(orders)
  BY <1>2, StateIs, BaseHasOrders DEF NarrowInv
<1>4. /\ \E filled \in Nat : OneChanged(id, 0, filled, orders[id].booked)
      /\ real' \in {real, real + orders[id].left, real - orders[id].left}
      /\ real' = real - orders[id].left => orders[id].side = "sell" \/ orders[id].left = 0
  <2>1. Typed /\ orders[id].left \in Nat /\ orders[id].filled \in Nat
    BY IdsAre DEF Base
  <2>2. CASE VenueFill(id)
    <3>1. PICK n \in 1..orders[id].left :
            /\ n < orders[id].left => "latePartial" \in Faults
            /\ OneChanged(id, orders[id].left - n, orders[id].filled + n, orders[id].booked)
            /\ real' = IF orders[id].side = "buy" THEN real + n ELSE real - n
      BY <2>1, <2>2, FilledAtVenue
    <3>2. n = orders[id].left
      BY <1>2, <2>1, <3>1, NarrowIs
    <3>3. orders[id].left - n = 0 /\ orders[id].filled + n \in Nat
      BY <2>1, <3>2
    <3>4. orders[id].side \in Sides
      BY <1>3 DEF AreOrders, Ids
    <3>. QED  BY <1>3, <2>1, <3>1, <3>2, <3>3, <3>4 DEF Sides
  <2>3. CASE VenueCancels(id)
    <3>1. OneChanged(id, 0, orders[id].filled, orders[id].booked)
      BY <2>1, <2>3, TakenOff DEF VenueCancels
    <3>2. real' = real
      BY <2>3 DEF VenueCancels
    <3>. QED  BY <1>1, <1>3, <2>1, <3>1, <3>2
  <2>. QED  BY <2>2, <2>3
<1>5. /\ DOMAIN orders' = DOMAIN orders /\ id \in DOMAIN orders
      /\ orders'[id].side = orders[id].side /\ orders'[id].left = 0
      /\ \A i \in DOMAIN orders \ {id} : orders'[i] = orders[i]
  BY <1>4 DEF OneChanged, Ids
<1>6. orders[id].side \in Sides /\ orders[id].left \in Nat
  BY <1>3, <1>5 DEF AreOrders
<1>7. ASSUME NEW t \in Paths
      PROVE  /\ ~(path[t].pc = "submit" /\ path[t].side = "buy" /\ path[t].kind = "act" /\ Faults = {})
             /\ Late(path[t]) => path[t].side = "sell" /\ Selling(orders) = {}
             /\ path[t].pc = "measure" => Late(path[t])
             /\ Alone(path[t], orders', real')
  <2>1. ~(path[t].pc = "submit" /\ path[t].side = "buy" /\ path[t].kind = "act" /\ Faults = {})
    BY <1>1, <1>3, <1>5, <1>7 DEF Free
  <2>2. ASSUME Watching(path[t]), path[t].side = "buy", NEW c \in DOMAIN path[t].got,
               orders'[c].left > 0 \/ path[t].pc # "resting"
        PROVE  path[t].pc = "cancel" /\ c = id
    <3>1. c \in DOMAIN orders /\ t \in Watchers
      BY <1>7, <2>2, ClipIs DEF Ids
    <3>2. CASE c = id
      BY <1>5, <2>2, <3>2, <1>7, BaseParts, <1>1 DEF Meant, Late
    <3>3. CASE c # id
      <4>1. orders[c].left > 0 \/ path[t].pc # "resting"
        BY <1>5, <2>2, <3>1, <3>3
      <4>2. \A i \in DOMAIN orders \ {c} : orders[i].left = 0
        BY <1>3, <1>7, <2>2, <4>1 DEF Alone
      <4>. QED  BY <1>1, <1>5, <3>3, <4>2
    <3>. QED  BY <3>2, <3>3
  <2>3. ASSUME Watching(path[t]), path[t].side = "buy", NEW c \in DOMAIN path[t].got,
               orders'[c].left > 0 \/ path[t].pc # "resting"
        PROVE  FALSE
    BY <1>1, <1>2, <1>7, <2>2, <2>3, ClipIs, NarrowIs DEF MayFill
  <2>4. Late(path[t]) => path[t].side = "sell" /\ Selling(orders) = {}
    BY <1>7, <2>3, ClipIs, <1>3 DEF Late, Sides, Free, Clear
  <2>5. path[t].pc = "measure" => Late(path[t])
    BY <1>7, BaseParts DEF Roles, Late, Watching
  <2>. QED  BY <2>1, <2>3, <2>4, <2>5 DEF Alone
<1>8. BuysReserved(orders', reserved', path)
  BY <1>1, <1>3, <1>5 DEF BuysReserved, Heard
<1>9. CASE orders[id].side = "sell"
  <2>1. id \in Selling(orders) /\ orders[id].left <= real /\ Selling(orders) = {id}
    BY <1>1, <1>3, <1>5, <1>9 DEF OneSell, Selling
  <2>2. Selling(orders') = {}
    BY <1>5, <2>1 DEF Selling
  <2>3. OneSell(orders', real') /\ Marked(orders', real', guard', path)
    BY <1>3, <1>4, <1>6, <2>1, <2>2 DEF OneSell, Marked
  <2>4. AllSeen(path) => Safe(held, orders', real', guard)
    BY <1>3, <2>1 DEF Safe
  <2>5. ASSUME NEW t \in Paths
        PROVE  Free(path[t], orders', real', guard', held, path)
    BY <1>3, <1>7, <2>1, <2>5, <1>1, <2>2 DEF Free, Clear, Safe
  <2>. QED  BY <1>1, <1>7, <1>8, <2>3, <2>4, <2>5
<1>10. CASE orders[id].side = "buy"
  <2>1. real' \in Int /\ real' >= real
    BY <1>1, <1>3, <1>4, <1>6, <1>10
  <2>2. Selling(orders') = Selling(orders) /\ id \notin Selling(orders)
    BY <1>5, <1>10 DEF Selling
  <2>3. OneSell(orders', real')
    <3>1. ASSUME NEW i \in Selling(orders)
          PROVE  orders'[i].left <= real' /\ Selling(orders') = {i}
      BY <1>3, <2>2, <3>1, <1>5, <2>1 DEF OneSell, Selling, AreOrders
    <3>2. real' >= 0
      BY <1>3, <2>1 DEF OneSell
    <3>. QED  BY <2>2, <3>1, <3>2 DEF OneSell
  <2>4. Marked(orders', real', guard', path)
    BY <1>1, <1>3, <2>1, <2>2 DEF Base, Typed, Marked
  <2>5. ASSUME NEW q \in Int, Safe(q, orders, real, guard)
        PROVE  Safe(q, orders', real', guard')
    BY <1>1, <1>3, <2>1, <2>2, <2>5 DEF Safe
  <2>6. ASSUME NEW t \in Paths
        PROVE  Free(path[t], orders', real', guard', held, path)
    <3>1. /\ Free(path[t], orders, real, guard, held, path) /\ path[t].base \in Int
          /\ Confirmed(path[t]) \in Nat /\ held \in Int
      BY <1>3, <2>6, BaseParts, FitsParts, StateIs
    <3>2. /\ path[t].pc = "submit" => ~path[t].resting /\ path[t].base <= real'
          /\ path[t].pc \in {"reconcile", "measure"} => held <= real'
          /\ path[t].pc = "apply" =>
                /\ Safe(path[t].base, orders', real', guard')
                /\ Late(path[t]) => path[t].base <= real'
      BY <1>3, <2>1, <2>5, <3>1 DEF Free
    <3>3. ASSUME path[t].pc = "submit", path[t].side = "buy", NEW u \in Paths, Watching(path[u]),
                 NEW i \in DOMAIN path[u].got
          PROVE  orders'[i].left = 0
      BY <3>3, ClipIs, <1>5, <3>1 DEF Ids, Free
    <3>4. Marking(path[t]) /\ path[t].side = "sell" /\ Selling(orders') # {} =>
            /\ path[t].base - Confirmed(path[t]) > 0 /\ path[t].base - Confirmed(path[t]) <= real'
            /\ Selling(orders') \subseteq DOMAIN path[t].got
      BY <1>3, <2>1, <2>2, <3>1 DEF Free
    <3>5. Clear(path[t]) => Selling(orders') = {}
      BY <2>2, <3>1 DEF Free
    <3>. QED  BY <1>7, <2>6, <3>1, <3>2, <3>3, <3>4, <3>5 DEF Free
  <2>. QED  BY <1>1, <1>3, <1>7, <1>8, <2>3, <2>4, <2>5, <2>6, StateIs
<1>. QED  BY <1>6, <1>9, <1>10 DEF Sides

LEMMA NarrowInit ==
    ASSUME Init
    PROVE  NarrowInv
<1>1. /\ DOMAIN orders = {} /\ real = 0 /\ held = 0
      /\ \A t \in Paths : path[t] = NoPath
  BY DEF Init
<1>2. Selling(orders) = {}
  BY <1>1 DEF Selling
<1>3. NoPath.pc = "idle" /\ NoPath.next = "idle" /\ NoPath.resting = FALSE
  BY NoPathIs DEF Fields
<1>4. ~Watching(NoPath) /\ ~Late(NoPath)
  BY <1>3 DEF Watching, Late
<1>5. Free(NoPath, orders, real, guard, held, path) /\ Alone(NoPath, orders, real)
  BY <1>3, <1>4, FreeAtRest DEF Alone
<1>6. /\ OneSell(orders, real) /\ BuysReserved(orders, reserved, path)
      /\ Marked(orders, real, guard, path) /\ Safe(held, orders, real, guard)
  BY <1>1, <1>2 DEF OneSell, BuysReserved, Marked, Safe
<1>. QED  BY <1>1, <1>5, <1>6 DEF NarrowInv

LEMMA NarrowNext ==
    ASSUME Base, ApartInv, PunctualInv, SureInv, NarrowInv, Base', [Next]_vars
    PROVE  NarrowInv'
<1>1. ASSUME NEW t \in Paths, PathStep(t)
      PROVE  NarrowInv'
  BY <1>1, NarrowSubmits, NarrowResting, NarrowSubmitStops, NarrowSettle, NarrowBook, NarrowFlag,
     NarrowSyncs
     DEF PathStep
<1>2. ASSUME NEW w \in Watchers, WatcherStep(w)
      PROVE  NarrowInv'
  BY <1>2, NarrowWakes, NarrowCancelOk, NarrowMeasures DEF WatcherStep
<1>. QED  BY <1>1, <1>2, NarrowOrders, NarrowLoops, NarrowVenue, NarrowOthers DEF Next

LEMMA NarrowHolds == Spec => [](Base /\ NarrowInv)
<1>1. Init => Base /\ ApartInv /\ PunctualInv /\ SureInv /\ NarrowInv
  BY BaseInit, ApartInit, PunctualInit, SureInit, NarrowInit
<1>2. Base /\ ApartInv /\ PunctualInv /\ SureInv /\ NarrowInv /\ [Next]_vars
        => (Base /\ ApartInv /\ PunctualInv /\ SureInv /\ NarrowInv)'
  BY BaseNext, ApartNext, PunctualNext, SureNext, NarrowNext
<1>. QED  BY <1>1, <1>2, PTL DEF Spec

(* exitPosition, act, ManualOrder and the watchers' re-sent orders, the     *)
(* marker and its clearing: "don't stack duplicate sell orders" -- while    *)
(* the operator does not sell over a working sell, the listing is no older *)
(* than the snapshot and only the bot sells, what works to be sold is      *)
(* there to be sold, whenever the broker fills or cancels it.              *)
THEOREM SellsNotStacked == Spec => []NoStackedSells
<1>1. ASSUME Base, NarrowInv, Narrow
      PROVE  Left(Working("sell")) <= real
  <2> DEFINE f == [id \in Working("sell") |-> orders[id].left]
  <2>1. Working("sell") = Selling(orders)
    BY DEF Working, Selling, Ids
  <2>2. OneSell(orders, real) /\ AreOrders(orders) /\ real \in Int
    BY <1>1, StateIs, BaseHasOrders DEF NarrowInv
  <2>3. CASE Selling(orders) = {}
    BY <2>1, <2>3, SumOfNone, <2>2 DEF Left, OneSell
  <2>4. ASSUME NEW id \in Selling(orders)
        PROVE  Total(f) <= real
    <3>1. DOMAIN f = {id} /\ f[id] = orders[id].left /\ f[id] \in Nat /\ f[id] <= real
      BY <2>1, <2>2, <2>4 DEF OneSell, Selling, AreOrders
    <3> HIDE DEF f
    <3> DEFINE none == [x \in {} |-> 0]
    <3>2. Summable(none) /\ DOMAIN none = {} /\ Total(none) = 0
      BY SumOfNone, FS_EmptySet DEF Summable
    <3> HIDE DEF none
    <3>3. Total(f) = Total(none) + f[id]
      BY <3>1, <3>2, SumAdded
    <3>. QED  BY <3>1, <3>2, <3>3
  <2>. QED  BY <2>3, <2>4 DEF Left
<1>2. Base /\ NarrowInv => NoStackedSells
  BY <1>1 DEF NoStackedSells, SellsCovered, Narrow
<1>. QED  BY <1>2, NarrowHolds, PTL
=============================================================================
