---------------------------- MODULE BrokersProofs ----------------------------
(***************************************************************************)
(* Proofs about Brokers, for every venue, precision and number of orders.  *)
(*                                                                         *)
(* Pow and Selling are recursive functions.  What they compute is proved   *)
(* by induction; the induction principle comes from the well-foundedness   *)
(* of < on Nat, applied to a set instead of a predicate.                   *)
(***************************************************************************)
EXTENDS Brokers, WellFoundedInduction, TLAPS

-----------------------------------------------------------------------------
(* Induction                                                               *)

LEMMA Least ==
    ASSUME NEW T, T \subseteq Nat, T # {}
    PROVE  \E x \in T : \A y \in T : x <= y
<1> DEFINE R == {pair \in Nat \X Nat : pair[1] < pair[2]}
<1>1. IsWellFoundedOn(R, Nat)
  BY NatLessThanWellFounded DEF OpToRel
<1>2. \E x \in T : \A y \in T : <<y, x>> \notin R
  <2> HIDE DEF R
  <2>. QED  BY <1>1, WFMin
<1>3. ASSUME NEW x \in T, NEW y \in T, <<y, x>> \notin R
      PROVE  x <= y
  BY <1>3
<1>. QED  BY <1>2, <1>3

LEMMA Induction ==
    ASSUME NEW T, 0 \in T, \A n \in Nat : n \in T => n + 1 \in T
    PROVE  Nat \subseteq T
<1> SUFFICES ASSUME Nat \ T # {} PROVE FALSE
  OBVIOUS
<1>1. PICK x \in Nat \ T : \A y \in Nat \ T : x <= y
  BY Least
<1>2. x # 0 /\ x - 1 \in Nat /\ x - 1 \in T
  BY <1>1
<1>. QED  BY <1>1, <1>2

(* f is the function whose definition Pow(2, n) makes.                     *)
Powers(f, n) == f = [i \in 0..n |-> IF i = 0 THEN 1 ELSE 2 * f[i - 1]]

LEMMA PowersExist == \A n \in Nat : \E f : Powers(f, n)
<1> DEFINE T == {n \in Nat : \E f : Powers(f, n)}
<1>1. 0 \in T
  <2>1. Powers([i \in 0..0 |-> 1], 0)
    BY DEF Powers
  <2>. QED  BY <2>1
<1>2. ASSUME NEW n \in Nat, n \in T
      PROVE  n + 1 \in T
  <2>1. PICK f : Powers(f, n)
    BY <1>2
  <2> DEFINE g == [i \in 0..n+1 |-> IF i = n + 1 THEN 2 * f[n] ELSE f[i]]
             h == [i \in 0..n+1 |-> IF i = 0 THEN 1 ELSE 2 * g[i - 1]]
  <2>2. ASSUME NEW i \in 0..n+1
        PROVE  g[i] = h[i]
    <3>1. CASE i = n + 1
      BY <3>1
    <3>2. CASE i # n + 1
      BY <3>2, <2>1 DEF Powers
    <3>. QED  BY <3>1, <3>2
  <2>3. Powers(g, n + 1)
    BY <2>2 DEF Powers
  <2>. QED  BY <2>3
<1> HIDE DEF T
<1>3. Nat \subseteq T
  BY <1>1, <1>2, Induction
<1>. QED  BY <1>3 DEF T

LEMMA PowIsPowers ==
    ASSUME NEW n \in Nat
    PROVE  \E f : Powers(f, n) /\ Pow(2, n) = f[n]
<1> DEFINE f[i \in 0..n] == IF i = 0 THEN 1 ELSE 2 * f[i - 1]
<1>1. f = CHOOSE g : g = [i \in 0..n |-> IF i = 0 THEN 1 ELSE 2 * g[i - 1]]
  OBVIOUS
<1>2. Powers(f, n)
  BY <1>1, PowersExist DEF Powers
<1>3. Pow(2, n) = f[n]
  BY DEF Pow
<1> HIDE DEF f
<1>. QED  BY <1>2, <1>3

(* Two such functions agree, and their values are positive.                *)
LEMMA PowersAgree ==
    ASSUME NEW m \in Nat, NEW n \in Nat, NEW f, NEW g, Powers(f, m), Powers(g, n)
    PROVE  \A i \in Nat : i <= m /\ i <= n => f[i] = g[i] /\ f[i] \in Nat \ {0}
<1> DEFINE T == {i \in Nat : i <= m /\ i <= n => f[i] = g[i] /\ f[i] \in Nat \ {0}}
<1>1. 0 \in T
  BY DEF Powers
<1>2. ASSUME NEW i \in Nat, i \in T
      PROVE  i + 1 \in T
  <2> SUFFICES ASSUME i + 1 <= m, i + 1 <= n
               PROVE  f[i + 1] = g[i + 1] /\ f[i + 1] \in Nat \ {0}
    OBVIOUS
  <2>1. f[i] = g[i] /\ f[i] \in Nat \ {0}
    BY <1>2
  <2>2. f[i + 1] = 2 * f[i] /\ g[i + 1] = 2 * g[i]
    BY DEF Powers
  <2>. QED  BY <2>1, <2>2
<1> HIDE DEF T
<1>3. Nat \subseteq T
  BY <1>1, <1>2, Induction
<1>. QED  BY <1>3 DEF T

LEMMA PowDoubles ==
    ASSUME NEW n \in Nat
    PROVE  Pow(2, n) \in Nat \ {0} /\ Pow(2, n + 1) = 2 * Pow(2, n)
<1>1. PICK f : Powers(f, n) /\ Pow(2, n) = f[n]
  BY PowIsPowers
<1>2. PICK g : Powers(g, n + 1) /\ Pow(2, n + 1) = g[n + 1]
  BY PowIsPowers
<1>3. f[n] = g[n] /\ f[n] \in Nat \ {0}
  BY <1>1, <1>2, PowersAgree
<1>4. g[n + 1] = 2 * g[n]
  BY <1>2 DEF Powers
<1>. QED  BY <1>1, <1>2, <1>3, <1>4

LEMMA PowGrows ==
    ASSUME NEW m \in Nat, NEW d \in Nat
    PROVE  Pow(2, m) <= Pow(2, m + d)
<1> DEFINE T == {k \in Nat : Pow(2, m) <= Pow(2, m + k)}
<1>1. 0 \in T
  BY PowDoubles
<1>2. ASSUME NEW k \in Nat, k \in T
      PROVE  k + 1 \in T
  BY <1>2, PowDoubles
<1> HIDE DEF T
<1>3. Nat \subseteq T
  BY <1>1, <1>2, Induction
<1>. QED  BY <1>3 DEF T

-----------------------------------------------------------------------------
(* Quantities                                                              *)

(* A coarser precision has a larger unit.                                  *)
LEMMA Units ==
    ASSUME NEW p \in 0..DefaultPrecision
    PROVE  /\ Unit(p) \in Nat \ {0}
           /\ \A q \in 0..p : Unit(p) <= Unit(q)
<1>1. DefaultPrecision \in Nat
  BY BrokerAssumption
<1>2. DefaultPrecision - p \in Nat
  BY <1>1
<1>3. Unit(p) \in Nat \ {0}
  BY <1>2, PowDoubles DEF Unit
<1>4. ASSUME NEW q \in 0..p
      PROVE  Unit(p) <= Unit(q)
  BY <1>1, <1>2, PowGrows DEF Unit
<1>. QED  BY <1>3, <1>4

(* floorUnits: less than a unit is cut off, and what is left is in units.  *)
LEMMA Rounding ==
    ASSUME NEW q \in Nat, NEW p \in 0..DefaultPrecision
    PROVE  /\ RoundDown(q, p) \in 0..q /\ q - RoundDown(q, p) < Unit(p)
           /\ RoundDown(q, p) % Unit(p) = 0
<1> DEFINE u == Unit(p)
<1>1. u \in Nat \ {0}
  BY Units
<1> HIDE DEF u
<1>2. q % u \in 0..u - 1 /\ q \div u \in Nat
  BY <1>1
<1>0. q = (q \div u) * u + (q % u)
  BY <1>1
<1>3. q - (q % u) \in 0..q /\ q - (q - (q % u)) < u
  BY <1>1, <1>2
<1>4. q - (q % u) = u * (q \div u)
  BY <1>1, <1>2, <1>0
<1>5. (u * (q \div u)) % u = 0
  BY <1>1, <1>2
<1>. QED  BY <1>3, <1>4, <1>5 DEF RoundDown, u

-----------------------------------------------------------------------------
(* What holds of the venue's book, of the call and of the change under way *)

Statuses == {"working", "cancelling", "filled", "cancelled", "rejected"}
Orders == [side : {"buy", "sell"}, qty : Nat \ {0}, filled : Nat, status : Statuses,
           type : {"market", "limit", "stop"}, duration : {"day", "gtc"},
           leg : BOOLEAN, listed : BOOLEAN]
Calls == [step : {"none", "send", "poll"}, side : {"buy", "sell"}, type : {"market", "limit"},
          asked : Nat, qty : Nat, precision : 0..DefaultPrecision, attempts : Nat,
          capped : BOOLEAN, id : Nat]
Replies == [kind : {"none", "waiting", "error", "open", "settled"}, filled : Nat]

(* An order is through exactly when it is full or the venue ended it, and  *)
(* only then leaves the listing.  A venue that ends no order fills it.     *)
Sound(o) ==
    /\ o.filled <= o.qty
    /\ Working(o) => o.filled < o.qty
    /\ o.status = "filled" => o.filled = o.qty
    /\ ~o.listed => ~Working(o)
    /\ ~setting.rejects /\ ~Working(o) => o.status = "filled"

BookInv == book \in Seq(Orders) /\ \A i \in DOMAIN book : Sound(book[i])

(* A caller waits exactly while its call runs; nothing is placed before a  *)
(* call polls, and no poll has seen more than what was filled.             *)
CallInv ==
    /\ call \in Calls /\ reply \in Replies
    /\ call.id <= Len(book)
    /\ call.step = "none" <=> reply.kind # "waiting"
    /\ call.step = "send" => call.id = 0 /\ reply.filled = 0 /\ call.qty \in 1..call.asked
    /\ call.step = "poll" => call.id > 0 /\ reply.filled <= book[call.id].filled

(* ModifyOrder works on what it listed.                                    *)
ChangeInv ==
    \/ change = NoChange
    \/ /\ change.step = "patch" /\ call.step = "none"
       /\ change.id \in DOMAIN book /\ change.qty \in Nat \ {0}
       /\ change.as \in {"market", "limit"}
       /\ change.type = book[change.id].type /\ change.duration = book[change.id].duration

Inv == /\ setting \in Environments /\ learned \in Nat /\ held \in Int
       /\ BookInv /\ CallInv /\ ChangeInv

LEMMA SettingTyped ==
    ASSUME setting \in Environments
    PROVE  /\ setting.precision \in 0..DefaultPrecision /\ DefaultPrecision \in Nat
           /\ setting.quantities \subseteq Nat \ {0} /\ setting.held \in Nat
           /\ setting.losesReply \in BOOLEAN
BY BrokerAssumption

LEMMA InitInv == Init => Inv
<1> SUFFICES ASSUME Init PROVE Inv
  OBVIOUS
<1>1. /\ setting \in Environments /\ call = NoCall /\ learned = DefaultPrecision + 1
      /\ book = <<>> /\ held = setting.held /\ reply = [kind |-> "none", filled |-> 0]
      /\ change = NoChange
  BY DEF Init
<1>2. call \in Calls /\ reply \in Replies
  BY <1>1, SettingTyped DEF NoCall, Calls, Replies
<1>3. BookInv
  BY <1>1 DEF BookInv
<1>4. CallInv
  BY <1>1, <1>2 DEF NoCall, CallInv
<1>. QED  BY <1>1, <1>3, <1>4, SettingTyped DEF Inv, ChangeInv

(* The book grows by one order.                                            *)
LEMMA BookGrows ==
    ASSUME BookInv, NEW o \in Orders, Sound(o), book' = Append(book, o), setting' = setting
    PROVE  /\ BookInv' /\ Len(book) \in Nat /\ Len(book') = Len(book) + 1
           /\ book'[Len(book')] = o
           /\ DOMAIN book = 1..Len(book)
           /\ \A i \in DOMAIN book : i \in DOMAIN book' /\ book'[i] = book[i]
<1>1. /\ book \in Seq(Orders) /\ Len(book) \in Nat /\ DOMAIN book = 1..Len(book)
  BY DEF BookInv
<1>2. /\ book' \in Seq(Orders) /\ Len(book') = Len(book) + 1 /\ DOMAIN book' = 1..Len(book) + 1
      /\ book'[Len(book) + 1] = o /\ \A i \in DOMAIN book : book'[i] = book[i]
  BY <1>1
<1>3. \A i \in DOMAIN book' : Sound(book[i])'
  BY <1>1, <1>2 DEF BookInv, Sound, Working
<1>. QED  BY <1>1, <1>2, <1>3 DEF BookInv

(* One order of the book changes.                                          *)
LEMMA BookChanges ==
    ASSUME BookInv, NEW i \in DOMAIN book, NEW o \in Orders, Sound(o),
           book' = [book EXCEPT ![i] = o], setting' = setting
    PROVE  /\ BookInv' /\ Len(book') = Len(book) /\ DOMAIN book' = DOMAIN book
           /\ book'[i] = o /\ \A j \in DOMAIN book \ {i} : book'[j] = book[j]
<1>1. /\ book \in Seq(Orders) /\ Len(book) \in Nat /\ DOMAIN book = 1..Len(book)
  BY DEF BookInv
<1>2. /\ book' \in Seq(Orders) /\ Len(book') = Len(book) /\ DOMAIN book' = DOMAIN book
      /\ book'[i] = o /\ \A j \in DOMAIN book \ {i} : book'[j] = book[j]
  BY <1>1
<1>3. \A j \in DOMAIN book' : Sound(book[j])'
  BY <1>1, <1>2 DEF BookInv, Sound, Working
<1>. QED  BY <1>2, <1>3 DEF BookInv

-----------------------------------------------------------------------------
(* What Submission sees of it.                                             *)
Placed == IF call.id = 0 THEN 0 ELSE book[call.id].qty
Filled == IF call.id = 0 THEN 0 ELSE book[call.id].filled
Ended  == call.id # 0 /\ ~Working(book[call.id])
Seen   == IF reply.kind = "waiting" THEN [reply EXCEPT !.filled = 0] ELSE reply

Abstract == <<setting.losesReply, call.asked, Placed, Filled, Ended, Seen>>
AbstractStep == [Submitted!Next]_(Submitted!order)

LEMMA AbstractIs == Submitted!order = Abstract
BY DEF Submitted!order, Abstract, Placed, Filled, Ended, Seen

LEMMA Stutters ==
    ASSUME UNCHANGED Abstract
    PROVE  AbstractStep
BY AbstractIs DEF AbstractStep, Submitted!order, Abstract, Placed, Filled, Ended, Seen

LEMMA WaitingSeen ==
    ASSUME reply \in Replies
    PROVE  reply.kind = "waiting" <=> Seen = [kind |-> "waiting", filled |-> 0]
BY DEF Seen, Replies

LEMMA Asks ==
    ASSUME Seen.kind # "waiting", call'.asked \in Nat \ {0},
           Placed' = 0, Filled' = 0, Ended' = FALSE,
           Seen' = [kind |-> "waiting", filled |-> 0], setting' = setting
    PROVE  AbstractStep
BY DEF AbstractStep, Submitted!Next, Submitted!Step, Submitted!Ask, Submitted!Waiting,
   Placed, Filled, Ended, Seen

LEMMA Places ==
    ASSUME Seen = [kind |-> "waiting", filled |-> 0], Placed = 0, Placed' \in 1..call.asked,
           Filled' = Filled, Ended' = Ended, Seen' = Seen, call'.asked = call.asked,
           setting' = setting
    PROVE  AbstractStep
BY DEF AbstractStep, Submitted!Next, Submitted!Step, Submitted!Place, Submitted!Waiting,
   Placed, Filled, Ended, Seen

LEMMA Trades ==
    ASSUME ~Ended, Filled' \in Filled + 1 .. Placed, Ended' => Filled' = Placed,
           Placed' = Placed, Seen' = Seen, call'.asked = call.asked, setting' = setting
    PROVE  AbstractStep
BY DEF AbstractStep, Submitted!Next, Submitted!Step, Submitted!Trade,
   Placed, Filled, Ended, Seen

LEMMA Ends ==
    ASSUME Placed > 0, ~Ended, Ended' = TRUE, Placed' = Placed, Filled' = Filled,
           Seen' = Seen, call'.asked = call.asked, setting' = setting
    PROVE  AbstractStep
BY DEF AbstractStep, Submitted!Next, Submitted!Step, Submitted!End,
   Placed, Filled, Ended, Seen

LEMMA Fails ==
    ASSUME Seen = [kind |-> "waiting", filled |-> 0], Placed = 0,
           Seen' = [kind |-> "error", filled |-> 0],
           Placed' = Placed, Filled' = Filled, Ended' = Ended, call'.asked = call.asked,
           setting' = setting
    PROVE  AbstractStep
BY DEF AbstractStep, Submitted!Next, Submitted!Step, Submitted!Fail, Submitted!Waiting,
   Submitted!Told, Placed, Filled, Ended, Seen

LEMMA Settles ==
    ASSUME Seen = [kind |-> "waiting", filled |-> 0], Placed > 0, Ended,
           Seen' = [kind |-> "settled", filled |-> Filled],
           Placed' = Placed, Filled' = Filled, Ended' = Ended, call'.asked = call.asked,
           setting' = setting
    PROVE  AbstractStep
BY DEF AbstractStep, Submitted!Next, Submitted!Step, Submitted!Settle, Submitted!Waiting,
   Submitted!Told, Placed, Filled, Ended, Seen

LEMMA Opens ==
    ASSUME Seen = [kind |-> "waiting", filled |-> 0], NEW n \in 0..Filled,
           Seen' = [kind |-> "open", filled |-> n],
           Placed' = Placed, Filled' = Filled, Ended' = Ended, call'.asked = call.asked,
           setting' = setting
    PROVE  AbstractStep
BY DEF AbstractStep, Submitted!Next, Submitted!Step, Submitted!Open, Submitted!Waiting,
   Submitted!Told, Placed, Filled, Ended, Seen

LEMMA AnswersAtOnce ==
    ASSUME Seen = [kind |-> "waiting", filled |-> 0], Placed = 0, Placed' \in 1..call.asked,
           \/ Filled' = Placed' /\ Ended' = TRUE /\ Seen' = [kind |-> "settled", filled |-> Placed']
           \/ Filled' = 0 /\ Ended' = FALSE /\ Seen' = [kind |-> "open", filled |-> 0],
           call'.asked = call.asked, setting' = setting
    PROVE  AbstractStep
BY DEF AbstractStep, Submitted!Next, Submitted!Step, Submitted!AtOnce, Submitted!Waiting,
   Submitted!Told, Placed, Filled, Ended, Seen

LEMMA Replaces ==
    ASSUME Seen.kind # "waiting", Placed > 0, ~Ended, Placed' \in {n \in Nat : n > Filled},
           Filled' = Filled, Ended' = Ended, Seen' = Seen, call'.asked = call.asked,
           setting' = setting
    PROVE  AbstractStep
BY DEF AbstractStep, Submitted!Next, Submitted!Step, Submitted!Replace,
   Placed, Filled, Ended, Seen

LEMMA Loses ==
    ASSUME setting.losesReply, Seen = [kind |-> "waiting", filled |-> 0], Placed = 0,
           Placed' \in 1..call.asked, Seen' = [kind |-> "error", filled |-> 0],
           Filled' = Filled, Ended' = Ended, call'.asked = call.asked, setting' = setting
    PROVE  AbstractStep
BY DEF AbstractStep, Submitted!Next, Submitted!Step, Submitted!Lost, Submitted!Waiting,
   Submitted!Told, Placed, Filled, Ended, Seen

-----------------------------------------------------------------------------
(* Steps of the call                                                       *)

LEMMA Typed ==
    ASSUME Inv
    PROVE  /\ call \in Calls /\ reply \in Replies /\ book \in Seq(Orders)
           /\ Len(book) \in Nat /\ DOMAIN book = 1..Len(book)
           /\ \A i \in DOMAIN book : book[i] \in Orders /\ Sound(book[i])
           /\ call.id # 0 => call.id \in DOMAIN book
<1>1. call \in Calls /\ reply \in Replies /\ book \in Seq(Orders) /\ call.id <= Len(book)
      /\ \A i \in DOMAIN book : Sound(book[i])
  BY DEF Inv, CallInv, BookInv
<1>2. call.id \in Nat
  BY <1>1 DEF Calls
<1>. QED  BY <1>1, <1>2

(* While a call runs its caller waits and no change is under way; before   *)
(* it polls nothing is placed.                                             *)
LEMMA Running ==
    ASSUME Inv, call.step # "none"
    PROVE  /\ change = NoChange /\ reply.kind = "waiting"
           /\ Seen = [kind |-> "waiting", filled |-> 0]
<1>1. reply.kind = "waiting"
  BY DEF Inv, CallInv
<1>. QED  BY <1>1, WaitingSeen DEF Inv, CallInv, ChangeInv

LEMMA NotSent ==
    ASSUME Inv, call.step = "send"
    PROVE  /\ call.id = 0 /\ reply.filled = 0 /\ call.qty \in 1..call.asked
           /\ call.asked \in Nat /\ call.precision \in 0..DefaultPrecision
           /\ Placed = 0 /\ Filled = 0 /\ Ended = FALSE
BY Typed DEF Inv, CallInv, Placed, Filled, Ended, Calls

LEMMA SameBook ==
    ASSUME Inv, UNCHANGED <<setting, book>>
    PROVE  BookInv'
BY DEF Inv, BookInv, Sound, Working

LEMMA Answers ==
    ASSUME Inv, NEW kind \in {"error", "open", "settled"}, NEW n \in Nat, Answer(kind, n),
           UNCHANGED <<setting, book, change, held>>, learned' \in Nat, call.step # "none"
    PROVE  /\ Inv' /\ Seen' = [kind |-> kind, filled |-> n]
           /\ Placed' = Placed /\ Filled' = Filled /\ Ended' = Ended
           /\ call'.asked = call.asked
<1>1. call' = [NoCall EXCEPT !.asked = call.asked, !.id = call.id]
      /\ reply' = [kind |-> kind, filled |-> n]
  BY DEF Answer
<1>2. /\ call' \in Calls /\ call'.step = "none" /\ call'.id = call.id
      /\ call'.asked = call.asked
  <2>1. call.asked \in Nat /\ call.id \in Nat /\ 0 \in 0..DefaultPrecision
    BY Typed, SettingTyped DEF Calls, Inv
  <2>. QED  BY <1>1, <2>1 DEF NoCall, Calls
<1>3. reply' \in Replies /\ reply'.kind # "waiting"
  BY <1>1 DEF Replies
<1>4. CallInv'
  BY <1>2, <1>3 DEF Inv, CallInv
<1>5. BookInv'
  BY SameBook
<1>6. ChangeInv'
  BY Running DEF ChangeInv
<1>7. Seen' = [kind |-> kind, filled |-> n]
  BY <1>1, <1>3 DEF Seen
<1>8. Placed' = Placed /\ Filled' = Filled /\ Ended' = Ended
  BY <1>2 DEF Placed, Filled, Ended, Working
<1>. QED  BY <1>2, <1>4, <1>5, <1>6, <1>7, <1>8 DEF Inv

LEMMA FailsUnsent ==
    ASSUME Inv, call.step = "send", Answer("error", 0),
           UNCHANGED <<setting, book, change, held>>, learned' \in Nat
    PROVE  Inv' /\ AbstractStep
<1>1. /\ Inv' /\ Seen' = [kind |-> "error", filled |-> 0]
      /\ Placed' = Placed /\ Filled' = Filled /\ Ended' = Ended /\ call'.asked = call.asked
  BY Answers
<1>. QED  BY <1>1, NotSent, Running, Fails

(* Another try of the same call.                                           *)
LEMMA TriesAgain ==
    ASSUME Inv, call.step = "send", call' \in Calls, call'.step = "send", call'.id = call.id,
           call'.asked = call.asked, call'.qty \in 1..call.asked,
           UNCHANGED <<setting, book, change, held, reply, learned>>
    PROVE  Inv' /\ AbstractStep
<1>1. CallInv'
  BY DEF Inv, CallInv
<1>2. BookInv'
  BY SameBook
<1>3. ChangeInv'
  BY Running DEF ChangeInv
<1>4. UNCHANGED Abstract
  BY NotSent DEF Abstract, Placed, Filled, Ended, Seen
<1>. QED  BY <1>1, <1>2, <1>3, <1>4, Stutters DEF Inv

(* The venue takes the order of the call.                                  *)
LEMMA Takes ==
    ASSUME Inv, call.step = "send", NEW o \in Orders, Sound(o), book' = Append(book, o),
           call' \in Calls, call'.id = Len(book'), call'.asked = call.asked,
           UNCHANGED <<setting, change>>, held' \in Int, learned' \in Nat,
           \/ call'.step = "poll" /\ reply' = reply
           \/ call'.step = "none" /\ reply' \in Replies /\ reply'.kind # "waiting"
    PROVE  /\ Inv'
           /\ Placed' = o.qty /\ Filled' = o.filled /\ (Ended' <=> ~Working(o))
<1>1. /\ BookInv' /\ Len(book) \in Nat /\ Len(book') = Len(book) + 1
      /\ book'[Len(book')] = o
  BY BookGrows DEF Inv
<1>2. o.filled \in Nat
  BY DEF Orders
<1>3. CallInv'
  BY <1>1, <1>2, NotSent, Running, Typed DEF CallInv
<1>4. ChangeInv'
  BY Running DEF ChangeInv
<1>5. Placed' = o.qty /\ Filled' = o.filled /\ (Ended' <=> ~Working(o))
  BY <1>1 DEF Placed, Filled, Ended, Working
<1>. QED  BY <1>1, <1>3, <1>4, <1>5 DEF Inv

LEMMA CallType == ASSUME Inv PROVE call.type \in {"market", "limit", "stop"}
BY Typed DEF Calls

LEMMA NewOrderSound ==
    ASSUME Inv, NEW q \in Nat \ {0}, NEW type \in {"market", "limit", "stop"}
    PROVE  LET o == NewOrder(q, type) IN
           /\ o \in Orders /\ Sound(o) /\ Working(o) /\ o.qty = q /\ o.filled = 0
           /\ o.status = "working" /\ o.listed /\ ~o.leg /\ o.side = call.side
<1>1. call.side \in {"buy", "sell"}
  BY Typed DEF Calls
<1>. QED  BY <1>1 DEF NewOrder, Orders, Statuses, Sound, Working

(* ... and the call goes on to poll it, or ends with a result at once.     *)
LEMMA TakesAndPolls ==
    ASSUME Inv, call.step = "send", NEW q \in 1..call.asked, Accept(q),
           call' = [call EXCEPT !.step = "poll", !.id = Len(book')], reply' = reply,
           UNCHANGED <<setting, change>>, learned' \in Nat
    PROVE  Inv' /\ AbstractStep
<1> DEFINE o == NewOrder(q, call.type)
<1>1. q \in Nat \ {0}
  BY NotSent
<1>2. /\ o \in Orders /\ Sound(o) /\ o.qty = q /\ o.filled = 0 /\ Working(o)
  BY <1>1, NewOrderSound, CallType
<1>3. book' = Append(book, o) /\ held' \in Int
  BY DEF Accept, Inv
<1> HIDE DEF o
<1>4. /\ call' \in Calls /\ call'.id = Len(book') /\ call'.asked = call.asked
      /\ call'.step = "poll"
  <2>1. Len(book') \in Nat
    BY <1>2, <1>3, BookGrows DEF Inv
  <2>. QED  BY <2>1, Typed DEF Calls
<1>5. Inv' /\ Placed' = q /\ Filled' = 0 /\ Ended' = FALSE
  BY <1>2, <1>3, <1>4, Takes
<1>6. Seen' = Seen
  BY DEF Seen
<1>. QED  BY <1>4, <1>5, <1>6, NotSent, Running, Places

LEMMA TakesAndEnds ==
    ASSUME Inv, call.step = "send", NEW q \in 1..call.asked, Accept(q),
           call' = [NoCall EXCEPT !.asked = call.asked, !.id = Len(book')],
           \/ reply' = [kind |-> "open", filled |-> 0]
           \/ reply' = [kind |-> "error", filled |-> 0] /\ setting.losesReply,
           UNCHANGED <<setting, change>>, learned' \in Nat
    PROVE  Inv' /\ AbstractStep
<1> DEFINE o == NewOrder(q, call.type)
<1>1. q \in Nat \ {0}
  BY NotSent
<1>2. /\ o \in Orders /\ Sound(o) /\ o.qty = q /\ o.filled = 0 /\ Working(o)
  BY <1>1, NewOrderSound, CallType
<1>3. book' = Append(book, o) /\ held' \in Int
  BY DEF Accept, Inv
<1> HIDE DEF o
<1>4. /\ call' \in Calls /\ call'.id = Len(book') /\ call'.asked = call.asked
      /\ call'.step = "none"
  <2>1. Len(book') \in Nat /\ call.asked \in Nat /\ 0 \in 0..DefaultPrecision
    BY <1>2, <1>3, BookGrows, NotSent, SettingTyped DEF Inv
  <2>. QED  BY <2>1 DEF NoCall, Calls
<1>5. reply' \in Replies /\ reply'.kind # "waiting" /\ Seen' = reply'
  BY DEF Replies, Seen
<1>6. Inv' /\ Placed' = q /\ Filled' = 0 /\ Ended' = FALSE
  BY <1>2, <1>3, <1>4, <1>5, Takes
<1>7. CASE reply' = [kind |-> "open", filled |-> 0]
  BY <1>4, <1>5, <1>6, <1>7, NotSent, Running, AnswersAtOnce
<1>8. CASE reply' = [kind |-> "error", filled |-> 0] /\ setting.losesReply
  BY <1>4, <1>5, <1>6, <1>8, NotSent, Running, Loses
<1>. QED  BY <1>6, <1>7, <1>8

-----------------------------------------------------------------------------
(* What SubmitOrder does at each adapter                                   *)

LEMMA CallStep ==
    ASSUME Inv, NEW side \in {"buy", "sell"}, NEW type \in {"market", "limit"},
           NEW qty \in setting.quantities, Call(side, type, qty)
    PROVE  Inv' /\ AbstractStep
<1>0. /\ call.step = "none" /\ change = NoChange /\ reply' = [kind |-> "waiting", filled |-> 0]
      /\ UNCHANGED <<setting, learned, book, held, change>>
      /\ call' = [NoCall EXCEPT !.step = "send", !.side = side, !.type = type, !.asked = qty,
                  !.qty = qty, !.precision = IF learned <= DefaultPrecision THEN learned
                                             ELSE DefaultPrecision]
  BY DEF Call
<1>1. qty \in Nat \ {0} /\ DefaultPrecision \in Nat /\ learned \in Nat
  BY SettingTyped DEF Inv
<1>2. (IF learned <= DefaultPrecision THEN learned ELSE DefaultPrecision) \in 0..DefaultPrecision
  BY <1>1
<1>3. /\ call' \in Calls /\ call'.step = "send" /\ call'.id = 0 /\ call'.asked = qty
      /\ call'.qty = qty
  BY <1>0, <1>1, <1>2 DEF NoCall, Calls
<1>4. reply' \in Replies /\ reply'.kind = "waiting" /\ reply'.filled = 0
  BY <1>0 DEF Replies
<1>5. CallInv'
  BY <1>0, <1>1, <1>3, <1>4, Typed DEF CallInv
<1>6. Inv'
  BY <1>0, <1>5, SameBook DEF Inv, ChangeInv
<1>7. Seen.kind # "waiting"
  BY <1>0 DEF Inv, CallInv, Seen
<1>8. Placed' = 0 /\ Filled' = 0 /\ Ended' = FALSE /\ Seen' = [kind |-> "waiting", filled |-> 0]
  BY <1>0, <1>3, <1>4 DEF Placed, Filled, Ended, Seen
<1>. QED  BY <1>0, <1>1, <1>3, <1>6, <1>7, <1>8, Asks

LEMMA SendQtyFits ==
    ASSUME Inv, call.step = "send"
    PROVE  SendQty \in 0..call.qty /\ ShareQty \in 0..call.qty
<1>1. /\ call.qty \in Nat /\ call.precision \in 0..DefaultPrecision
      /\ 0 \in 0..DefaultPrecision /\ DefaultPrecision \in 0..DefaultPrecision
  BY NotSent, SettingTyped DEF Inv
<1>. QED  BY <1>1, Rounding DEF SendQty, ShareQty

LEMMA T212Step ==
    ASSUME Inv, T212RoundsToZero \/ T212Accepted \/ T212TooPrecise \/ T212NotOwned \/ T212GivesUp
    PROVE  Inv' /\ AbstractStep
<1>0. /\ T212 /\ call.step = "send" /\ UNCHANGED <<setting, change>>
  BY DEF T212RoundsToZero, T212Accepted, T212TooPrecise, T212NotOwned, T212GivesUp, T212
<1>1. /\ call \in Calls /\ call.qty \in 1..call.asked /\ call.asked \in Nat
      /\ call.precision \in 0..DefaultPrecision /\ learned \in Nat /\ DefaultPrecision \in Nat
      /\ setting.precision \in 0..DefaultPrecision
  BY <1>0, Typed, NotSent, SettingTyped DEF Inv
<1>2. CASE /\ Answer("error", 0) /\ UNCHANGED <<learned, book, held>>
  BY <1>0, <1>1, <1>2, FailsUnsent
<1>3. CASE T212Accepted
  BY <1>0, <1>1, <1>3, SendQtyFits, TakesAndPolls DEF T212Accepted
<1>4. ASSUME NEW c \in Calls, c.step = "send", c.id = call.id, c.asked = call.asked,
             c.qty \in 1..call.asked, Again(c), UNCHANGED <<learned, book, held>>
      PROVE  Inv' /\ AbstractStep
  BY <1>4, <1>0, TriesAgain DEF Again, Calls
<1>5. CASE T212TooPrecise
  <2>1. CASE call.precision = 0
    BY <1>2, <1>5, <2>1 DEF T212TooPrecise
  <2>2. CASE call.precision # 0
    <3>1. PICK next \in Named :
             Again([call EXCEPT !.precision = IF next < call.precision THEN next ELSE 0])
      BY <1>5, <2>2 DEF T212TooPrecise
    <3>2. next \in Nat
      <4>1. setting.names \in {"the most it takes", "nothing", "anything"}
        BY BrokerAssumption DEF Inv
      <4>2. CASE setting.names = "the most it takes"
        <5>1. Named = {setting.precision}
          BY <4>2 DEF Named
        <5>. QED  BY <1>1, <3>1, <5>1
      <4>3. CASE setting.names = "nothing"
        BY <1>1, <3>1, <4>3 DEF Named
      <4>4. CASE setting.names = "anything"
        BY <1>1, <3>1, <4>4 DEF Named
      <4>. QED  BY <4>1, <4>2, <4>3, <4>4
    <3> DEFINE c == [call EXCEPT !.precision = IF next < call.precision THEN next ELSE 0]
    <3>3. (IF next < call.precision THEN next ELSE 0) \in 0..DefaultPrecision
      BY <1>1, <3>2
    <3>4. /\ c \in Calls /\ c.step = "send" /\ c.id = call.id /\ c.asked = call.asked
          /\ c.qty = call.qty
      BY <1>0, <1>1, <3>3 DEF Calls
    <3>5. Again(c)
      BY <3>1
    <3> HIDE DEF c
    <3>. QED  BY <1>1, <1>4, <1>5, <3>4, <3>5 DEF T212TooPrecise
  <2>. QED  BY <2>1, <2>2
<1>6. CASE T212NotOwned
  <2>1. CASE /\ ~call.capped /\ held > 0 /\ held < call.qty
             /\ Again([call EXCEPT !.qty = held, !.capped = TRUE])
    <3>1. held \in 1..call.asked
      BY <1>1, <2>1 DEF Inv
    <3> DEFINE c == [call EXCEPT !.qty = held, !.capped = TRUE]
    <3>2. /\ c \in Calls /\ c.step = "send" /\ c.id = call.id /\ c.asked = call.asked
          /\ c.qty = held
      <4>1. held \in Nat
        BY <1>1, <3>1
      <4>. QED  BY <1>0, <1>1, <4>1 DEF Calls
    <3>3. Again(c)
      BY <2>1
    <3> HIDE DEF c
    <3>. QED  BY <1>4, <1>6, <3>1, <3>2, <3>3 DEF T212NotOwned
  <2>2. CASE Answer("error", 0)
    BY <1>2, <1>6, <2>2 DEF T212NotOwned
  <2>. QED  BY <1>6, <2>1, <2>2 DEF T212NotOwned
<1>. QED  BY <1>2, <1>3, <1>5, <1>6 DEF T212RoundsToZero, T212GivesUp

LEMMA ShareStep ==
    ASSUME Inv, FailBefore \/ PlaceRefused \/ PlaceOrder \/ LoseReply
    PROVE  Inv' /\ AbstractStep
<1>0. /\ call.step = "send" /\ UNCHANGED <<setting, change, learned>>
  BY DEF FailBefore, PlaceRefused, PlaceOrder, LoseReply, Sends
<1>1. learned \in Nat /\ call.asked \in Nat /\ call.qty \in 1..call.asked
  BY <1>0, NotSent DEF Inv
<1>2. CASE FailBefore \/ PlaceRefused
  BY <1>0, <1>1, <1>2, FailsUnsent DEF FailBefore, PlaceRefused
<1>3. CASE PlaceOrder
  BY <1>0, <1>1, <1>3, SendQtyFits, TakesAndEnds, TakesAndPolls DEF PlaceOrder
<1>4. CASE LoseReply
  <2>1. PICK q \in {SendQty, ShareQty} : q > 0 /\ Accept(q)
    BY <1>4 DEF LoseReply
  <2>2. q \in 1..call.asked
    BY <1>0, <1>1, <2>1, SendQtyFits
  <2>. QED  BY <1>0, <1>1, <1>4, <2>1, <2>2, TakesAndEnds DEF LoseReply
<1>. QED  BY <1>2, <1>3, <1>4

LEMMA SimStep ==
    ASSUME Inv, SimFills \/ SimRefuses
    PROVE  Inv' /\ AbstractStep
<1>0. /\ call.step = "send" /\ UNCHANGED <<setting, change, learned>>
  BY DEF SimFills, SimRefuses
<1>1. /\ learned \in Nat /\ call.asked \in Nat /\ call.qty \in 1..call.asked
  BY <1>0, NotSent DEF Inv
<1>2. CASE SimFills
  <2> DEFINE n == NewOrder(call.qty, call.type)
             o == [n EXCEPT !.filled = call.qty, !.status = "filled"]
  <2>1. n \in Orders /\ n.qty = call.qty
    BY <1>1, NewOrderSound, CallType
  <2> HIDE DEF n
  <2>2. /\ o \in Orders /\ o.qty = call.qty /\ o.filled = call.qty /\ o.status = "filled"
        /\ o.listed = n.listed
    BY <1>1, <2>1 DEF Orders, Statuses
  <2> HIDE DEF o
  <2>3. Sound(o) /\ ~Working(o)
    BY <1>1, <2>2 DEF n, NewOrder, Sound, Working
  <2>4. /\ book' = Append(book, o) /\ reply' = [kind |-> "settled", filled |-> call.qty]
        /\ call' = [NoCall EXCEPT !.asked = call.asked, !.id = Len(book')]
        /\ held' \in {held + call.qty, held - call.qty}
    BY <1>2 DEF SimFills, o, n
  <2>5. call' \in Calls /\ call'.id = Len(book') /\ call'.asked = call.asked /\ call'.step = "none"
    <3>1. Len(book') \in Nat /\ 0 \in 0..DefaultPrecision
      BY <2>2, <2>3, <2>4, <1>0, BookGrows, SettingTyped DEF Inv
    <3>. QED  BY <1>1, <2>4, <3>1 DEF NoCall, Calls
  <2>6. reply' \in Replies /\ reply'.kind # "waiting" /\ Seen' = reply'
    BY <1>1, <2>4 DEF Replies, Seen
  <2>7. held' \in Int
    BY <1>1, <2>4 DEF Inv
  <2>8. Inv' /\ Placed' = call.qty /\ Filled' = call.qty /\ Ended' = TRUE
    BY <1>0, <1>1, <2>2, <2>3, <2>4, <2>5, <2>6, <2>7, Takes
  <2>. QED  BY <1>0, <1>1, <2>4, <2>5, <2>6, <2>8, NotSent, Running, AnswersAtOnce
<1>3. CASE SimRefuses /\ Answer("error", 0)
  BY <1>0, <1>1, <1>3, FailsUnsent DEF SimRefuses
<1>4. CASE SimRefuses /\ Answer("open", 0)
  <2>1. /\ Inv' /\ Seen' = [kind |-> "open", filled |-> 0]
        /\ Placed' = Placed /\ Filled' = Filled /\ Ended' = Ended /\ call'.asked = call.asked
    BY <1>0, <1>1, <1>4, Answers DEF SimRefuses
  <2>2. 0 \in 0..Filled
    BY <1>0, NotSent
  <2>. QED  BY <1>0, <2>1, <2>2, Running, Opens
<1>. QED  BY <1>2, <1>3, <1>4 DEF SimRefuses

(* A poll sees the order of the call.                                      *)
LEMMA Polled ==
    ASSUME Inv, call.step = "poll"
    PROVE  /\ call.id \in DOMAIN book /\ Mine \in Orders /\ Sound(Mine)
           /\ Placed = Mine.qty /\ Filled = Mine.filled /\ (Ended <=> ~Working(Mine))
           /\ Placed > 0 /\ Filled \in Nat /\ reply.filled \in 0..Filled
<1>1. call.id \in Nat /\ call.id > 0 /\ reply.filled <= book[call.id].filled /\ reply.filled \in Nat
  BY Typed DEF Inv, CallInv, Calls, Replies
<1>2. call.id \in DOMAIN book /\ Mine \in Orders /\ Sound(Mine)
  BY <1>1, Typed DEF Mine
<1>3. Mine.qty \in Nat \ {0} /\ Mine.filled \in Nat
  BY <1>2 DEF Orders
<1>. QED  BY <1>1, <1>2, <1>3 DEF Placed, Filled, Ended, Mine

LEMMA PollSettles ==
    ASSUME Inv, call.step = "poll", Answer("settled", Mine.filled), ~Working(Mine),
           UNCHANGED <<setting, learned, book, held, change>>
    PROVE  Inv' /\ AbstractStep
<1>1. /\ Inv' /\ Seen' = [kind |-> "settled", filled |-> Filled]
      /\ Placed' = Placed /\ Filled' = Filled /\ Ended' = Ended /\ call'.asked = call.asked
  BY Polled, Answers DEF Inv
<1>. QED  BY <1>1, Polled, Running, Settles

LEMMA PollOpens ==
    ASSUME Inv, call.step = "poll", Answer("open", reply.filled),
           UNCHANGED <<setting, learned, book, held, change>>
    PROVE  Inv' /\ AbstractStep
<1>0. reply.filled \in Nat /\ learned \in Nat
  BY Polled DEF Inv
<1>1. /\ Inv' /\ Seen' = [kind |-> "open", filled |-> reply.filled]
      /\ Placed' = Placed /\ Filled' = Filled /\ Ended' = Ended /\ call'.asked = call.asked
  BY <1>0, Answers
<1>. QED  BY <1>1, Polled, Running, Opens

LEMMA PollWaits ==
    ASSUME Inv, call.step = "poll", call' = call,
           reply' = [kind |-> "waiting", filled |-> Mine.filled],
           UNCHANGED <<setting, learned, book, held, change>>
    PROVE  Inv' /\ AbstractStep
<1>1. reply' \in Replies /\ reply'.kind = "waiting" /\ reply'.filled = book[call.id].filled
  BY Polled DEF Replies, Mine
<1>2. CallInv'
  BY Polled, <1>1 DEF Mine, Inv, CallInv
<1>3. BookInv' /\ ChangeInv'
  BY SameBook DEF Inv, ChangeInv
<1>4. Seen' = [kind |-> "waiting", filled |-> 0]
  BY <1>1 DEF Seen, Replies
<1>5. UNCHANGED Abstract
  BY <1>4, Running DEF Abstract, Placed, Filled, Ended, Working
<1>. QED  BY <1>2, <1>3, <1>5, Stutters DEF Inv

(* SaxoPoll takes an order that left the listing as filled: it tells the   *)
(* truth where Saxo ends no order unfilled.                                *)
Honest == setting.kind = "saxo" => ~setting.rejects

LEMMA PollStep ==
    ASSUME Inv, T212Poll \/ T212Gone \/ AlpacaPoll \/ SaxoPoll \/ TimeIsUp
    PROVE  Inv' /\ (Honest => AbstractStep)
<1>1. /\ call.step = "poll" /\ UNCHANGED <<setting, learned, book, held, change>>
  BY DEF T212Poll, T212Gone, AlpacaPoll, SaxoPoll, TimeIsUp, Polling
<1>2. CASE T212Poll \/ AlpacaPoll
  BY <1>1, <1>2, PollSettles, PollWaits DEF T212Poll, AlpacaPoll, Final, Working
<1>3. CASE T212Gone
  BY <1>1, <1>3, Polled, PollSettles, PollOpens DEF T212Gone, Sound
<1>4. CASE SaxoPoll
  <2>1. ~Working(Mine)
    BY <1>1, <1>4, Polled DEF SaxoPoll, Sound
  <2>2. Honest => Mine.filled = Mine.qty
    BY <1>1, <1>4, <2>1, Polled DEF Sound, SaxoPoll, Polling, Honest
  <2>3. Answer("settled", Mine.qty)
    BY <1>4 DEF SaxoPoll
  <2>4. Inv'
    BY <1>1, Polled, <2>3, Answers DEF Orders, Inv
  <2>. QED  BY <1>1, <2>1, <2>2, <2>3, <2>4, PollSettles
<1>5. CASE TimeIsUp
  BY <1>1, <1>5, PollOpens DEF TimeIsUp
<1>. QED  BY <1>2, <1>3, <1>4, <1>5

-----------------------------------------------------------------------------
(* What happens at the venue, and the bracket                              *)

(* One order of the book moves on.                                         *)
LEMMA OrderMoves ==
    ASSUME Inv, NEW i \in DOMAIN book, NEW o \in Orders, Sound(o),
           book' = [book EXCEPT ![i] = o], o.filled >= book[i].filled,
           UNCHANGED <<setting, call, reply, learned>>, held' \in Int,
           \/ change' = NoChange
           \/ change' = change /\ o.type = book[i].type /\ o.duration = book[i].duration
    PROVE  /\ Inv'
           /\ i # call.id => UNCHANGED Abstract
           /\ i = call.id => /\ Placed = book[i].qty /\ Filled = book[i].filled
                             /\ (Ended <=> ~Working(book[i]))
                             /\ Placed' = o.qty /\ Filled' = o.filled /\ (Ended' <=> ~Working(o))
                             /\ Seen' = Seen
<1>1. /\ BookInv' /\ Len(book') = Len(book) /\ DOMAIN book' = DOMAIN book
      /\ book'[i] = o /\ \A j \in DOMAIN book \ {i} : book'[j] = book[j]
  BY BookChanges DEF Inv
<1>2. call.id # 0 => call.id \in DOMAIN book
  BY Typed
<1>3. i \in Nat \ {0} /\ o.filled \in Nat /\ book[i].filled \in Nat
  BY Typed DEF Orders
<1>4. CallInv'
  <2>1. call.step = "poll" => reply.filled <= book'[call.id].filled
    <3> SUFFICES ASSUME call.step = "poll" PROVE reply.filled <= book'[call.id].filled
      OBVIOUS
    <3>1. reply.filled \in Nat /\ reply.filled <= book[call.id].filled /\ call.id \in DOMAIN book
      BY Polled, Typed DEF Inv, CallInv, Replies
    <3>. QED  BY <1>1, <1>3, <3>1
  <2>. QED  BY <1>1, <2>1 DEF Inv, CallInv
<1>5. ChangeInv'
  BY <1>1 DEF Inv, ChangeInv
<1>6. i # call.id => UNCHANGED Abstract
  BY <1>1, <1>2 DEF Abstract, Placed, Filled, Ended, Seen, Working
<1>7. i = call.id => /\ Placed = book[i].qty /\ Filled = book[i].filled
                     /\ (Ended <=> ~Working(book[i]))
                     /\ Placed' = o.qty /\ Filled' = o.filled /\ (Ended' <=> ~Working(o))
                     /\ Seen' = Seen
  BY <1>1, <1>3 DEF Placed, Filled, Ended, Seen, Working
<1>. QED  BY <1>1, <1>4, <1>5, <1>6, <1>7 DEF Inv

LEMMA FillsStep ==
    ASSUME Inv, Fills
    PROVE  Inv' /\ AbstractStep
<1>1. PICK i \in DOMAIN book : \E n \in {1, book[i].qty - book[i].filled} :
         /\ Working(book[i]) /\ ~book[i].leg
         /\ book[i].filled > 0 => n = book[i].qty - book[i].filled
         /\ book' = [book EXCEPT ![i].filled = @ + n,
                            ![i].status = IF book[i].filled + n = book[i].qty THEN "filled" ELSE @]
         /\ held' = IF book[i].side = "buy" THEN held + n ELSE held - n
         /\ UNCHANGED <<setting, call, learned, reply, named, change, left>>
  BY DEF Fills
<1>2. PICK n \in {1, book[i].qty - book[i].filled} :
         /\ Working(book[i]) /\ ~book[i].leg
         /\ book[i].filled > 0 => n = book[i].qty - book[i].filled
         /\ book' = [book EXCEPT ![i].filled = @ + n,
                            ![i].status = IF book[i].filled + n = book[i].qty THEN "filled" ELSE @]
         /\ held' = IF book[i].side = "buy" THEN held + n ELSE held - n
         /\ UNCHANGED <<setting, call, learned, reply, named, change, left>>
  BY <1>1
<1>3. /\ book[i] \in Orders /\ Sound(book[i]) /\ book \in Seq(Orders)
      /\ book[i].qty \in Nat /\ book[i].filled \in Nat /\ held \in Int
      /\ book[i].status \in {"working", "cancelling"}
  BY <1>2, Typed DEF Orders, Inv, Working
<1>4. book[i].filled < book[i].qty /\ n \in Nat \ {0} /\ book[i].filled + n <= book[i].qty
  BY <1>2, <1>3 DEF Sound
<1> DEFINE st == IF book[i].filled + n = book[i].qty THEN "filled" ELSE book[i].status
           o  == [book[i] EXCEPT !.filled = book[i].filled + n, !.status = st]
<1>5. st \in Statuses /\ (st = "filled" <=> book[i].filled + n = book[i].qty)
      /\ (st # "filled" => st \in {"working", "cancelling"})
  BY <1>3 DEF Statuses
<1>6. book' = [book EXCEPT ![i] = o]
  BY <1>2, <1>3
<1> HIDE DEF st
<1>7. /\ o \in Orders /\ o.filled = book[i].filled + n /\ o.status = st /\ o.qty = book[i].qty
      /\ o.type = book[i].type /\ o.duration = book[i].duration /\ o.listed = book[i].listed
  <2>1. book[i].filled + n \in Nat
    BY <1>3, <1>4
  <2>. QED  BY <1>3, <1>5, <2>1 DEF Orders
<1> HIDE DEF o
<1>8. Working(o) <=> o.filled # o.qty
  BY <1>5, <1>7 DEF Working
<1>9. Sound(o)
  BY <1>2, <1>3, <1>4, <1>5, <1>7, <1>8 DEF Sound, Working
<1>10. held' \in Int
  BY <1>2, <1>3, <1>4
<1>11. /\ Inv'
       /\ i # call.id => UNCHANGED Abstract
       /\ i = call.id => /\ Placed = book[i].qty /\ Filled = book[i].filled
                         /\ (Ended <=> ~Working(book[i]))
                         /\ Placed' = o.qty /\ Filled' = o.filled /\ (Ended' <=> ~Working(o))
                         /\ Seen' = Seen
  <2>1. o.filled >= book[i].filled
    BY <1>3, <1>4, <1>7
  <2>2. UNCHANGED <<setting, call, reply, learned>> /\ change' = change
    BY <1>2
  <2>. QED  BY <1>6, <1>7, <1>9, <1>10, <2>1, <2>2, OrderMoves
<1>12. CASE i = call.id
  <2>1. /\ ~Ended /\ Placed' = Placed /\ Filled' = Filled + n /\ Placed = book[i].qty
        /\ Filled = book[i].filled /\ (Ended' => Filled' = Placed)
    BY <1>2, <1>7, <1>8, <1>11, <1>12
  <2>2. Filled' \in Filled + 1 .. Placed
    BY <1>3, <1>4, <2>1
  <2>. QED  BY <1>2, <1>11, <1>12, <2>1, <2>2, Trades
<1>. QED  BY <1>11, <1>12, Stutters

(* An order that starts to be cancelled, ends, or leaves the listing.      *)
LEMMA StatusStep ==
    ASSUME Inv, Cancelling \/ EndsUnfilled \/ LeavesListing
    PROVE  Inv' /\ AbstractStep
<1>0. PICK i \in DOMAIN book :
        /\ UNCHANGED <<setting, call, learned, held, reply, named, change, left>>
        /\ \/ /\ setting.rejects /\ book[i].status = "working"
              /\ book' = [book EXCEPT ![i].status = "cancelling"]
           \/ /\ setting.rejects /\ Working(book[i])
              /\ book' = [book EXCEPT ![i].status =
                            IF book[i].filled = 0 THEN "rejected" ELSE "cancelled"]
           \/ /\ ~Working(book[i]) /\ book' = [book EXCEPT ![i].listed = FALSE]
  BY DEF Cancelling, EndsUnfilled, LeavesListing
<1>1. /\ book[i] \in Orders /\ Sound(book[i]) /\ book \in Seq(Orders)
      /\ book[i].qty \in Nat /\ book[i].filled \in Nat /\ held \in Int
  BY Typed DEF Orders, Inv
<1>2. ASSUME NEW o \in Orders, Sound(o), book' = [book EXCEPT ![i] = o],
             o.qty = book[i].qty, o.filled = book[i].filled, o.type = book[i].type,
             o.duration = book[i].duration, Working(o) => Working(book[i])
      PROVE  Inv' /\ AbstractStep
  <2>1. /\ Inv'
        /\ i # call.id => UNCHANGED Abstract
        /\ i = call.id => /\ Placed = book[i].qty /\ Filled = book[i].filled
                          /\ (Ended <=> ~Working(book[i]))
                          /\ Placed' = o.qty /\ Filled' = o.filled /\ (Ended' <=> ~Working(o))
                          /\ Seen' = Seen
    <3>1. o.filled >= book[i].filled
      BY <1>1, <1>2
    <3>2. UNCHANGED <<setting, call, reply, learned>> /\ change' = change /\ held' \in Int
      BY <1>0, <1>1
    <3>. QED  BY <1>2, <3>1, <3>2, OrderMoves
  <2>2. CASE i = call.id /\ Working(book[i]) /\ ~Working(o)
    <3>1. Placed > 0
      BY <1>1, <2>1, <2>2 DEF Orders
    <3>2. ~Ended /\ Ended' = TRUE /\ Placed' = Placed /\ Filled' = Filled /\ Seen' = Seen
          /\ call' = call /\ setting' = setting
      BY <1>0, <1>2, <2>1, <2>2 DEF Ended
    <3>. QED  BY <2>1, <3>1, <3>2, Ends
  <2>3. CASE i = call.id /\ (Working(book[i]) <=> Working(o))
    BY <1>0, <1>2, <2>1, <2>3, Stutters DEF Abstract, Ended
  <2>. QED  BY <1>2, <2>1, <2>2, <2>3, Stutters
<1>3. ASSUME NEW st \in Statuses \ {"filled"}, book' = [book EXCEPT ![i].status = st],
             setting.rejects, Working(book[i])
      PROVE  Inv' /\ AbstractStep
  <2> DEFINE o == [book[i] EXCEPT !.status = st]
  <2>1. book' = [book EXCEPT ![i] = o]
    BY <1>1, <1>3
  <2>2. /\ o \in Orders /\ o.qty = book[i].qty /\ o.filled = book[i].filled /\ o.status = st
        /\ o.type = book[i].type /\ o.duration = book[i].duration /\ o.listed = book[i].listed
    BY <1>1, <1>3 DEF Orders
  <2> HIDE DEF o
  <2>3. Sound(o)
    BY <1>1, <1>3, <2>2 DEF Sound, Working
  <2>. QED  BY <1>2, <1>3, <2>1, <2>2, <2>3
<1>4. CASE ~Working(book[i]) /\ book' = [book EXCEPT ![i].listed = FALSE]
  <2> DEFINE o == [book[i] EXCEPT !.listed = FALSE]
  <2>1. book' = [book EXCEPT ![i] = o]
    BY <1>1, <1>4
  <2>2. /\ o \in Orders /\ o.qty = book[i].qty /\ o.filled = book[i].filled
        /\ o.status = book[i].status /\ o.type = book[i].type /\ o.duration = book[i].duration
    BY <1>1 DEF Orders
  <2> HIDE DEF o
  <2>3. Sound(o) /\ ~Working(o)
    BY <1>1, <1>4, <2>2 DEF Sound, Working
  <2>. QED  BY <1>2, <2>1, <2>2, <2>3
<1>. QED  BY <1>0, <1>3, <1>4 DEF Working, Statuses

LEMMA BracketStep ==
    ASSUME Inv, PlaceBracket
    PROVE  Inv' /\ AbstractStep
<1>1. PICK q \in setting.quantities :
         /\ call.step = "none" /\ change = NoChange /\ RoundDown(q, 0) > 0
         /\ book' = book \o <<[NewOrder(RoundDown(q, 0), "limit") EXCEPT !.side = "buy",
                                                                         !.duration = "gtc"],
                              Leg("stop", RoundDown(q, 0)), Leg("limit", RoundDown(q, 0))>>
         /\ UNCHANGED <<setting, call, learned, held, reply, named, change>>
  BY DEF PlaceBracket
<1> DEFINE amount == RoundDown(q, 0)
           entry  == [NewOrder(amount, "limit") EXCEPT !.side = "buy", !.duration = "gtc"]
           stop   == Leg("stop", amount)
           target == Leg("limit", amount)
<1>2. amount \in Nat \ {0}
  <2>1. q \in Nat /\ 0 \in 0..DefaultPrecision
    BY SettingTyped DEF Inv
  <2>. QED  BY <1>1, <2>1, Rounding
<1> HIDE DEF amount
<1>3. \A o \in {entry, stop, target} : o \in Orders /\ Sound(o)
  <2>1. ASSUME NEW type \in {"market", "limit", "stop"}, NEW side \in {"buy", "sell"},
               NEW o,
               \/ o = [NewOrder(amount, type) EXCEPT !.side = side, !.duration = "gtc", !.leg = TRUE]
               \/ o = [NewOrder(amount, type) EXCEPT !.side = side, !.duration = "gtc"]
        PROVE  o \in Orders /\ Sound(o)
    <3> DEFINE n == NewOrder(amount, type)
    <3>1. n \in Orders /\ n.qty = amount /\ n.filled = 0 /\ n.status = "working" /\ n.listed
      BY <1>2, NewOrderSound
    <3>2. \/ o = [n EXCEPT !.side = side, !.duration = "gtc", !.leg = TRUE]
          \/ o = [n EXCEPT !.side = side, !.duration = "gtc"]
      BY <2>1
    <3> HIDE DEF n
    <3>3. /\ o \in Orders /\ o.qty = amount /\ o.filled = 0 /\ o.status = "working" /\ o.listed
      BY <3>1, <3>2 DEF Orders
    <3>. QED  BY <1>2, <3>3 DEF Sound, Working
  <2>3. stop \in Orders /\ Sound(stop)
    BY <2>1 DEF Leg
  <2>4. target \in Orders /\ Sound(target)
    BY <2>1 DEF Leg
  <2>5. entry \in Orders /\ Sound(entry)
    BY <2>1
  <2>. QED  BY <2>3, <2>4, <2>5
<1>4. book' = book \o <<entry, stop, target>>
  BY <1>1 DEF amount
<1> HIDE DEF entry, stop, target
<1>5. book \in Seq(Orders) /\ Len(book) \in Nat /\ DOMAIN book = 1..Len(book)
  BY Typed
<1>6. /\ book' \in Seq(Orders) /\ Len(book') = Len(book) + 3
      /\ \A i \in DOMAIN book : book'[i] = book[i]
      /\ \A i \in DOMAIN book' \ DOMAIN book : book'[i] \in {entry, stop, target}
  <2>1. <<entry, stop, target>> \in Seq(Orders) /\ Len(<<entry, stop, target>>) = 3
    BY <1>3
  <2>2. /\ book' \in Seq(Orders) /\ Len(book') = Len(book) + 3
        /\ DOMAIN book' = 1..Len(book) + 3
    BY <1>4, <1>5, <2>1
  <2>3. \A i \in 1..Len(book) + 3 :
           book'[i] = IF i <= Len(book) THEN book[i] ELSE <<entry, stop, target>>[i - Len(book)]
    BY <1>4, <1>5, <2>1
  <2>4. \A j \in 1..3 : <<entry, stop, target>>[j] \in {entry, stop, target}
    OBVIOUS
  <2>5. ASSUME NEW i \in DOMAIN book' \ DOMAIN book
        PROVE  book'[i] \in {entry, stop, target}
    BY <1>5, <2>2, <2>3, <2>4
  <2>. QED  BY <1>5, <2>2, <2>3, <2>5
<1>7. BookInv'
  <2>1. \A i \in DOMAIN book' : Sound(book'[i])
    BY <1>3, <1>6 DEF Inv, BookInv
  <2>. QED  BY <1>1, <1>6, <2>1 DEF BookInv, Sound, Working
<1>8. call.id # 0 => call.id \in DOMAIN book
  BY Typed
<1>9. CallInv'
  BY <1>1, <1>5, <1>6, <1>8, Typed DEF Inv, CallInv, Calls
<1>10. UNCHANGED Abstract
  BY <1>1, <1>6, <1>8 DEF Abstract, Placed, Filled, Ended, Seen, Working
<1>. QED  BY <1>1, <1>7, <1>9, <1>10, Stutters DEF Inv, ChangeInv

LEMMA ListStep ==
    ASSUME Inv, ModifyList
    PROVE  Inv' /\ AbstractStep
<1>1. PICK i \in DOMAIN book, q \in setting.quantities, as \in {"market", "limit"} :
         /\ call.step = "none" /\ RoundDown(q, 0) > 0
         /\ change' = [step |-> "patch", id |-> i, qty |-> RoundDown(q, 0), as |-> as,
                       type |-> book[i].type, duration |-> book[i].duration]
         /\ UNCHANGED <<setting, call, learned, book, held, reply, named>>
  BY DEF ModifyList
<1>2. RoundDown(q, 0) \in Nat \ {0}
  <2>1. q \in Nat /\ 0 \in 0..DefaultPrecision
    BY SettingTyped DEF Inv
  <2>. QED  BY <1>1, <2>1, Rounding
<1>3. ChangeInv'
  BY <1>1, <1>2 DEF ChangeInv
<1>4. BookInv' /\ CallInv'
  BY <1>1, SameBook DEF Inv, CallInv
<1>5. UNCHANGED Abstract
  BY <1>1 DEF Abstract, Placed, Filled, Ended, Seen, Working
<1>. QED  BY <1>1, <1>3, <1>4, <1>5, Stutters DEF Inv

LEMMA ModifyStep ==
    ASSUME Inv, ModifyOrder
    PROVE  Inv' /\ AbstractStep
<1>1. /\ change.step = "patch" /\ change' = NoChange
      /\ UNCHANGED <<setting, call, learned, held, reply, named, left>>
  BY DEF ModifyOrder
<1>2. /\ call.step = "none" /\ change.id \in DOMAIN book /\ change.qty \in Nat \ {0}
      /\ change.as \in {"market", "limit"}
      /\ change.type = book[change.id].type /\ change.duration = book[change.id].duration
  <2>1. NoChange.step = "none"
    BY DEF NoChange
  <2>2. change # NoChange
    BY <1>1, <2>1
  <2>. QED  BY <2>2 DEF Inv, ChangeInv
<1>3. CASE book' = book
  <2>1. BookInv' /\ CallInv' /\ ChangeInv'
    BY <1>1, <1>3, SameBook DEF Inv, CallInv, ChangeInv
  <2>2. UNCHANGED Abstract
    BY <1>1, <1>3 DEF Abstract, Placed, Filled, Ended, Seen, Working
  <2>. QED  BY <1>1, <2>1, <2>2, Stutters DEF Inv
<1>4. CASE book' # book
  <2> DEFINE i == change.id
             o == [book[i] EXCEPT !.qty = change.qty, !.type = ModifiedType,
                                  !.duration = ModifiedDuration]
  <2>1. Working(book[i]) /\ change.qty > book[i].filled
    BY <1>4 DEF ModifyOrder
  <2>2. book[i] \in Orders /\ Sound(book[i]) /\ book \in Seq(Orders) /\ book[i].filled \in Nat
    BY <1>2, Typed DEF Orders
  <2>3. book' = [book EXCEPT ![i] = o]
    BY <2>1, <2>2 DEF ModifyOrder
  <2>4. ModifiedType \in {"market", "limit", "stop"} /\ ModifiedDuration \in {"day", "gtc"}
    BY <1>2, <2>2 DEF ModifiedType, ModifiedDuration, Orders
  <2>5. /\ o \in Orders /\ o.qty = change.qty /\ o.filled = book[i].filled
        /\ o.status = book[i].status /\ o.listed = book[i].listed
    BY <1>2, <2>2, <2>4 DEF Orders
  <2> HIDE DEF o
  <2>6. Sound(o) /\ Working(o)
    BY <1>2, <2>1, <2>2, <2>5 DEF Sound, Working
  <2>7. /\ Inv'
        /\ i # call.id => UNCHANGED Abstract
        /\ i = call.id => /\ Placed = book[i].qty /\ Filled = book[i].filled
                          /\ (Ended <=> ~Working(book[i]))
                          /\ Placed' = o.qty /\ Filled' = o.filled /\ (Ended' <=> ~Working(o))
                          /\ Seen' = Seen
    <3>1. i \in DOMAIN book /\ o.filled >= book[i].filled
      BY <1>2, <2>2, <2>5
    <3>2. UNCHANGED <<setting, call, reply, learned>> /\ held' \in Int
      BY <1>1 DEF Inv
    <3> HIDE DEF i
    <3>. QED  BY <1>1, <2>3, <2>5, <2>6, <3>1, <3>2, OrderMoves
  <2>8. CASE i = call.id
    <3>1. Seen.kind # "waiting"
      BY <1>2 DEF Inv, CallInv, Seen
    <3>2. Placed > 0 /\ ~Ended /\ Ended' = Ended /\ Filled' = Filled
          /\ Placed' \in {n \in Nat : n > Filled}
      BY <1>2, <2>1, <2>2, <2>5, <2>6, <2>7, <2>8 DEF Orders, Ended
    <3>. QED  BY <1>1, <2>7, <2>8, <3>1, <3>2, Replaces
  <2>. QED  BY <2>7, <2>8, Stutters
<1>. QED  BY <1>3, <1>4

LEMMA OtherStep ==
    ASSUME Inv, ResolveSymbol \/ UNCHANGED vars
    PROVE  Inv' /\ AbstractStep
<1>1. UNCHANGED <<setting, call, learned, book, held, reply, change>>
  BY DEF ResolveSymbol, vars
<1>2. BookInv' /\ CallInv' /\ ChangeInv'
  BY <1>1, SameBook DEF Inv, CallInv, ChangeInv
<1>3. UNCHANGED Abstract
  BY <1>1 DEF Abstract, Placed, Filled, Ended, Seen, Working
<1>. QED  BY <1>1, <1>2, <1>3, Stutters DEF Inv

LEMMA Step ==
    ASSUME Inv, [Next]_vars
    PROVE  Inv' /\ (Honest => AbstractStep)
<1>1. CASE \E q \in setting.quantities, side \in {"buy", "sell"} :
             \/ Call(side, "market", q)
             \/ setting.limits /\ Call(side, "limit", q)
  BY <1>1, CallStep
<1>2. CASE FailBefore \/ Sending \/ LoseReply
  BY <1>2, T212Step, ShareStep, SimStep DEF Sending
<1>3. CASE T212Poll \/ T212Gone \/ AlpacaPoll \/ SaxoPoll \/ TimeIsUp
  BY <1>3, PollStep
<1>4. CASE Fills \/ Cancelling \/ EndsUnfilled \/ LeavesListing
  BY <1>4, FillsStep, StatusStep
<1>5. CASE PlaceBracket \/ ModifyList \/ ModifyOrder
  BY <1>5, BracketStep, ListStep, ModifyStep
<1>6. CASE ResolveSymbol \/ UNCHANGED vars
  BY <1>6, OtherStep
<1>. QED  BY <1>1, <1>2, <1>3, <1>4, <1>5, <1>6 DEF Next

-----------------------------------------------------------------------------
(* The theorems                                                            *)

LEMMA InitAbstract == Init => Submitted!Init
<1> SUFFICES ASSUME Init PROVE Submitted!Init
  OBVIOUS
<1>1. setting \in Environments /\ call = NoCall /\ reply = [kind |-> "none", filled |-> 0]
  BY DEF Init
<1>2. call.id = 0 /\ call.asked = 0
  BY <1>1 DEF NoCall
<1>3. setting.losesReply \in BOOLEAN
  BY <1>1, SettingTyped
<1>. QED  BY <1>1, <1>2, <1>3 DEF Submitted!Init, Submitted!Told

(* Every invariant of the adapters holds, whatever the venue does.         *)
THEOREM AdaptersKeepInv == Spec => []Inv
<1>1. Init => Inv
  BY InitInv
<1>2. Inv /\ [Next]_vars => Inv'
  BY Step
<1>. QED  BY <1>1, <1>2, PTL DEF Spec

(* Every adapter keeps what broker.go promises of OrderResult: an order is *)
(* placed at most once, an error says nothing was placed unless an answer  *)
(* was lost, a terminal result says what was filled.  Saxo's is the one    *)
(* that keeps it only at a venue that ends no order unfilled: pollSaxo     *)
(* takes an order that is no longer listed as filled.                      *)
THEOREM AdaptersImplementSubmission ==
    ASSUME \A e \in Environments : e.kind = "saxo" => ~e.rejects
    PROVE  Spec => ImplementsSubmission
<1>1. Inv => Honest
  BY DEF Inv, Honest
<1>2. Inv /\ [Next]_vars => AbstractStep
  BY <1>1, Step
<1>3. Spec => []Inv
  BY AdaptersKeepInv
<1>4. Spec => Submitted!Init /\ [][Submitted!Next]_(Submitted!order)
  BY InitAbstract, <1>2, <1>3, PTL DEF Spec, AbstractStep
<1>. QED  BY <1>4 DEF ImplementsSubmission, Submitted!Spec

-----------------------------------------------------------------------------
(* A modification changes neither what kind of order it is nor how long it *)
(* lasts: the change under way carries the type and the duration that were *)
(* listed, and nothing else changes those of an order.                     *)

Kept == \A i \in DOMAIN book :
          /\ book[i].type = "stop" => book'[i].type = "stop"
          /\ book'[i].duration = book[i].duration

LEMMA KeptWhenTaken ==
    ASSUME Inv, \/ \E o : book' = Append(book, o)
                \/ \E s \in Seq(Orders) : book' = book \o s
    PROVE  Kept
<1>1. book \in Seq(Orders)
  BY Typed
<1>2. \A i \in DOMAIN book : book'[i] = book[i]
  BY <1>1
<1>. QED  BY <1>2 DEF Kept

LEMMA KeptByVenue ==
    ASSUME Inv, Fills \/ Cancelling \/ EndsUnfilled \/ LeavesListing
    PROVE  Kept
<1>1. book \in Seq(Orders) /\ \A i \in DOMAIN book : book[i] \in Orders
  BY Typed
<1>2. PICK i \in DOMAIN book :
        \/ \E n, st : book' = [book EXCEPT ![i].filled = n, ![i].status = st]
        \/ \E st : book' = [book EXCEPT ![i].status = st]
        \/ book' = [book EXCEPT ![i].listed = FALSE]
  <2>1. CASE Fills
    <3>1. PICK i \in DOMAIN book : \E n \in {1, book[i].qty - book[i].filled} :
             book' = [book EXCEPT ![i].filled = @ + n,
                        ![i].status = IF book[i].filled + n = book[i].qty THEN "filled" ELSE @]
      BY <2>1 DEF Fills
    <3>2. PICK n \in {1, book[i].qty - book[i].filled} :
             book' = [book EXCEPT ![i].filled = @ + n,
                        ![i].status = IF book[i].filled + n = book[i].qty THEN "filled" ELSE @]
      BY <3>1
    <3> DEFINE m  == book[i].filled + n
               st == IF book[i].filled + n = book[i].qty THEN "filled" ELSE book[i].status
    <3>3. book' = [book EXCEPT ![i].filled = m, ![i].status = st]
      BY <1>1, <3>2
    <3>. QED  BY <3>3
  <2>2. CASE Cancelling \/ EndsUnfilled \/ LeavesListing
    BY <2>2 DEF Cancelling, EndsUnfilled, LeavesListing
  <2>. QED  BY <2>1, <2>2
<1>3. /\ \A j \in DOMAIN book \ {i} : book'[j] = book[j]
      /\ book'[i].type = book[i].type /\ book'[i].duration = book[i].duration
  BY <1>1, <1>2 DEF Orders
<1>. QED  BY <1>3 DEF Kept

LEMMA KeptByChange ==
    ASSUME Inv, ModifyOrder
    PROVE  Kept
<1>1. CASE book' = book
  BY <1>1 DEF Kept
<1>2. CASE book' # book
  <2> DEFINE i == change.id
             o == [book[i] EXCEPT !.qty = change.qty, !.type = ModifiedType,
                                  !.duration = ModifiedDuration]
  <2>1. /\ i \in DOMAIN book /\ book[i] \in Orders /\ book \in Seq(Orders)
        /\ change.type = book[i].type /\ change.duration = book[i].duration
    <3>1. NoChange.step = "none"
      BY DEF NoChange
    <3>2. change # NoChange
      BY <3>1 DEF ModifyOrder
    <3>. QED  BY <3>2, Typed DEF Inv, ChangeInv
  <2>2. book' = [book EXCEPT ![i] = o]
    BY <1>2, <2>1 DEF ModifyOrder
  <2>3. o.type = ModifiedType /\ o.duration = ModifiedDuration
    BY <2>1 DEF Orders
  <2> HIDE DEF o
  <2>4. book'[i] = o /\ \A j \in DOMAIN book \ {i} : book'[j] = book[j]
    BY <2>1, <2>2
  <2>5. (book[i].type = "stop" => ModifiedType = "stop") /\ ModifiedDuration = book[i].duration
    BY <2>1 DEF ModifiedType, ModifiedDuration
  <2>. QED  BY <2>3, <2>4, <2>5 DEF Kept
<1>. QED  BY <1>1, <1>2

LEMMA KeptByStep == Inv /\ [Next]_vars => Kept
<1> SUFFICES ASSUME Inv, [Next]_vars PROVE Kept
  OBVIOUS
<1>1. CASE book' = book
  BY <1>1 DEF Kept
<1>2. CASE T212Accepted \/ PlaceOrder \/ LoseReply \/ SimFills
  BY <1>2, KeptWhenTaken DEF T212Accepted, PlaceOrder, LoseReply, SimFills, Accept
<1>3. CASE PlaceBracket
  <2>1. PICK x, y, z : book' = book \o <<x, y, z>>
    BY <1>3 DEF PlaceBracket
  <2>2. \A i \in DOMAIN book : book'[i] = book[i]
    BY <2>1, Typed
  <2>. QED  BY <2>2 DEF Kept
<1>4. CASE Fills \/ Cancelling \/ EndsUnfilled \/ LeavesListing
  BY <1>4, KeptByVenue
<1>5. CASE ModifyOrder
  BY <1>5, KeptByChange
<1>6. ASSUME NEW kind, Polling(kind)
      PROVE  book' = book
  BY <1>6 DEF Polling
<1>7. CASE T212Poll \/ T212Gone \/ AlpacaPoll \/ SaxoPoll \/ TimeIsUp
  BY <1>1, <1>6, <1>7 DEF T212Poll, T212Gone, AlpacaPoll, SaxoPoll, TimeIsUp
<1>8. CASE T212RoundsToZero \/ T212TooPrecise \/ T212NotOwned \/ T212GivesUp
           \/ PlaceRefused \/ SimRefuses \/ FailBefore \/ ModifyList \/ ResolveSymbol \/ UNCHANGED vars
  BY <1>1, <1>8 DEF T212RoundsToZero, T212TooPrecise, T212NotOwned, T212GivesUp, PlaceRefused,
     SimRefuses, FailBefore, ModifyList, ResolveSymbol, vars
<1>9. CASE \E q \in setting.quantities, side \in {"buy", "sell"} :
             \/ Call(side, "market", q)
             \/ setting.limits /\ Call(side, "limit", q)
  BY <1>1, <1>9 DEF Call
<1>. QED  BY <1>2, <1>3, <1>4, <1>5, <1>7, <1>8, <1>9 DEF Next, Sending

(* BR2-2, BR3-7: whatever sequence of orders, brackets and modifications,  *)
(* a stop stays a stop and a day order ends with the day.                  *)
THEOREM OrdersKeepTheirKind == Spec => OrdersStayWhatTheyAre
<1>1. Inv /\ [Next]_vars =>
        [\A i \in DOMAIN book :
           /\ book[i].type = "stop" => book'[i].type = "stop"
           /\ book'[i].duration = book[i].duration]_vars
  BY KeptByStep DEF Kept
<1>. QED  BY <1>1, AdaptersKeepInv, PTL DEF Spec, OrdersStayWhatTheyAre

-----------------------------------------------------------------------------
(* What the working sells hold back.  f is the function that Selling sums  *)
(* up with.                                                                *)
Part(o) == IF o.side = "sell" /\ Working(o) /\ ~o.leg THEN o.qty - o.filled ELSE 0
Sums(f, b, n) == f = [i \in 0..n |-> IF i = 0 THEN 0 ELSE f[i - 1] + Part(b[i])]
SellingOf(b) == LET Total[i \in 0..Len(b)] == IF i = 0 THEN 0 ELSE Total[i - 1] + Part(b[i])
                IN Total[Len(b)]

LEMMA SumsExist == ASSUME NEW b PROVE \A n \in Nat : \E f : Sums(f, b, n)
<1> DEFINE T == {n \in Nat : \E f : Sums(f, b, n)}
<1>1. 0 \in T
  <2>1. Sums([i \in 0..0 |-> 0], b, 0)
    BY DEF Sums
  <2>. QED  BY <2>1
<1>2. ASSUME NEW n \in Nat, n \in T
      PROVE  n + 1 \in T
  <2>1. PICK f : Sums(f, b, n)
    BY <1>2
  <2> DEFINE g == [i \in 0..n+1 |-> IF i = n + 1 THEN f[n] + Part(b[n + 1]) ELSE f[i]]
             h == [i \in 0..n+1 |-> IF i = 0 THEN 0 ELSE g[i - 1] + Part(b[i])]
  <2>2. ASSUME NEW i \in 0..n+1
        PROVE  g[i] = h[i]
    <3>1. CASE i = n + 1
      BY <3>1
    <3>2. CASE i # n + 1
      BY <3>2, <2>1 DEF Sums
    <3>. QED  BY <3>1, <3>2
  <2>3. Sums(g, b, n + 1)
    BY <2>2 DEF Sums
  <2>. QED  BY <2>3
<1> HIDE DEF T
<1>3. Nat \subseteq T
  BY <1>1, <1>2, Induction
<1>. QED  BY <1>3 DEF T

LEMMA SellingIsSums ==
    ASSUME NEW b, Len(b) \in Nat
    PROVE  \E f : Sums(f, b, Len(b)) /\ SellingOf(b) = f[Len(b)]
<1> DEFINE f[i \in 0..Len(b)] == IF i = 0 THEN 0 ELSE f[i - 1] + Part(b[i])
<1>1. f = CHOOSE g : g = [i \in 0..Len(b) |-> IF i = 0 THEN 0 ELSE g[i - 1] + Part(b[i])]
  OBVIOUS
<1>2. Sums(f, b, Len(b))
  BY <1>1, SumsExist DEF Sums
<1>3. SellingOf(b) = f[Len(b)]
  BY DEF SellingOf
<1> HIDE DEF f
<1>. QED  BY <1>2, <1>3

(* As long as no order holds shares back, the sum is zero.                 *)
LEMMA SumsNothing ==
    ASSUME NEW b, NEW n \in Nat, NEW m \in 0..n, NEW f, Sums(f, b, n),
           \A i \in 1..m : Part(b[i]) = 0
    PROVE  f[m] = 0
<1> DEFINE T == {i \in Nat : i <= m => f[i] = 0}
<1>1. 0 \in T
  BY DEF Sums
<1>2. ASSUME NEW i \in Nat, i \in T
      PROVE  i + 1 \in T
  BY <1>2 DEF Sums
<1> HIDE DEF T
<1>3. Nat \subseteq T
  BY <1>1, <1>2, Induction
<1>. QED  BY <1>3 DEF T

LEMMA SellsNothing ==
    ASSUME NEW b, Len(b) \in Nat, \A i \in 1..Len(b) : Part(b[i]) = 0
    PROVE  SellingOf(b) = 0
<1>1. PICK f : Sums(f, b, Len(b)) /\ SellingOf(b) = f[Len(b)]
  BY SellingIsSums
<1>. QED  BY <1>1, SumsNothing

LEMMA SellsOne ==
    ASSUME NEW b, NEW n \in Nat, Len(b) = n + 1, \A i \in 1..n : Part(b[i]) = 0,
           Part(b[n + 1]) \in Int
    PROVE  SellingOf(b) = Part(b[n + 1])
<1>1. PICK f : Sums(f, b, n + 1) /\ SellingOf(b) = f[n + 1]
  BY SellingIsSums
<1>2. f[n] = 0
  BY <1>1, SumsNothing
<1>3. f[n + 1] = f[n] + Part(b[n + 1])
  BY <1>1 DEF Sums
<1>. QED  BY <1>1, <1>2, <1>3

LEMMA SellingIs == Selling = SellingOf(book)
BY DEF Selling, SellingOf, Part

LEMMA SellingIsPrime == Selling' = SellingOf(book')
BY DEF Selling, SellingOf, Part, Working

-----------------------------------------------------------------------------
(* A refusal that names the most decimals the venue takes never brings the *)
(* precision below them, in the call or in what is learned for the next.   *)
PrecisionInv ==
    setting.names = "the most it takes" =>
      /\ learned >= setting.precision
      /\ call.step = "send" => call.precision >= setting.precision

(* A sell is cut to no less than the holding while nothing is bought.      *)
CutInv ==
    call.step = "send" /\ (\A i \in DOMAIN book : book[i].side = "sell") =>
      IF call.capped THEN call.qty >= held ELSE call.qty = call.asked

ExitInv == PrecisionInv /\ CutInv

(* The call is over, or polls.                                             *)
LEMMA ExitSent ==
    ASSUME ExitInv, call'.step # "send", UNCHANGED <<setting, learned>>
    PROVE  ExitInv'
BY DEF ExitInv, PrecisionInv, CutInv

(* The call has not moved.                                                 *)
LEMMA ExitStays ==
    ASSUME Inv, ExitInv, UNCHANGED <<setting, learned, call>>, DOMAIN book' = DOMAIN book,
           \A i \in DOMAIN book : book'[i].side = book[i].side,
           held' \in Int,
           (\A i \in DOMAIN book : book[i].side = "sell") => held' <= held
    PROVE  ExitInv'
<1>1. held \in Int /\ call.qty \in Nat
  BY Typed DEF Inv, Calls
<1>2. PrecisionInv'
  BY DEF ExitInv, PrecisionInv
<1>3. CutInv'
  <2> SUFFICES ASSUME call.step = "send", \A i \in DOMAIN book : book[i].side = "sell"
               PROVE  IF call.capped THEN call.qty >= held' ELSE call.qty = call.asked
    BY DEF CutInv
  <2>1. IF call.capped THEN call.qty >= held ELSE call.qty = call.asked
    BY DEF ExitInv, CutInv
  <2>2. held' <= held
    OBVIOUS
  <2>. QED  BY <1>1, <2>1, <2>2
<1>. QED  BY <1>2, <1>3 DEF ExitInv

LEMMA ExitCall ==
    ASSUME Inv, ExitInv, NEW side \in {"buy", "sell"}, NEW type \in {"market", "limit"},
           NEW qty \in setting.quantities, Call(side, type, qty)
    PROVE  ExitInv'
<1>1. /\ setting' = setting /\ learned' = learned
      /\ call' = [NoCall EXCEPT !.step = "send", !.side = side, !.type = type, !.asked = qty,
                  !.qty = qty, !.precision = IF learned <= DefaultPrecision THEN learned
                                             ELSE DefaultPrecision]
  BY DEF Call
<1>2. /\ call'.capped = FALSE /\ call'.qty = qty /\ call'.asked = qty
      /\ call'.precision = IF learned <= DefaultPrecision THEN learned ELSE DefaultPrecision
  BY <1>1 DEF NoCall
<1>3. /\ setting.precision \in 0..DefaultPrecision /\ DefaultPrecision \in Nat /\ learned \in Nat
  BY SettingTyped DEF Inv
<1>4. CutInv'
  BY <1>2 DEF CutInv
<1>5. learned >= setting.precision => call'.precision >= setting.precision
  BY <1>2, <1>3
<1>6. PrecisionInv'
  BY <1>1, <1>5 DEF ExitInv, PrecisionInv
<1>. QED  BY <1>4, <1>6 DEF ExitInv

LEMMA AnswerEnds ==
    ASSUME NEW kind, NEW n, Answer(kind, n)
    PROVE  call'.step # "send"
BY DEF Answer, NoCall

LEMMA ExitT212 ==
    ASSUME Inv, ExitInv, T212TooPrecise \/ T212NotOwned
    PROVE  ExitInv'
<1>0. /\ T212 /\ call.step = "send" /\ UNCHANGED <<setting, learned, book, held>>
  BY DEF T212TooPrecise, T212NotOwned, T212
<1>1. /\ call \in Calls /\ call.qty \in Nat /\ call.precision \in 0..DefaultPrecision
      /\ learned \in Nat /\ DefaultPrecision \in Nat /\ setting.precision \in 0..DefaultPrecision
  BY Typed, SettingTyped DEF Inv, Calls
<1>2. ASSUME NEW n, Answer("error", n)
      PROVE  ExitInv'
  BY <1>0, <1>2, AnswerEnds, ExitSent
<1>3. ASSUME NEW next \in Named, T212TooPrecise,
             Again([call EXCEPT !.precision = IF next < call.precision THEN next ELSE 0])
      PROVE  ExitInv'
  <2> DEFINE to == IF next < call.precision THEN next ELSE 0
  <2>1. call' = [[call EXCEPT !.precision = to] EXCEPT !.attempts = @ + 1]
    BY <1>3 DEF Again
  <2> HIDE DEF to
  <2>2. /\ call'.step = "send" /\ call'.precision = to /\ call'.qty = call.qty
        /\ call'.capped = call.capped /\ call'.asked = call.asked
    BY <1>0, <1>1, <2>1 DEF Calls
  <2>3. CutInv'
    BY <1>0, <2>2 DEF ExitInv, CutInv
  <2>0. setting.names = "the most it takes" => next = setting.precision
    BY <1>3 DEF Named
  <2>4. ASSUME next = setting.precision, call.precision >= setting.precision
        PROVE  to >= setting.precision
    <3>2. SendQty % Unit(call.precision) = 0
      BY <1>1, Rounding DEF SendQty
    <3>3. SendQty % Unit(setting.precision) # 0
      BY <1>3 DEF T212TooPrecise
    <3>4. call.precision # setting.precision
      BY <3>2, <3>3
    <3>1. next < call.precision
      BY <1>1, <2>4, <3>4
    <3>6. to = next
      BY <3>1 DEF to
    <3>. QED  BY <1>1, <2>4, <3>6
  <2>5. PrecisionInv'
    BY <1>0, <2>0, <2>2, <2>4 DEF ExitInv, PrecisionInv
  <2>. QED  BY <2>3, <2>5 DEF ExitInv
<1>4. CASE Again([call EXCEPT !.qty = held, !.capped = TRUE])
  <2>1. call' = [[call EXCEPT !.qty = held, !.capped = TRUE] EXCEPT !.attempts = @ + 1]
    BY <1>4 DEF Again
  <2>2. /\ call'.step = "send" /\ call'.precision = call.precision /\ call'.qty = held
        /\ call'.capped = TRUE
    BY <1>0, <1>1, <2>1 DEF Calls
  <2>3. held \in Int
    BY DEF Inv
  <2>4. CutInv'
    BY <1>0, <2>2, <2>3 DEF CutInv
  <2>5. PrecisionInv'
    BY <1>0, <2>2 DEF ExitInv, PrecisionInv
  <2>. QED  BY <2>4, <2>5 DEF ExitInv
<1>. QED  BY <1>2, <1>3, <1>4 DEF T212TooPrecise, T212NotOwned

LEMMA ExitSends ==
    ASSUME Inv, ExitInv, FailBefore \/ Sending \/ LoseReply
    PROVE  ExitInv'
<1>1. CASE T212Accepted
  BY <1>1, Typed DEF T212Accepted, T212, Calls, CutInv, ExitInv, PrecisionInv
<1>2. CASE T212TooPrecise \/ T212NotOwned
  BY <1>2, ExitT212
<1>3. CASE PlaceOrder \/ LoseReply \/ SimFills
  BY <1>3, Typed, ExitSent DEF PlaceOrder, LoseReply, SimFills, Calls, NoCall
<1>4. CASE T212RoundsToZero \/ T212GivesUp \/ PlaceRefused \/ SimRefuses \/ FailBefore
  BY <1>4, AnswerEnds, ExitSent DEF T212RoundsToZero, T212GivesUp, T212, PlaceRefused, SimRefuses, FailBefore
<1>. QED  BY <1>1, <1>2, <1>3, <1>4 DEF Sending

LEMMA ExitPolls ==
    ASSUME Inv, ExitInv, T212Poll \/ T212Gone \/ AlpacaPoll \/ SaxoPoll \/ TimeIsUp
    PROVE  ExitInv'
<1>1. call.step = "poll" /\ UNCHANGED <<setting, learned>>
  BY DEF T212Poll, T212Gone, AlpacaPoll, SaxoPoll, TimeIsUp, Polling
<1>2. call' = call \/ \E kind, n : Answer(kind, n)
  BY DEF T212Poll, T212Gone, AlpacaPoll, SaxoPoll, TimeIsUp
<1>3. call'.step # "send"
  BY <1>1, <1>2, AnswerEnds
<1>. QED  BY <1>1, <1>3, ExitSent

LEMMA ExitVenue ==
    ASSUME Inv, ExitInv, Fills \/ Cancelling \/ EndsUnfilled \/ LeavesListing
    PROVE  ExitInv'
<1>1. book \in Seq(Orders) /\ (\A i \in DOMAIN book : book[i] \in Orders) /\ held \in Int
  BY Typed DEF Inv
<1>2. CASE Fills
  <2>1. PICK i \in DOMAIN book : \E n \in {1, book[i].qty - book[i].filled} :
           /\ Working(book[i])
           /\ book' = [book EXCEPT ![i].filled = @ + n,
                      ![i].status = IF book[i].filled + n = book[i].qty THEN "filled" ELSE @]
           /\ held' = IF book[i].side = "buy" THEN held + n ELSE held - n
           /\ UNCHANGED <<setting, call, learned>>
    BY <1>2 DEF Fills
  <2>2. PICK n \in {1, book[i].qty - book[i].filled} :
           /\ Working(book[i])
           /\ book' = [book EXCEPT ![i].filled = @ + n,
                      ![i].status = IF book[i].filled + n = book[i].qty THEN "filled" ELSE @]
           /\ held' = IF book[i].side = "buy" THEN held + n ELSE held - n
           /\ UNCHANGED <<setting, call, learned>>
    BY <2>1
  <2> DEFINE m  == book[i].filled + n
             st == IF book[i].filled + n = book[i].qty THEN "filled" ELSE book[i].status
  <2>3. book' = [book EXCEPT ![i].filled = m, ![i].status = st]
    BY <1>1, <2>2
  <2> HIDE DEF m, st
  <2>4. DOMAIN book' = DOMAIN book /\ \A j \in DOMAIN book : book'[j].side = book[j].side
    BY <1>1, <2>3 DEF Orders
  <2>5. n \in Nat
    BY Typed, <2>2 DEF Orders, Sound
  <2>6. held' \in Int /\ ((\A j \in DOMAIN book : book[j].side = "sell") => held' <= held)
    BY <1>1, <2>2, <2>5
  <2>. QED  BY <2>2, <2>4, <2>6, ExitStays
<1>3. CASE Cancelling \/ EndsUnfilled \/ LeavesListing
  <2>1. /\ UNCHANGED <<setting, learned, call>> /\ held' = held
        /\ \E i \in DOMAIN book : \/ \E st : book' = [book EXCEPT ![i].status = st]
                                  \/ book' = [book EXCEPT ![i].listed = FALSE]
    BY <1>3 DEF Cancelling, EndsUnfilled, LeavesListing
  <2>2. DOMAIN book' = DOMAIN book /\ \A j \in DOMAIN book : book'[j].side = book[j].side
    <3>1. PICK i \in DOMAIN book : \/ \E st : book' = [book EXCEPT ![i].status = st]
                                   \/ book' = [book EXCEPT ![i].listed = FALSE]
      BY <2>1
    <3>2. CASE \E st : book' = [book EXCEPT ![i].status = st]
      BY <1>1, <3>2 DEF Orders
    <3>3. CASE book' = [book EXCEPT ![i].listed = FALSE]
      BY <1>1, <3>3 DEF Orders
    <3>. QED  BY <3>1, <3>2, <3>3
  <2>3. held' <= held
    BY <1>1, <2>1
  <2>. QED  BY <1>1, <2>1, <2>2, <2>3, ExitStays
<1>. QED  BY <1>2, <1>3

LEMMA ExitStep == Inv /\ ExitInv /\ [Next]_vars => ExitInv'
<1> SUFFICES ASSUME Inv, ExitInv, [Next]_vars PROVE ExitInv'
  OBVIOUS
<1>1. CASE \E q \in setting.quantities, side \in {"buy", "sell"} :
             \/ Call(side, "market", q)
             \/ setting.limits /\ Call(side, "limit", q)
  BY <1>1, ExitCall
<1>2. CASE FailBefore \/ Sending \/ LoseReply
  BY <1>2, ExitSends
<1>3. CASE T212Poll \/ T212Gone \/ AlpacaPoll \/ SaxoPoll \/ TimeIsUp
  BY <1>3, ExitPolls
<1>4. CASE Fills \/ Cancelling \/ EndsUnfilled \/ LeavesListing
  BY <1>4, ExitVenue
<1>5. CASE PlaceBracket \/ ModifyOrder
  <2>1. call.step = "none" /\ UNCHANGED <<setting, learned, call>>
    <3>1. CASE PlaceBracket
      BY <3>1 DEF PlaceBracket
    <3>2. CASE ModifyOrder
      <4>1. NoChange.step = "none"
        BY DEF NoChange
      <4>2. change # NoChange
        BY <3>2, <4>1 DEF ModifyOrder
      <4>. QED  BY <3>2, <4>2 DEF ModifyOrder, Inv, ChangeInv
    <3>. QED  BY <1>5, <3>1, <3>2
  <2>2. call'.step # "send"
    BY <2>1
  <2>. QED  BY <2>1, <2>2, ExitSent
<1>6. CASE ModifyList \/ ResolveSymbol \/ UNCHANGED vars
  BY <1>6, ExitStays DEF ModifyList, ResolveSymbol, vars, Inv
<1>. QED  BY <1>1, <1>2, <1>3, <1>4, <1>5, <1>6 DEF Next

LEMMA InitExit == Init => ExitInv
<1> SUFFICES ASSUME Init PROVE ExitInv
  OBVIOUS
<1>1. setting \in Environments /\ call = NoCall /\ learned = DefaultPrecision + 1
  BY DEF Init
<1>2. call.step = "none"
  BY <1>1 DEF NoCall
<1>3. learned >= setting.precision
  BY <1>1, SettingTyped
<1>. QED  BY <1>2, <1>3 DEF ExitInv, PrecisionInv, CutInv

-----------------------------------------------------------------------------
(* The sell that Trading 212 takes is rounded down once, at a precision    *)
(* not below the venue's, from the quantity asked for or from the holding. *)
LEMMA SellLeavesLittle ==
    ASSUME Inv, ExitInv, SellsTheHolding
    PROVE  Sellable' < Unit(setting.precision)
<1>1. /\ T212Accepted /\ setting.names = "the most it takes" /\ call.side = "sell"
      /\ call.asked >= Sellable
      /\ \A i \in DOMAIN book : book[i].side = "sell" /\ ~Working(book[i])
  BY DEF SellsTheHolding
<1>2. /\ call.step = "send" /\ SendQty > 0 /\ Taken(SendQty) /\ Accept(SendQty)
  BY <1>1 DEF T212Accepted, T212
<1>3. /\ call.qty \in Nat /\ call.asked \in Nat /\ call.precision \in 0..DefaultPrecision
      /\ setting.precision \in 0..DefaultPrecision /\ held \in Int
      /\ Len(book) \in Nat /\ DOMAIN book = 1..Len(book) /\ book \in Seq(Orders)
  BY Typed, SettingTyped DEF Inv, Calls
<1>4. \A i \in 1..Len(book) : Part(book[i]) = 0
  BY <1>1, <1>3 DEF Part
<1>5. Sellable = held
  BY <1>3, <1>4, SellingIs, SellsNothing DEF Sellable
<1>6. SendQty \in 1..call.qty /\ call.qty - SendQty < Unit(call.precision)
  <2>1. SendQty = RoundDown(call.qty, call.precision)
    BY DEF SendQty
  <2>2. SendQty \in 0..call.qty /\ call.qty - SendQty < Unit(call.precision)
    BY <1>3, <2>1, Rounding
  <2>. QED  BY <1>2, <1>3, <2>2
<1>7. call.qty >= held
  BY <1>1, <1>2, <1>3, <1>5 DEF ExitInv, CutInv
<1>8. Unit(call.precision) <= Unit(setting.precision)
  <2>1. call.precision >= setting.precision
    BY <1>1, <1>2 DEF ExitInv, PrecisionInv
  <2>2. setting.precision \in 0..call.precision
    BY <1>3, <2>1
  <2>. QED  BY <1>3, <2>2, Units
<1> DEFINE o == NewOrder(SendQty, call.type)
<1>9. Part(o) = SendQty
  <2>0. SendQty \in Nat \ {0}
    BY <1>3, <1>6
  <2>1. /\ o.side = "sell" /\ Working(o) /\ ~o.leg /\ o.qty = SendQty /\ o.filled = 0
    BY <1>1, <2>0, NewOrderSound, CallType
  <2> HIDE DEF o
  <2>. QED  BY <1>3, <1>6, <2>1 DEF Part
<1>10. book' = Append(book, o) /\ held' = held
  BY <1>2 DEF Accept
<1> HIDE DEF o
<1>11. /\ Len(book') = Len(book) + 1 /\ book'[Len(book) + 1] = o
       /\ \A i \in 1..Len(book) : book'[i] = book[i]
  BY <1>3, <1>10
<1>12. SellingOf(book') = SendQty
  <2>1. Part(book'[Len(book) + 1]) = SendQty
    BY <1>9, <1>11
  <2>2. \A i \in 1..Len(book) : Part(book'[i]) = 0
    BY <1>4, <1>11
  <2>3. SendQty \in Int
    BY <1>6
  <2>. QED  BY <1>3, <1>11, <2>1, <2>2, <2>3, SellsOne
<1>13. Sellable' = held - SendQty
  BY <1>10, <1>12, SellingIsPrime DEF Sellable
<1>14. Unit(call.precision) \in Nat /\ Unit(setting.precision) \in Nat
  BY <1>3, Units
<1>. QED  BY <1>3, <1>6, <1>7, <1>8, <1>13, <1>14

(* BR2-1: when Trading 212 names the precision it takes, the exit of a     *)
(* position leaves less than one unit of it, however often the order was   *)
(* refused, cut to the holding and sent again.                             *)
THEOREM ExitsLeaveNothing == Spec => ExitLeavesNothing
<1>1. Init => ExitInv
  BY InitExit
<1>2. Inv /\ ExitInv /\ [Next]_vars => ExitInv'
  BY ExitStep
<1>3. Spec => [](Inv /\ ExitInv)
  BY <1>1, <1>2, AdaptersKeepInv, PTL DEF Spec
<1>4. Inv /\ ExitInv /\ [Next]_vars =>
        [SellsTheHolding => Sellable' < Unit(setting.precision)]_vars
  BY SellLeavesLittle
<1>. QED  BY <1>3, <1>4, PTL DEF Spec, ExitLeavesNothing
=============================================================================
