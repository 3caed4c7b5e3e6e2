--------------------------- MODULE ServicesProofs ---------------------------
(***************************************************************************)
(* Proofs about the services the trading engine calls on, each from an     *)
(* inductive invariant of its own: alerts are counted and halts go first,  *)
(* and what keeps an order from going out is told once (OperatorHears); a  *)
(* symbol has one request at a time and its model is refitted in time,     *)
(* labels settle, the hours of a cached schedule are the venue's           *)
(* (LearnedIsKept); a cooldown stops the retry storm, all of a symbol's    *)
(* prices are on one scale and its series is whole (PricesAreKept).        *)
(***************************************************************************)
EXTENDS Services, Sequences, TLAPS, FiniteSetTheorems, SequenceTheorems, WellFoundedInduction

(* A step of the whole is a step of each part, or leaves the part alone. *)
LEMMA PartsStep ==
    ASSUME [Next]_vars
    PROVE  /\ [N!Next]_nvars /\ [A!Next]_avars /\ [H!Next]_hvars /\ [B!Next]_bvars
           /\ [T!Next]_tvars /\ [C!Next]_cvars /\ [L!Next]_lvars
BY DEF Next, vars, older, newer

(* A set of naturals has a least element. *)
LEMMA Least ==
    ASSUME NEW X, X \subseteq Nat, X # {}
    PROVE  \E x \in X : \A y \in X : x <= y
<1>. DEFINE R == {pair \in Nat \X Nat : pair[1] < pair[2]}
<1>1. IsWellFoundedOn(R, Nat)
  BY NatLessThanWellFounded DEF OpToRel
<1>2. \E x \in X : \A y \in X : <<y, x>> \notin R
  <2>. HIDE DEF R
  <2>. QED  BY <1>1, WFMin
<1>3. ASSUME NEW x \in X, NEW y \in X, <<y, x>> \notin R
      PROVE  x <= y
  BY <1>3
<1>. QED  BY <1>2, <1>3

-----------------------------------------------------------------------------
(* Announcements.  What was told of the condition that stands is           *)
(* remembered where the next telling of it looks, or the path is barred.   *)

Masked(c) == <<c, "#">>

Remembered(p, c) ==
    \/ p = "entry" /\ c \in T!Refusals /\ blockedOnce["entry"] = Masked(c)
    \/ p = "entry" /\ c = "off" /\ blockedOnce["entry dry"] = Masked(c)
    \/ p = "exit" /\ c = "off" /\ blockedOnce["exit dry"] = Masked(c)
    \/ p = "add" /\ c \in {"protected", "venue", "guard", "cap"} /\ blockedOnce["add"] = Masked(c)
    \/ p = "add" /\ c = "rejected" /\ backedOff
    \/ p # "exit" /\ c = "banned" /\ untradeable
    \/ c = "fails" /\ lastOrderErr = T!Failure(p, c)
    \/ p = "exit" /\ c = "rejected" /\ lastOrderErr = T!Failure(p, c)

(* What ToldOnce leaves out. *)
Excepted(p) ==
    \/ T!Crossed(p)
    \/ p = "entry" /\ world[p] = "protected"
    \/ p = "add" /\ world[p] = "off"

Conditions == {"closed", "protected", "venue", "sizing", "guard", "cap", "off",
               "fails", "banned", "rejected", "fills"}

NewsShape ==
    /\ scene \in [T!Paths -> SUBSET Conditions] /\ world \in [T!Paths -> Conditions]
    /\ \A p \in T!Paths : world[p] \in scene[p]
    /\ told \in [T!Paths -> 0..2] /\ untradeable \in BOOLEAN /\ backedOff \in BOOLEAN
    /\ blockedOnce = [k \in T!Keys |-> blockedOnce[k]] /\ heard = [k \in T!Accounts |-> heard[k]]

KeysOf(p) ==
    IF p = "entry" THEN {"entry", "entry dry"} ELSE IF p = "exit" THEN {"exit dry"} ELSE {"add"}

(* What is known of the telling of path p's condition. *)
Settled(p) == Excepted(p) \/ told[p] = 0 \/ (told[p] = 1 /\ Remembered(p, world[p]))

NewsInv == NewsShape /\ T!NewsIsTold /\ \A p \in T!Paths : Settled(p)

(* What every evaluation of path p leaves alone. *)
SpeaksFor(p) ==
    /\ scene' = scene /\ world' = world
    /\ \A q \in T!Paths \ {p} : told'[q] = told[q]
    /\ \A k \in T!Keys \ KeysOf(p) : blockedOnce'[k] = blockedOnce[k]
    /\ p # "add" => backedOff' = backedOff
    /\ untradeable => untradeable'
    /\ world[p] \in T!Unspoken(p) => lastOrderErr' = lastOrderErr

LEMMA OthersKeep ==
    ASSUME NewsShape, NEW p \in T!Paths, NEW q \in T!Paths \ {p}, SpeaksFor(p), Settled(q)
    PROVE  Settled(q)'
<1>1. Excepted(q)' <=> Excepted(q)
  BY DEF Excepted, SpeaksFor, T!Crossed
<1>2. told'[q] = told[q] /\ world'[q] = world[q]
  BY DEF SpeaksFor
<1>3. ASSUME ~Excepted(q), Remembered(q, world[q])
      PROVE  Remembered(q, world[q])'
  <2>1. CASE world[q] \in T!Failing
    <3>1. scene[p] \subseteq T!Unspoken(p)
      BY <1>3, <2>1 DEF NewsShape, Excepted, T!Crossed
    <3>2. lastOrderErr' = lastOrderErr
      BY <3>1 DEF NewsShape, SpeaksFor
    <3>. QED  BY <1>2, <1>3, <2>1, <3>2 DEF Remembered, SpeaksFor, T!Failing, T!Failure, T!Refusals,
                T!Keys, KeysOf, T!Paths
  <2>2. CASE world[q] \notin T!Failing
    BY <1>2, <1>3, <2>2 DEF Remembered, SpeaksFor, T!Failing, T!Refusals, Masked, T!Keys, KeysOf, T!Paths
  <2>. QED  BY <2>1, <2>2
<1>. QED  BY <1>1, <1>2, <1>3 DEF Settled

(* Saying: what is told is heard, and told once more. *)
LEMMA SayDoes ==
    ASSUME NewsShape, NEW p \in T!Paths, NEW key \in T!Accounts, NEW c, T!Say(p, key, c)
    PROVE  /\ told' \in [T!Paths -> 0..2] /\ heard' = [k \in T!Accounts |-> heard'[k]]
           /\ \A q \in T!Paths \ {p} : told'[q] = told[q]
           /\ told[p] = 0 => told'[p] = 1
           /\ heard'[key] = c /\ \A k \in T!Accounts \ {key} : heard'[k] = heard[k]
BY DEF NewsShape, T!Say

(* What recordOnce and alert leave behind. *)
Recorded(p, key, c, cleared, dry) ==
    /\ told' \in [T!Paths -> 0..2] /\ heard' = [k \in T!Accounts |-> heard'[k]]
    /\ \A q \in T!Paths \ {p} : told'[q] = told[q]
    /\ told[p] = 0 => told'[p] \in {0, 1}
    /\ key \notin cleared /\ blockedOnce[key] = Masked(c) => told' = told
    /\ blockedOnce' = [k \in T!Keys |-> blockedOnce'[k]] /\ blockedOnce'[key] = Masked(c)
    /\ \A k \in T!Keys \ (cleared \cup {key}) : blockedOnce'[k] = blockedOnce[k]
    /\ dry => lastOrderErr' = lastOrderErr
    /\ T!NewsIsTold'

Announced(p, f, keys) ==
    /\ told' \in [T!Paths -> 0..2] /\ heard' = [k \in T!Accounts |-> heard'[k]]
    /\ \A q \in T!Paths \ {p} : told'[q] = told[q]
    /\ told[p] = 0 => told'[p] \in {0, 1}
    /\ lastOrderErr = f => told' = told
    /\ lastOrderErr' = f
    /\ blockedOnce' = [k \in T!Keys |-> blockedOnce'[k]]
    /\ \A k \in T!Keys \ keys : blockedOnce'[k] = blockedOnce[k]
    /\ T!NewsIsTold'

(* recordOnce: what was said of key is remembered, the cleared keys are    *)
(* forgotten, and a repeat is silent. *)
LEMMA RecordDoes ==
    ASSUME NewsShape, T!NewsIsTold, NEW p \in T!Paths, NEW key \in T!Keys, NEW c \in Conditions,
           NEW figure, NEW cleared \in SUBSET T!Keys, NEW dry \in BOOLEAN,
           T!RecordOnce(p, key, T!Reason(c, figure), cleared, dry)
    PROVE  Recorded(p, key, c, cleared, dry)
<1>1. /\ blockedOnce' = [k \in T!Keys |-> blockedOnce'[k]] /\ blockedOnce'[key] = Masked(c)
      /\ \A k \in T!Keys \ (cleared \cup {key}) : blockedOnce'[k] = blockedOnce[k]
      /\ \A k \in cleared \ {key} : blockedOnce'[k] = T!Unsaid
  BY DEF T!RecordOnce, T!Reason, T!ReasonFamily, Masked
<1>2. T!ReasonFamily(T!Reason(c, figure)) = Masked(c) /\ Masked(c) # T!Unsaid
  BY DEF T!ReasonFamily, T!Reason, Masked, T!Unsaid
<1>3. T!Keys \subseteq T!Accounts /\ "failure" \in T!Accounts \ T!Keys
  BY DEF T!Keys, T!Accounts
<1>4. CASE key \notin cleared /\ blockedOnce[key] = Masked(c)
  BY <1>2, <1>4, <1>1 DEF T!RecordOnce, T!Silent, T!NewsIsTold, NewsShape, Recorded
<1>5. CASE key \in cleared \/ blockedOnce[key] # Masked(c)
  BY <1>2, <1>5, <1>3, SayDoes, <1>1 DEF T!RecordOnce, T!Blocked, T!NewsIsTold, Recorded
<1>. QED  BY <1>4, <1>5

(* A failure is announced unless it was the last one. *)
LEMMA AnnounceDoes ==
    ASSUME NewsShape, T!NewsIsTold, NEW p \in T!Paths, NEW f, T!Announce(p, f), NEW keys, T!Forget(keys)
    PROVE  Announced(p, f, keys)
<1>1. /\ blockedOnce' = [k \in T!Keys |-> blockedOnce'[k]]
      /\ \A k \in T!Keys : blockedOnce'[k] = IF k \in keys THEN T!Unsaid ELSE blockedOnce[k]
  BY DEF T!Forget
<1>2. T!Keys \subseteq T!Accounts /\ "failure" \in T!Accounts \ T!Keys
  BY DEF T!Keys, T!Accounts
<1>3. CASE lastOrderErr = f
  BY <1>1, <1>3 DEF T!Announce, T!Silent, T!NewsIsTold, NewsShape, Announced
<1>4. CASE lastOrderErr # f
  BY <1>4, <1>2, SayDoes, <1>1 DEF T!Announce, T!NewsIsTold, Announced
<1>. QED  BY <1>3, <1>4

(* Nothing is said, some keys are forgotten. *)
LEMMA ForgetDoes ==
    ASSUME NewsShape, T!NewsIsTold, NEW keys, T!Forget(keys), T!Silent,
           lastOrderErr' \in {lastOrderErr, T!Unsaid}
    PROVE  /\ told' = told /\ heard' = heard
           /\ blockedOnce' = [k \in T!Keys |-> blockedOnce'[k]]
           /\ \A k \in T!Keys \ keys : blockedOnce'[k] = blockedOnce[k]
           /\ T!NewsIsTold'
BY DEF T!Forget, T!Silent, T!NewsIsTold, NewsShape

(* What an evaluation of path p has to show. *)
PathKeeps(p) ==
    /\ SpeaksFor(p)
    /\ told' \in [T!Paths -> 0..2] /\ heard' = [k \in T!Accounts |-> heard'[k]]
    /\ blockedOnce' = [k \in T!Keys |-> blockedOnce'[k]]
    /\ untradeable' \in BOOLEAN /\ backedOff' \in BOOLEAN
    /\ T!NewsIsTold'
    /\ \/ told'[p] = told[p] /\ (~Excepted(p) /\ Remembered(p, world[p]) => Remembered(p, world[p])')
       \/ told[p] = 0 /\ told'[p] \in {0, 1} /\ Remembered(p, world[p])'
       \/ Excepted(p)

LEMMA PathStep ==
    ASSUME NewsInv, NEW p \in T!Paths, PathKeeps(p)
    PROVE  NewsInv'
<1>1. NewsShape'
  BY DEF NewsInv, NewsShape, PathKeeps, SpeaksFor
<1>2. ASSUME NEW q \in T!Paths \ {p}
      PROVE  Settled(q)'
  BY OthersKeep DEF NewsInv, PathKeeps
<1>3. Settled(p)'
  BY DEF PathKeeps, SpeaksFor, Excepted, T!Crossed, NewsInv, Settled
<1>. QED  BY <1>1, <1>2, <1>3 DEF NewsInv, PathKeeps

LEMMA EntryStep ==
    ASSUME NewsInv, NEW figure, T!Entry(figure), UNCHANGED <<scene, world>>
    PROVE  NewsInv'
<1> DEFINE c == world["entry"]
<1>0. /\ NewsShape /\ T!NewsIsTold /\ Settled("entry") /\ c \in Conditions /\ "entry" \in T!Paths
      /\ untradeable = FALSE /\ backedOff' = backedOff
  BY DEF NewsInv, NewsShape, T!Paths, T!Entry
<1>1. CASE c = "protected"
  <2>1. /\ T!Say("entry", "protections", T!Reason(c, figure)) /\ lastOrderErr' = T!Unsaid
        /\ UNCHANGED <<blockedOnce, untradeable>>
    BY <1>0, <1>1 DEF T!Entry, T!Blocked, T!Refusals
  <2>2. "protections" \in T!Accounts \ (T!Keys \cup {"failure"})
    BY DEF T!Accounts, T!Keys
  <2>3. /\ told' \in [T!Paths -> 0..2] /\ heard' = [k \in T!Accounts |-> heard'[k]]
        /\ \A q \in T!Paths \ {"entry"} : told'[q] = told[q]
        /\ \A k \in T!Accounts \ {"protections"} : heard'[k] = heard[k]
    BY <1>0, <2>1, <2>2, SayDoes
  <2>4. T!NewsIsTold'
    BY <1>0, <2>1, <2>2, <2>3 DEF T!Accounts, T!Keys, T!NewsIsTold
  <2>5. PathKeeps("entry")
    BY <1>0, <1>1, <2>1, <2>3, <2>4 DEF PathKeeps, SpeaksFor, T!Unspoken, Excepted, NewsShape
  <2>. QED  BY <1>0, <2>5, PathStep
<1>2. CASE c \in T!Refusals
  <2>1. T!RecordOnce("entry", "entry", T!Reason(c, figure), {}, FALSE) /\ UNCHANGED untradeable
    BY <1>0, <1>2 DEF T!Entry, T!Refusals
  <2>2. Recorded("entry", "entry", c, {}, FALSE)
    BY <1>0, <2>1, RecordDoes DEF T!Keys
  <2>3. PathKeeps("entry")
    BY <1>0, <1>2, <2>1, <2>2
       DEF PathKeeps, SpeaksFor, T!Unspoken, T!Refusals, Remembered, T!Keys, KeysOf, NewsShape, Settled, Recorded
  <2>. QED  BY <1>0, <2>3, PathStep
<1>3. CASE c = "off"
  <2>1. T!RecordOnce("entry", "entry dry", T!Reason(c, figure), {"entry"}, TRUE) /\ UNCHANGED untradeable
    BY <1>0, <1>3 DEF T!Entry, T!Refusals
  <2>2. Recorded("entry", "entry dry", c, {"entry"}, TRUE)
    BY <1>0, <2>1, RecordDoes DEF T!Keys
  <2>3. PathKeeps("entry")
    BY <1>0, <1>3, <2>1, <2>2
       DEF PathKeeps, SpeaksFor, T!Unspoken, T!Refusals, Remembered, T!Keys, KeysOf, NewsShape, Settled, Recorded
  <2>. QED  BY <1>0, <2>3, PathStep
<1>4. CASE c \in {"fails", "banned"}
  <2>1. /\ T!Forget({"entry", "entry dry"}) /\ T!Announce("entry", T!Failure("entry", c))
        /\ untradeable' = (c = "banned")
    BY <1>0, <1>4 DEF T!Entry, T!Fail, T!Refusals
  <2>2. Announced("entry", T!Failure("entry", c), {"entry", "entry dry"})
    BY <1>0, <2>1, AnnounceDoes
  <2>3. PathKeeps("entry")
    BY <1>0, <1>4, <2>1, <2>2
       DEF PathKeeps, SpeaksFor, T!Unspoken, T!Refusals, Remembered, T!Keys, KeysOf, NewsShape, Settled, T!Failure, Announced
  <2>. QED  BY <1>0, <2>3, PathStep
<1>5. CASE c \in {"rejected", "fills"}
  <2>1. /\ T!Forget({"entry", "entry dry"}) /\ T!Silent /\ untradeable' = untradeable
        /\ lastOrderErr' \in {lastOrderErr, T!Unsaid}
    BY <1>0, <1>5 DEF T!Entry, T!Refusals
  <2>2. PathKeeps("entry")
    BY <1>0, <1>5, <2>1, ForgetDoes
       DEF PathKeeps, SpeaksFor, T!Unspoken, T!Refusals, Remembered, T!Keys, KeysOf, NewsShape, Settled
  <2>. QED  BY <1>0, <2>2, PathStep
<1>. QED  BY <1>0, <1>1, <1>2, <1>3, <1>4, <1>5 DEF T!Entry

LEMMA ExitStep ==
    ASSUME NewsInv, T!Exit, UNCHANGED <<scene, world>>
    PROVE  NewsInv'
<1> DEFINE c == world["exit"]
<1>0. /\ NewsShape /\ T!NewsIsTold /\ Settled("exit") /\ c \in Conditions /\ "exit" \in T!Paths
      /\ untradeable' = untradeable /\ backedOff' = backedOff
  BY DEF NewsInv, NewsShape, T!Paths, T!Exit
<1>1. CASE c = "off"
  <2>1. T!RecordOnce("exit", "exit dry", T!Reason(c, "1"), {}, TRUE)
    BY <1>0, <1>1 DEF T!Exit
  <2>2. Recorded("exit", "exit dry", c, {}, TRUE)
    BY <1>0, <2>1, RecordDoes DEF T!Keys
  <2>3. PathKeeps("exit")
    BY <1>0, <1>1, <2>1, <2>2
       DEF PathKeeps, SpeaksFor, T!Unspoken, T!Refusals, Remembered, T!Keys, KeysOf, NewsShape, Settled, Recorded
  <2>. QED  BY <1>0, <2>3, PathStep
<1>2. CASE c \in {"fails", "rejected"}
  <2>1. T!Forget({"exit dry"}) /\ T!Announce("exit", T!Failure("exit", c))
    BY <1>0, <1>2 DEF T!Exit
  <2>2. Announced("exit", T!Failure("exit", c), {"exit dry"})
    BY <1>0, <2>1, AnnounceDoes
  <2>3. PathKeeps("exit")
    BY <1>0, <1>2, <2>1, <2>2
       DEF PathKeeps, SpeaksFor, T!Unspoken, T!Refusals, Remembered, T!Keys, KeysOf, NewsShape, Settled, T!Failure, Announced
  <2>. QED  BY <1>0, <2>3, PathStep
<1>3. CASE c = "fills"
  <2>1. T!Forget({"exit dry"}) /\ T!Silent /\ lastOrderErr' = T!Unsaid
    BY <1>0, <1>3 DEF T!Exit
  <2>2. PathKeeps("exit")
    BY <1>0, <1>3, <2>1, ForgetDoes
       DEF PathKeeps, SpeaksFor, T!Unspoken, T!Refusals, Remembered, T!Keys, KeysOf, NewsShape, Settled
  <2>. QED  BY <1>0, <2>2, PathStep
<1>. QED  BY <1>0, <1>1, <1>2, <1>3 DEF T!Exit

LEMMA AddStep ==
    ASSUME NewsInv, NEW figure, T!Add(figure), UNCHANGED <<scene, world>>
    PROVE  NewsInv'
<1> DEFINE c == world["add"]
<1>0. /\ NewsShape /\ T!NewsIsTold /\ Settled("add") /\ c \in Conditions /\ "add" \in T!Paths
      /\ untradeable = FALSE /\ backedOff = FALSE /\ backedOff' = (c = "rejected")
  BY DEF NewsInv, NewsShape, T!Paths, T!Add
<1>1. CASE c \in {"protected", "venue", "guard", "cap", "rejected"}
  <2>1. T!RecordOnce("add", "add", T!Reason(c, figure), T!AddClears(c), FALSE) /\ UNCHANGED untradeable
    BY <1>0, <1>1 DEF T!Add
  <2>2. T!AddClears(c) \in SUBSET {"add"} /\ (c # "rejected" => T!AddClears(c) = {})
    BY <1>1 DEF T!AddClears
  <2>3. Recorded("add", "add", c, T!AddClears(c), FALSE)
    BY <2>2, <1>0, <2>1, RecordDoes DEF T!Keys
  <2>4. PathKeeps("add")
    BY <1>0, <1>1, <2>1, <2>2, <2>3
       DEF PathKeeps, SpeaksFor, T!Unspoken, T!Refusals, Remembered, T!Keys, KeysOf, NewsShape, Settled, Recorded
  <2>. QED  BY <1>0, <2>4, PathStep
<1>2. CASE c = "sizing"
  <2>1. T!Silent /\ UNCHANGED <<blockedOnce, lastOrderErr, untradeable>>
    BY <1>0, <1>2 DEF T!Add
  <2>2. PathKeeps("add")
    BY <1>0, <1>2, <2>1
       DEF PathKeeps, SpeaksFor, T!Unspoken, T!Silent, Remembered, T!Keys, KeysOf, NewsShape, Settled, T!NewsIsTold
  <2>. QED  BY <1>0, <2>2, PathStep
<1>3. CASE c = "off"
  <2>1. T!Say("add", "add dry", T!Reason(c, figure)) /\ UNCHANGED <<blockedOnce, lastOrderErr, untradeable>>
    BY <1>0, <1>3 DEF T!Add
  <2>2. "add dry" \in T!Accounts \ (T!Keys \cup {"failure"})
    BY DEF T!Accounts, T!Keys
  <2>3. /\ told' \in [T!Paths -> 0..2] /\ heard' = [k \in T!Accounts |-> heard'[k]]
        /\ \A q \in T!Paths \ {"add"} : told'[q] = told[q]
        /\ \A k \in T!Accounts \ {"add dry"} : heard'[k] = heard[k]
    BY <1>0, <2>1, <2>2, SayDoes
  <2>4. T!NewsIsTold'
    BY <1>0, <2>1, <2>2, <2>3 DEF T!Accounts, T!Keys, T!NewsIsTold
  <2>5. PathKeeps("add")
    BY <1>0, <1>3, <2>1, <2>3, <2>4 DEF PathKeeps, SpeaksFor, T!Unspoken, Excepted, NewsShape
  <2>. QED  BY <1>0, <2>5, PathStep
<1>4. CASE c \in {"fails", "banned"}
  <2>1. T!Forget({}) /\ T!Announce("add", T!Failure("add", c)) /\ untradeable' = (c = "banned")
    BY <1>0, <1>4 DEF T!Add, T!Fail
  <2>2. Announced("add", T!Failure("add", c), {})
    BY <1>0, <2>1, AnnounceDoes
  <2>3. PathKeeps("add")
    BY <1>0, <1>4, <2>1, <2>2
       DEF PathKeeps, SpeaksFor, T!Unspoken, T!Refusals, Remembered, T!Keys, KeysOf, NewsShape, Settled, T!Failure, Announced
  <2>. QED  BY <1>0, <2>3, PathStep
<1>5. CASE c = "fills"
  <2>1. /\ T!Forget({"add"}) /\ T!Silent /\ lastOrderErr' = T!Unsaid /\ untradeable' = untradeable
    BY <1>0, <1>5 DEF T!Add, T!AddClears
  <2>2. PathKeeps("add")
    BY <1>0, <1>5, <2>1, ForgetDoes
       DEF PathKeeps, SpeaksFor, T!Unspoken, T!Refusals, Remembered, T!Keys, KeysOf, NewsShape, Settled
  <2>. QED  BY <1>0, <2>2, PathStep
<1>. QED  BY <1>0, <1>1, <1>2, <1>3, <1>4, <1>5 DEF T!Add

LEMMA BackoffStep ==
    ASSUME NewsInv, T!BackoffElapses
    PROVE  NewsInv'
<1>0. /\ NewsShape /\ T!NewsIsTold /\ \A p \in T!Paths : Settled(p)
      /\ told' = [told EXCEPT !["add"] = 0] /\ backedOff' = FALSE
      /\ UNCHANGED <<scene, world, blockedOnce, lastOrderErr, untradeable, heard>>
  BY DEF NewsInv, T!BackoffElapses
<1>1. NewsShape' /\ T!NewsIsTold'
  <2>1. backedOff' \in BOOLEAN /\ told' \in [T!Paths -> 0..2]
    <3>1. told \in [T!Paths -> 0..2] /\ 0 \in 0..2
      BY <1>0 DEF NewsShape
    <3>. QED  BY <1>0, <3>1
  <2>2. NewsShape'
    BY <1>0, <2>1 DEF NewsShape
  <2>. QED  BY <1>0, <2>2 DEF T!NewsIsTold
<1>2. ASSUME NEW p \in T!Paths
      PROVE  Settled(p)'
  <2>1. Settled(p) /\ (Excepted(p)' <=> Excepted(p))
    BY <1>0 DEF Excepted, T!Crossed
  <2>2. p = "add" => told'[p] = 0
    BY <1>0, <1>2 DEF NewsShape
  <2>3. p # "add" => told'[p] = told[p] /\ (Remembered(p, world[p])' <=> Remembered(p, world[p]))
    BY <1>0, <1>2 DEF NewsShape, Remembered
  <2>. QED  BY <2>1, <2>2, <2>3 DEF Settled
<1>. QED  BY <1>1, <1>2 DEF NewsInv

LEMMA ChangeStep ==
    ASSUME NewsInv, T!Change
    PROVE  NewsInv'
<1>0. /\ NewsShape /\ T!NewsIsTold /\ \A p \in T!Paths : Settled(p)
      /\ UNCHANGED <<scene, blockedOnce, lastOrderErr, untradeable, backedOff, heard>>
  BY DEF NewsInv, T!Change
<1>1. PICK p \in T!Paths : \E c \in scene[p] \ {world[p]} :
          world' = [world EXCEPT ![p] = c] /\ told' = [told EXCEPT ![p] = 0]
  BY DEF T!Change
<1>2. PICK c \in scene[p] \ {world[p]} :
          world' = [world EXCEPT ![p] = c] /\ told' = [told EXCEPT ![p] = 0]
  BY <1>1
<1>3. c \in Conditions
  BY <1>0, <1>2 DEF NewsShape
<1>4. NewsShape' /\ T!NewsIsTold'
  BY <1>0, <1>2, <1>3 DEF NewsShape, T!NewsIsTold
<1>5. ASSUME NEW q \in T!Paths
      PROVE  Settled(q)'
  <2>1. CASE q = p
    BY <1>0, <1>2, <2>1 DEF Settled, NewsShape
  <2>2. CASE q # p
    <3>1. world'[q] = world[q] /\ told'[q] = told[q]
      BY <1>0, <1>2, <2>2 DEF NewsShape
    <3>2. (Excepted(q)' <=> Excepted(q)) /\ (Remembered(q, world[q])' <=> Remembered(q, world[q]))
      BY <1>0, <3>1 DEF Excepted, Remembered, T!Crossed
    <3>. QED  BY <1>0, <3>1, <3>2 DEF Settled
  <2>. QED  BY <2>1, <2>2
<1>. QED  BY <1>4, <1>5 DEF NewsInv

LEMMA NewsStep ==
    ASSUME NewsInv, [T!Next]_tvars
    PROVE  NewsInv'
<1>1. CASE T!Sweep
  <2>1. ASSUME NEW figure \in T!Figures, T!Entry(figure) \/ T!Add(figure)
        PROVE  NewsInv'
    BY <1>1, <2>1, EntryStep, AddStep DEF T!Sweep
  <2>2. ASSUME T!Exit
        PROVE  NewsInv'
    BY <1>1, <2>2, ExitStep DEF T!Sweep
  <2>. QED  BY <1>1, <2>1, <2>2 DEF T!Sweep, T!Evaluate
<1>2. CASE T!BackoffElapses
  BY <1>2, BackoffStep
<1>3. CASE T!Change
  BY <1>3, ChangeStep
<1>4. CASE UNCHANGED tvars
  <2>0. UNCHANGED <<scene, world, blockedOnce, lastOrderErr, untradeable, backedOff, told, heard>>
    BY <1>4 DEF tvars
  <2>1. NewsShape' /\ T!NewsIsTold'
    BY <2>0 DEF NewsInv, NewsShape, T!NewsIsTold
  <2>2. ASSUME NEW p \in T!Paths
        PROVE  Settled(p)'
    <3>1. (Excepted(p)' <=> Excepted(p)) /\ (Remembered(p, world[p])' <=> Remembered(p, world[p]))
      BY <2>0 DEF Excepted, Remembered, T!Crossed
    <3>. QED  BY <2>0, <3>1 DEF NewsInv, Settled
  <2>. QED  BY <2>1, <2>2 DEF NewsInv
<1>. QED  BY <1>1, <1>2, <1>3, <1>4 DEF T!Next

LEMMA NewsStart ==
    ASSUME T!ScenesAssumption, T!Init
    PROVE  NewsInv
<1>1. scene \in [T!Paths -> SUBSET Conditions] /\ \A p \in T!Paths : "closed" \in scene[p]
  BY DEF T!Init, T!ScenesAssumption, Conditions
<1>2. NewsShape
  <2>1. world = [p \in T!Paths |-> "closed"] /\ told = [p \in T!Paths |-> 0]
        /\ untradeable = FALSE /\ backedOff = FALSE
        /\ blockedOnce = [k \in T!Keys |-> T!Unsaid] /\ heard = [k \in T!Accounts |-> T!Unsaid]
    BY DEF T!Init
  <2>2. "closed" \in Conditions
    BY DEF Conditions
  <2>3. told \in [T!Paths -> 0..2] /\ world \in [T!Paths -> Conditions]
    BY <2>1, <2>2
  <2>4. blockedOnce = [k \in T!Keys |-> blockedOnce[k]] /\ heard = [k \in T!Accounts |-> heard[k]]
    BY <2>1
  <2>. QED  BY <1>1, <2>1, <2>3, <2>4 DEF NewsShape
<1>3. T!NewsIsTold
  BY DEF T!Init, T!NewsIsTold
<1>4. \A p \in T!Paths : Settled(p)
  BY DEF T!Init, Settled
<1>. QED  BY <1>2, <1>3, <1>4 DEF NewsInv

LEMMA NewsTold ==
    ASSUME NewsInv
    PROVE  T!OperatorIsTold
BY DEF NewsInv, NewsShape, Settled, Excepted, T!OperatorIsTold, T!ToldOnce

-----------------------------------------------------------------------------
(* Notifier.  Of what a box was offered, everything is counted somewhere;  *)
(* a halt was overtaken only since the worker last found its lane empty.   *)

(* A sequence of something. *)
IsSeq(s) == \E S : s \in Seq(S)

LEMMA EmptyIsSeq == IsSeq(<<>>) /\ Len(<<>>) = 0
<1>1. <<>> \in Seq(Nat)
  OBVIOUS
<1>. QED  BY <1>1 DEF IsSeq

LEMMA SeqAppend ==
    ASSUME NEW s, IsSeq(s), NEW e
    PROVE  /\ IsSeq(Append(s, e)) /\ Len(Append(s, e)) = Len(s) + 1 /\ Append(s, e) # <<>>
           /\ DOMAIN Append(s, e) = DOMAIN s \cup {Len(s) + 1}
           /\ \A i \in DOMAIN s : Append(s, e)[i] = s[i]
           /\ Append(s, e)[Len(s) + 1] = e
<1>1. PICK S : s \in Seq(S)
  BY DEF IsSeq
<1>2. s \in Seq(S \cup {e})
  BY <1>1
<1>3. Append(s, e) \in Seq(S \cup {e})
  BY <1>2
<1>. QED  BY <1>1, <1>3 DEF IsSeq

LEMMA SeqTail ==
    ASSUME NEW s, IsSeq(s), s # <<>>
    PROVE  IsSeq(Tail(s)) /\ Len(Tail(s)) = Len(s) - 1
<1>1. PICK S : s \in Seq(S)
  BY DEF IsSeq
<1>. QED  BY <1>1 DEF IsSeq

LEMMA SeqExcept ==
    ASSUME NEW s, IsSeq(s), NEW i, NEW e
    PROVE  IsSeq([s EXCEPT ![i] = e]) /\ DOMAIN [s EXCEPT ![i] = e] = DOMAIN s
<1>1. PICK S : s \in Seq(S)
  BY DEF IsSeq
<1>2. s \in Seq(S \cup {e})
  BY <1>1
<1> DEFINE t == [s EXCEPT ![i] = e]
<1>3. t \in [1..Len(s) -> S \cup {e}] /\ Len(s) \in Nat /\ DOMAIN t = DOMAIN s
  <2>1. s \in [1..Len(s) -> S \cup {e}] /\ Len(s) \in Nat
    BY <1>2
  <2>2. DOMAIN t = DOMAIN s
    OBVIOUS
  <2>3. \A j \in DOMAIN s : t[j] \in S \cup {e}
    BY <2>1
  <2>4. t = [j \in DOMAIN s |-> t[j]]
    OBVIOUS
  <2> HIDE DEF t
  <2>5. t \in [DOMAIN s -> S \cup {e}]
    BY <2>3, <2>4
  <2>. QED  BY <2>1, <2>2, <2>5
<1> HIDE DEF t
<1>4. t \in Seq(S \cup {e})
  BY <1>3
<1>. QED  BY <1>3, <1>4 DEF IsSeq, t

LEMMA SeqLen ==
    ASSUME NEW s, IsSeq(s)
    PROVE  Len(s) \in Nat /\ DOMAIN s = 1..Len(s) /\ (Len(s) = 0 <=> s = <<>>)
<1>1. PICK S : s \in Seq(S)
  BY DEF IsSeq
<1>. QED  BY <1>1

AllFields(b) ==
    [urgent |-> b.urgent, queue |-> b.queue, pc |-> b.pc, event |-> b.event, halt |-> b.halt,
     sink |-> b.sink, attempt |-> b.attempt, closed |-> b.closed, elapsed |-> b.elapsed,
     offered |-> b.offered, sent |-> b.sent, failed |-> b.failed, dropped |-> b.dropped,
     overtaken |-> b.overtaken]

IsBox(b) ==
    /\ b = AllFields(b) /\ IsSeq(b.urgent) /\ IsSeq(b.queue)
    /\ b.pc \in {"look", "select", "deliver", "drain", "stopped"}
    /\ {b.sink, b.offered, b.sent, b.failed, b.dropped} \subseteq Int

ToDo(b, n) == IF b.pc = "deliver" THEN n - b.sink + 1 ELSE 0

Counted(b, n) ==
    n * (b.offered - b.dropped - Len(b.urgent) - Len(b.queue)) = b.sent + b.failed + ToDo(b, n)

BoxOk(b, n) ==
    /\ IsBox(b) /\ Counted(b, n)
    /\ b.pc = "deliver" => b.sink \in 1..n
    /\ b.pc \in {"drain", "stopped"} \/ b.event = "last" => b.closed
    /\ b.pc = "stopped" => b.urgent = <<>> /\ b.queue = <<>>
    /\ b.overtaken \in {0, 1}
    /\ b.overtaken = 1 =>
          b.urgent # <<>> /\ (b.pc = "look" \/ (b.pc = "deliver" /\ b.event = "routine"))

AlertsShape == alerts.sinks \in Nat \ {0} /\ IsSeq(boxes)

AlertsInv == AlertsShape /\ \A i \in DOMAIN boxes : BoxOk(boxes[i], alerts.sinks)

LEMMA FreshIsOk ==
    ASSUME NEW n \in Nat \ {0}
    PROVE  BoxOk(N!Fresh, n)
<1> DEFINE b == N!Fresh
<1>1. /\ b = AllFields(b) /\ b.urgent = <<>> /\ b.queue = <<>> /\ b.pc = "look" /\ b.overtaken = 0
      /\ b.event = "none"
      /\ b.offered = 0 /\ b.dropped = 0 /\ b.sent = 0 /\ b.failed = 0 /\ b.sink = 0
  BY DEF N!Fresh, AllFields
<1> HIDE DEF b
<1>2. IsBox(b)
  BY <1>1, EmptyIsSeq DEF IsBox
<1>3. Counted(b, n)
  BY <1>1, EmptyIsSeq DEF Counted, ToDo
<1>. QED  BY <1>1, <1>2, <1>3 DEF BoxOk, b

(* One alert offered: dropped, or in its lane. *)
Offered(b, event, id) ==
    LET c == [b EXCEPT !.offered = @ + 1]
    IN IF c.closed THEN N!Drop(c) ELSE N!Enqueue(c, event, id)

LEMMA OfferKeeps ==
    ASSUME NEW n \in Nat \ {0}, NEW b, BoxOk(b, n), NEW event, NEW id,
           NEW to, to = Offered(b, event, id)
    PROVE  BoxOk(to, n)
<1>0. IsBox(b) /\ b = AllFields(b)
  BY DEF BoxOk, IsBox
<1>1. /\ to = AllFields(to) /\ to.pc = b.pc /\ to.sink = b.sink /\ to.closed = b.closed
      /\ to.event = b.event /\ to.overtaken = b.overtaken
      /\ to.offered = b.offered + 1 /\ to.sent = b.sent /\ to.failed = b.failed
      /\ \/ to.dropped = b.dropped + 1 /\ to.urgent = b.urgent /\ to.queue = b.queue
         \/ ~b.closed /\ to.dropped = b.dropped /\ to.urgent = Append(b.urgent, id) /\ to.queue = b.queue
         \/ ~b.closed /\ to.dropped = b.dropped /\ to.urgent = b.urgent /\ to.queue = Append(b.queue, event)
  <2> DEFINE c == [b EXCEPT !.offered = @ + 1]
  <2>1. /\ c = AllFields(c) /\ c.urgent = b.urgent /\ c.queue = b.queue /\ c.pc = b.pc /\ c.sink = b.sink
        /\ c.closed = b.closed /\ c.event = b.event /\ c.overtaken = b.overtaken /\ c.offered = b.offered + 1
        /\ c.sent = b.sent /\ c.failed = b.failed /\ c.dropped = b.dropped
    BY <1>0 DEF AllFields
  <2>2. to = IF c.closed THEN N!Drop(c) ELSE N!Enqueue(c, event, id)
    BY DEF Offered
  <2> HIDE DEF c
  <2>3. \/ to = [c EXCEPT !.dropped = @ + 1]
        \/ ~b.closed /\ to = [c EXCEPT !.urgent = Append(@, id)]
        \/ ~b.closed /\ to = [c EXCEPT !.queue = Append(@, event)]
    BY <2>1, <2>2 DEF N!Drop, N!Enqueue
  <2>4. CASE to = [c EXCEPT !.dropped = @ + 1]
    BY <2>1, <2>4 DEF AllFields
  <2>5. CASE ~b.closed /\ to = [c EXCEPT !.urgent = Append(@, id)]
    BY <2>1, <2>5 DEF AllFields
  <2>6. CASE ~b.closed /\ to = [c EXCEPT !.queue = Append(@, event)]
    BY <2>1, <2>6 DEF AllFields
  <2>. QED  BY <2>3, <2>4, <2>5, <2>6
<1>2. /\ IsSeq(to.urgent) /\ IsSeq(to.queue) /\ (to.urgent = <<>> => b.urgent = <<>>)
      /\ to.offered - to.dropped - Len(to.urgent) - Len(to.queue)
             = b.offered - b.dropped - Len(b.urgent) - Len(b.queue)
      /\ to.dropped \in Int /\ to.offered \in Int
  <2>1. /\ IsSeq(b.urgent) /\ IsSeq(b.queue) /\ Len(b.urgent) \in Nat /\ Len(b.queue) \in Nat
        /\ b.offered \in Int /\ b.dropped \in Int
    BY <1>0, SeqLen DEF IsBox
  <2>2. CASE to.dropped = b.dropped + 1 /\ to.urgent = b.urgent /\ to.queue = b.queue
    BY <1>1, <2>1, <2>2, SMTT(30)
  <2>3. CASE to.dropped = b.dropped /\ to.urgent = Append(b.urgent, id) /\ to.queue = b.queue
    <3>1. IsSeq(to.urgent) /\ Len(to.urgent) = Len(b.urgent) + 1 /\ to.urgent # <<>>
      BY <2>1, <2>3, SeqAppend
    <3>2. /\ to.offered = b.offered + 1 /\ to.dropped = b.dropped
          /\ Len(to.queue) = Len(b.queue) /\ IsSeq(to.queue) /\ (to.urgent = <<>> => b.urgent = <<>>)
      BY <1>1, <2>1, <2>3, <3>1
    <3>3. to.dropped \in Int /\ to.offered \in Int
      BY <2>1, <3>2
    <3>4. IsSeq(to.urgent) /\ IsSeq(to.queue)
      BY <3>1, <3>2
    <3>5. to.offered - to.dropped - Len(to.urgent) - Len(to.queue)
             = b.offered - b.dropped - Len(b.urgent) - Len(b.queue)
      <4>1. /\ Len(b.urgent) \in Int /\ Len(b.queue) \in Int
            /\ b.offered \in Int /\ b.dropped \in Int
        BY <2>1
      <4> DEFINE o == b.offered  d == b.dropped  u == Len(b.urgent)  q == Len(b.queue)
                 o2 == to.offered  d2 == to.dropped  u2 == Len(to.urgent)  q2 == Len(to.queue)
      <4>2. o2 = o + 1 /\ d2 = d /\ u2 = u + 1 /\ q2 = q
        BY <3>1, <3>2
      <4>3. o \in Int /\ d \in Int /\ u \in Int /\ q \in Int
        BY <4>1
      <4>4. o2 - d2 - u2 - q2 = o - d - u - q
        <5> HIDE DEF o, d, u, q, o2, d2, u2, q2
        <5>. QED  BY <4>2, <4>3
      <4>. QED  BY <4>4
    <3>. QED  BY <3>2, <3>3, <3>4, <3>5
  <2>4. CASE to.dropped = b.dropped /\ to.urgent = b.urgent /\ to.queue = Append(b.queue, event)
    <3>1. IsSeq(to.queue) /\ Len(to.queue) = Len(b.queue) + 1
      BY <2>1, <2>4, SeqAppend
    <3>2. /\ to.offered = b.offered + 1 /\ to.dropped = b.dropped
          /\ Len(to.urgent) = Len(b.urgent) /\ IsSeq(to.urgent) /\ (to.urgent = <<>> => b.urgent = <<>>)
      BY <1>1, <2>1, <2>4, <3>1
    <3>3. to.dropped \in Int /\ to.offered \in Int
      BY <2>1, <3>2
    <3>4. IsSeq(to.urgent) /\ IsSeq(to.queue)
      BY <3>1, <3>2
    <3>5. to.offered - to.dropped - Len(to.urgent) - Len(to.queue)
             = b.offered - b.dropped - Len(b.urgent) - Len(b.queue)
      <4>1. /\ Len(b.urgent) \in Int /\ Len(b.queue) \in Int
            /\ b.offered \in Int /\ b.dropped \in Int
        BY <2>1
      <4> DEFINE o == b.offered  d == b.dropped  u == Len(b.urgent)  q == Len(b.queue)
                 o2 == to.offered  d2 == to.dropped  u2 == Len(to.urgent)  q2 == Len(to.queue)
      <4>2. o2 = o + 1 /\ d2 = d /\ u2 = u /\ q2 = q + 1
        BY <3>1, <3>2
      <4>3. o \in Int /\ d \in Int /\ u \in Int /\ q \in Int
        BY <4>1
      <4>4. o2 - d2 - u2 - q2 = o - d - u - q
        <5> HIDE DEF o, d, u, q, o2, d2, u2, q2
        <5>. QED  BY <4>2, <4>3
      <4>. QED  BY <4>4
    <3>. QED  BY <3>2, <3>3, <3>4, <3>5
  <2>. QED  BY <1>1, <2>2, <2>3, <2>4
<1>3. Counted(to, n)
  BY <1>1, <1>2 DEF ToDo, Counted, BoxOk
<1>4. IsBox(to)
  BY <1>0, <1>1, <1>2 DEF IsBox
<1>5. b.pc = "stopped" => to.urgent = <<>> /\ to.queue = <<>>
  BY <1>1 DEF BoxOk
<1>. QED  BY <1>1, <1>2, <1>3, <1>4, <1>5 DEF BoxOk

(* An alert leaves its lane and is to be delivered. *)
LEMMA TakeUrgentKeeps ==
    ASSUME NEW n \in Nat \ {0}, NEW b, BoxOk(b, n), b.urgent # <<>>, b.pc # "deliver",
           NEW to, to = N!TakeUrgent(b)
    PROVE  BoxOk(to, n)
<1>0. IsBox(b) /\ b = AllFields(b)
  BY DEF BoxOk, IsBox
<1>1. /\ to = AllFields(to) /\ to.urgent = Tail(b.urgent) /\ to.queue = b.queue
      /\ to.pc = "deliver" /\ to.sink = 1 /\ to.closed = b.closed /\ to.overtaken = 0
      /\ to.event = "last" => b.pc = "drain"
      /\ to.offered = b.offered /\ to.dropped = b.dropped /\ to.sent = b.sent /\ to.failed = b.failed
  BY <1>0 DEF AllFields, N!TakeUrgent
<1>2. IsSeq(to.urgent) /\ Len(to.urgent) = Len(b.urgent) - 1
  BY <1>0, <1>1, SeqTail DEF IsBox
<1>3. IsBox(to)
  BY <1>0, <1>1, <1>2 DEF IsBox
<1>4. Counted(to, n)
  <2> DEFINE x == b.offered - b.dropped - Len(b.urgent) - Len(b.queue)
  <2>1. x \in Int /\ n * x = b.sent + b.failed
    <3>1. {Len(b.urgent), Len(b.queue), b.offered, b.dropped, b.sent, b.failed} \subseteq Int
      BY <1>0, SeqLen DEF IsBox
    <3>2. ToDo(b, n) = 0 /\ n * x = b.sent + b.failed + ToDo(b, n)
      BY DEF BoxOk, Counted, ToDo
    <3>3. x \in Int
      BY <3>1
    <3> HIDE DEF x
    <3>4. b.sent \in Int /\ b.failed \in Int
      BY <3>1
    <3>. QED  BY <3>2, <3>3, <3>4
  <2>2. to.offered - to.dropped - Len(to.urgent) - Len(to.queue) = x + 1
    <3> DEFINE o == b.offered  d == b.dropped  u == Len(b.urgent)  q == Len(b.queue)
               o2 == to.offered  d2 == to.dropped  u2 == Len(to.urgent)  q2 == Len(to.queue)
    <3>1. u \in Nat /\ q \in Nat /\ o \in Int /\ d \in Int
      BY <1>0, SeqLen DEF IsBox
    <3>2. o2 = o /\ d2 = d /\ u2 = u - 1 /\ q2 = q
      BY <1>1, <1>2
    <3>3. o2 - d2 - u2 - q2 = o - d - u - q + 1
      <4> HIDE DEF o, d, u, q, o2, d2, u2, q2
      <4>. QED  BY <3>1, <3>2
    <3>. QED  BY <3>3
  <2> HIDE DEF x
  <2>3. n * (x + 1) = n * x + n
    BY <2>1
  <2>. QED  BY <1>0, <1>1, <2>1, <2>2, <2>3 DEF Counted, ToDo, IsBox
<1>. QED  BY <1>1, <1>3, <1>4 DEF BoxOk

LEMMA TakeRoutineKeeps ==
    ASSUME NEW n \in Nat \ {0}, NEW b, BoxOk(b, n), b.queue # <<>>, b.pc = "select",
           NEW to, to = N!TakeRoutine(b)
    PROVE  BoxOk(to, n)
<1>0. IsBox(b) /\ b = AllFields(b) /\ b.overtaken = 0
  BY DEF BoxOk, IsBox
<1>1. /\ to = AllFields(to) /\ to.queue = Tail(b.queue) /\ to.urgent = b.urgent
      /\ to.pc = "deliver" /\ to.sink = 1 /\ to.closed = b.closed /\ to.event = "routine"
      /\ to.overtaken = IF b.urgent = <<>> THEN b.overtaken ELSE b.overtaken + 1
      /\ to.offered = b.offered /\ to.dropped = b.dropped /\ to.sent = b.sent /\ to.failed = b.failed
  BY <1>0 DEF AllFields, N!TakeRoutine
<1>2. IsSeq(to.queue) /\ Len(to.queue) = Len(b.queue) - 1
  BY <1>0, <1>1, SeqTail DEF IsBox
<1>3. IsBox(to)
  BY <1>0, <1>1, <1>2 DEF IsBox
<1>4. Counted(to, n)
  <2> DEFINE x == b.offered - b.dropped - Len(b.urgent) - Len(b.queue)
  <2>1. x \in Int /\ n * x = b.sent + b.failed
    <3>1. {Len(b.urgent), Len(b.queue), b.offered, b.dropped, b.sent, b.failed} \subseteq Int
      BY <1>0, SeqLen DEF IsBox
    <3>2. ToDo(b, n) = 0 /\ n * x = b.sent + b.failed + ToDo(b, n)
      BY DEF BoxOk, Counted, ToDo
    <3>3. x \in Int
      BY <3>1
    <3> HIDE DEF x
    <3>4. b.sent \in Int /\ b.failed \in Int
      BY <3>1
    <3>. QED  BY <3>2, <3>3, <3>4
  <2>2. to.offered - to.dropped - Len(to.urgent) - Len(to.queue) = x + 1
    <3> DEFINE o == b.offered  d == b.dropped  u == Len(b.urgent)  q == Len(b.queue)
               o2 == to.offered  d2 == to.dropped  u2 == Len(to.urgent)  q2 == Len(to.queue)
    <3>1. u \in Nat /\ q \in Nat /\ o \in Int /\ d \in Int
      BY <1>0, SeqLen DEF IsBox
    <3>2. o2 = o /\ d2 = d /\ u2 = u /\ q2 = q - 1
      BY <1>1, <1>2
    <3>3. o2 - d2 - u2 - q2 = o - d - u - q + 1
      <4> HIDE DEF o, d, u, q, o2, d2, u2, q2
      <4>. QED  BY <3>1, <3>2
    <3>. QED  BY <3>3
  <2> HIDE DEF x
  <2>3. n * (x + 1) = n * x + n
    BY <2>1
  <2>. QED  BY <1>0, <1>1, <2>1, <2>2, <2>3 DEF Counted, ToDo, IsBox
<1>. QED  BY <1>1, <1>3, <1>4 DEF BoxOk

(* One sink is through, delivered or failed. *)
LEMMA SinkKeeps ==
    ASSUME alerts.sinks \in Nat \ {0}, NEW b, BoxOk(b, alerts.sinks), b.pc = "deliver",
           NEW done, done = AllFields(done),
           done.urgent = b.urgent, done.queue = b.queue, done.pc = "deliver", done.event = b.event,
           done.sink = b.sink, done.closed = b.closed, done.overtaken = b.overtaken,
           done.offered = b.offered, done.dropped = b.dropped, {done.sent, done.failed} \subseteq Int,
           done.sent + done.failed = b.sent + b.failed + 1,
           NEW to, to = N!NextSink(done)
    PROVE  BoxOk(to, alerts.sinks)
<1> DEFINE n == alerts.sinks
<1>0. n \in Nat \ {0} /\ IsBox(b) /\ b.sink \in 1..n
  BY DEF BoxOk
<1>1. /\ to = AllFields(to) /\ to.urgent = b.urgent /\ to.queue = b.queue
      /\ to.closed = b.closed /\ to.overtaken = b.overtaken
      /\ to.offered = b.offered /\ to.dropped = b.dropped /\ to.sent = done.sent /\ to.failed = done.failed
      /\ \/ b.sink < n /\ to.pc = "deliver" /\ to.sink = b.sink + 1 /\ to.event = b.event
         \/ ~(b.sink < n) /\ to.sink = 0
            /\ to.pc = (IF b.event = "last" THEN "drain" ELSE "look") /\ to.event = "none"
  <2>1. CASE b.sink < n
    BY <2>1 DEF N!NextSink, AllFields
  <2>2. CASE ~(b.sink < n)
    BY <2>2 DEF N!NextSink, AllFields
  <2>. QED  BY <2>1, <2>2
<1>2. IsBox(to)
  BY <1>0, <1>1 DEF IsBox
<1>3. Counted(to, n)
  <2>1. /\ {done.sent, done.failed, b.sink} \subseteq Int
        /\ to.offered - to.dropped - Len(to.urgent) - Len(to.queue)
               = b.offered - b.dropped - Len(b.urgent) - Len(b.queue)
    BY <1>0, <1>1
  <2>2. ToDo(b, n) = n - b.sink + 1 /\ ToDo(to, n) = n - b.sink
    BY <1>0, <1>1 DEF ToDo
  <2> DEFINE x == b.offered - b.dropped - Len(b.urgent) - Len(b.queue)
  <2>3. n * x = b.sent + b.failed + (n - b.sink + 1)
    BY <2>2 DEF BoxOk, Counted
  <2>4. n * x = to.sent + to.failed + (n - b.sink)
    <3>1. {b.sent, b.failed} \subseteq Int
      BY <1>0 DEF IsBox
    <3> HIDE DEF x
    <3>. QED  BY <1>0, <1>1, <2>1, <2>3, <3>1
  <2>. QED  BY <2>1, <2>2, <2>4 DEF Counted
<1>4. to.pc = "deliver" => to.sink \in 1..n
  BY <1>0, <1>1
<1>. QED  BY <1>1, <1>2, <1>3, <1>4 DEF BoxOk

(* A change of what is not counted. *)
LEMMA OthersCount ==
    ASSUME NEW n \in Nat \ {0}, NEW b, BoxOk(b, n), NEW to, to = AllFields(to),
           to.urgent = b.urgent, to.queue = b.queue, to.event = b.event, to.sink = b.sink,
           to.overtaken = b.overtaken, to.offered = b.offered, to.dropped = b.dropped,
           to.sent = b.sent, to.failed = b.failed, b.closed => to.closed,
           \/ to.pc = b.pc
           \/ b.pc = "look" /\ to.pc = "select" /\ b.urgent = <<>>
           \/ b.pc = "select" /\ to.pc = "drain" /\ to.closed
    PROVE  BoxOk(to, n)
<1>1. IsBox(to)
  BY DEF BoxOk, IsBox
<1>2. Counted(to, n)
  BY DEF BoxOk, Counted, ToDo
<1>. QED  BY <1>1, <1>2 DEF BoxOk

(* A box becomes another one. *)
LEMMA BoxesKeep ==
    ASSUME AlertsInv, NEW i, NEW b, i \in DOMAIN boxes => BoxOk(b, alerts.sinks),
           boxes' = [boxes EXCEPT ![i] = b], alerts' = alerts
    PROVE  AlertsInv'
<1>1. IsSeq(boxes') /\ DOMAIN boxes' = DOMAIN boxes
  BY SeqExcept DEF AlertsInv, AlertsShape
<1>2. ASSUME NEW j \in DOMAIN boxes'
      PROVE  BoxOk(boxes'[j], alerts.sinks)
  BY <1>1 DEF AlertsInv
<1>. QED  BY <1>1, <1>2 DEF AlertsInv, AlertsShape

LEMMA WorkerStep ==
    ASSUME AlertsInv, RetryCap \in Nat, NEW i \in DOMAIN boxes, N!Worker(i)
    PROVE  AlertsInv'
<1> DEFINE b == boxes[i]
           n == alerts.sinks
<1>0. n \in Nat \ {0} /\ BoxOk(b, n) /\ IsBox(b) /\ b = AllFields(b)
  BY DEF AlertsInv, AlertsShape, BoxOk, IsBox
<1>9. SUFFICES \E to : BoxOk(to, n) /\ boxes' = [boxes EXCEPT ![i] = to] /\ alerts' = alerts
  BY BoxesKeep
<1>1. CASE N!Look(i)
  <2> DEFINE to == IF b.urgent # <<>> THEN N!TakeUrgent(b) ELSE [b EXCEPT !.pc = "select"]
  <2>1. b.pc = "look" /\ boxes' = [boxes EXCEPT ![i] = to] /\ alerts' = alerts
    BY <1>1 DEF N!Look, N!Becomes
  <2>2. CASE b.urgent # <<>>
    BY <1>0, <2>1, <2>2, TakeUrgentKeeps
  <2>3. CASE b.urgent = <<>>
    <3> DEFINE c == [b EXCEPT !.pc = "select"]
    <3>1. /\ c = AllFields(c) /\ c.urgent = b.urgent /\ c.queue = b.queue /\ c.event = b.event
          /\ c.sink = b.sink /\ c.overtaken = b.overtaken /\ c.offered = b.offered
          /\ c.dropped = b.dropped /\ c.sent = b.sent /\ c.failed = b.failed /\ c.closed = b.closed /\ c.pc = "select"
      BY <1>0 DEF AllFields
    <3> HIDE DEF c
    <3>2. BoxOk(c, n)
      BY <1>0, <2>1, <2>3, <3>1, OthersCount
    <3>. QED  BY <2>1, <2>3, <3>2 DEF c
  <2>. QED  BY <2>2, <2>3
<1>2. CASE N!Select(i)
  <2>1. /\ b.pc = "select" /\ alerts' = alerts
        /\ \/ b.closed /\ boxes' = [boxes EXCEPT ![i] = [b EXCEPT !.pc = "drain"]]
           \/ b.urgent # <<>> /\ boxes' = [boxes EXCEPT ![i] = N!TakeUrgent(b)]
           \/ b.queue # <<>> /\ boxes' = [boxes EXCEPT ![i] = N!TakeRoutine(b)]
    BY <1>2 DEF N!Select, N!Becomes
  <2>2. b.closed => BoxOk([b EXCEPT !.pc = "drain"], n)
    <3> DEFINE c == [b EXCEPT !.pc = "drain"]
    <3>1. /\ c = AllFields(c) /\ c.urgent = b.urgent /\ c.queue = b.queue /\ c.event = b.event
          /\ c.sink = b.sink /\ c.overtaken = b.overtaken /\ c.offered = b.offered /\ c.closed = b.closed
          /\ c.dropped = b.dropped /\ c.sent = b.sent /\ c.failed = b.failed /\ c.pc = "drain"
      BY <1>0 DEF AllFields
    <3> HIDE DEF c
    <3>2. b.closed => BoxOk(c, n)
      BY <1>0, <2>1, <3>1, OthersCount
    <3>. QED  BY <3>2 DEF c
  <2>3. b.urgent # <<>> => BoxOk(N!TakeUrgent(b), n)
    BY <1>0, <2>1, TakeUrgentKeeps
  <2>4. b.queue # <<>> => BoxOk(N!TakeRoutine(b), n)
    BY <1>0, <2>1, TakeRoutineKeeps
  <2>. QED  BY <2>1, <2>2, <2>3, <2>4
<1>3. CASE N!Drain(i)
  <2>1. /\ b.pc = "drain" /\ alerts' = alerts
        /\ boxes' = [boxes EXCEPT ![i] = IF b.urgent # <<>> THEN N!TakeUrgent(b) ELSE N!CountUndelivered(b)]
    BY <1>3 DEF N!Drain, N!Becomes
  <2>2. CASE b.urgent # <<>>
    BY <1>0, <2>1, <2>2, TakeUrgentKeeps
  <2>3. CASE b.urgent = <<>>
    <3> DEFINE c == N!CountUndelivered(b)
    <3>1. /\ c = AllFields(c) /\ c.urgent = b.urgent /\ c.queue = <<>> /\ c.event = b.event
          /\ c.sink = b.sink /\ c.overtaken = b.overtaken /\ c.offered = b.offered /\ c.closed = b.closed
          /\ c.dropped = b.dropped + Len(b.queue) /\ c.sent = b.sent /\ c.failed = b.failed /\ c.pc = "stopped"
      <4> DEFINE k == Len(b.queue)
      <4>1. c = [b EXCEPT !.pc = "stopped", !.queue = <<>>, !.dropped = @ + k]
        BY DEF N!CountUndelivered
      <4> HIDE DEF k, c
      <4>2. /\ c = AllFields(c) /\ c.urgent = b.urgent /\ c.queue = <<>> /\ c.event = b.event
            /\ c.sink = b.sink /\ c.overtaken = b.overtaken /\ c.offered = b.offered /\ c.closed = b.closed
            /\ c.dropped = b.dropped + k /\ c.sent = b.sent /\ c.failed = b.failed /\ c.pc = "stopped"
        BY <1>0, <4>1 DEF AllFields
      <4>. QED  BY <4>2 DEF k
    <3> HIDE DEF c
    <3>2. Len(b.queue) \in Nat /\ Len(c.queue) = 0 /\ Len(c.urgent) = 0 /\ Len(b.urgent) = 0 /\ IsSeq(c.queue)
      BY <1>0, <2>3, <3>1, SeqLen, EmptyIsSeq DEF IsBox
    <3>3. IsBox(c)
      BY <1>0, <3>1, <3>2 DEF IsBox
    <3>4. Counted(c, n)
      BY <1>0, <3>1, <3>2, <2>1 DEF IsBox, ToDo, Counted, BoxOk
    <3>5. BoxOk(c, n)
      BY <1>0, <2>1, <2>3, <3>1, <3>3, <3>4 DEF BoxOk
    <3>. QED  BY <2>1, <2>3, <3>5 DEF c
  <2>. QED  BY <2>2, <2>3
<1>4. CASE N!Attempt(i)
  <2>1. PICK answer \in alerts.answers :
          /\ b.pc = "deliver"
          /\ N!Becomes(i, CASE answer = "ok" -> N!NextSink([b EXCEPT !.sent = @ + 1])
                          [] answer = "busy" /\ N!Retried(b) ->
                               N!Later([b EXCEPT !.attempt = @ + 1], RetryCap)
                          [] OTHER ->
                               N!NextSink(N!Later([b EXCEPT !.failed = @ + 1],
                                              IF answer = "silent" THEN 1 ELSE 0)))
    BY <1>4 DEF N!Attempt
  <2>2. alerts' = alerts /\ b.pc = "deliver" /\ {b.sent, b.failed} \subseteq Int
    BY <1>0, <2>1 DEF N!Becomes, IsBox
  <2>3. CASE answer = "ok"
    <3> DEFINE done == [b EXCEPT !.sent = @ + 1]
    <3>1. boxes' = [boxes EXCEPT ![i] = N!NextSink(done)]
      BY <2>1, <2>3 DEF N!Becomes
    <3>2. /\ done = AllFields(done) /\ done.urgent = b.urgent /\ done.queue = b.queue
          /\ done.pc = b.pc /\ done.event = b.event /\ done.sink = b.sink /\ done.closed = b.closed
          /\ done.overtaken = b.overtaken /\ done.offered = b.offered /\ done.dropped = b.dropped
          /\ done.sent = b.sent + 1 /\ done.failed = b.failed
      BY <1>0 DEF AllFields
    <3> HIDE DEF done
    <3>3. {done.sent, done.failed} \subseteq Int /\ done.sent + done.failed = b.sent + b.failed + 1
      BY <2>2, <3>2
    <3>4. BoxOk(N!NextSink(done), n)
      BY <1>0, <2>2, <3>2, <3>3, SinkKeeps
    <3>. QED  BY <2>2, <3>1, <3>4
  <2>4. CASE answer # "ok" /\ answer = "busy" /\ N!Retried(b)
    <3> DEFINE c == N!Later([b EXCEPT !.attempt = @ + 1], RetryCap)
    <3>1. boxes' = [boxes EXCEPT ![i] = c]
      BY <2>1, <2>4 DEF N!Becomes
    <3>2. /\ c = AllFields(c) /\ c.urgent = b.urgent /\ c.queue = b.queue /\ c.event = b.event
          /\ c.sink = b.sink /\ c.overtaken = b.overtaken /\ c.offered = b.offered /\ c.closed = b.closed
          /\ c.dropped = b.dropped /\ c.sent = b.sent /\ c.failed = b.failed /\ c.pc = b.pc
      <4> DEFINE m == [b EXCEPT !.attempt = @ + 1]
      <4>1. c = m \/ c = [m EXCEPT !.elapsed = @ + RetryCap]
        BY DEF N!Later
      <4>2. m = AllFields(m) /\ \A f \in {"urgent", "queue", "event", "sink", "overtaken", "offered", "closed",
                                          "dropped", "sent", "failed", "pc"} : m[f] = b[f]
        BY <1>0 DEF AllFields
      <4> HIDE DEF m, c
      <4>. QED  BY <4>1, <4>2 DEF AllFields
    <3> HIDE DEF c
    <3>3. BoxOk(c, n)
      BY <1>0, <3>2, OthersCount
    <3>. QED  BY <2>2, <3>1, <3>3
  <2>5. CASE answer # "ok" /\ ~(answer = "busy" /\ N!Retried(b))
    <3> DEFINE cost == IF answer = "silent" THEN 1 ELSE 0
               done == N!Later([b EXCEPT !.failed = @ + 1], cost)
    <3>1. boxes' = [boxes EXCEPT ![i] = N!NextSink(done)]
      BY <2>1, <2>5 DEF N!Becomes
    <3>2. /\ done = AllFields(done) /\ done.urgent = b.urgent /\ done.queue = b.queue
          /\ done.pc = b.pc /\ done.event = b.event /\ done.sink = b.sink /\ done.closed = b.closed
          /\ done.overtaken = b.overtaken /\ done.offered = b.offered /\ done.dropped = b.dropped
          /\ done.sent = b.sent /\ done.failed = b.failed + 1
      <4> DEFINE m == [b EXCEPT !.failed = @ + 1]
      <4>1. done = m \/ done = [m EXCEPT !.elapsed = @ + cost]
        BY DEF N!Later
      <4>2. /\ m = AllFields(m) /\ m.failed = b.failed + 1
            /\ \A f \in {"urgent", "queue", "event", "sink", "overtaken", "offered", "closed",
                         "dropped", "sent", "pc"} : m[f] = b[f]
        BY <1>0 DEF AllFields
      <4> HIDE DEF m, done, cost
      <4>. QED  BY <4>1, <4>2 DEF AllFields
    <3> HIDE DEF done
    <3>3. {done.sent, done.failed} \subseteq Int /\ done.sent + done.failed = b.sent + b.failed + 1
      BY <2>2, <3>2
    <3>4. BoxOk(N!NextSink(done), n)
      BY <1>0, <2>2, <3>2, <3>3, SinkKeeps
    <3>. QED  BY <2>2, <3>1, <3>4
  <2>. QED  BY <2>3, <2>4, <2>5
<1>. QED  BY <1>1, <1>2, <1>3, <1>4 DEF N!Worker

LEMMA AlertsStep ==
    ASSUME AlertsInv, N!NotifierAssumption, [N!Next]_nvars
    PROVE  AlertsInv'
<1>0. alerts.sinks \in Nat \ {0} /\ IsSeq(boxes)
  BY DEF AlertsInv, AlertsShape
<1>1. CASE UNCHANGED <<alerts, boxes>>
  BY <1>1 DEF AlertsInv, AlertsShape
<1>2. CASE N!Send
  <2> DEFINE to == Offered(boxes[sending.box], sending.event, Len(fate) + 1)
  <2>1. boxes' = [boxes EXCEPT ![sending.box] = to] /\ alerts' = alerts
    BY <1>2 DEF N!Send, Offered
  <2>2. sending.box \in DOMAIN boxes => BoxOk(to, alerts.sinks)
    BY <1>0, OfferKeeps DEF AlertsInv
  <2>. QED  BY <2>1, <2>2, BoxesKeep
<1>3. CASE \E i \in DOMAIN boxes : N!Worker(i)
  BY <1>3, WorkerStep DEF N!NotifierAssumption
<1>4. CASE N!Install
  <2>1. alerts' = alerts /\ boxes' \in {boxes, Append(boxes, N!Fresh)}
    BY <1>4 DEF N!Install
  <2>2. CASE boxes' = boxes
    BY <1>1, <2>1, <2>2
  <2>3. CASE boxes' = Append(boxes, N!Fresh)
    <3>1. /\ IsSeq(boxes') /\ DOMAIN boxes' = DOMAIN boxes \cup {Len(boxes) + 1}
          /\ \A i \in DOMAIN boxes : boxes'[i] = boxes[i]
          /\ boxes'[Len(boxes) + 1] = N!Fresh
      BY <1>0, <2>3, SeqAppend
    <3>2. ASSUME NEW i \in DOMAIN boxes'
          PROVE  BoxOk(boxes'[i], alerts.sinks)
      BY <1>0, <3>1, FreshIsOk DEF AlertsInv
    <3>. QED  BY <1>0, <2>1, <3>1, <3>2 DEF AlertsInv, AlertsShape
  <2>. QED  BY <2>1, <2>2, <2>3
<1>5. CASE N!Close
  <2> DEFINE b == boxes[swap.box]
             c == [b EXCEPT !.closed = TRUE]
  <2>1. boxes' = [boxes EXCEPT ![swap.box] = c] /\ alerts' = alerts
    BY <1>5 DEF N!Close
  <2>2. ASSUME swap.box \in DOMAIN boxes
        PROVE  BoxOk(c, alerts.sinks)
    <3>1. BoxOk(b, alerts.sinks) /\ b = AllFields(b)
      BY <2>2 DEF AlertsInv, BoxOk, IsBox
    <3>3. c = [b EXCEPT !.closed = TRUE]
      OBVIOUS
    <3> HIDE DEF b, c
    <3>2. /\ c = AllFields(c) /\ c.urgent = b.urgent /\ c.queue = b.queue /\ c.event = b.event
          /\ c.sink = b.sink /\ c.overtaken = b.overtaken /\ c.offered = b.offered /\ c.closed
          /\ c.dropped = b.dropped /\ c.sent = b.sent /\ c.failed = b.failed /\ c.pc = b.pc
      BY <3>1, <3>3 DEF AllFields
    <3>. QED  BY <1>0, <3>1, <3>2, OthersCount
  <2>. QED  BY <2>1, <2>2, BoxesKeep
<1>. QED
  BY <1>1, <1>2, <1>3, <1>4, <1>5 DEF N!Alert, N!Closed, nvars, N!Next

LEMMA AlertsStart ==
    ASSUME N!NotifierAssumption, N!Init
    PROVE  AlertsInv
<1>1. alerts.sinks \in Nat \ {0}
  BY DEF N!NotifierAssumption, N!Init
<1>2. IsSeq(<<N!Fresh>>) /\ DOMAIN <<N!Fresh>> = {1} /\ <<N!Fresh>>[1] = N!Fresh
  <2>1. <<N!Fresh>> \in Seq({N!Fresh})
    OBVIOUS
  <2>2. DOMAIN <<N!Fresh>> = {1} /\ <<N!Fresh>>[1] = N!Fresh
    OBVIOUS
  <2>. QED  BY <2>1, <2>2 DEF IsSeq
<1>3. boxes = <<N!Fresh>>
  BY DEF N!Init
<1>. QED  BY <1>1, <1>2, <1>3, FreshIsOk DEF AlertsInv, AlertsShape

LEMMA AlertsKept ==
    ASSUME AlertsInv
    PROVE  N!AlertsAreCounted /\ N!HaltsGoFirst
<1>1. ASSUME NEW i \in DOMAIN boxes
      PROVE  /\ alerts.sinks * (boxes[i].offered - boxes[i].dropped - Len(boxes[i].urgent) - Len(boxes[i].queue))
                  = boxes[i].sent + boxes[i].failed + ToDo(boxes[i], alerts.sinks)
             /\ boxes[i].pc = "stopped" => boxes[i].urgent = <<>> /\ boxes[i].queue = <<>>
             /\ boxes[i].overtaken <= 1
  BY DEF AlertsInv, BoxOk, Counted
<1>. QED  BY <1>1 DEF N!AlertsAreCounted, N!HaltsGoFirst, ToDo

-----------------------------------------------------------------------------
(* Labels.  Where threads take turns, what a thread half-way has not yet   *)
(* installed is all that engine, risk manager and store may differ in.     *)

Labelled == {CHOOSE s \in Symbols : TRUE}
Learnt == [Labelled -> {"none", "learned"}]

LabelsShape ==
    /\ hand = [s \in Labelled |-> hand[s]] /\ auto \in Learnt /\ stored \in Learnt
    /\ thread = [t \in L!Threads |-> thread[t]]
    /\ \A t \in L!Threads :
         /\ thread[t] = [pc |-> thread[t].pc, symbol |-> thread[t].symbol,
                         maps |-> thread[t].maps, cfg |-> thread[t].cfg]
         /\ thread[t].symbol \in Labelled
         /\ thread[t].pc = "save" => thread[t].maps \in Learnt
    /\ thread[L!Operator].pc \notin {"learned", "persist", "save"}

(* How far thread t has come. *)
HalfWay(t) ==
    LET pc == thread[t].pc IN
    /\ pc = "learned" \/ (t = L!Operator /\ pc # "idle") => stored = auto
    /\ pc \in {"install", "size"} => thread[t].maps = merged
    /\ pc \in {"learned", "size", "screener", "persist", "save"} => guard = merged
    /\ pc \in {"learned", "screener", "persist", "save"} => rmGuard = merged
    /\ pc = "screener" => thread[t].cfg = asked
    /\ pc = "save" => thread[t].maps = auto

Turns ==
    /\ screenCfg = asked
    /\ \A t, u \in L!Threads : thread[t].pc # "idle" /\ thread[u].pc # "idle" => t = u
    /\ L!Quiet => guard = merged /\ rmGuard = merged /\ stored = auto
    /\ \A t \in L!Threads : HalfWay(t)

LabelsInv == LabelsShape /\ L!HandWins /\ (~meet.overlap => Turns)

(* Thread t is now at r, and nobody else has moved. *)
Steps(t, r) ==
    /\ thread' = [u \in L!Threads |-> thread'[u]] /\ thread'[t] = r
    /\ \A u \in L!Threads \ {t} : thread'[u] = thread[u]

LEMMA ThreadSet ==
    ASSUME LabelsShape, NEW t \in L!Threads, NEW r, thread' = [thread EXCEPT ![t] = r]
    PROVE  Steps(t, r)
BY DEF LabelsShape, Steps

LEMMA ThreadGoes ==
    ASSUME LabelsShape, NEW t \in L!Threads, NEW pc, L!Goto(t, pc)
    PROVE  Steps(t, [pc |-> pc, symbol |-> thread[t].symbol, maps |-> thread[t].maps, cfg |-> thread[t].cfg])
<1>1. thread' = [thread EXCEPT ![t] = [thread[t] EXCEPT !.pc = pc]]
  BY DEF LabelsShape, L!Goto
<1>2. [thread[t] EXCEPT !.pc = pc]
        = [pc |-> pc, symbol |-> thread[t].symbol, maps |-> thread[t].maps, cfg |-> thread[t].cfg]
  BY DEF LabelsShape
<1>. QED  BY <1>1, <1>2, ThreadSet

(* A thread moves; what is looked up, learned and written by hand agrees,  *)
(* or it is about to be merged. *)
LEMMA StepKeeps ==
    ASSUME LabelsShape, NEW t \in L!Threads, NEW pc, NEW s \in Labelled, NEW maps, NEW cfg,
           Steps(t, [pc |-> pc, symbol |-> s, maps |-> maps, cfg |-> cfg]),
           hand' = [u \in Labelled |-> hand'[u]], auto' \in Learnt, stored' \in Learnt,
           pc = "save" => maps \in Learnt,
           t = L!Operator => pc \notin {"learned", "persist", "save"}
    PROVE  LabelsShape'
<1>1. \A u \in L!Threads :
         /\ thread'[u] = [pc |-> thread'[u].pc, symbol |-> thread'[u].symbol,
                          maps |-> thread'[u].maps, cfg |-> thread'[u].cfg]
         /\ thread'[u].symbol \in Labelled
         /\ thread'[u].pc = "save" => thread'[u].maps \in Learnt
  BY DEF LabelsShape, Steps
<1>2. L!Operator \in L!Threads /\ thread'[L!Operator].pc \notin {"learned", "persist", "save"}
  BY DEF LabelsShape, Steps, L!Threads
<1>3. thread' = [u \in L!Threads |-> thread'[u]]
  BY DEF Steps
<1>. QED  BY <1>1, <1>2, <1>3 DEF LabelsShape

LEMMA MergedKept ==
    ASSUME LabelsShape, L!HandWins, NEW t \in L!Threads, NEW r, Steps(t, r),
           \/ r.pc = "merge"
           \/ thread[t].pc # "merge" /\ merged' = merged /\ hand' = hand /\ auto' = auto
           \/ merged' = L!Layer(hand', auto')
    PROVE  L!HandWins'
<1>1. CASE r.pc = "merge"
  BY <1>1 DEF L!HandWins, Steps
<1>2. CASE r.pc # "merge" /\ thread[t].pc # "merge" /\ merged' = merged /\ hand' = hand /\ auto' = auto
  BY <1>2 DEF Steps, L!HandWins, L!Layer
<1>3. CASE merged' = L!Layer(hand', auto')
  BY <1>3 DEF L!HandWins, L!Layer
<1>. QED  BY <1>1, <1>2, <1>3

(* Where threads take turns, the one that moves is the only one at work. *)
LEMMA OnlyOne ==
    ASSUME LabelsShape, NEW t \in L!Threads, NEW r, Steps(t, r), ~meet.overlap, L!MayRun(t)
    PROVE  /\ \A u \in L!Threads \ {t} : thread[u].pc = "idle" /\ thread'[u].pc = "idle"
           /\ L!Quiet <=> thread[t].pc = "idle"
           /\ L!Quiet' <=> r.pc = "idle"
BY DEF L!MayRun, Steps, L!Quiet

LEMMA TurnsKept ==
    ASSUME LabelsShape, NEW t \in L!Threads, NEW r, Steps(t, r), ~meet.overlap, L!MayRun(t),
           screenCfg' = asked',
           r.pc = "idle" => guard' = merged' /\ rmGuard' = merged' /\ stored' = auto',
           HalfWay(t)'
    PROVE  Turns'
<1>1. /\ \A u \in L!Threads \ {t} : thread'[u].pc = "idle"
      /\ L!Quiet' <=> r.pc = "idle"
  BY OnlyOne
<1>2. \A u \in L!Threads : HalfWay(u)'
  BY <1>1 DEF HalfWay
<1>. QED  BY <1>1, <1>2 DEF Turns

LEMMA LookupStep ==
    ASSUME LabelsInv, NEW t \in Learners, L!Operator \notin Learners, NEW s \in Labelled, L!Lookup(t, s)
    PROVE  LabelsInv'
<1> DEFINE r == [pc |-> "learned", symbol |-> s, maps |-> L!Unlabelled, cfg |-> 0]
<1>1. t \in L!Threads /\ t # L!Operator /\ LabelsShape /\ L!HandWins /\ thread[t].pc = "idle" /\ L!MayRun(t)
  BY DEF L!Threads, LabelsInv, L!Lookup
<1>2. UNCHANGED <<meet, hand, auto, merged, guard, rmGuard, screenCfg, stored, asked>>
  BY DEF L!Lookup
<1>3. Steps(t, r)
  <2>0. PICK x : L!Idle = [pc |-> "idle", symbol |-> x, maps |-> L!Unlabelled, cfg |-> 0]
    BY DEF L!Idle
  <2> DEFINE n == [L!Idle EXCEPT !.pc = "learned", !.symbol = s]
  <2>1. /\ n = [pc |-> n.pc, symbol |-> n.symbol, maps |-> n.maps, cfg |-> n.cfg]
        /\ n.pc = "learned" /\ n.symbol = s /\ n.maps = L!Unlabelled /\ n.cfg = 0
    <3> DEFINE i == L!Idle  e == L!Unlabelled
    <3>1. i = [pc |-> "idle", symbol |-> x, maps |-> e, cfg |-> 0]
      BY <2>0
    <3> HIDE DEF i, e
    <3>2. n = [i EXCEPT !.pc = "learned", !.symbol = s]
      BY DEF i
    <3> HIDE DEF n
    <3>3. /\ n = [pc |-> n.pc, symbol |-> n.symbol, maps |-> n.maps, cfg |-> n.cfg]
          /\ n.pc = "learned" /\ n.symbol = s /\ n.maps = e /\ n.cfg = 0
      BY <3>1, <3>2
    <3>. QED  BY <3>3 DEF e
  <2> HIDE DEF n
  <2>2. n = r
    BY <2>1
  <2>3. thread' = [thread EXCEPT ![t] = n]
    BY DEF L!Lookup, n
  <2>. QED  BY <1>1, <2>2, <2>3, ThreadSet
<1>4. LabelsShape'
  BY <1>1, <1>2, <1>3, StepKeeps, SMTT(30) DEF LabelsShape
<1>5. L!HandWins'
  BY <1>1, <1>2, <1>3, MergedKept
<1>6. ASSUME ~meet.overlap
      PROVE  Turns'
  BY <1>1, <1>3, <1>6, OnlyOne, <1>2, TurnsKept DEF LabelsInv, HalfWay, Turns, Steps
<1>. QED  BY <1>2, <1>4, <1>5, <1>6 DEF LabelsInv

LEMMA SetAutoStep ==
    ASSUME LabelsInv, NEW t \in Learners, L!Operator \notin Learners, L!SetAuto(t)
    PROVE  LabelsInv'
<1> DEFINE r(pc) == [pc |-> pc, symbol |-> thread[t].symbol, maps |-> thread[t].maps, cfg |-> thread[t].cfg]
<1>1. /\ t \in L!Threads /\ t # L!Operator /\ LabelsShape /\ L!HandWins /\ thread[t].pc = "learned"
      /\ L!MayRun(t) /\ thread[t].symbol \in Labelled
  BY DEF L!Threads, LabelsInv, L!SetAuto, LabelsShape
<1>2. UNCHANGED <<meet, hand, merged, guard, rmGuard, screenCfg, stored, asked>>
  BY DEF L!SetAuto
<1>3. \/ Steps(t, r("idle")) /\ auto' = auto
      \/ Steps(t, r("merge")) /\ auto' = [auto EXCEPT ![thread[t].symbol] = "learned"]
  BY <1>1, ThreadGoes DEF L!SetAuto
<1>4. auto' \in Learnt
  BY <1>1, <1>3 DEF LabelsShape, Learnt
<1>5. LabelsShape'
  <2>1. stored' \in Learnt /\ hand' = [u \in Labelled |-> hand'[u]]
    BY <1>1, <1>2 DEF LabelsShape
  <2>. QED  BY <1>1, <1>3, <1>4, <2>1, StepKeeps
<1>6. L!HandWins'
  BY <1>1, <1>2, <1>3, MergedKept
<1>7. ASSUME ~meet.overlap
      PROVE  Turns'
  <2>1. Turns /\ HalfWay(t)
    BY <1>1, <1>7 DEF LabelsInv, Turns
  <2>2. HalfWay(t)'
    BY <1>1, <1>2, <1>3, <2>1 DEF HalfWay, Steps
  <2>3. screenCfg' = asked'
    BY <1>2, <2>1 DEF Turns
  <2>4. guard = merged /\ rmGuard = merged /\ stored = auto
    BY <1>1, <2>1 DEF HalfWay
  <2>5. CASE Steps(t, r("idle")) /\ auto' = auto
    BY <1>1, <1>2, <1>7, <2>2, <2>3, <2>4, <2>5, TurnsKept
  <2>6. CASE Steps(t, r("merge"))
    BY <1>1, <1>7, <2>2, <2>3, <2>6, TurnsKept
  <2>. QED  BY <1>3, <2>5, <2>6
<1>. QED  BY <1>2, <1>5, <1>6, <1>7 DEF LabelsInv

LEMMA SetHandStep ==
    ASSUME LabelsInv, L!Operator \notin Learners, NEW s \in Labelled, L!SetHand(s)
    PROVE  LabelsInv'
<1> DEFINE t == L!Operator
           r == [pc |-> "merge", symbol |-> thread[t].symbol, maps |-> thread[t].maps, cfg |-> thread[t].cfg]
<1>1. /\ t \in L!Threads /\ LabelsShape /\ L!HandWins /\ thread[t].pc = "idle"
      /\ L!MayRun(t) /\ thread[t].symbol \in Labelled
  BY DEF L!Threads, LabelsInv, L!SetHand, LabelsShape
<1>2. UNCHANGED <<meet, auto, merged, guard, rmGuard, screenCfg, stored, asked>>
  BY DEF L!SetHand
<1>3. Steps(t, r)
  BY <1>1, ThreadGoes DEF L!SetHand
<1>4. hand' = [u \in Labelled |-> hand'[u]] /\ auto' \in Learnt /\ stored' \in Learnt
  BY <1>1, <1>2 DEF LabelsShape, L!SetHand
<1> HIDE DEF t
<1>5. LabelsShape'
  BY <1>1, <1>3, <1>4, StepKeeps
<1>6. L!HandWins'
  BY <1>1, <1>3, MergedKept
<1>7. ASSUME ~meet.overlap
      PROVE  Turns'
  BY <1>1, <1>3, <1>7, OnlyOne, <1>2, TurnsKept DEF LabelsInv, HalfWay, Turns, Steps
<1>. QED  BY <1>2, <1>5, <1>6, <1>7 DEF LabelsInv

LEMMA EditScreenerStep ==
    ASSUME LabelsInv, L!EditScreener
    PROVE  LabelsInv'
<1>1. /\ LabelsShape /\ L!HandWins /\ L!Operator \in L!Threads /\ thread[L!Operator].pc = "idle"
      /\ L!MayRun(L!Operator) /\ screenCfg' = asked'
      /\ UNCHANGED <<meet, hand, auto, merged, guard, rmGuard, stored, thread>>
  BY DEF LabelsInv, L!EditScreener, L!Threads
<1>2. LabelsShape' /\ L!HandWins'
  BY <1>1 DEF LabelsShape, L!HandWins, L!Layer
<1>3. ASSUME ~meet.overlap
      PROVE  Turns'
  BY <1>1, <1>3 DEF LabelsInv, L!MayRun, L!Quiet, HalfWay, Turns
<1>. QED  BY <1>1, <1>2, <1>3 DEF LabelsInv

LEMMA ThreadHolds ==
    ASSUME LabelsShape, NEW t \in L!Threads, NEW pc, NEW maps,
           thread' = [thread EXCEPT ![t].pc = pc, ![t].maps = maps]
    PROVE  Steps(t, [pc |-> pc, symbol |-> thread[t].symbol, maps |-> maps, cfg |-> thread[t].cfg])
<1> DEFINE i == thread[t]
           n == [i EXCEPT !.pc = pc, !.maps = maps]
<1>1. i = [pc |-> i.pc, symbol |-> i.symbol, maps |-> i.maps, cfg |-> i.cfg]
  BY DEF LabelsShape
<1>2. thread' = [thread EXCEPT ![t] = n]
  BY DEF LabelsShape
<1>0. n = [i EXCEPT !.pc = pc, !.maps = maps]
  OBVIOUS
<1> HIDE DEF i, n
<1>3. /\ n = [pc |-> n.pc, symbol |-> n.symbol, maps |-> n.maps, cfg |-> n.cfg]
      /\ n.pc = pc /\ n.symbol = i.symbol /\ n.maps = maps /\ n.cfg = i.cfg
  BY <1>0, <1>1
<1>4. n = [pc |-> pc, symbol |-> i.symbol, maps |-> maps, cfg |-> i.cfg]
  BY <1>3
<1>. QED  BY <1>2, <1>4, ThreadSet DEF i

LEMMA ThreadReads ==
    ASSUME LabelsShape, NEW t \in L!Threads, NEW pc, NEW cfg,
           thread' = [thread EXCEPT ![t].pc = pc, ![t].cfg = cfg]
    PROVE  Steps(t, [pc |-> pc, symbol |-> thread[t].symbol, maps |-> thread[t].maps, cfg |-> cfg])
<1> DEFINE i == thread[t]
           n == [i EXCEPT !.pc = pc, !.cfg = cfg]
<1>1. i = [pc |-> i.pc, symbol |-> i.symbol, maps |-> i.maps, cfg |-> i.cfg]
  BY DEF LabelsShape
<1>2. thread' = [thread EXCEPT ![t] = n]
  BY DEF LabelsShape
<1>0. n = [i EXCEPT !.pc = pc, !.cfg = cfg]
  OBVIOUS
<1> HIDE DEF i, n
<1>3. /\ n = [pc |-> n.pc, symbol |-> n.symbol, maps |-> n.maps, cfg |-> n.cfg]
      /\ n.pc = pc /\ n.symbol = i.symbol /\ n.maps = i.maps /\ n.cfg = cfg
  BY <1>0, <1>1
<1>4. n = [pc |-> pc, symbol |-> i.symbol, maps |-> i.maps, cfg |-> cfg]
  BY <1>3
<1>. QED  BY <1>2, <1>4, ThreadSet DEF i

LEMMA IdleIs ==
    /\ L!Idle = [pc |-> "idle", symbol |-> L!Idle.symbol, maps |-> L!Unlabelled, cfg |-> 0]
    /\ L!Idle.symbol \in Labelled
<1>1. L!Idle = [pc |-> "idle", symbol |-> L!Idle.symbol, maps |-> L!Unlabelled, cfg |-> 0]
  BY DEF L!Idle
<1>2. L!Idle.symbol = CHOOSE s \in Labelled : TRUE
  BY DEF L!Idle, Labelled
<1>. QED  BY <1>1, <1>2 DEF Labelled


LEMMA MergeStep ==
    ASSUME LabelsInv, NEW t \in L!Threads, L!Merge(t)
    PROVE  LabelsInv'
<1>1. /\ LabelsShape /\ L!HandWins /\ thread[t].pc = "merge"
      /\ L!MayRun(t) /\ thread[t].symbol \in Labelled /\ L!Idle.symbol \in Labelled
  BY IdleIs DEF LabelsInv, L!Merge, LabelsShape
<1>2. UNCHANGED <<meet, hand, auto, guard, rmGuard, screenCfg, stored, asked>>
  BY DEF L!Merge
<1>3. Steps(t, [pc |-> "install", symbol |-> thread[t].symbol, maps |-> merged', cfg |-> thread[t].cfg])
  BY <1>1, ThreadHolds DEF L!Merge
<1>4. /\ hand' = [u \in Labelled |-> hand'[u]] /\ auto' \in Learnt /\ stored' \in Learnt /\ auto \in Learnt
      /\ t = L!Operator => thread[t].pc \notin {"persist", "save"}
  BY <1>1, <1>2 DEF LabelsShape
<1>5. LabelsShape'
  BY <1>1, <1>3, <1>4, StepKeeps
<1>6. L!HandWins'
  BY <1>2, <1>1, <1>3, MergedKept DEF L!Merge, L!Layer
<1>7. ASSUME ~meet.overlap
      PROVE  Turns'
  BY <1>7, <1>1, <1>2, <1>3, TurnsKept DEF LabelsInv, Turns, HalfWay, Steps
<1>. QED  BY <1>2, <1>5, <1>6, <1>7 DEF LabelsInv

LEMMA InstallStep ==
    ASSUME LabelsInv, NEW t \in L!Threads, L!Install(t)
    PROVE  LabelsInv'
<1>1. /\ LabelsShape /\ L!HandWins /\ thread[t].pc = "install"
      /\ L!MayRun(t) /\ thread[t].symbol \in Labelled /\ L!Idle.symbol \in Labelled
  BY IdleIs DEF LabelsInv, L!Install, LabelsShape
<1>2. UNCHANGED <<meet, hand, auto, merged, rmGuard, screenCfg, stored, asked>> /\ guard' = thread[t].maps
  BY DEF L!Install
<1>3. Steps(t, [pc |-> "size", symbol |-> thread[t].symbol, maps |-> thread[t].maps, cfg |-> thread[t].cfg])
  BY <1>1, ThreadGoes DEF L!Install
<1>4. /\ hand' = [u \in Labelled |-> hand'[u]] /\ auto' \in Learnt /\ stored' \in Learnt /\ auto \in Learnt
      /\ t = L!Operator => thread[t].pc \notin {"persist", "save"}
  BY <1>1, <1>2 DEF LabelsShape
<1>5. LabelsShape'
  BY <1>1, <1>3, <1>4, StepKeeps
<1>6. L!HandWins'
  BY <1>1, <1>2, <1>3, MergedKept
<1>7. ASSUME ~meet.overlap
      PROVE  Turns'
  BY <1>7, <1>1, <1>2, <1>3, TurnsKept DEF LabelsInv, Turns, HalfWay, Steps
<1>. QED  BY <1>2, <1>5, <1>6, <1>7 DEF LabelsInv

LEMMA SizingStep ==
    ASSUME LabelsInv, NEW t \in L!Threads, L!InstallSizing(t)
    PROVE  LabelsInv'
<1>1. /\ LabelsShape /\ L!HandWins /\ thread[t].pc = "size"
      /\ L!MayRun(t) /\ thread[t].symbol \in Labelled /\ L!Idle.symbol \in Labelled
  BY IdleIs DEF LabelsInv, L!InstallSizing, LabelsShape
<1>2. UNCHANGED <<meet, hand, auto, merged, guard, screenCfg, stored, asked>> /\ rmGuard' = thread[t].maps
  BY DEF L!InstallSizing
<1>3. Steps(t, [pc |-> "screener", symbol |-> thread[t].symbol, maps |-> thread[t].maps, cfg |-> screenCfg])
  BY <1>1, ThreadReads DEF L!InstallSizing
<1>4. /\ hand' = [u \in Labelled |-> hand'[u]] /\ auto' \in Learnt /\ stored' \in Learnt /\ auto \in Learnt
      /\ t = L!Operator => thread[t].pc \notin {"persist", "save"}
  BY <1>1, <1>2 DEF LabelsShape
<1>5. LabelsShape'
  BY <1>1, <1>3, <1>4, StepKeeps
<1>6. L!HandWins'
  BY <1>1, <1>2, <1>3, MergedKept
<1>7. ASSUME ~meet.overlap
      PROVE  Turns'
  BY <1>7, <1>1, <1>2, <1>3, TurnsKept DEF LabelsInv, Turns, HalfWay, Steps
<1>. QED  BY <1>2, <1>5, <1>6, <1>7 DEF LabelsInv

LEMMA RescreenStep ==
    ASSUME LabelsInv, NEW t \in L!Threads, L!Rescreen(t)
    PROVE  LabelsInv'
<1>1. /\ LabelsShape /\ L!HandWins /\ thread[t].pc = "screener"
      /\ L!MayRun(t) /\ thread[t].symbol \in Labelled /\ L!Idle.symbol \in Labelled
  BY IdleIs DEF LabelsInv, L!Rescreen, LabelsShape
<1>2. UNCHANGED <<meet, hand, auto, merged, guard, rmGuard, stored, asked>> /\ screenCfg' = thread[t].cfg
  BY DEF L!Rescreen
<1>3. \/ t = L!Operator /\ Steps(t, [pc |-> "idle", symbol |-> thread[t].symbol, maps |-> thread[t].maps, cfg |-> thread[t].cfg])
      \/ t # L!Operator /\ Steps(t, [pc |-> "persist", symbol |-> thread[t].symbol, maps |-> thread[t].maps, cfg |-> thread[t].cfg])
  BY <1>1, ThreadGoes DEF L!Rescreen
<1>4. /\ hand' = [u \in Labelled |-> hand'[u]] /\ auto' \in Learnt /\ stored' \in Learnt /\ auto \in Learnt
      /\ t = L!Operator => thread[t].pc \notin {"persist", "save"}
  BY <1>1, <1>2 DEF LabelsShape
<1>5. LabelsShape'
  BY <1>1, <1>3, <1>4, StepKeeps
<1>6. L!HandWins'
  BY <1>1, <1>2, <1>3, MergedKept
<1>7. ASSUME ~meet.overlap
      PROVE  Turns'
  BY <1>7, <1>1, <1>2, <1>3, TurnsKept DEF LabelsInv, Turns, HalfWay, Steps
<1>. QED  BY <1>2, <1>5, <1>6, <1>7 DEF LabelsInv

LEMMA PersistStep ==
    ASSUME LabelsInv, NEW t \in L!Threads, L!Persist(t)
    PROVE  LabelsInv'
<1>1. /\ LabelsShape /\ L!HandWins /\ thread[t].pc = "persist"
      /\ L!MayRun(t) /\ thread[t].symbol \in Labelled /\ L!Idle.symbol \in Labelled
  BY IdleIs DEF LabelsInv, L!Persist, L!Saved, LabelsShape
<1>2. UNCHANGED <<meet, hand, auto, merged, guard, rmGuard, screenCfg, stored, asked>>
  BY DEF L!Persist, L!Saved
<1>3. Steps(t, [pc |-> "save", symbol |-> thread[t].symbol, maps |-> auto, cfg |-> thread[t].cfg])
  BY <1>1, ThreadHolds DEF L!Persist, L!Saved
<1>4. /\ hand' = [u \in Labelled |-> hand'[u]] /\ auto' \in Learnt /\ stored' \in Learnt /\ auto \in Learnt
      /\ t = L!Operator => thread[t].pc \notin {"persist", "save"}
  BY <1>1, <1>2 DEF LabelsShape
<1>5. LabelsShape'
  BY <1>1, <1>3, <1>4, StepKeeps
<1>6. L!HandWins'
  BY <1>1, <1>2, <1>3, MergedKept
<1>7. ASSUME ~meet.overlap
      PROVE  Turns'
  BY <1>7, <1>1, <1>2, <1>3, TurnsKept DEF LabelsInv, Turns, HalfWay, Steps
<1>. QED  BY <1>2, <1>5, <1>6, <1>7 DEF LabelsInv

LEMMA SaveSectorsStep ==
    ASSUME LabelsInv, NEW t \in L!Threads, L!SaveSectors(t)
    PROVE  LabelsInv'
<1>1. /\ LabelsShape /\ L!HandWins /\ thread[t].pc = "save"
      /\ L!MayRun(t) /\ thread[t].symbol \in Labelled /\ L!Idle.symbol \in Labelled
  BY IdleIs DEF LabelsInv, L!SaveSectors, LabelsShape
<1>2. UNCHANGED <<meet, hand, auto, merged, guard, rmGuard, screenCfg, asked>> /\ stored' = thread[t].maps
  BY DEF L!SaveSectors
<1>3. Steps(t, [pc |-> "idle", symbol |-> L!Idle.symbol, maps |-> L!Unlabelled, cfg |-> 0])
  BY <1>1, ThreadSet, IdleIs DEF L!SaveSectors
<1>4. /\ hand' = [u \in Labelled |-> hand'[u]] /\ auto' \in Learnt /\ stored' \in Learnt /\ auto \in Learnt
      /\ t = L!Operator => thread[t].pc \notin {"persist", "save"}
  BY <1>1, <1>2 DEF LabelsShape
<1>5. LabelsShape'
  BY <1>1, <1>3, <1>4, StepKeeps
<1>6. L!HandWins'
  BY <1>1, <1>2, <1>3, MergedKept
<1>7. ASSUME ~meet.overlap
      PROVE  Turns'
  BY <1>7, <1>1, <1>2, <1>3, TurnsKept DEF LabelsInv, Turns, HalfWay, Steps
<1>. QED  BY <1>2, <1>5, <1>6, <1>7 DEF LabelsInv

LEMMA RestartStep ==
    ASSUME LabelsInv, L!Restart
    PROVE  LabelsInv'
<1>1. LabelsShape /\ UNCHANGED <<meet, hand, screenCfg, stored, asked>>
  BY DEF LabelsInv, L!Restart
<1>2. /\ auto' = stored /\ merged' = L!Layer(hand, stored) /\ guard' = merged' /\ rmGuard' = merged'
      /\ thread' = [t \in L!Threads |-> L!Idle]
  BY DEF L!Restart
<1>3. LabelsShape'
  BY <1>2, IdleIs, <1>1 DEF L!Threads, LabelsShape
<1>4. L!HandWins'
  BY <1>1, <1>2 DEF L!HandWins, L!Layer
<1>5. ASSUME ~meet.overlap
      PROVE  Turns'
  BY <1>2, IdleIs, <1>1, <1>5 DEF LabelsInv, Turns, HalfWay
<1>. QED  BY <1>1, <1>3, <1>4, <1>5 DEF LabelsInv

LEMMA LabelsStep ==
    ASSUME LabelsInv, L!LabelsAssumption, [L!Next]_lvars
    PROVE  LabelsInv'
<1>0. L!Operator \notin Learners /\ Learners \subseteq L!Threads
  BY DEF L!LabelsAssumption, L!Threads
<1>1. ASSUME NEW t \in Learners, L!Learner(t)
      PROVE  LabelsInv'
  BY <1>0, <1>1, LookupStep, SetAutoStep, PersistStep, SaveSectorsStep DEF L!Learner, Labelled
<1>2. ASSUME NEW t \in L!Threads, L!Rebuild(t)
      PROVE  LabelsInv'
  BY <1>2, MergeStep, InstallStep, SizingStep, RescreenStep DEF L!Rebuild
<1>3. ASSUME NEW s \in Labelled, L!SetHand(s)
      PROVE  LabelsInv'
  BY <1>0, <1>3, SetHandStep
<1>4. CASE UNCHANGED lvars
  BY <1>4 DEF lvars, LabelsInv, LabelsShape, L!HandWins, L!Layer, Turns, HalfWay, L!Quiet
<1>. QED  BY <1>1, <1>2, <1>3, <1>4, EditScreenerStep, RestartStep DEF L!Next, Labelled

LEMMA LabelsStart ==
    ASSUME L!Init
    PROVE  LabelsInv
<1>1. /\ hand = L!Unlabelled /\ auto = L!Unlabelled /\ merged = L!Unlabelled /\ guard = L!Unlabelled
      /\ rmGuard = L!Unlabelled /\ stored = L!Unlabelled /\ screenCfg = asked
      /\ thread = [t \in L!Threads |-> L!Idle]
  BY DEF L!Init
<1>2. L!Unlabelled = [s \in Labelled |-> "none"] /\ L!Operator \in L!Threads
  BY DEF L!Unlabelled, Labelled, L!Threads
<1>3. \A t \in L!Threads :
         /\ thread[t] = [pc |-> thread[t].pc, symbol |-> thread[t].symbol,
                         maps |-> thread[t].maps, cfg |-> thread[t].cfg]
         /\ thread[t].symbol \in Labelled /\ thread[t].pc = "idle"
  BY <1>1, IdleIs
<1>4. LabelsShape
  BY <1>1, <1>2, <1>3 DEF Learnt, LabelsShape
<1>5. L!HandWins
  BY <1>1, <1>2 DEF L!Layer, Labelled, L!HandWins
<1>6. Turns
  BY <1>1, <1>3 DEF Turns, HalfWay
<1>. QED  BY <1>4, <1>5, <1>6 DEF LabelsInv

LEMMA LabelsKept ==
    ASSUME LabelsInv
    PROVE  L!LabelsHold
<1>1. L!OnlyLearnedIsStored
  BY DEF LabelsInv, LabelsShape, Learnt, Labelled, L!OnlyLearnedIsStored
<1>2. L!LabelsSettle
  BY DEF LabelsInv, Turns, L!LabelsSettle, Labelled
<1>. QED  BY <1>1, <1>2 DEF L!LabelsHold, LabelsInv

-----------------------------------------------------------------------------
(* Learned votes.  Each refresh under way is the only one of its symbol    *)
(* and is known to its entry; a model that votes was fitted as many bars   *)
(* ago as are newer than its fit.                                          *)

IsEntry(e) == e = [inflight |-> e.inflight, have |-> e.have, mark |-> e.mark, asked |-> e.asked, at |-> e.at]
IsRequest(r) ==
    /\ r = [id |-> r.id, symbol |-> r.symbol, mark |-> r.mark, pc |-> r.pc, age |-> r.age]
    /\ r.symbol \in Symbols
IsModel(m) ==
    /\ m = [fitted |-> m.fitted, failed |-> m.failed, params |-> m.params, on |-> m.on,
            since |-> m.since, age |-> m.age]
    /\ {m.fitted, m.failed} \subseteq BOOLEAN /\ m.since \in Nat /\ m.age \in Nat

VotesShape ==
    /\ cache = [s \in Symbols |-> cache[s]] /\ model = [s \in Symbols |-> model[s]]
    /\ reading = [s \in Symbols |-> reading[s]]
    /\ \A s \in Symbols : IsEntry(cache[s]) /\ IsModel(model[s])
    /\ \A r \in request : IsRequest(r)

OneRefresh(s) ==
    /\ cache[s].inflight => \E r \in request : r.symbol = s /\ \A q \in request : q.symbol = s => q = r
    /\ ~cache[s].inflight => \A r \in request : r.symbol # s

(* A model that votes is as old as its fit; none is older than a refit. *)
Recent(m) ==
    /\ m.fitted \/ m.failed => m.since < RetrainEvery
    /\ m.fitted /\ ~m.failed => m.age = m.since

VotesInv ==
    /\ VotesShape /\ \A s \in Symbols : Recent(model[s])
    /\ ~votes.forgets => \A s \in Symbols : OneRefresh(s)

LEMMA VotesStart ==
    ASSUME A!AdvisorAssumption, A!Init
    PROVE  VotesInv
<1>1. /\ cache = [s \in Symbols |-> A!NoEntry] /\ request = {} /\ reading = [s \in Symbols |-> 0]
      /\ model = [s \in Symbols |-> A!NoModel(0)]
  BY DEF A!Init
<1>2. IsEntry(A!NoEntry) /\ ~A!NoEntry.inflight
  BY DEF A!NoEntry, IsEntry
<1>3. IsModel(A!NoModel(0)) /\ ~A!NoModel(0).fitted /\ ~A!NoModel(0).failed
  BY DEF A!NoModel, IsModel, A!AdvisorAssumption
<1>. QED  BY <1>1, <1>2, <1>3 DEF VotesInv, VotesShape, OneRefresh, Recent

(* An evaluation of the advisor claims a refresh. *)
LEMMA VerdictStep ==
    ASSUME VotesInv, NEW s \in Symbols, A!Verdict(s)
    PROVE  VotesInv'
<1> DEFINE e == A!Seen(s)
           c == [e EXCEPT !.inflight = TRUE, !.asked = 0]
           n == [id |-> A!NewId, symbol |-> s, mark |-> reading[s], pc |-> "waiting", age |-> 0]
<1>1. /\ cache' = [cache EXCEPT ![s] = c] /\ request' = request \cup {n} /\ ~e.inflight
      /\ UNCHANGED <<votes, reading, model, stepped>>
  BY DEF A!Verdict, A!Due
<1>2. IsEntry(e)
  BY DEF VotesInv, VotesShape, A!Seen, A!NoEntry, IsEntry
<1>3. ~cache[s].inflight
  BY <1>1 DEF A!Seen, A!FromTheFuture
<1>9. c = [e EXCEPT !.inflight = TRUE, !.asked = 0]
  OBVIOUS
<1> HIDE DEF c, e
<1>4. IsEntry(c) /\ c.inflight
  BY <1>2, <1>9 DEF IsEntry
<1>5. IsRequest(n) /\ n.symbol = s
  BY DEF IsRequest
<1> HIDE DEF c, n
<1>6. cache' = [u \in Symbols |-> cache'[u]] /\ cache'[s] = c /\ \A u \in Symbols \ {s} : cache'[u] = cache[u]
  BY <1>1 DEF VotesInv, VotesShape
<1>7. VotesShape'
  BY <1>1, <1>4, <1>5, <1>6 DEF VotesInv, VotesShape
<1>8. ASSUME ~votes.forgets, NEW u \in Symbols
      PROVE  OneRefresh(u)'
  BY <1>8, <1>1, <1>3, <1>4, <1>5, <1>6 DEF VotesInv, OneRefresh
<1>. QED  BY <1>1, <1>7, <1>8 DEF VotesInv

(* A refresh goes on. *)
LEMMA TakeSlotStep ==
    ASSUME VotesInv, NEW r \in request, A!TakeSlot(r)
    PROVE  VotesInv'
<1> DEFINE n == [r EXCEPT !.pc = "asking"]
<1>1. request' = (request \ {r}) \cup {n} /\ UNCHANGED <<votes, reading, cache, model, stepped>>
  BY DEF A!TakeSlot
<1>2. IsRequest(n) /\ n.symbol = r.symbol
  BY DEF VotesInv, VotesShape, IsRequest
<1> HIDE DEF n
<1>3. VotesShape'
  BY <1>1, <1>2 DEF VotesInv, VotesShape
<1>4. ASSUME ~votes.forgets, NEW u \in Symbols
      PROVE  OneRefresh(u)'
  BY <1>4, <1>1, <1>2 DEF VotesInv, OneRefresh
<1>. QED  BY <1>1, <1>3, <1>4 DEF VotesInv

(* A refresh ends: its entry knows. *)
LEMMA RefreshEnds ==
    ASSUME VotesInv, NEW r \in request, request' = request \ {r}, NEW c, IsEntry(c), ~c.inflight,
           cache' = [cache EXCEPT ![r.symbol] = c], UNCHANGED <<votes, reading, model, stepped>>
    PROVE  VotesInv'
<1>1. r.symbol \in Symbols
  BY DEF VotesInv, VotesShape, IsRequest
<1>2. /\ cache' = [u \in Symbols |-> cache'[u]] /\ cache'[r.symbol] = c
      /\ \A u \in Symbols \ {r.symbol} : cache'[u] = cache[u]
  BY <1>1 DEF VotesInv, VotesShape
<1>3. VotesShape'
  BY <1>2 DEF VotesInv, VotesShape
<1>4. ASSUME ~votes.forgets, NEW u \in Symbols
      PROVE  OneRefresh(u)'
  BY <1>4, <1>2 DEF VotesInv, OneRefresh
<1>. QED  BY <1>3, <1>4 DEF VotesInv

(* A refresh that ends unheard was forgotten about. *)
LEMMA UnheardEnds ==
    ASSUME VotesInv, NEW r \in request, request' = request \ {r}, ~A!Known(r.symbol),
           UNCHANGED <<votes, reading, cache, model, stepped>>
    PROVE  VotesInv'
<1>1. r.symbol \in Symbols /\ ~cache[r.symbol].inflight
  BY DEF VotesInv, VotesShape, IsRequest, A!Known, A!NoEntry
<1>2. VotesShape'
  BY DEF VotesInv, VotesShape
<1>3. votes.forgets
  BY <1>1 DEF VotesInv, OneRefresh
<1>. QED  BY <1>2, <1>3 DEF VotesInv

LEMMA RefreshStep ==
    ASSUME VotesInv, NEW r \in request, A!Step(r)
    PROVE  VotesInv'
<1>0. r.symbol \in Symbols /\ IsEntry(cache[r.symbol])
  BY DEF VotesInv, VotesShape, IsRequest
<1>1. ASSUME request' = request \ {r}, cache' = [cache EXCEPT ![r.symbol].inflight = FALSE],
             UNCHANGED <<votes, reading, model, stepped>>
      PROVE  VotesInv'
  <2> DEFINE e == cache[r.symbol]
             c == [e EXCEPT !.inflight = FALSE]
  <2>1. cache' = [cache EXCEPT ![r.symbol] = c]
    BY <1>1 DEF VotesInv, VotesShape
  <2>2. c = [e EXCEPT !.inflight = FALSE] /\ IsEntry(e)
    BY <1>0
  <2> HIDE DEF c, e
  <2>3. IsEntry(c) /\ ~c.inflight
    BY <2>2 DEF IsEntry
  <2>. QED  BY <1>1, <2>1, <2>3, RefreshEnds
<1>2. ASSUME request' = request \ {r}, UNCHANGED <<votes, reading, model, stepped>>,
             cache' = [cache EXCEPT ![r.symbol] =
                [@ EXCEPT !.inflight = FALSE, !.have = TRUE, !.mark = r.mark, !.at = 0]]
      PROVE  VotesInv'
  <2> DEFINE e == cache[r.symbol]
             c == [e EXCEPT !.inflight = FALSE, !.have = TRUE, !.mark = r.mark, !.at = 0]
  <2>1. cache' = [cache EXCEPT ![r.symbol] = c]
    BY <1>2 DEF VotesInv, VotesShape
  <2>2. c = [e EXCEPT !.inflight = FALSE, !.have = TRUE, !.mark = r.mark, !.at = 0] /\ IsEntry(e)
    BY <1>0
  <2> HIDE DEF c, e
  <2>3. IsEntry(c) /\ ~c.inflight
    BY <2>2 DEF IsEntry
  <2>. QED  BY <1>2, <2>1, <2>3, RefreshEnds
<1>3. CASE A!RecordFailure(r)
  BY <1>1, <1>3 DEF A!RecordFailure
<1>4. CASE A!Answer(r)
  BY <1>1, <1>2, <1>4 DEF A!Answer
<1>5. CASE A!AnswerNobody(r) \/ A!GiveUpForNobody(r)
  BY <1>5, UnheardEnds DEF A!AnswerNobody, A!GiveUpForNobody
<1>. QED  BY <1>3, <1>4, <1>5, TakeSlotStep DEF A!Step

(* A symbol leaves the list. *)
LEMMA ForgetStep ==
    ASSUME VotesInv, A!AdvisorAssumption, NEW s \in Symbols, A!Forget(s)
    PROVE  VotesInv'
<1>1. votes.forgets /\ UNCHANGED <<votes, reading, request, stepped>>
  BY DEF A!Forget
<1>2. CASE cache' = [cache EXCEPT ![s] = A!NoEntry] /\ UNCHANGED model
  BY <1>1, <1>2 DEF A!NoEntry, IsEntry, VotesInv, VotesShape
<1>3. CASE model' = [model EXCEPT ![s] = A!NoModel(reading[s])] /\ UNCHANGED cache
  BY <1>3, <1>1 DEF A!NoModel, IsModel, Recent, A!AdvisorAssumption, VotesInv, VotesShape
<1>. QED  BY <1>2, <1>3 DEF A!Forget

Aged(r) == [r EXCEPT !.age = @ + 1]

(* Time passes for entries and requests, or the clock is set back. *)
LEMMA ClockStep ==
    ASSUME VotesInv, A!Tick \/ A!ClockBack
    PROVE  VotesInv'
<1>1. UNCHANGED <<votes, reading, model>>
  BY DEF A!Tick, A!ClockBack
<1>2. /\ cache' = [u \in Symbols |-> cache'[u]]
      /\ \A u \in Symbols : IsEntry(cache'[u]) /\ cache'[u].inflight = cache[u].inflight
  <2>1. CASE A!Tick
    <3>1. cache' = [u \in Symbols |-> [cache[u] EXCEPT !.asked = A!Older(@, A!Cap), !.at = A!Older(@, A!Cap)]]
      BY <2>1 DEF A!Tick
    <3>2. ASSUME NEW u \in Symbols
          PROVE  IsEntry(cache'[u]) /\ cache'[u].inflight = cache[u].inflight
      <4> DEFINE x == A!Older(cache[u].asked, A!Cap)  y == A!Older(cache[u].at, A!Cap)
      <4>1. cache'[u] = [cache[u] EXCEPT !.asked = x, !.at = y] /\ IsEntry(cache[u])
        BY <3>1 DEF VotesInv, VotesShape
      <4> HIDE DEF x, y
      <4>. QED  BY <4>1 DEF IsEntry
    <3>. QED  BY <3>1, <3>2
  <2>2. CASE A!ClockBack
    <3>1. cache' = [u \in Symbols |->
             IF A!Known(u) THEN [cache[u] EXCEPT !.asked = -1, !.at = -1] ELSE cache[u]]
      BY <2>2 DEF A!ClockBack
    <3>2. ASSUME NEW u \in Symbols
          PROVE  IsEntry(cache'[u]) /\ cache'[u].inflight = cache[u].inflight
      <4>1. IsEntry(cache[u]) /\ (cache'[u] = [cache[u] EXCEPT !.asked = -1, !.at = -1] \/ cache'[u] = cache[u])
        BY <3>1 DEF VotesInv, VotesShape
      <4>. QED  BY <4>1 DEF IsEntry
    <3>. QED  BY <3>1, <3>2
  <2>. QED  BY <2>1, <2>2
<1>3. \/ request' = request
      \/ request' = {Aged(r) : r \in request}
  BY DEF A!Tick, A!ClockBack, Aged
<1>6. \A q \in request : Aged(q).symbol = q.symbol /\ IsRequest(Aged(q)) /\ IsRequest(q)
  BY DEF VotesInv, VotesShape, IsRequest, Aged
<1>4. VotesShape'
  BY <1>1, <1>2, <1>3, <1>6 DEF VotesInv, VotesShape
<1>5. ASSUME ~votes.forgets, NEW u \in Symbols
      PROVE  OneRefresh(u)'
  <2>1. OneRefresh(u) /\ cache'[u].inflight = cache[u].inflight
    BY <1>2, <1>5 DEF VotesInv
  <2>2. CASE request' = request
    BY <2>1, <2>2 DEF OneRefresh
  <2>3. CASE request' = {Aged(r) : r \in request}
    <3>1. CASE cache[u].inflight
      <4>1. PICK r \in request : r.symbol = u /\ \A q \in request : q.symbol = u => q = r
        BY <2>1, <3>1 DEF OneRefresh
      <4>2. Aged(r) \in request' /\ Aged(r).symbol = u
        BY <1>6, <2>3, <4>1
      <4>3. ASSUME NEW q \in request', q.symbol = u
            PROVE  q = Aged(r)
        BY <1>6, <2>3, <4>1, <4>3
      <4>. QED  BY <2>1, <3>1, <4>2, <4>3 DEF OneRefresh
    <3>2. CASE ~cache[u].inflight
      BY <1>6, <2>1, <3>2, <2>3 DEF OneRefresh
    <3>. QED  BY <3>1, <3>2
  <2>. QED  BY <1>3, <2>2, <2>3
<1>. QED  BY <1>1, <1>4, <1>5 DEF VotesInv

(* The predictor takes a bar. *)
LEMMA BarStep ==
    ASSUME VotesInv, A!AdvisorAssumption, RetrainEvery <= Window, NEW s \in Symbols, A!Bar(s)
    PROVE  VotesInv'
<1> DEFINE m == A!ModelEntry(s)
           k == A!CountBar(m)
           n == [k EXCEPT !.since = IF m.fitted \/ m.failed THEN @ ELSE Window]
<1>0. RetrainEvery \in Nat \ {0} /\ Window \in Nat \ {0}
  BY DEF A!AdvisorAssumption
<1>1. UNCHANGED <<votes, reading, cache, request, stepped>>
  BY DEF A!Bar
<1>2. /\ \/ ~A!FitDue(n) /\ model' = [model EXCEPT ![s] = n]
         \/ A!FitDue(n) /\ model' = [model EXCEPT ![s] =
              [n EXCEPT !.fitted = TRUE, !.failed = FALSE, !.on = reading[s], !.since = 0, !.age = 0]]
         \/ A!FitDue(n) /\ model' = [model EXCEPT ![s] = [n EXCEPT !.failed = TRUE, !.since = 0]]
  BY DEF A!Bar
<1>3. IsModel(m) /\ Recent(m)
  BY <1>0 DEF VotesInv, VotesShape, A!NoModel, IsModel, Recent, A!ModelEntry
<1> HIDE DEF m
<1>4. /\ k = [k EXCEPT !.since = k.since] /\ k.fitted = m.fitted /\ k.failed = m.failed
      /\ k.since = A!Older(m.since, Window) /\ k.age = A!Older(m.age, RetrainEvery + 1)
      /\ IsModel(k)
  <2>1. k = [m EXCEPT !.since = A!Older(@, Window), !.age = A!Older(@, RetrainEvery + 1)]
    BY DEF A!CountBar
  <2>2. A!Older(m.since, Window) \in Nat /\ A!Older(m.age, RetrainEvery + 1) \in Nat
    BY <1>0, <1>3 DEF A!Older, IsModel
  <2> HIDE DEF k
  <2>. QED  BY <1>3, <2>1, <2>2 DEF IsModel
<1>9. n = [k EXCEPT !.since = IF m.fitted \/ m.failed THEN @ ELSE Window]
  OBVIOUS
<1> HIDE DEF k, n
<1>5. /\ IsModel(n) /\ n.fitted = m.fitted /\ n.failed = m.failed /\ n.age = k.age
      /\ n.since = IF m.fitted \/ m.failed THEN k.since ELSE Window
  BY <1>0, <1>4, <1>9 DEF IsModel
<1>6. PICK e : model' = [model EXCEPT ![s] = e] /\ IsModel(e) /\ Recent(e)
  <2>1. CASE ~A!FitDue(n) /\ model' = [model EXCEPT ![s] = n]
    <3>1. n.since < RetrainEvery
      BY <1>0, <1>5, <2>1 DEF A!FitDue, IsModel
    <3>2. n.fitted /\ ~n.failed => n.age = n.since
      BY <1>0, <1>3, <1>4, <1>5 DEF A!Older, Recent, IsModel
    <3>. QED  BY <1>5, <2>1, <3>1, <3>2 DEF Recent
  <2>2. CASE model' = [model EXCEPT ![s] =
              [n EXCEPT !.fitted = TRUE, !.failed = FALSE, !.on = reading[s], !.since = 0, !.age = 0]]
    <3> DEFINE e == [n EXCEPT !.fitted = TRUE, !.failed = FALSE, !.on = reading[s], !.since = 0, !.age = 0]
    <3>0. e = [n EXCEPT !.fitted = TRUE, !.failed = FALSE, !.on = reading[s], !.since = 0, !.age = 0]
          /\ model' = [model EXCEPT ![s] = e]
      BY <2>2
    <3> HIDE DEF e
    <3>1. IsModel(e) /\ e.since = 0 /\ e.age = 0
      BY <1>5, <3>0 DEF IsModel
    <3>2. Recent(e)
      BY <1>0, <3>1 DEF Recent
    <3>. QED  BY <3>0, <3>1, <3>2
  <2>3. CASE model' = [model EXCEPT ![s] = [n EXCEPT !.failed = TRUE, !.since = 0]]
    <3> DEFINE e == [n EXCEPT !.failed = TRUE, !.since = 0]
    <3>0. e = [n EXCEPT !.failed = TRUE, !.since = 0] /\ model' = [model EXCEPT ![s] = e]
      BY <2>3
    <3> HIDE DEF e
    <3>1. IsModel(e) /\ e.since = 0 /\ e.failed
      BY <1>5, <3>0 DEF IsModel
    <3>2. Recent(e)
      BY <1>0, <3>1 DEF Recent
    <3>. QED  BY <3>0, <3>1, <3>2
  <2>. QED  BY <1>2, <2>1, <2>2, <2>3
<1>7. model' = [u \in Symbols |-> model'[u]] /\ model'[s] = e
      /\ \A u \in Symbols \ {s} : model'[u] = model[u]
  BY <1>6 DEF VotesInv, VotesShape
<1>. QED  BY <1>1, <1>6, <1>7 DEF VotesInv, VotesShape, OneRefresh

LEMMA VotesStep ==
    ASSUME VotesInv, A!AdvisorAssumption, RetrainEvery <= Window, [A!Next]_avars
    PROVE  VotesInv'
<1>1. ASSUME NEW s \in Symbols, A!Move(s)
      PROVE  VotesInv'
  BY <1>1 DEF A!Move, VotesInv, VotesShape, OneRefresh
<1>2. CASE UNCHANGED avars
  BY <1>2 DEF avars, VotesInv, VotesShape, OneRefresh
<1>. QED  BY <1>1, <1>2, VerdictStep, ForgetStep, BarStep, RefreshStep, ClockStep DEF A!Next

(* The advisor counts as everyone does. *)
LEMMA SameCount ==
    ASSUME NEW S
    PROVE  A!Cardinality(S) = Cardinality(S)
BY DEF A!Cardinality, Cardinality

LEMMA VotesKept ==
    ASSUME VotesInv
    PROVE  A!OneRequest /\ A!ModelsAreRefitted
<1>1. A!ModelsAreRefitted
  BY DEF VotesInv, VotesShape, Recent, A!ModelsAreRefitted
<1>2. ASSUME ~votes.forgets, NEW s \in Symbols
      PROVE  Cardinality({r \in request : r.symbol = s}) = IF cache[s].inflight THEN 1 ELSE 0
  <2>0. OneRefresh(s)
    BY <1>2 DEF VotesInv
  <2>1. CASE cache[s].inflight
    <3>1. PICK r \in request : {q \in request : q.symbol = s} = {r}
      BY <2>0, <2>1 DEF OneRefresh
    <3>. QED  BY <2>1, <3>1, FS_Singleton
  <2>2. CASE ~cache[s].inflight
    BY <2>0, <2>2, FS_EmptySet DEF OneRefresh
  <2>. QED  BY <2>1, <2>2
<1>3. A!OneRequest
  BY <1>2, SameCount DEF A!OneRequest
<1>. QED  BY <1>1, <1>3

-----------------------------------------------------------------------------
(* Trading hours.  The cached schedule, if there is one, lists some days   *)
(* in full, and none of them is yet to come as a whole.                    *)

(* A bounded set of integers has a greatest element, and Max is it. *)
LEMMA MaxIs ==
    ASSUME NEW X, X \subseteq Int, X # {}, NEW b \in Int, \A x \in X : x <= b
    PROVE  C!Max(X) \in X /\ \A y \in X : C!Max(X) >= y
<1>. DEFINE D == {b - x : x \in X}
<1>1. D \subseteq Nat /\ D # {}
  <2>1. ASSUME NEW x \in X
        PROVE  b - x \in Nat
    OBVIOUS
  <2>. QED  BY <2>1
<1>2. PICK d \in D : \A e \in D : d <= e
  <2>. HIDE DEF D
  <2>. QED  BY <1>1, Least
<1>3. PICK m \in X : d = b - m
  OBVIOUS
<1>4. \A y \in X : m >= y
  <2>1. ASSUME NEW y \in X
        PROVE  m >= y
    <3>1. b - m <= b - y
      BY <1>2, <1>3
    <3>. QED  BY <3>1
  <2>. QED  BY <2>1
<1>. QED  BY <1>4 DEF C!Max

LEMMA DaysAdvance ==
    ASSUME C!HoursAssumption, NEW a \in Nat, NEW b \in Nat, a <= b
    PROVE  C!DayOf(a) \in Nat /\ C!DayOf(b) \in Nat /\ C!DayOf(a) <= C!DayOf(b)
<1>1. Day \in Nat \ {0}
  BY DEF C!HoursAssumption
<1>. QED  BY <1>1 DEF C!DayOf

LEMMA DayEnds ==
    ASSUME C!HoursAssumption, NEW a \in Nat, NEW k \in Nat, C!DayOf(a) < k
    PROVE  a < k * Day
<1>1. Day \in Nat \ {0}
  BY DEF C!HoursAssumption
<1>. QED  BY <1>1 DEF C!DayOf

(* The events listed for the days from d on. *)
Listing(d) == UNION {C!Events(s) : s \in {r \in venue.sessions : C!DayOf(r.open) \in d..d + venue.serves - 1}}

HoursInv ==
    /\ venue \in Venues /\ hour \in 0..Hours
    /\ events = {} \/ \E d \in Nat : d <= C!DayOf(hour) /\ events = Listing(d)

LEMMA HoursStart ==
    ASSUME C!HoursAssumption, C!Init
    PROVE  HoursInv
<1>1. Hours \in Nat
  BY DEF C!HoursAssumption
<1>. QED  BY <1>1 DEF HoursInv, C!Init

LEMMA HoursStep ==
    ASSUME HoursInv, C!HoursAssumption, [C!Next]_cvars
    PROVE  HoursInv'
<1>0. hour \in Nat /\ Hours \in Nat /\ hour <= Hours
  BY DEF HoursInv, C!HoursAssumption
<1>1. C!Served = Listing(C!DayOf(hour)) /\ C!DayOf(hour) \in Nat
  BY <1>0, DaysAdvance DEF C!Served, Listing
<1>2. ASSUME venue' = venue, hour' = hour, events' \in {events, C!Served, {}}
      PROVE  HoursInv'
  BY <1>0, <1>1, <1>2 DEF HoursInv, Listing, C!Events, C!DayOf
<1>3. CASE UNCHANGED cvars
  BY <1>2, <1>3 DEF cvars
<1>4. CASE C!Tick
  <2>1. venue' = venue /\ hour' = hour + 1 /\ events' = events /\ hour < Hours
    BY <1>4 DEF C!Tick
  <2>2. C!DayOf(hour) <= C!DayOf(hour') /\ C!DayOf(hour) \in Nat /\ C!DayOf(hour') \in Nat
    BY <1>0, <2>1, DaysAdvance
  <2>3. hour' \in 0..Hours
    BY <1>0, <2>1
  <2>4. \A d : Listing(d)' = Listing(d)
    BY <2>1 DEF Listing, C!Events, C!DayOf
  <2>5. C!DayOf(hour)' = C!DayOf(hour')
    BY DEF C!DayOf
  <2>. QED  BY <2>1, <2>2, <2>3, <2>4, <2>5 DEF HoursInv
<1>5. CASE C!Order("entry") \/ C!Order("exit")
  BY <1>5, <1>2 DEF C!Order
<1>6. CASE C!Reloaded
  BY <1>6, <1>2 DEF C!Reloaded
<1>. QED  BY <1>3, <1>4, <1>5, <1>6 DEF C!Next

(* The schedule knows no event after its last close, and has a last event  *)
(* of every type up to any hour. *)
LEMMA LastIs ==
    ASSUME NEW type, NEW cutoff \in Int, cutoff >= -1000, \A e \in events : e.at \in Nat
    PROVE  /\ C!Last(type, cutoff) \in Int
           /\ C!Last(type, cutoff) = C!Never
              \/ \E e \in events : e.type = type /\ e.at <= cutoff /\ e.at = C!Last(type, cutoff)
           /\ \A e \in events : e.type = type /\ e.at <= cutoff => e.at <= C!Last(type, cutoff)
<1>. DEFINE ats == {e.at : e \in {f \in events : f.type = type /\ f.at <= cutoff}}
            all == ats \cup {C!Never}
<1>1. all \subseteq Int /\ all # {} /\ \A x \in all : x <= cutoff
  BY DEF C!Never
<1>2. C!Last(type, cutoff) = C!Max(all)
  BY DEF C!Last
<1>3. C!Max(all) \in all /\ \A y \in all : C!Max(all) >= y
  <2>. HIDE DEF all
  <2>. QED  BY <1>1, MaxIs
<1>. DEFINE m == C!Max(all)
<1>. HIDE DEF m
<1>4. m \in all /\ \A y \in all : m >= y
  BY <1>3 DEF m
<1>5. m \in Int
  BY <1>1, <1>4
<1>6. m = C!Never \/ \E e \in events : e.type = type /\ e.at <= cutoff /\ e.at = m
  BY <1>4
<1>7. ASSUME NEW e \in events, e.type = type, e.at <= cutoff
      PROVE  e.at <= m
  BY <1>7, <1>4, <1>5
<1>. QED  BY <1>2, <1>5, <1>6, <1>7 DEF m

(* What an event stands for. *)
LEMMA EventsAre ==
    ASSUME NEW s, NEW e
    PROVE  e \in C!Events(s) <=>
             \/ e = [at |-> s.open, type |-> "OPEN"] \/ e = [at |-> s.close, type |-> "CLOSE"]
             \/ s.from < s.to /\ e = [at |-> s.from, type |-> "BREAK_START"]
             \/ s.from < s.to /\ e = [at |-> s.to, type |-> "BREAK_END"]
BY DEF C!Events

(* The venue's sessions in figures. *)
SessionsAre(S, early) ==
    /\ \A s \in S :
         /\ s.open \in Nat /\ s.close \in Nat /\ s.from \in Nat /\ s.to \in Nat
         /\ s.open < s.close /\ C!DayOf(s.open) = C!DayOf(s.close)
         /\ s.from < s.to => s.open < s.from /\ s.to < s.close
    /\ \A r, s \in S : r = s \/ r.close < s.open - early \/ s.close < r.open - early
    /\ early \in Nat

(* A schedule that covers the hour is served: by whatever was listed, the  *)
(* session and the break of this hour are in it.                           *)
LEMMA ScheduleTells ==
    ASSUME HoursInv, C!HoursAssumption, C!Covered
    PROVE  C!SessionOpen <=> C!InSession(venue, hour)
<1>. DEFINE S == venue.sessions
            early == venue.early
            serves == venue.serves
            t == hour
<1>0. t \in Nat /\ early \in Nat /\ serves \in Nat /\ events # {}
  BY DEF HoursInv, C!HoursAssumption, C!Covered
<1>1. PICK d \in Nat : d <= C!DayOf(t) /\ events = Listing(d)
  BY <1>0 DEF HoursInv
<1>. DEFINE listed == {r \in S : C!DayOf(r.open) \in d..d + serves - 1}
<1>2. events = UNION {C!Events(s) : s \in listed}
  BY <1>1 DEF Listing
<1>3. SessionsAre(S, early)
  <2>1. PICK s \in listed : TRUE
    BY <1>0, <1>2
  <2>2. C!DayOf(s.open) \in Int /\ d <= C!DayOf(s.open) /\ C!DayOf(s.open) <= d + serves - 1
    BY <1>0, <1>1
  <2>3. serves > 0
    BY <1>0, <1>1, <2>2
  <2>4. C!ListsApart(venue)
    BY <2>3 DEF HoursInv, C!HoursAssumption
  <2>. QED  BY <1>0, <2>4 DEF C!ListsApart, SessionsAre
<1>4. \A s \in S : C!DayOf(s.open) \in Nat /\ C!DayOf(s.close) \in Nat
  BY <1>3, DaysAdvance DEF SessionsAre
<1>5. \A s \in listed : s \in S /\ C!DayOf(s.open) < d + serves
  BY <1>0, <1>1, <1>4
<1>6. \A e \in events : \E s \in listed :
        /\ e \in C!Events(s) /\ e.at \in Nat /\ e.at <= s.close
  <2>1. ASSUME NEW e \in events
        PROVE  \E s \in listed : e \in C!Events(s) /\ e.at \in Nat /\ e.at <= s.close
    <3>1. PICK s \in listed : e \in C!Events(s)
      BY <1>2, <2>1
    <3>2. /\ s.open \in Nat /\ s.close \in Nat /\ s.from \in Nat /\ s.to \in Nat
          /\ s.open < s.close /\ (s.from < s.to => s.open < s.from /\ s.to < s.close)
      BY <1>3, <1>5 DEF SessionsAre
    <3>3. e.at \in {s.open, s.close} \/ (s.from < s.to /\ e.at \in {s.from, s.to})
      BY <3>1, EventsAre
    <3>. QED  BY <3>1, <3>2, <3>3
  <2>. QED  BY <2>1
<1>. DEFINE k == d + serves
<1>7. C!Max(C!Ats) \in C!Ats /\ \A y \in C!Ats : C!Max(C!Ats) >= y
  <2>1. \A x \in C!Ats : x \in Int /\ x <= k * Day
    <3>1. ASSUME NEW e \in events
          PROVE  e.at \in Int /\ e.at <= k * Day
      <4>1. PICK s \in listed : e.at \in Nat /\ e.at <= s.close
        BY <1>6, <3>1
      <4>2. s.close \in Nat /\ C!DayOf(s.close) < k /\ k \in Nat
        BY <1>0, <1>1, <1>3, <1>4, <1>5 DEF SessionsAre
      <4>3. s.close < k * Day
        BY <4>2, DayEnds
      <4>4. k * Day \in Int
        BY <4>2 DEF C!HoursAssumption
      <4>. QED  BY <4>1, <4>2, <4>3, <4>4
    <3>. QED  BY <3>1 DEF C!Ats
  <2>2. C!Ats # {} /\ C!Ats \subseteq Int
    BY <1>0, <2>1 DEF C!Ats
  <2>3. k * Day \in Int
    BY <1>0, <1>1 DEF C!HoursAssumption
  <2>. HIDE DEF k
  <2>. QED  BY <2>1, <2>2, <2>3, MaxIs
<1>8. PICK last \in listed : t <= last.close
  <2>1. PICK e \in events : e.at = C!Max(C!Ats)
    BY <1>7 DEF C!Ats
  <2>2. t <= e.at
    BY <2>1 DEF C!Covered
  <2>3. PICK s \in listed : e.at \in Nat /\ e.at <= s.close
    BY <1>6, <2>1
  <2>4. s.close \in Nat
    BY <1>3, <1>5, <2>3 DEF SessionsAre
  <2>. QED  BY <1>0, <2>2, <2>3, <2>4
<1>9. ASSUME NEW s \in S, s.open - early <= t, t < s.close
      PROVE  s \in listed
  <2>1. s.open \in Nat /\ s.close \in Nat /\ C!DayOf(s.open) = C!DayOf(s.close) /\ s.open < s.close
    BY <1>3 DEF SessionsAre
  <2>2. d <= C!DayOf(s.open)
    <3>1. C!DayOf(t) <= C!DayOf(s.close) /\ C!DayOf(t) \in Nat /\ C!DayOf(s.close) \in Nat
      BY <1>0, <1>9, <2>1, DaysAdvance
    <3>. QED  BY <1>1, <2>1, <3>1
  <2>3. C!DayOf(s.open) <= C!DayOf(last.open)
    <3>1. last.open \in Nat /\ last.close \in Nat /\ last.open < last.close /\ last \in S
      BY <1>3, <1>5, <1>8 DEF SessionsAre
    <3>2. s = last \/ last.close < s.open - early \/ s.close < last.open - early
      BY <1>3, <3>1 DEF SessionsAre
    <3>3. s = last \/ s.open <= last.open
      BY <1>0, <1>8, <1>9, <2>1, <3>1, <3>2
    <3>. QED  BY <1>4, <2>1, <3>1, <3>3, DaysAdvance
  <2>4. C!DayOf(s.open) \in Nat /\ C!DayOf(last.open) \in Nat /\ C!DayOf(last.open) < d + serves
    BY <1>4, <1>5, <1>8
  <2>. QED  BY <1>0, <1>1, <2>2, <2>3, <2>4
<1>. DEFINE opened == C!Last("OPEN", t + early)
            closed == C!Last("CLOSE", t)
            paused == C!Last("BREAK_START", t)
            resumed == C!Last("BREAK_END", t)
<1>10. /\ opened \in Int /\ closed \in Int /\ paused \in Int /\ resumed \in Int
       /\ opened = C!Never \/ \E e \in events : e.type = "OPEN" /\ e.at <= t + early /\ e.at = opened
       /\ closed = C!Never \/ \E e \in events : e.type = "CLOSE" /\ e.at <= t /\ e.at = closed
       /\ paused = C!Never \/ \E e \in events : e.type = "BREAK_START" /\ e.at <= t /\ e.at = paused
       /\ resumed = C!Never \/ \E e \in events : e.type = "BREAK_END" /\ e.at <= t /\ e.at = resumed
       /\ \A e \in events : e.type = "OPEN" /\ e.at <= t + early => e.at <= opened
       /\ \A e \in events : e.type = "CLOSE" /\ e.at <= t => e.at <= closed
       /\ \A e \in events : e.type = "BREAK_START" /\ e.at <= t => e.at <= paused
       /\ \A e \in events : e.type = "BREAK_END" /\ e.at <= t => e.at <= resumed
  BY <1>0, <1>6, LastIs
<1>11. C!SessionOpen <=> /\ opened # C!Never /\ closed <= opened
                         /\ paused = C!Never \/ paused <= resumed
  BY DEF C!SessionOpen
<1>12. \A s \in listed :
         /\ [at |-> s.open, type |-> "OPEN"] \in events /\ [at |-> s.close, type |-> "CLOSE"] \in events
         /\ s.from < s.to => /\ [at |-> s.from, type |-> "BREAK_START"] \in events
                             /\ [at |-> s.to, type |-> "BREAK_END"] \in events
  BY <1>2, EventsAre
<1>13. \A e \in events : \E s \in listed :
         /\ s \in S
         /\ \/ e.type = "OPEN" /\ e.at = s.open
            \/ e.type = "CLOSE" /\ e.at = s.close
            \/ e.type = "BREAK_START" /\ s.from < s.to /\ e.at = s.from
            \/ e.type = "BREAK_END" /\ s.from < s.to /\ e.at = s.to
  BY <1>2, <1>5, EventsAre
<1>14. /\ \A s \in S :
            /\ s.open \in Nat /\ s.close \in Nat /\ s.from \in Nat /\ s.to \in Nat /\ s.open < s.close
            /\ s.from < s.to => s.open < s.from /\ s.to < s.close
       /\ \A r, s \in S : r = s \/ r.close < s.open - early \/ s.close < r.open - early
  BY <1>3 DEF SessionsAre
<1>15. C!InSession(venue, t) <=>
         (\E s \in S : s.open - early <= t /\ t < s.close) /\ ~ \E s \in S : s.from <= t /\ t < s.to
  BY DEF C!InSession, C!InBreak
<1>. HIDE DEF opened, closed, paused, resumed, listed
<1>16. ASSUME C!InSession(venue, t)
       PROVE  C!SessionOpen
  <2>1. PICK s \in S : s.open - early <= t /\ t < s.close
    BY <1>15, <1>16
  <2>2. s \in listed
    BY <1>9, <2>1
  <2>3. s.open <= opened /\ opened # C!Never
    <3>1. s.open \in Nat /\ s.open <= t + early
      BY <1>0, <1>14, <2>1
    <3>2. s.open <= opened
      BY <1>10, <1>12, <2>2, <3>1
    <3>. QED  BY <1>10, <3>1, <3>2 DEF C!Never
  <2>4. closed <= opened
    <3>1. CASE closed = C!Never
      BY <1>10, <1>14, <2>1, <2>3, <3>1 DEF C!Never
    <3>2. CASE closed # C!Never
      <4>1. PICK r \in S : closed = r.close /\ r.close <= t
        BY <1>10, <1>13, <3>2
      <4>2. r # s
        BY <1>0, <1>14, <2>1, <4>1
      <4>3. r.close < s.open - early
        BY <1>14, <4>2, <1>0, <2>1, <4>1
      <4>. QED  BY <1>0, <1>10, <1>14, <2>3, <4>1, <4>3
    <3>. QED  BY <3>1, <3>2
  <2>5. paused = C!Never \/ paused <= resumed
    <3>1. CASE paused # C!Never
      <4>1. PICK r \in listed : r \in S /\ paused = r.from /\ r.from <= t /\ r.from < r.to
        BY <1>10, <1>13, <3>1
      <4>2. r.to <= t /\ r.from \in Nat /\ r.to \in Nat
        BY <1>0, <1>14, <1>15, <1>16, <4>1
      <4>3. r.to <= resumed
        BY <1>10, <1>12, <4>1, <4>2
      <4>. QED  BY <1>10, <4>1, <4>2, <4>3
    <3>. QED  BY <3>1
  <2>. QED  BY <1>11, <2>3, <2>4, <2>5
<1>17. ASSUME C!SessionOpen
       PROVE  C!InSession(venue, t)
  <2>1. opened # C!Never /\ closed <= opened /\ (paused = C!Never \/ paused <= resumed)
    BY <1>11, <1>17
  <2>2. PICK s \in listed : s \in S /\ opened = s.open /\ s.open <= t + early
    BY <1>10, <1>13, <2>1
  <2>3. /\ s.open \in Nat /\ s.close \in Nat /\ s.from \in Nat /\ s.to \in Nat /\ s.open < s.close
        /\ s.from < s.to => s.open < s.from /\ s.to < s.close
    BY <1>14, <2>2
  <2>4. t < s.close
    <3>1. SUFFICES ASSUME s.close <= t PROVE FALSE
      BY <1>0, <2>3
    <3>2. s.close <= closed
      BY <1>10, <1>12, <3>1
    <3>. QED  BY <1>10, <2>1, <2>2, <2>3, <3>2
  <2>5. ASSUME NEW r \in S, r.from <= t, t < r.to
        PROVE  FALSE
    <3>1. /\ r.open \in Nat /\ r.close \in Nat /\ r.from \in Nat /\ r.to \in Nat
          /\ r.open < r.from /\ r.to < r.close /\ r.from < r.to
      BY <1>14, <1>0, <2>5
    <3>2. r = s
      <4>1. r = s \/ r.close < s.open - early \/ s.close < r.open - early
        BY <1>14, <2>2
      <4>. QED  BY <1>0, <2>2, <2>3, <2>4, <2>5, <3>1, <4>1
    <3>3. s.from <= paused /\ paused # C!Never
      <4>1. s.from <= paused
        BY <1>10, <1>12, <2>5, <3>1, <3>2
      <4>. QED  BY <1>10, <2>3, <4>1 DEF C!Never
    <3>4. paused <= resumed /\ resumed # C!Never
      BY <1>10, <2>1, <2>3, <3>3 DEF C!Never
    <3>5. PICK x \in S : resumed = x.to /\ x.to <= t /\ x.from < x.to
      BY <1>10, <1>13, <3>4
    <3>6. /\ x.open \in Nat /\ x.close \in Nat /\ x.from \in Nat /\ x.to \in Nat
          /\ x.open < x.from /\ x.to < x.close
      BY <1>14, <3>5
    <3>7. x # s
      BY <1>0, <2>3, <2>5, <3>2, <3>5
    <3>8. x.close < s.open - early \/ s.close < x.open - early
      BY <1>14, <2>2, <3>7
    <3>9. s.from <= x.to
      BY <1>10, <2>3, <3>3, <3>4, <3>5, <3>6
    <3>10. s.open < s.from
      BY <3>1, <3>2
    <3>. QED  BY <1>0, <2>3, <2>4, <3>5, <3>6, <3>8, <3>9, <3>10
  <2>6. s.open - early <= t
    BY <1>0, <2>2, <2>3
  <2>. QED  BY <1>15, <2>2, <2>4, <2>5, <2>6
<1>. QED  BY <1>16, <1>17

LEMMA HoursKept ==
    ASSUME HoursInv, C!HoursAssumption
    PROVE  C!HoursAreKept
<1>1. C!ScheduleKnown => (C!SessionOpen <=> C!InSession(venue, hour))
  BY ScheduleTells DEF C!ScheduleKnown
<1>2. venue.calendar # "unknown" =>
        /\ C!InSession(venue, hour) => C!CalendarOpen
        /\ C!CalendarOpen /\ ~C!InSession(venue, hour) =>
             /\ ~C!Weekend(hour)
             /\ C!DayOf(hour) \in venue.irregular \/ C!InBreak(venue, hour) \/ hour % Day = venue.regular.close
  BY DEF HoursInv, C!HoursAssumption, C!KeepsCalendar, C!CalendarOpen
<1>3. venue.calendar = "unknown" => C!CalendarOpen
  BY DEF C!CalendarOpen, C!OrderingAllowed
<1>4. C!ExitsAreFree
  BY <1>1, <1>2, <1>3 DEF C!ExitsAreFree, C!MarketOpen
<1>5. C!EntriesMeetAVenue
  BY <1>1, <1>2 DEF C!EntriesMeetAVenue, C!EntryAllowed, C!MarketOpen
<1>. QED  BY <1>1, <1>4, <1>5 DEF C!HoursAreKept, C!ScheduleIsRight

-----------------------------------------------------------------------------
(* Price history.  Each caller under way may still send so many requests   *)
(* before it meets the cooldown; those left to all, and those sent since   *)
(* the cooldown began, are bounded together.                               *)

Retries == MaxRetries + 1

MayStillSend(k) ==
    IF k.pc = "request" THEN Retries - k.attempt
    ELSE IF k.pc = "answer" THEN Retries - 1 - k.attempt ELSE 0

(* The requests callers c may still send, numbered. *)
Left == {x \in Callers \X (1..Retries) : x[2] <= MayStillSend(caller[x[1]])}

Bound == (Cardinality(Callers) - 1) * Retries

IsCall(k) ==
    /\ k = [pc |-> k.pc, from |-> k.from, to |-> k.to, interval |-> k.interval,
            attempt |-> k.attempt, best |-> k.best]
    /\ k.attempt \in 0..MaxRetries
    /\ k.pc = "fetch" => k.attempt = 0

StormShape ==
    /\ caller = [c \in Callers |-> caller[c]] /\ \A c \in Callers : IsCall(caller[c])
    /\ cooling \in Nat /\ storm \in Nat

StormInv ==
    /\ StormShape
    /\ cooling > 0 => storm + Cardinality(Left) <= Bound
    /\ cooling = 0 => storm = 0

CallersFew == IsFiniteSet(Callers) /\ Callers # {}

LEMMA CallersAreFew ==
    ASSUME H!HistoryAssumption
    PROVE  CallersFew
BY DEF H!HistoryAssumption, H!IsFiniteSet, IsFiniteSet, CallersFew

LEMMA Few ==
    ASSUME CallersFew, H!HistoryAssumption
    PROVE  /\ Retries \in Nat \ {0} /\ MaxRetries \in Nat /\ Cooldown \in Nat \ {0}
           /\ Cardinality(Callers) \in Nat \ {0} /\ Bound \in Nat
           /\ IsFiniteSet(Callers \X (1..Retries))
<1>1. Retries \in Nat \ {0} /\ MaxRetries \in Nat /\ Cooldown \in Nat \ {0}
  BY DEF H!HistoryAssumption, Retries
<1>2. Cardinality(Callers) \in Nat \ {0}
  BY FS_CardinalityType, FS_EmptySet DEF CallersFew
<1>3. IsFiniteSet(1..Retries)
  BY <1>1, FS_Interval
<1>4. IsFiniteSet(Callers \X (1..Retries))
  BY <1>3, FS_Product DEF CallersFew
<1>5. Bound \in Nat
  BY <1>1, <1>2 DEF Bound
<1>. QED  BY <1>1, <1>2, <1>4, <1>5

LEMMA LeftIsFinite ==
    ASSUME CallersFew, H!HistoryAssumption
    PROVE  IsFiniteSet(Left) /\ Cardinality(Left) \in Nat
<1>1. Left \subseteq Callers \X (1..Retries)
  BY DEF Left
<1>. QED  BY <1>1, Few, FS_Subset, FS_CardinalityType

(* Caller c moves to k and may send no more than before. *)
LEMMA NoMoreLeft ==
    ASSUME StormInv, CallersFew, H!HistoryAssumption, NEW c \in Callers, NEW k, IsCall(k),
           caller' = [caller EXCEPT ![c] = k],
           cooling > 0 => MayStillSend(k) <= MayStillSend(caller[c])
    PROVE  /\ caller' = [u \in Callers |-> caller'[u]] /\ \A u \in Callers : IsCall(caller'[u])
           /\ cooling > 0 => Cardinality(Left') <= Cardinality(Left)
           /\ Cardinality(Left') \in Nat /\ Cardinality(Left) \in Nat
<1>1. /\ caller' = [u \in Callers |-> caller'[u]] /\ caller'[c] = k
      /\ \A u \in Callers \ {c} : caller'[u] = caller[u]
  BY DEF StormInv, StormShape
<1>2. \A u \in Callers : IsCall(caller[u]) /\ MayStillSend(caller[u]) \in Int
  BY Few DEF StormInv, StormShape, MayStillSend, IsCall
<1>3. MayStillSend(k) \in Int
  BY Few DEF MayStillSend, IsCall
<1>4. ASSUME cooling > 0
      PROVE  Left' \subseteq Left
  BY <1>1, <1>2, <1>4, <1>3, Few DEF Left, Retries, MayStillSend
<1>5. Left' \subseteq Callers \X (1..Retries)
  BY DEF Left, Retries
<1>6. IsFiniteSet(Left') /\ Cardinality(Left') \in Nat
  BY <1>5, Few, FS_Subset, FS_CardinalityType
<1>. QED  BY <1>1, <1>2, <1>4, <1>6, LeftIsFinite, FS_Subset

(* A step that spends no request and begins no cooldown. *)
LEMMA Moves ==
    ASSUME StormInv, CallersFew, H!HistoryAssumption, NEW c \in Callers, NEW k, IsCall(k),
           caller' = [caller EXCEPT ![c] = k], UNCHANGED <<cooling, storm>>,
           cooling > 0 => MayStillSend(k) <= MayStillSend(caller[c])
    PROVE  StormInv'
<1>1. /\ caller' = [u \in Callers |-> caller'[u]] /\ \A u \in Callers : IsCall(caller'[u])
      /\ cooling > 0 => Cardinality(Left') <= Cardinality(Left)
      /\ Cardinality(Left') \in Nat /\ Cardinality(Left) \in Nat
  BY NoMoreLeft
<1>2. StormShape'
  BY <1>1 DEF StormInv, StormShape, IsCall
<1>3. Bound' = Bound /\ Bound \in Nat
  BY Few DEF Bound, Retries
<1>4. storm \in Nat /\ cooling \in Nat
  BY DEF StormInv, StormShape
<1>5. cooling > 0 => storm + Cardinality(Left') <= Bound
  BY <1>1, <1>3, <1>4 DEF StormInv
<1>. QED  BY <1>2, <1>3, <1>5 DEF StormInv

(* A step that ends the cooldown, or finds none. *)
LEMMA Calm ==
    ASSUME StormInv, NEW c \in Callers, NEW k, IsCall(k),
           caller' = [caller EXCEPT ![c] = k], cooling' = 0, storm' = 0
    PROVE  StormInv'
<1>1. /\ caller' = [u \in Callers |-> caller'[u]] /\ \A u \in Callers : IsCall(caller'[u])
  BY DEF StormInv, StormShape
<1>2. StormShape'
  BY <1>1 DEF StormShape, IsCall
<1>. QED  BY <1>2 DEF StormInv

(* Nothing of a call may be sent but while it waits to send or to hear. *)
LEMMA Spent ==
    ASSUME NEW k, k.pc \notin {"request", "answer"}
    PROVE  MayStillSend(k) = 0
BY DEF MayStillSend

LEMMA NeverNegative ==
    ASSUME NEW k, IsCall(k), H!HistoryAssumption
    PROVE  MayStillSend(k) \in 0..Retries
<1>1. k.attempt \in Nat /\ k.attempt <= MaxRetries /\ MaxRetries \in Nat
  BY DEF IsCall, H!HistoryAssumption
<1>. QED  BY <1>1 DEF MayStillSend, Retries

SameWindow(n, k) == n.from = k.from /\ n.to = k.to

(* Where a call goes that this interval did not serve. *)
LEMMA NextIntervalIs ==
    ASSUME NEW k, IsCall(k), H!HistoryAssumption
    PROVE  /\ IsCall(H!NextInterval(k)) /\ MayStillSend(H!NextInterval(k)) = 0
           /\ SameWindow(H!NextInterval(k), k)
<1>. DEFINE n == H!NextInterval(k)
<1>0. MaxRetries \in Nat
  BY DEF H!HistoryAssumption
<1>1. k = [pc |-> k.pc, from |-> k.from, to |-> k.to, interval |-> k.interval,
           attempt |-> k.attempt, best |-> k.best] /\ k.attempt \in 0..MaxRetries
  BY DEF IsCall
<1>2. CASE k.interval < Intervals
  <2>1. n = [k EXCEPT !.pc = "fetch", !.interval = k.interval + 1, !.attempt = 0]
    BY <1>2 DEF H!NextInterval
  <2>2. n.pc = "fetch" /\ n.attempt = 0 /\ SameWindow(n, k)
        /\ n = [pc |-> n.pc, from |-> n.from, to |-> n.to, interval |-> n.interval,
                attempt |-> n.attempt, best |-> n.best]
    <3>. HIDE DEF n
    <3>. QED  BY <1>1, <2>1 DEF SameWindow
  <2>. HIDE DEF n
  <2>. IsCall(n) /\ MayStillSend(n) = 0 /\ SameWindow(n, k)
    BY <1>0, <2>2, Spent DEF IsCall
  <2>. QED  BY DEF n
<1>3. CASE ~ (k.interval < Intervals)
  <2>1. n = [k EXCEPT !.pc = "return"]
    BY <1>3 DEF H!NextInterval
  <2>2. n.pc = "return" /\ n.attempt = k.attempt /\ SameWindow(n, k)
        /\ n = [pc |-> n.pc, from |-> n.from, to |-> n.to, interval |-> n.interval,
                attempt |-> n.attempt, best |-> n.best]
    <3>. HIDE DEF n
    <3>. QED  BY <1>1, <2>1 DEF SameWindow
  <2>. HIDE DEF n
  <2>. IsCall(n) /\ MayStillSend(n) = 0 /\ SameWindow(n, k)
    BY <1>1, <2>2, Spent DEF IsCall
  <2>. QED  BY DEF n
<1>. QED  BY <1>2, <1>3

LEMMA BestIs ==
    ASSUME NEW k, IsCall(k), H!HistoryAssumption, NEW enough \in BOOLEAN
    PROVE  IsCall(H!Best(k, enough)) /\ SameWindow(H!Best(k, enough), k)
<1>1. k = [pc |-> k.pc, from |-> k.from, to |-> k.to, interval |-> k.interval,
           attempt |-> k.attempt, best |-> k.best] /\ k.attempt \in 0..MaxRetries
      /\ (k.pc = "fetch" => k.attempt = 0)
  BY DEF IsCall
<1>2. CASE enough
  <2>. DEFINE b == IF k.interval = 1 THEN "own" ELSE "coarse"
              n == H!Best(k, enough)
  <2>1. n = [k EXCEPT !.pc = "return", !.best = b]
    BY <1>2 DEF H!Best
  <2>2. n.pc = "return" /\ n.attempt = k.attempt /\ SameWindow(n, k)
        /\ n = [pc |-> n.pc, from |-> n.from, to |-> n.to, interval |-> n.interval,
                attempt |-> n.attempt, best |-> n.best]
    <3>. HIDE DEF n, b
    <3>. QED  BY <1>1, <2>1 DEF SameWindow
  <2>. HIDE DEF n
  <2>. IsCall(n) /\ SameWindow(n, k)
    BY <1>1, <2>2 DEF IsCall
  <2>. QED  BY DEF n
<1>3. CASE ~enough
  <2>. DEFINE b == IF k.interval = 1 THEN "own"
                   ELSE IF k.best = "none" THEN "coarse" ELSE k.best
              n == [k EXCEPT !.best = b]
  <2>1. H!Best(k, enough) = H!NextInterval(n)
    BY <1>3 DEF H!Best
  <2>2. n.pc = k.pc /\ n.attempt = k.attempt /\ SameWindow(n, k)
        /\ n = [pc |-> n.pc, from |-> n.from, to |-> n.to, interval |-> n.interval,
                attempt |-> n.attempt, best |-> n.best]
    <3>1. n = [k EXCEPT !.best = b]
      OBVIOUS
    <3>. HIDE DEF n, b
    <3>. QED  BY <1>1, <3>1 DEF SameWindow
  <2>. HIDE DEF n
  <2>3. IsCall(n)
    BY <1>1, <2>2 DEF IsCall
  <2>4. IsCall(H!NextInterval(n)) /\ SameWindow(H!NextInterval(n), n)
    BY <2>3, NextIntervalIs
  <2>. QED  BY <2>1, <2>2, <2>4 DEF SameWindow
<1>. QED  BY <1>2, <1>3

(* A request goes out: one less is left to its caller. *)
LEMMA SendKeeps ==
    ASSUME StormInv, CallersFew, H!HistoryAssumption, NEW c \in Callers, H!Send(c)
    PROVE  StormInv'
<1>. DEFINE k == caller[c]
            n == [k EXCEPT !.pc = "answer"]
<1>1. k.pc = "request" /\ caller' = [caller EXCEPT ![c] = n] /\ cooling' = cooling
      /\ storm' = IF cooling > 0 THEN storm + 1 ELSE storm
  BY DEF H!Send
<1>2. IsCall(k)
  BY DEF StormInv, StormShape
<1>3. n.pc = "answer" /\ n.attempt = k.attempt
      /\ n = [pc |-> n.pc, from |-> n.from, to |-> n.to, interval |-> n.interval,
              attempt |-> n.attempt, best |-> n.best]
  <2>1. n = [k EXCEPT !.pc = "answer"]
    OBVIOUS
  <2>2. k = [pc |-> k.pc, from |-> k.from, to |-> k.to, interval |-> k.interval,
             attempt |-> k.attempt, best |-> k.best]
    BY <1>2 DEF IsCall
  <2>. HIDE DEF n, k
  <2>. QED  BY <2>1, <2>2
<1>. HIDE DEF n
<1>4. IsCall(n)
  BY <1>2, <1>3 DEF IsCall
<1>5. k.attempt \in Nat /\ k.attempt <= MaxRetries /\ MaxRetries \in Nat
  BY <1>2 DEF IsCall, H!HistoryAssumption
<1>6. MayStillSend(k) = Retries - k.attempt /\ MayStillSend(n) = Retries - 1 - k.attempt
      /\ MayStillSend(k) \in 1..Retries
  BY <1>1, <1>3, <1>5 DEF MayStillSend, Retries
<1>7. CASE cooling = 0
  <2>1. cooling' = 0 /\ storm' = 0
    BY <1>1, <1>7 DEF StormInv
  <2>. QED  BY <1>1, <1>4, <2>1, Calm
<1>8. CASE cooling # 0
  <2>0. cooling > 0 /\ storm \in Nat /\ cooling \in Nat
    BY <1>8 DEF StormInv, StormShape
  <2>1. /\ caller' = [u \in Callers |-> caller'[u]] /\ \A u \in Callers : IsCall(caller'[u])
    <3>1. MayStillSend(n) <= MayStillSend(caller[c])
      BY <1>5, <1>6, Few
    <3>. HIDE DEF k
    <3>. QED  BY <1>1, <1>4, <3>1, NoMoreLeft
  <2>2. caller'[c] = n /\ \A u \in Callers \ {c} : caller'[u] = caller[u]
    BY <1>1 DEF StormInv, StormShape
  <2>. DEFINE top == <<c, MayStillSend(k)>>
  <2>3. top \in Left
    BY <1>6 DEF Left
  <2>4. Left' = {x \in Callers \X (1..Retries) : x[2] <= MayStillSend(caller'[x[1]])}
    BY DEF Left, Retries, MayStillSend
  <2>5. \A u \in Callers : IsCall(caller[u])
    BY DEF StormInv, StormShape
  <2>6. Left' = Left \ {top}
    <3>1. ASSUME NEW u \in Callers, NEW i \in 1..Retries
          PROVE  <<u, i>> \in Left' <=> <<u, i>> \in Left /\ <<u, i>> # top
      <4>1. <<u, i>> \in Left' <=> i <= MayStillSend(caller'[u])
        BY <2>4
      <4>2. <<u, i>> \in Left <=> i <= MayStillSend(caller[u])
        BY DEF Left
      <4>3. CASE u # c
        BY <2>2, <4>1, <4>2, <4>3
      <4>4. CASE u = c
        <5>1. i <= MayStillSend(n) <=> i <= MayStillSend(k) /\ i # MayStillSend(k)
          BY <1>5, <1>6, Few
        <5>2. <<u, i>> # top <=> i # MayStillSend(k)
          BY <4>4
        <5>. QED  BY <2>2, <4>1, <4>2, <4>4, <5>1, <5>2
      <4>. QED  BY <4>3, <4>4
    <3>2. Left' \subseteq Callers \X (1..Retries) /\ Left \subseteq Callers \X (1..Retries)
      BY <2>4 DEF Left
    <3>. HIDE DEF top
    <3>. QED  BY <3>1, <3>2
  <2>7. Cardinality(Left') = Cardinality(Left) - 1
    BY <2>3, <2>6, LeftIsFinite, FS_RemoveElement
  <2>8. Cardinality(Left) \in Nat /\ Bound \in Nat /\ Bound' = Bound
    BY LeftIsFinite, Few DEF Bound, Retries
  <2>9. storm' = storm + 1
    BY <1>1, <2>0
  <2>10. storm' + Cardinality(Left') <= Bound
    BY <2>0, <2>7, <2>8, <2>9 DEF StormInv
  <2>11. StormShape'
    BY <1>1, <2>0, <2>1, <2>9 DEF StormShape, IsCall
  <2>. QED  BY <1>1, <2>0, <2>8, <2>10, <2>11 DEF StormInv
<1>. QED  BY <1>7, <1>8

(* A busy answer: the request is tried again, or a cooldown begins. *)
LEMMA BusyKeeps ==
    ASSUME StormInv, CallersFew, H!HistoryAssumption, NEW c \in Callers, H!AnswerBusy(c)
    PROVE  StormInv'
<1>. DEFINE k == caller[c]
<1>1. k.pc = "answer" /\ IsCall(k)
  BY DEF H!AnswerBusy, StormInv, StormShape
<1>2. k.attempt \in Nat /\ k.attempt <= MaxRetries /\ MaxRetries \in Nat
  BY <1>1 DEF IsCall, H!HistoryAssumption
<1>3. CASE k.attempt < MaxRetries
  <2>. DEFINE n == [k EXCEPT !.pc = "request", !.attempt = k.attempt + 1]
  <2>1. caller' = [caller EXCEPT ![c] = n] /\ UNCHANGED <<cooling, storm>>
    BY <1>3, <1>1 DEF H!AnswerBusy, StormInv, StormShape, IsCall
  <2>2. n.pc = "request" /\ n.attempt = k.attempt + 1
        /\ n = [pc |-> n.pc, from |-> n.from, to |-> n.to, interval |-> n.interval,
                attempt |-> n.attempt, best |-> n.best]
    <3>1. n = [k EXCEPT !.pc = "request", !.attempt = k.attempt + 1]
      OBVIOUS
    <3>2. k = [pc |-> k.pc, from |-> k.from, to |-> k.to, interval |-> k.interval,
               attempt |-> k.attempt, best |-> k.best]
      BY <1>1 DEF IsCall
    <3>. HIDE DEF n, k
    <3>. QED  BY <3>1, <3>2
  <2>. HIDE DEF n
  <2>3. IsCall(n)
    BY <1>2, <1>3, <2>2 DEF IsCall
  <2>4. MayStillSend(n) <= MayStillSend(k)
    BY <1>1, <1>2, <2>2, Few DEF MayStillSend
  <2>. HIDE DEF k
  <2>5. MayStillSend(n) <= MayStillSend(caller[c])
    BY <2>4 DEF k
  <2>. QED  BY <2>1, <2>3, <2>5, Moves
<1>4. CASE ~ (k.attempt < MaxRetries)
  <2>. DEFINE n == H!NextInterval(k)
  <2>1. caller' = [caller EXCEPT ![c] = n] /\ cooling' = Cooldown
        /\ storm' = IF cooling = 0 THEN 0 ELSE storm
    BY <1>4 DEF H!AnswerBusy
  <2>2. IsCall(n) /\ MayStillSend(n) = 0
    BY <1>1, NextIntervalIs
  <2>3. MayStillSend(caller[c]) = 0
    BY <1>1, <1>2, <1>4 DEF MayStillSend, Retries
  <2>. HIDE DEF n
  <2>4. /\ caller' = [u \in Callers |-> caller'[u]] /\ \A u \in Callers : IsCall(caller'[u])
        /\ cooling > 0 => Cardinality(Left') <= Cardinality(Left)
        /\ Cardinality(Left') \in Nat /\ Cardinality(Left) \in Nat
    <3>1. MayStillSend(n) <= MayStillSend(caller[c])
      BY <2>2, <2>3
    <3>. HIDE DEF k
    <3>. QED  BY <2>1, <2>2, <3>1, NoMoreLeft
  <2>5. Cooldown \in Nat \ {0} /\ Bound \in Nat /\ Bound' = Bound
    BY Few DEF Bound, Retries
  <2>6. storm \in Nat /\ cooling \in Nat
    BY DEF StormInv, StormShape
  <2>7. StormShape'
    BY <2>1, <2>4, <2>5, <2>6 DEF StormShape, IsCall
  <2>8. CASE cooling > 0
    BY <2>1, <2>5, <2>6, <2>8, <2>4, <2>7 DEF StormInv
  <2>9. CASE cooling = 0
    <3>1. storm' = 0 /\ cooling' > 0
      BY <2>1, <2>5, <2>9
    <3>. DEFINE others == (Callers \ {c}) \X (1..Retries)
    <3>2. Left' \subseteq others
      <4>1. Left' = {x \in Callers \X (1..Retries) : x[2] <= MayStillSend(caller'[x[1]])}
        BY DEF Left, Retries, MayStillSend
      <4>2. MayStillSend(caller'[c]) = 0
        BY <2>1, <2>2, <2>4 DEF StormInv, StormShape
      <4>3. ASSUME NEW x \in Left'
            PROVE  x \in others
        BY <4>1, Few, <4>2
      <4>. QED  BY <4>3
    <3>3. IsFiniteSet(Callers \ {c}) /\ Cardinality(Callers \ {c}) = Cardinality(Callers) - 1
      BY FS_RemoveElement DEF CallersFew
    <3>4. IsFiniteSet(1..Retries) /\ Cardinality(1..Retries) = Retries
      BY Few, FS_Interval
    <3>5. IsFiniteSet(others) /\ Cardinality(others) = Bound
      <4>1. IsFiniteSet(others) /\ Cardinality(others) = Cardinality(Callers \ {c}) * Cardinality(1..Retries)
        BY <3>3, <3>4, FS_Product
      <4>. HIDE DEF others
      <4>. QED  BY <3>3, <3>4, <4>1 DEF Bound
    <3>. HIDE DEF others
    <3>6. Cardinality(Left') <= Bound
      BY <3>2, <3>5, FS_Subset
    <3>7. storm' + Cardinality(Left') <= Bound
      BY <2>4, <2>5, <3>1, <3>6
    <3>. QED  BY <2>5, <2>7, <3>1, <3>7 DEF StormInv
  <2>. QED  BY <2>6, <2>8, <2>9
<1>. QED  BY <1>3, <1>4

LEMMA TickKeeps ==
    ASSUME StormInv, CallersFew, H!HistoryAssumption, H!Tick
    PROVE  StormInv'
<1>1. /\ caller' = caller /\ cooling' = IF cooling > 0 THEN cooling - 1 ELSE 0
      /\ storm' = IF cooling <= 1 THEN 0 ELSE storm
  BY DEF H!Tick
<1>2. cooling \in Nat /\ storm \in Nat
  BY DEF StormInv, StormShape
<1>3. Left' = Left /\ Bound' = Bound
  BY <1>1 DEF Left, Bound, Retries, MayStillSend
<1>4. StormShape'
  BY <1>1, <1>2 DEF StormInv, StormShape, IsCall
<1>5. cooling' > 0 => cooling > 0 /\ storm' = storm
  BY <1>1, <1>2
<1>6. cooling' = 0 => storm' = 0
  BY <1>1, <1>2
<1>. QED  BY <1>3, <1>4, <1>5, <1>6 DEF StormInv

(* Between its requests a caller moves on without one. *)
LEMMA MissKeeps ==
    ASSUME StormInv, CallersFew, H!HistoryAssumption, NEW c \in Callers, H!Miss(c)
    PROVE  StormInv'
<1>. DEFINE n == [H!Idle EXCEPT !.pc = "fetch", !.from = now - Reach[c], !.to = now]
<1>1. caller' = [caller EXCEPT ![c] = n] /\ UNCHANGED <<cooling, storm>> /\ caller[c].pc = "idle"
  BY DEF H!Miss
<1>2. n.pc = "fetch" /\ n.attempt = 0
      /\ n = [pc |-> n.pc, from |-> n.from, to |-> n.to, interval |-> n.interval,
              attempt |-> n.attempt, best |-> n.best]
  <2>. DEFINE i == H!Idle
              back == now - Reach[c]
  <2>1. n = [i EXCEPT !.pc = "fetch", !.from = back, !.to = now]
    OBVIOUS
  <2>2. i = [pc |-> i.pc, from |-> i.from, to |-> i.to, interval |-> i.interval,
             attempt |-> i.attempt, best |-> i.best] /\ i.attempt = 0
    BY DEF H!Idle
  <2>. HIDE DEF n, i, back
  <2>. QED  BY <2>1, <2>2
<1>. HIDE DEF n
<1>3. IsCall(n)
  BY <1>2, Few DEF IsCall
<1>4. MayStillSend(n) <= MayStillSend(caller[c])
  BY <1>1, <1>2, Spent
<1>. QED  BY <1>1, <1>3, <1>4, Moves

LEMMA ThrottledKeeps ==
    ASSUME StormInv, CallersFew, H!HistoryAssumption, NEW c \in Callers, H!Throttled(c)
    PROVE  StormInv'
<1>. DEFINE k == caller[c]
            to == IF cooling > 0 THEN "return" ELSE "request"
            n == [k EXCEPT !.pc = to]
<1>1. /\ caller' = [caller EXCEPT ![c] = n] /\ UNCHANGED <<cooling, storm>>
      /\ k.pc = "fetch" /\ IsCall(k)
  BY DEF H!Throttled, StormInv, StormShape
<1>2. n.pc = to /\ n.attempt = k.attempt
      /\ n = [pc |-> n.pc, from |-> n.from, to |-> n.to, interval |-> n.interval,
              attempt |-> n.attempt, best |-> n.best]
  <2>1. n = [k EXCEPT !.pc = to]
    OBVIOUS
  <2>2. k = [pc |-> k.pc, from |-> k.from, to |-> k.to, interval |-> k.interval,
             attempt |-> k.attempt, best |-> k.best]
    BY <1>1 DEF IsCall
  <2>. HIDE DEF n, k, to
  <2>. QED  BY <2>1, <2>2
<1>. HIDE DEF n
<1>3. IsCall(n)
  BY <1>1, <1>2 DEF IsCall
<1>4. cooling > 0 => MayStillSend(n) <= MayStillSend(caller[c])
  BY <1>1, <1>2, Spent
<1>. HIDE DEF k
<1>. QED  BY <1>1, <1>3, <1>4, Moves

LEMMA ReturnKeeps ==
    ASSUME StormInv, CallersFew, H!HistoryAssumption, NEW c \in Callers, H!Return(c)
    PROVE  StormInv'
<1>. DEFINE n == H!Idle
<1>1. caller' = [caller EXCEPT ![c] = n] /\ UNCHANGED <<cooling, storm>> /\ caller[c].pc = "return"
  BY DEF H!Return
<1>2. n.pc = "idle" /\ n.attempt = 0
      /\ n = [pc |-> n.pc, from |-> n.from, to |-> n.to, interval |-> n.interval,
              attempt |-> n.attempt, best |-> n.best]
  BY DEF H!Idle
<1>. HIDE DEF n
<1>3. IsCall(n)
  BY <1>2, Few DEF IsCall
<1>4. MayStillSend(n) <= MayStillSend(caller[c])
  BY <1>1, <1>2, Spent
<1>. QED  BY <1>1, <1>3, <1>4, Moves

LEMMA AnswerKeeps ==
    ASSUME StormInv, CallersFew, H!HistoryAssumption, NEW c \in Callers,
           \/ H!AnswerBars(c, TRUE) \/ H!AnswerBars(c, FALSE) \/ H!AnswerNone(c)
    PROVE  StormInv'
<1>1. IsCall(caller[c])
  BY DEF StormInv, StormShape
<1>2. ASSUME NEW enough \in BOOLEAN, H!AnswerBars(c, enough)
      PROVE  StormInv'
  <2>. DEFINE n == H!Best(caller[c], enough)
  <2>1. caller' = [caller EXCEPT ![c] = n] /\ cooling' = 0 /\ storm' = 0
    BY <1>2 DEF H!AnswerBars
  <2>2. IsCall(n)
    BY <1>1, BestIs
  <2>. HIDE DEF n
  <2>. QED  BY <2>1, <2>2, Calm
<1>3. CASE H!AnswerNone(c)
  <2>. DEFINE n == H!NextInterval(caller[c])
  <2>1. caller' = [caller EXCEPT ![c] = n] /\ UNCHANGED <<cooling, storm>>
    BY <1>3 DEF H!AnswerNone
  <2>2. IsCall(n) /\ MayStillSend(n) = 0
    BY <1>1, NextIntervalIs
  <2>. HIDE DEF n
  <2>3. MayStillSend(n) <= MayStillSend(caller[c])
    BY <1>1, <2>2, NeverNegative, Few
  <2>. QED  BY <2>1, <2>2, <2>3, Moves
<1>. QED  BY <1>2, <1>3

(* What this part keeps still. *)
LEMMA StormRests ==
    ASSUME StormInv, UNCHANGED <<caller, cooling, storm>>
    PROVE  StormInv'
<1>1. Left' = Left /\ Bound' = Bound
  BY DEF Left, Bound, Retries, MayStillSend
<1>. QED  BY <1>1 DEF StormInv, StormShape, IsCall

LEMMA StormStart ==
    ASSUME CallersFew, H!HistoryAssumption, H!Init
    PROVE  StormInv
<1>1. caller = [c \in Callers |-> H!Idle] /\ cooling = 0 /\ storm = 0
  BY DEF H!Init
<1>2. IsCall(H!Idle)
  <2>1. MaxRetries \in Nat
    BY Few
  <2>. DEFINE n == H!Idle
  <2>2. n.pc = "idle" /\ n.attempt = 0
        /\ n = [pc |-> n.pc, from |-> n.from, to |-> n.to, interval |-> n.interval,
                attempt |-> n.attempt, best |-> n.best]
    BY DEF H!Idle
  <2>. HIDE DEF n
  <2>3. IsCall(n)
    BY <2>1, <2>2 DEF IsCall
  <2>. QED  BY <2>3 DEF n
<1>. QED  BY <1>1, <1>2 DEF StormInv, StormShape

LEMMA StormStep ==
    ASSUME StormInv, CallersFew, H!HistoryAssumption, [H!Next]_hvars
    PROVE  StormInv'
<1>1. CASE UNCHANGED hvars
  BY <1>1, StormRests DEF hvars
<1>2. CASE H!Next
  <2>1. ASSUME NEW c \in Callers, H!Hit(c)
        PROVE  StormInv'
    BY <2>1, StormRests DEF H!Hit
  <2>2. CASE H!Invalidate
    BY <2>2, StormRests DEF H!Invalidate
  <2>. QED  BY <1>2, <2>1, <2>2, MissKeeps, ThrottledKeeps, SendKeeps, AnswerKeeps, BusyKeeps,
                ReturnKeeps, TickKeeps DEF H!Next
<1>. QED  BY <1>1, <1>2

LEMMA StormKept ==
    ASSUME StormInv, CallersFew, H!HistoryAssumption
    PROVE  H!CooldownStopsTheStorm
<1>1. H!Cardinality(Callers) = Cardinality(Callers)
  BY DEF H!Cardinality, Cardinality
<1>2. storm <= Bound
  BY Few, LeftIsFinite DEF StormInv, StormShape
<1>. QED  BY <1>1, <1>2 DEF H!CooldownStopsTheStorm, Bound, Retries

(* What the cache holds was asked for before it came, and came. *)
CacheInv ==
    /\ now \in Nat
    /\ entry.have =>
         /\ entry.to \in Int /\ entry.fetchedAt \in Int /\ entry.data # "none"
         /\ entry.to <= entry.fetchedAt
    /\ \A c \in Callers : caller[c].to \in Int /\ caller[c].to <= now

LEMMA CacheMoves ==
    ASSUME CacheInv, StormInv, NEW c \in Callers, NEW k, k.to \in Int, k.to <= now,
           caller' = [caller EXCEPT ![c] = k], UNCHANGED now, entry' \in {entry, H!Swept}
    PROVE  CacheInv'
<1>1. caller'[c] = k /\ \A u \in Callers \ {c} : caller'[u] = caller[u]
  BY DEF StormInv, StormShape
<1>2. entry' = entry \/ ~entry'.have
  BY DEF H!Swept, H!NoEntry
<1>. QED  BY <1>1, <1>2 DEF CacheInv

LEMMA SameTo ==
    ASSUME CacheInv, StormInv, NEW c \in Callers, NEW n, SameWindow(n, caller[c]),
           caller' = [caller EXCEPT ![c] = n], UNCHANGED <<now, entry>>
    PROVE  CacheInv'
<1>1. n.to \in Int /\ n.to <= now
  BY DEF SameWindow, CacheInv
<1>. QED  BY <1>1, CacheMoves

LEMMA CacheStep ==
    ASSUME CacheInv, StormInv, H!HistoryAssumption, [H!Next]_hvars
    PROVE  CacheInv'
<1>1. CASE UNCHANGED hvars
  BY <1>1 DEF hvars, CacheInv
<1>2. ASSUME NEW c \in Callers, H!Hit(c)
      PROVE  CacheInv'
  BY <1>2 DEF H!Hit, H!Swept, H!NoEntry, CacheInv
<1>3. ASSUME NEW c \in Callers, H!Miss(c)
      PROVE  CacheInv'
  <2>. DEFINE back == now - Reach[c]
              i == H!Idle
              n == [i EXCEPT !.pc = "fetch", !.from = back, !.to = now]
  <2>1. caller' = [caller EXCEPT ![c] = n] /\ entry' = H!Swept /\ now' = now
    BY <1>3 DEF H!Miss
  <2>2. i = [pc |-> i.pc, from |-> i.from, to |-> i.to, interval |-> i.interval,
             attempt |-> i.attempt, best |-> i.best]
    BY DEF H!Idle
  <2>3. n.to = now
    <3>1. n = [i EXCEPT !.pc = "fetch", !.from = back, !.to = now]
      OBVIOUS
    <3>. HIDE DEF n, i, back
    <3>. QED  BY <2>2, <3>1
  <2>. HIDE DEF n
  <2>4. now \in Int /\ now <= now
    BY DEF CacheInv
  <2>. QED  BY <2>1, <2>3, <2>4, CacheMoves
<1>4. ASSUME NEW c \in Callers, H!Throttled(c) \/ H!Send(c)
      PROVE  CacheInv'
  <2>. DEFINE k == caller[c]
  <2>1. PICK pc : caller' = [caller EXCEPT ![c] = [k EXCEPT !.pc = pc]] /\ UNCHANGED <<now, entry>>
    BY <1>4 DEF H!Send, H!Throttled
  <2>. DEFINE n == [k EXCEPT !.pc = pc]
  <2>2. k = [pc |-> k.pc, from |-> k.from, to |-> k.to, interval |-> k.interval,
             attempt |-> k.attempt, best |-> k.best]
    BY DEF StormInv, StormShape, IsCall
  <2>3. SameWindow(n, k)
    <3>1. n = [k EXCEPT !.pc = pc]
      OBVIOUS
    <3>. HIDE DEF n, k
    <3>. QED  BY <2>2, <3>1 DEF SameWindow
  <2>4. caller' = [caller EXCEPT ![c] = n]
    BY <2>1
  <2>. HIDE DEF n
  <2>. QED  BY <2>1, <2>3, <2>4, SameTo
<1>5. ASSUME NEW c \in Callers, NEW enough \in BOOLEAN, H!AnswerBars(c, enough)
      PROVE  CacheInv'
  <2>. DEFINE n == H!Best(caller[c], enough)
  <2>1. caller' = [caller EXCEPT ![c] = n] /\ UNCHANGED <<now, entry>>
    BY <1>5 DEF H!AnswerBars
  <2>2. SameWindow(n, caller[c])
    BY BestIs DEF StormInv, StormShape
  <2>. HIDE DEF n
  <2>. QED  BY <2>1, <2>2, SameTo
<1>6. ASSUME NEW c \in Callers, H!AnswerNone(c) \/ (H!AnswerBusy(c) /\ ~ (caller[c].attempt < MaxRetries))
      PROVE  CacheInv'
  <2>. DEFINE n == H!NextInterval(caller[c])
  <2>1. caller' = [caller EXCEPT ![c] = n] /\ UNCHANGED <<now, entry>>
    BY <1>6 DEF H!AnswerNone, H!AnswerBusy
  <2>2. SameWindow(n, caller[c])
    BY NextIntervalIs DEF StormInv, StormShape
  <2>. HIDE DEF n
  <2>. QED  BY <2>1, <2>2, SameTo
<1>7. ASSUME NEW c \in Callers, H!AnswerBusy(c), caller[c].attempt < MaxRetries
      PROVE  CacheInv'
  <2>. DEFINE k == caller[c]
              more == k.attempt + 1
              n == [k EXCEPT !.pc = "request", !.attempt = more]
  <2>1. caller = [u \in Callers |-> caller[u]]
        /\ k = [pc |-> k.pc, from |-> k.from, to |-> k.to, interval |-> k.interval,
                attempt |-> k.attempt, best |-> k.best]
    BY DEF StormInv, StormShape, IsCall
  <2>2. caller' = [caller EXCEPT ![c] = n] /\ UNCHANGED <<now, entry>>
    BY <1>7, <2>1 DEF H!AnswerBusy
  <2>3. SameWindow(n, k)
    <3>1. n = [k EXCEPT !.pc = "request", !.attempt = more]
      OBVIOUS
    <3>. HIDE DEF n, k, more
    <3>. QED  BY <2>1, <3>1 DEF SameWindow
  <2>. HIDE DEF n
  <2>. QED  BY <2>2, <2>3, SameTo
<1>8. ASSUME NEW c \in Callers, H!Return(c)
      PROVE  CacheInv'
  <2>. DEFINE k == caller[c]
  <2>1. caller' = [caller EXCEPT ![c] = H!Idle] /\ now' = now
        /\ entry' = IF k.best = "none" THEN entry
                    ELSE [have |-> TRUE, from |-> k.from, to |-> k.to, fetchedAt |-> now, data |-> k.best]
    BY <1>8 DEF H!Return
  <2>2. \A u \in Callers : caller'[u].to \in Int /\ caller'[u].to <= now
    BY <2>1 DEF StormInv, StormShape, H!Idle, CacheInv
  <2>3. k.to \in Int /\ k.to <= now /\ now \in Int
    BY DEF CacheInv
  <2>4. CASE k.best = "none"
    BY <2>1, <2>2, <2>4 DEF CacheInv
  <2>5. CASE k.best # "none"
    BY <2>1, <2>5, <2>2, <2>3 DEF CacheInv
  <2>. QED  BY <2>4, <2>5
<1>9. CASE H!Invalidate
  BY <1>9 DEF H!Invalidate, H!NoEntry, CacheInv
<1>10. CASE H!Tick
  BY <1>10 DEF H!Tick, CacheInv
<1>. QED  BY <1>1, <1>2, <1>3, <1>4, <1>5, <1>6, <1>7, <1>8, <1>9, <1>10 DEF H!Next

LEMMA CacheStart ==
    ASSUME H!Init
    PROVE  CacheInv
BY DEF H!Init, H!NoEntry, H!Idle, CacheInv

LEMMA CacheKept ==
    ASSUME CacheInv, H!HistoryAssumption
    PROVE  H!HitsHoldTheWindow
<1>1. ASSUME NEW c \in Callers, H!Covers(entry, now - Reach[c], now)
      PROVE  /\ entry.from <= now - Reach[c] /\ now - entry.to <= TTL
             /\ entry.to <= entry.fetchedAt /\ entry.data # "none"
  <2>1. entry.have /\ entry.from <= now - Reach[c] /\ now <= entry.to + TTL
    BY <1>1 DEF H!Covers
  <2>2. entry.to \in Int /\ now \in Int /\ TTL \in Int
    BY <2>1 DEF CacheInv, H!HistoryAssumption
  <2>. QED  BY <2>1, <2>2 DEF CacheInv
<1>. QED  BY <1>1 DEF H!HitsHoldTheWindow

-----------------------------------------------------------------------------
(* Bars.  A ring holds the last so many bars that were pushed, whatever    *)
(* the slot its head has reached.                                          *)

(* Induction over the naturals, by their least element. *)
LEMMA Induction ==
    ASSUME NEW X, 0 \in X, \A n \in Nat : n \in X => n + 1 \in X
    PROVE  Nat \subseteq X
<1>. SUFFICES ASSUME Nat \ X # {} PROVE FALSE
  OBVIOUS
<1>1. PICK x \in Nat \ X : \A y \in Nat \ X : x <= y
  BY Least
<1>2. x # 0 /\ x - 1 \in Nat
  OBVIOUS
<1>3. x - 1 \in X
  BY <1>1, <1>2
<1>4. x - 1 + 1 \in X
  BY <1>2, <1>3
<1>. QED  BY <1>4

LEMMA GreatestIs ==
    ASSUME NEW s \in SUBSET Nat, s # {}, NEW b \in Nat, \A x \in s : x <= b
    PROVE  B!Max(s) \in s /\ \A x \in s : x <= B!Max(s)
<1>. DEFINE D == {b - x : x \in s}
<1>1. D \subseteq Nat /\ D # {}
  <2>1. ASSUME NEW x \in s
        PROVE  b - x \in Nat
    OBVIOUS
  <2>. QED  BY <2>1
<1>2. PICK d \in D : \A e \in D : d <= e
  <2>. HIDE DEF D
  <2>. QED  BY <1>1, Least
<1>3. PICK m \in s : d = b - m
  OBVIOUS
<1>4. \A y \in s : m >= y
  <2>1. ASSUME NEW y \in s
        PROVE  m >= y
    <3>1. b - m <= b - y
      BY <1>2, <1>3
    <3>. QED  BY <3>1
  <2>. QED  BY <2>1
<1>5. B!Max(s) \in s /\ \A y \in s : B!Max(s) >= y
  BY <1>4 DEF B!Max
<1>. QED  BY <1>5

(* Folding pushes the bars one after the other. *)
LEMMA FoldPushes ==
    ASSUME NEW bars, IsSeq(bars), NEW r
    PROVE  \E G : /\ G[0] = r
                  /\ \A k \in 1..Len(bars) : G[k] = B!Push(G[k - 1], bars[k])
                  /\ B!FoldLeft(B!Push, r, bars) = G[Len(bars)]
<1>. DEFINE n == Len(bars)
            Top(s) == B!Max(s)
            Eq(f, D) == f = [s \in SUBSET D |-> IF s = {} THEN r ELSE B!Push(f[s \ {Top(s)}], bars[Top(s)])]
            iter == CHOOSE f : Eq(f, DOMAIN bars)
<1>1. B!FoldLeft(B!Push, r, bars) = iter[DOMAIN bars]
  BY DEF B!FoldLeft, B!MapThenFoldSet
<1>2. \A s \in SUBSET Nat : s # {} /\ (\E b \in Nat : \A x \in s : x <= b)
          => Top(s) \in s /\ \A x \in s : x <= Top(s)
  BY GreatestIs
<1>3. n \in Nat /\ DOMAIN bars = 1..n
  <2>1. PICK S : bars \in Seq(S)
    BY DEF IsSeq
  <2>. QED  BY <2>1
<1>. DEFINE Built == {k \in Nat : \E f : Eq(f, 1..k)}
<1>4. Nat \subseteq Built
  <2>1. 0 \in Built
    <3>. DEFINE f == [s \in SUBSET (1..0) |-> r]
    <3>1. \A s \in SUBSET (1..0) : s = {}
      OBVIOUS
    <3>2. Eq(f, 1..0)
      BY <3>1
    <3>. QED  BY <3>2
  <2>2. ASSUME NEW k \in Nat, k \in Built
        PROVE  k + 1 \in Built
    <3>1. PICK f : Eq(f, 1..k)
      BY <2>2
    <3>. DEFINE g == [s \in SUBSET (1..k + 1) |->
                         IF k + 1 \in s THEN B!Push(f[s \ {k + 1}], bars[k + 1]) ELSE f[s]]
                h == [s \in SUBSET (1..k + 1) |->
                         IF s = {} THEN r ELSE B!Push(g[s \ {Top(s)}], bars[Top(s)])]
    <3>2. ASSUME NEW s \in SUBSET (1..k + 1)
          PROVE  g[s] = h[s]
      <4>1. CASE s = {}
        BY <3>1, <4>1
      <4>2. CASE k + 1 \in s
        <5>1. Top(s) = k + 1
          <6>1. s \in SUBSET Nat /\ s # {} /\ \A x \in s : x <= k + 1
            BY <4>2
          <6>. HIDE DEF Top
          <6>0. \E b \in Nat : \A x \in s : x <= b
            <7>1. k + 1 \in Nat
              OBVIOUS
            <7>. QED  BY <6>1, <7>1
          <6>2. Top(s) \in s /\ \A x \in s : x <= Top(s)
            BY <1>2, <6>0, <6>1
          <6>3. Top(s) \in Nat /\ Top(s) <= k + 1 /\ k + 1 <= Top(s)
            BY <4>2, <6>1, <6>2
          <6>. QED  BY <6>3
        <5>. DEFINE u == s \ {k + 1}
        <5>2. u \in SUBSET (1..k + 1) /\ k + 1 \notin u
          OBVIOUS
        <5>3. g[u] = f[u]
          BY <5>2
        <5>. HIDE DEF Top
        <5>. QED  BY <4>2, <5>1, <5>3
      <4>3. CASE s # {} /\ k + 1 \notin s
        <5>1. s \in SUBSET (1..k)
          BY <4>3
        <5>2. Top(s) \in s
          <6>1. s \in SUBSET Nat /\ \A x \in s : x <= k
            BY <5>1
          <6>. HIDE DEF Top
          <6>2. \E b \in Nat : \A x \in s : x <= b
            BY <6>1
          <6>. QED  BY <1>2, <4>3, <6>1, <6>2
        <5>. HIDE DEF Top
        <5>. DEFINE u == s \ {Top(s)}
        <5>3. u \in SUBSET (1..k) /\ u \in SUBSET (1..k + 1) /\ k + 1 \notin u
          BY <4>3, <5>1
        <5>4. g[s] = f[s] /\ g[u] = f[u]
          BY <4>3, <5>3
        <5>5. f[s] = B!Push(f[u], bars[Top(s)])
          BY <3>1, <4>3, <5>1
        <5>. QED  BY <4>3, <5>4, <5>5
      <4>. QED  BY <4>1, <4>2, <4>3
    <3>3. g = h
      BY <3>2
    <3>4. Eq(g, 1..k + 1)
      BY <3>3
    <3>. HIDE DEF Eq, g
    <3>5. k + 1 \in Nat
      OBVIOUS
    <3>. QED  BY <3>4, <3>5
  <2>. HIDE DEF Built
  <2>. QED  BY <2>1, <2>2, Induction
<1>5. Eq(iter, 1..n)
  <2>1. \E f : Eq(f, DOMAIN bars)
    BY <1>3, <1>4
  <2>2. Eq(iter, DOMAIN bars)
    <3>. HIDE DEF Eq
    <3>. QED  BY <2>1
  <2>. QED  BY <1>3, <2>2
<1>. DEFINE G == [k \in 0..n |-> iter[1..k]]
<1>. HIDE DEF iter
<1>6. G[0] = r
  BY <1>5, <1>3
<1>7. ASSUME NEW k \in 1..n
      PROVE  G[k] = B!Push(G[k - 1], bars[k])
  <2>0. k \in Nat /\ 1 <= k /\ k <= n /\ n \in Nat
    BY <1>3
  <2>. HIDE DEF n
  <2>1. 1..k # {} /\ 1..k \in SUBSET (1..n) /\ 1..k \in SUBSET Nat
    BY <2>0
  <2>2. Top(1..k) = k
    <3>1. Top(1..k) \in 1..k /\ \A x \in 1..k : x <= Top(1..k)
      <4>. HIDE DEF Top
      <4>1. \E b \in Nat : \A x \in 1..k : x <= b
        <5>1. k \in Nat
          BY <1>3
        <5>2. \A x \in 1..k : x <= k
          BY <5>1
        <5>. QED  BY <5>1, <5>2
      <4>. QED  BY <1>2, <2>1, <4>1
    <3>. HIDE DEF Top
    <3>2. k \in 1..k
      BY <1>3
    <3>3. k <= Top(1..k) /\ Top(1..k) <= k /\ Top(1..k) \in Int
      BY <1>3, <3>1, <3>2
    <3>. QED  BY <1>3, <3>3
  <2>3. (1..k) \ {k} = 1..(k - 1)
    BY <1>3
  <2>. HIDE DEF Top
  <2>4. iter[1..k] = B!Push(iter[1..(k - 1)], bars[k])
    BY <1>5, <2>1, <2>2, <2>3
  <2>. QED  BY <1>3, <2>4
<1>8. B!FoldLeft(B!Push, r, bars) = G[n]
  BY <1>3, <1>1
<1>. HIDE DEF G
<1>. QED  BY <1>6, <1>7, <1>8

LEMMA TailIs ==
    ASSUME NEW S, NEW s \in Seq(S), NEW c \in Nat
    PROVE  /\ B!LastOf(s, c) \in Seq(S)
           /\ Len(B!LastOf(s, c)) = IF Len(s) > c THEN c ELSE Len(s)
           /\ \A i \in 1..Len(B!LastOf(s, c)) :
                B!LastOf(s, c)[i] = s[Len(s) - Len(B!LastOf(s, c)) + i]
<1>. DEFINE n == Len(s)
            m == 1 + (IF n > c THEN n - c ELSE 0)
            l == SubSeq(s, m, n)
<1>1. n \in Nat /\ \A i \in 1..n : s[i] \in S
  BY LenProperties, ElementOfSeq
<1>2. B!LastOf(s, c) = l
  BY DEF B!LastOf
<1>3. m \in Int /\ m >= 1 /\ m <= n + 1 /\ m = n + 1 - (IF n > c THEN c ELSE n)
  <2>. HIDE DEF n
  <2>. QED  BY <1>1
<1>4. \A i \in m..n : s[i] \in S
  BY <1>1, <1>3
<1>. HIDE DEF m, n
<1>5. /\ l \in Seq(S) /\ Len(l) = (IF m <= n THEN n - m + 1 ELSE 0)
      /\ \A i \in 1..n - m + 1 : l[i] = s[m + i - 1]
  BY <1>1, <1>3, <1>4, SubSeqProperties
<1>. HIDE DEF l
<1>6. Len(l) = IF n > c THEN c ELSE n
  BY <1>1, <1>3, <1>5
<1>7. ASSUME NEW i \in 1..Len(l)
      PROVE  l[i] = s[n - Len(l) + i]
  BY <1>1, <1>3, <1>6, <1>5
<1>. QED  BY <1>2, <1>5, <1>6, <1>7 DEF n

(* What comes before the newest c is of no account to the newest c later. *)
LEMMA TailOfAppended ==
    ASSUME NEW S, NEW s \in Seq(S), NEW e \in S, NEW c \in Nat \ {0}
    PROVE  B!LastOf(Append(B!LastOf(s, c), e), c) = B!LastOf(Append(s, e), c)
<1>. DEFINE l == B!LastOf(s, c)
            u == Append(l, e)
            v == Append(s, e)
            x == B!LastOf(u, c)
            y == B!LastOf(v, c)
<1>1. /\ l \in Seq(S) /\ Len(l) = IF Len(s) > c THEN c ELSE Len(s)
      /\ \A i \in 1..Len(l) : l[i] = s[Len(s) - Len(l) + i]
  BY TailIs
<1>. HIDE DEF l
<1>2. /\ u \in Seq(S) /\ Len(u) = Len(l) + 1 /\ \A i \in 1..Len(l) : u[i] = l[i]
      /\ u[Len(l) + 1] = e
  BY <1>1, AppendProperties
<1>3. /\ v \in Seq(S) /\ Len(v) = Len(s) + 1 /\ \A i \in 1..Len(s) : v[i] = s[i]
      /\ v[Len(s) + 1] = e
  BY AppendProperties
<1>. HIDE DEF u, v
<1>4. /\ x \in Seq(S) /\ Len(x) = IF Len(u) > c THEN c ELSE Len(u)
      /\ \A i \in 1..Len(x) : x[i] = u[Len(u) - Len(x) + i]
  BY <1>2, TailIs
<1>5. /\ y \in Seq(S) /\ Len(y) = IF Len(v) > c THEN c ELSE Len(v)
      /\ \A i \in 1..Len(y) : y[i] = v[Len(v) - Len(y) + i]
  BY <1>3, TailIs
<1>. HIDE DEF x, y
<1>6. Len(s) \in Nat
  BY LenProperties
<1>7. Len(x) = Len(y) /\ Len(x) \in Nat /\ Len(x) <= Len(l) + 1 /\ Len(l) \in Nat /\ Len(l) <= Len(s)
  BY <1>1, <1>2, <1>3, <1>4, <1>5, <1>6
<1>8. ASSUME NEW i \in 1..Len(x)
      PROVE  x[i] = y[i]
  <2>. DEFINE j == Len(u) - Len(x) + i
              k == Len(v) - Len(y) + i
  <2>1. /\ j \in 1..Len(l) + 1 /\ k = Len(s) - Len(l) + j
        /\ x[i] = u[j] /\ y[i] = v[k]
    <3>1. x[i] = u[j] /\ y[i] = v[k]
      BY <1>4, <1>5, <1>7
    <3>2. j \in 1..Len(l) + 1 /\ k = Len(s) - Len(l) + j
      BY <1>2, <1>3, <1>6, <1>7
    <3>. QED  BY <3>1, <3>2
  <2>. HIDE DEF j, k
  <2>2. CASE j = Len(l) + 1
    BY <1>6, <1>7, <2>1, <2>2, <1>2, <1>3
  <2>3. CASE j \in 1..Len(l)
    <3>1. k \in 1..Len(s)
      BY <1>6, <1>7, <2>1, <2>3
    <3>2. u[j] = l[j] /\ v[k] = s[k] /\ l[j] = s[k]
      BY <1>1, <1>2, <1>3, <2>1, <2>3, <3>1
    <3>. QED  BY <2>1, <3>2
  <2>. QED  BY <1>7, <2>1, <2>2, <2>3
<1>9. x = y
  BY <1>4, <1>5, <1>7, <1>8, SeqEqual
<1>. QED  BY <1>9 DEF x, y, u, v, l

-----------------------------------------------------------------------------
(* Ring r holds the bars s. *)
Bar == [time : Nat, scale : Int]

Slot(r, i) == LET x == r.head - r.n + i - 1 IN IF x < 0 THEN x + Capacity ELSE x

IsRing(r) ==
    /\ r = [buf |-> r.buf, head |-> r.head, n |-> r.n]
    /\ r.buf \in [0..Capacity - 1 -> Bar]
    /\ r.head \in 0..Capacity - 1 /\ r.n \in 0..Capacity

Holds(r, s) ==
    /\ IsRing(r) /\ s \in Seq(Bar) /\ Len(s) = r.n
    /\ \A i \in 1..r.n : r.buf[Slot(r, i)] = s[i]

LEMMA Wraps ==
    ASSUME NEW c \in Nat \ {0}, NEW x \in 0..2 * c - 1
    PROVE  x % c = IF x < c THEN x ELSE x - c
OBVIOUS

LEMMA EmptyHolds ==
    ASSUME Capacity \in Nat \ {0}
    PROVE  Holds(B!NewRing, <<>>)
<1>. DEFINE r == B!NewRing
<1>1. /\ r = [buf |-> r.buf, head |-> r.head, n |-> r.n] /\ r.head = 0 /\ r.n = 0
      /\ r.buf = [i \in 0..(Capacity - 1) |-> B!None]
  BY DEF B!NewRing
<1>2. B!None \in Bar
  BY DEF B!None, Bar
<1>3. r.buf \in [0..Capacity - 1 -> Bar]
  BY <1>1, <1>2
<1>4. <<>> \in Seq(Bar) /\ Len(<<>>) = 0
  OBVIOUS
<1>. HIDE DEF r
<1>5. Holds(r, <<>>)
  BY <1>1, <1>3, <1>4 DEF Holds, IsRing
<1>. QED  BY <1>5 DEF r

LEMMA PushHolds ==
    ASSUME Capacity \in Nat \ {0}, NEW r, NEW s, Holds(r, s), NEW b \in Bar
    PROVE  Holds(B!Push(r, b), B!LastOf(Append(s, b), Capacity))
<1>. DEFINE c == Capacity
            p == B!Push(r, b)
            a == Append(s, b)
            u == B!LastOf(a, c)
<1>1. /\ r = [buf |-> r.buf, head |-> r.head, n |-> r.n] /\ r.buf \in [0..c - 1 -> Bar]
      /\ r.head \in 0..c - 1 /\ r.n \in 0..c /\ s \in Seq(Bar) /\ Len(s) = r.n
      /\ \A i \in 1..r.n : r.buf[Slot(r, i)] = s[i]
  BY DEF Holds, IsRing
<1>2. /\ p.buf = [r.buf EXCEPT ![r.head] = b] /\ p.head = (r.head + 1) % c
      /\ p.n = (IF r.n < c THEN r.n + 1 ELSE r.n) /\ p = [buf |-> p.buf, head |-> p.head, n |-> p.n]
  BY DEF B!Push
<1>3. (r.head + 1) % c = IF r.head + 1 < c THEN r.head + 1 ELSE 0
  <2>1. r.head + 1 \in 0..2 * c - 1
    BY <1>1
  <2>. QED  BY <1>1, <2>1, Wraps
<1>4. /\ a \in Seq(Bar) /\ Len(a) = r.n + 1 /\ a[r.n + 1] = b /\ \A i \in 1..r.n : a[i] = s[i]
  BY <1>1, AppendProperties
<1>. HIDE DEF p, a
<1>5. /\ u \in Seq(Bar) /\ Len(u) = (IF Len(a) > c THEN c ELSE Len(a))
      /\ \A i \in 1..Len(u) : u[i] = a[Len(a) - Len(u) + i]
  BY <1>4, TailIs
<1>. HIDE DEF u
<1>6. p.buf \in [0..c - 1 -> Bar] /\ p.head \in 0..c - 1 /\ p.n \in 0..c /\ Len(u) = p.n
  BY <1>1, <1>2, <1>3, <1>4, <1>5
<1>7. ASSUME NEW i \in 1..p.n
      PROVE  p.buf[Slot(p, i)] = u[i]
  <2>. DEFINE j == Len(a) - Len(u) + i
              k == Slot(p, i)
  <2>1. j \in 1..r.n + 1 /\ u[i] = a[j]
    BY <1>1, <1>2, <1>4, <1>5, <1>6
  <2>2. k \in 0..c - 1 /\ (j = r.n + 1 => k = r.head) /\ (j <= r.n => k = Slot(r, j) /\ k # r.head)
    <3>. DEFINE x == p.head - p.n + i - 1
                y == r.head - r.n + j - 1
    <3>1. k = (IF x < 0 THEN x + c ELSE x) /\ Slot(r, j) = (IF y < 0 THEN y + c ELSE y)
      BY DEF Slot
    <3>2. /\ r.head \in Int /\ 0 <= r.head /\ r.head < c /\ r.n \in Int /\ 0 <= r.n /\ r.n <= c
          /\ i \in Int /\ 1 <= i /\ i <= p.n
          /\ p.head = (IF r.head + 1 < c THEN r.head + 1 ELSE 0)
          /\ p.n = (IF r.n < c THEN r.n + 1 ELSE r.n) /\ j = r.n + 1 - p.n + i /\ c \in Nat \ {0}
      BY <1>1, <1>2, <1>3, <1>4, <1>6
    <3>. DEFINE h == r.head  m == r.n  h2 == p.head  m2 == p.n
    <3>3. x = h2 - m2 + i - 1 /\ y = h - m + j - 1
      OBVIOUS
    <3>4. /\ h \in Int /\ 0 <= h /\ h < c /\ m \in Int /\ 0 <= m /\ m <= c
          /\ i \in Int /\ 1 <= i /\ i <= m2 /\ h2 = (IF h + 1 < c THEN h + 1 ELSE 0)
          /\ m2 = (IF m < c THEN m + 1 ELSE m) /\ j = m + 1 - m2 + i /\ c \in Nat \ {0}
      BY <3>2
    <3>5. Slot(r, j) = (IF y < 0 THEN y + c ELSE y)
      BY <3>1
    <3>. DEFINE q == Slot(r, j)
    <3>6. q = (IF y < 0 THEN y + c ELSE y)
      BY <3>5
    <3>7. k \in 0..c - 1 /\ (j = m + 1 => k = h) /\ (j <= m => k = q /\ k # h)
      <4>. HIDE DEF x, y, h, m, h2, m2, j, k, c, q
      <4>. QED  BY <3>1, <3>3, <3>4, <3>6
    <3>. QED  BY <3>7
  <2>. HIDE DEF j, k
  <2>3. CASE j = r.n + 1
    BY <1>4, <2>1, <2>2, <2>3, <1>1, <1>2 DEF k
  <2>4. CASE j # r.n + 1
    BY <1>1, <2>1, <2>4, <1>2, <2>2, <1>4 DEF k
  <2>. QED  BY <2>3, <2>4 DEF k
<1>8. Holds(p, u)
  BY <1>2, <1>5, <1>6, <1>7 DEF Holds, IsRing
<1>. QED  BY <1>8 DEF p, u, a

(* Reading the newest n of a ring gives the newest n of what it holds. *)
LEMMA ReadsTail ==
    ASSUME Capacity \in Nat \ {0}, NEW r, NEW s, Holds(r, s), NEW n \in Nat \cup {-1}
    PROVE  B!AppendLast(r, n) = IF n = -1 THEN s ELSE B!LastOf(s, n)
<1>. DEFINE c == Capacity
            take == IF n >= 0 /\ n < r.n THEN n ELSE r.n
            start == (r.head - take + c) % c
            x == B!AppendLast(r, n)
            y == IF n = -1 THEN s ELSE B!LastOf(s, n)
<1>1. /\ r.buf \in [0..c - 1 -> Bar]
      /\ r.head \in 0..c - 1 /\ r.n \in 0..c /\ s \in Seq(Bar) /\ Len(s) = r.n
      /\ \A i \in 1..r.n : r.buf[Slot(r, i)] = s[i]
  BY DEF Holds, IsRing
<1>2. x = [i \in 1..take |-> r.buf[(start + i - 1) % c]]
  BY DEF B!AppendLast
<1>3. take \in Nat /\ take <= r.n
  BY <1>1
<1>4. y \in Seq(Bar) /\ Len(y) = take /\ \A i \in 1..take : y[i] = s[r.n - take + i]
  <2>1. CASE n = -1
    BY <1>1, <2>1
  <2>2. CASE n # -1
    <3>1. n \in Nat /\ y = B!LastOf(s, n)
      BY <2>2
    <3>2. /\ y \in Seq(Bar) /\ Len(y) = (IF Len(s) > n THEN n ELSE Len(s))
          /\ \A i \in 1..Len(y) : y[i] = s[Len(s) - Len(y) + i]
      <4>. DEFINE l == B!LastOf(s, n)
      <4>1. /\ l \in Seq(Bar) /\ Len(l) = (IF Len(s) > n THEN n ELSE Len(s))
            /\ \A i \in 1..Len(l) : l[i] = s[Len(s) - Len(l) + i]
        BY <1>1, <3>1, TailIs
      <4>2. y = l
        BY <3>1
      <4>. HIDE DEF y, l
      <4>. QED  BY <4>1, <4>2
    <3>3. Len(y) = take
      BY <1>1, <3>1, <3>2
    <3>. HIDE DEF y, take
    <3>. QED  BY <1>1, <3>2, <3>3
  <2>. QED  BY <2>1, <2>2
<1>. HIDE DEF y
<1>5. ASSUME NEW i \in 1..take
      PROVE  (start + i - 1) % c \in 0..c - 1 /\ r.buf[(start + i - 1) % c] = y[i]
  <2>. DEFINE h == r.head  m == r.n  a == h - take + c  k == start + i - 1  j == m - take + i
              q == Slot(r, j)
  <2>1. /\ h \in Int /\ 0 <= h /\ h < c /\ m \in Int /\ take \in Int /\ 0 <= take /\ take <= m /\ m <= c
        /\ i \in Int /\ 1 <= i /\ i <= take /\ c \in Nat \ {0}
    BY <1>1, <1>3
  <2>. HIDE DEF take, h, m
  <2>2. start = (IF a < c THEN a ELSE a - c) /\ a \in 0..2 * c - 1
    <3>1. a \in 0..2 * c - 1 /\ start = a % c
      BY <2>1 DEF h
    <3>. QED  BY <2>1, <3>1, Wraps
  <2>. HIDE DEF start
  <2>3. k \in 0..2 * c - 1
    BY <2>1, <2>2
  <2>4. k % c = IF k < c THEN k ELSE k - c
    <3>. HIDE DEF k
    <3>. QED  BY <2>1, <2>3, Wraps
  <2>5. q = LET z == h - m + j - 1 IN IF z < 0 THEN z + c ELSE z
    BY DEF Slot, h, m
  <2>6. k % c = q /\ q \in 0..c - 1 /\ j \in 1..m
    <3>. HIDE DEF q
    <3>. QED  BY <2>1, <2>2, <2>4, <2>5
  <2>7. r.buf[q] = s[j]
    BY <1>1, <2>6 DEF m
  <2>8. y[i] = s[j]
    BY <1>4 DEF m
  <2>. QED  BY <2>6, <2>7, <2>8
<1>6. x \in Seq(Bar) /\ Len(x) = take /\ \A i \in 1..take : x[i] = y[i]
  <2>. HIDE DEF start, take
  <2>1. \A i \in 1..take : r.buf[(start + i - 1) % c] \in Bar
    BY <1>1, <1>5
  <2>2. x \in [1..take -> Bar]
    BY <1>2, <2>1
  <2>3. x \in Seq(Bar) /\ Len(x) = take
    <3>. HIDE DEF x
    <3>. QED  BY <1>3, <2>2
  <2>. QED  BY <1>2, <1>5, <2>3
<1>. HIDE DEF x, take
<1>7. x = y
  BY <1>4, <1>6, SeqEqual
<1>. QED  BY <1>7 DEF x, y

(* What a fold leaves in a ring. *)
LEMMA FoldHolds ==
    ASSUME Capacity \in Nat \ {0}, NEW r, NEW s, Holds(r, s), NEW bars \in Seq(Bar)
    PROVE  Holds(B!FoldLeft(B!Push, r, bars), B!LastOf(s \o bars, Capacity))
<1>. DEFINE n == Len(bars)
            out == B!FoldLeft(B!Push, r, bars)
            sofar(k) == B!LastOf(s \o SubSeq(bars, 1, k), Capacity)
<1>1. PICK G : /\ G[0] = r
               /\ \A k \in 1..n : G[k] = B!Push(G[k - 1], bars[k])
               /\ out = G[n]
  BY FoldPushes DEF IsSeq
<1>2. n \in Nat /\ s \in Seq(Bar) /\ Len(s) <= Capacity /\ \A k \in 1..n : bars[k] \in Bar
  BY LenProperties, ElementOfSeq DEF Holds, IsRing
<1>. DEFINE Good == {k \in Nat : k <= n => Holds(G[k], sofar(k))}
<1>3. 0 \in Good
  <2>1. SubSeq(bars, 1, 0) = <<>>
    BY SubSeqEmpty
  <2>2. s \o <<>> = s
    BY <1>2, ConcatEmptySeq
  <2>3. B!LastOf(s, Capacity) = s
    <3>. DEFINE l == B!LastOf(s, Capacity)
    <3>1. /\ l \in Seq(Bar) /\ Len(l) = (IF Len(s) > Capacity THEN Capacity ELSE Len(s))
          /\ \A i \in 1..Len(l) : l[i] = s[Len(s) - Len(l) + i]
      BY <1>2, TailIs
    <3>2. Len(s) \in Nat
      BY <1>2, LenProperties
    <3>. HIDE DEF l
    <3>3. Len(l) = Len(s)
      BY <1>2, <3>1, <3>2
    <3>4. ASSUME NEW i \in 1..Len(l)
          PROVE  l[i] = s[i]
      BY <3>2, <3>3, <3>1
    <3>5. l = s
      BY <1>2, <3>1, <3>3, <3>4, SeqEqual
    <3>. QED  BY <3>5 DEF l
  <2>4. sofar(0) = s
    BY <2>1, <2>2, <2>3
  <2>. HIDE DEF sofar
  <2>. QED  BY <1>1, <2>4
<1>4. ASSUME NEW k \in Nat, k \in Good
      PROVE  k + 1 \in Good
  <2>1. SUFFICES ASSUME k + 1 <= n PROVE Holds(G[k + 1], sofar(k + 1))
    <3>. HIDE DEF sofar
    <3>. QED  OBVIOUS
  <2>2. Holds(G[k], sofar(k))
    BY <1>2, <1>4, <2>1
  <2>3. k + 1 \in 1..n /\ bars[k + 1] \in Bar
    BY <1>2, <2>1
  <2>4. G[k + 1] = B!Push(G[k], bars[k + 1])
    BY <1>1, <2>3
  <2>. DEFINE b == bars[k + 1]
              head == SubSeq(bars, 1, k)
              more == SubSeq(bars, 1, k + 1)
  <2>5. /\ head \in Seq(Bar) /\ Len(head) = k /\ \A i \in 1..k : head[i] = bars[i]
        /\ more \in Seq(Bar) /\ Len(more) = k + 1 /\ \A i \in 1..k + 1 : more[i] = bars[i]
    <3>1. (\A i \in 1..k : bars[i] \in Bar) /\ \A i \in 1..k + 1 : bars[i] \in Bar
      BY <1>2, <2>3
    <3>2. /\ head \in Seq(Bar) /\ Len(head) = (IF 1 <= k THEN k - 1 + 1 ELSE 0)
          /\ \A i \in 1..k - 1 + 1 : head[i] = bars[1 + i - 1]
      BY <3>1, SubSeqProperties
    <3>3. /\ more \in Seq(Bar) /\ Len(more) = (IF 1 <= k + 1 THEN k + 1 - 1 + 1 ELSE 0)
          /\ \A i \in 1..k + 1 - 1 + 1 : more[i] = bars[1 + i - 1]
      BY <3>1, SubSeqProperties
    <3>4. k - 1 + 1 = k /\ k + 1 - 1 + 1 = k + 1 /\ \A i \in Int : 1 + i - 1 = i
      OBVIOUS
    <3>. HIDE DEF head, more
    <3>. QED  BY <3>2, <3>3, <3>4
  <2>. HIDE DEF head, more, b
  <2>6. s \o more = Append(s \o head, b)
    <3>1. /\ s \o head \in Seq(Bar) /\ Len(s \o head) = Len(s) + k
          /\ \A i \in 1..Len(s) + k : (s \o head)[i] = IF i <= Len(s) THEN s[i] ELSE head[i - Len(s)]
      BY <1>2, <2>5, ConcatProperties
    <3>2. /\ s \o more \in Seq(Bar) /\ Len(s \o more) = Len(s) + (k + 1)
          /\ \A i \in 1..Len(s) + (k + 1) : (s \o more)[i] = IF i <= Len(s) THEN s[i] ELSE more[i - Len(s)]
      BY <1>2, <2>5, ConcatProperties
    <3>. DEFINE u == s \o head  v == s \o more  w == Append(u, b)
    <3>3. b \in Bar /\ Len(s) \in Nat
      BY <1>2, <2>3, LenProperties DEF b
    <3>. HIDE DEF u, v
    <3>4. /\ w \in Seq(Bar) /\ Len(w) = Len(u) + 1 /\ \A i \in 1..Len(u) : w[i] = u[i]
          /\ w[Len(u) + 1] = b
      BY <3>1, <3>3, AppendProperties DEF u
    <3>. HIDE DEF w
    <3>5. Len(v) = Len(w) /\ Len(u) = Len(s) + k /\ Len(v) = Len(s) + k + 1
      BY <3>1, <3>2, <3>3, <3>4 DEF u, v
    <3>6. ASSUME NEW i \in 1..Len(v)
          PROVE  v[i] = w[i]
      <4>1. v[i] = IF i <= Len(s) THEN s[i] ELSE more[i - Len(s)]
        BY <3>2, <3>3, <3>5 DEF v
      <4>2. CASE i = Len(s) + k + 1
        BY <3>3, <4>1, <4>2, <2>5, <3>4, <3>5 DEF b
      <4>3. CASE i \in 1..Len(u)
        <5>1. w[i] = IF i <= Len(s) THEN s[i] ELSE head[i - Len(s)]
          BY <3>1, <3>4, <3>5, <4>3 DEF u
        <5>2. ~ (i <= Len(s)) => head[i - Len(s)] = more[i - Len(s)]
          BY <3>3, <3>5, <4>3, <2>5
        <5>. QED  BY <4>1, <5>1, <5>2
      <4>. QED  BY <3>3, <3>5, <4>2, <4>3
    <3>7. v = w
      BY <3>2, <3>4, <3>5, <3>6, SeqEqual DEF v
    <3>. QED  BY <3>7 DEF u, v, w
  <2>7. B!LastOf(Append(sofar(k), b), Capacity) = sofar(k + 1)
    <3>1. s \o head \in Seq(Bar) /\ b \in Bar
      BY <1>2, <2>3, <2>5, ConcatProperties DEF b
    <3>. DEFINE u == s \o head
    <3>. HIDE DEF u
    <3>2. B!LastOf(Append(B!LastOf(u, Capacity), b), Capacity) = B!LastOf(Append(u, b), Capacity)
      BY <3>1, TailOfAppended DEF u
    <3>. QED  BY <2>6, <3>2 DEF u, head, more
  <2>. HIDE DEF sofar
  <2>8. Holds(B!Push(G[k], b), B!LastOf(Append(sofar(k), b), Capacity))
    BY <2>2, <2>3, PushHolds DEF b
  <2>. QED  BY <2>4, <2>7, <2>8 DEF b
<1>5. Nat \subseteq Good
  <2>. HIDE DEF Good
  <2>. QED  BY <1>3, <1>4, Induction
<1>6. Holds(out, sofar(n))
  <2>1. n \in Good
    BY <1>2, <1>5
  <2>2. n <= n
    BY <1>2
  <2>. HIDE DEF sofar, out, n
  <2>. QED  BY <1>1, <2>1, <2>2
<1>7. SubSeq(bars, 1, n) = bars
  <2>. DEFINE t == SubSeq(bars, 1, n)
  <2>1. /\ t \in Seq(Bar) /\ Len(t) = (IF 1 <= n THEN n - 1 + 1 ELSE 0)
        /\ \A i \in 1..n - 1 + 1 : t[i] = bars[1 + i - 1]
    BY <1>2, SubSeqProperties
  <2>. HIDE DEF t
  <2>2. Len(t) = n /\ \A i \in 1..n : t[i] = bars[i]
    BY <1>2, <2>1
  <2>3. t = bars
    BY <2>1, <2>2, SeqEqual
  <2>. QED  BY <2>3 DEF t
<1>. QED  BY <1>6, <1>7

(* A fold leaves nothing in the slots but what was there or was pushed. *)
LEMMA FoldUses ==
    ASSUME Capacity \in Nat \ {0}, NEW X, NEW r, r.buf \in [0..Capacity - 1 -> X],
           r.head \in 0..Capacity - 1, NEW bars \in Seq(X)
    PROVE  B!FoldLeft(B!Push, r, bars).buf \in [0..Capacity - 1 -> X]
<1>. DEFINE n == Len(bars)
            out == B!FoldLeft(B!Push, r, bars)
            Fits(p) == p.buf \in [0..Capacity - 1 -> X] /\ p.head \in 0..Capacity - 1
<1>1. PICK G : /\ G[0] = r
               /\ \A k \in 1..n : G[k] = B!Push(G[k - 1], bars[k])
               /\ out = G[n]
  BY FoldPushes DEF IsSeq
<1>2. n \in Nat /\ \A k \in 1..n : bars[k] \in X
  BY LenProperties, ElementOfSeq
<1>. DEFINE Good == {k \in Nat : k <= n => Fits(G[k])}
<1>3. 0 \in Good
  BY <1>1
<1>4. ASSUME NEW k \in Nat, k \in Good
      PROVE  k + 1 \in Good
  <2>1. CASE k + 1 <= n
    <3>1. Fits(G[k])
      BY <1>2, <1>4, <2>1
    <3>2. k + 1 \in 1..n /\ bars[k + 1] \in X /\ k + 1 - 1 = k
      BY <1>2, <2>1
    <3>. DEFINE p == G[k]
                b == bars[k + 1]
                q == B!Push(p, b)
    <3>3. G[k + 1] = q
      BY <1>1, <3>2
    <3>4. q.buf = [p.buf EXCEPT ![p.head] = b] /\ q.head = (p.head + 1) % Capacity
      BY DEF B!Push
    <3>5. (p.head + 1) % Capacity \in 0..Capacity - 1
      <4>1. p.head + 1 \in 0..2 * Capacity - 1
        BY <3>1
      <4>. DEFINE x == p.head + 1
      <4>2. x \in 0..2 * Capacity - 1
        BY <4>1
      <4>. HIDE DEF x
      <4>3. x % Capacity = IF x < Capacity THEN x ELSE x - Capacity
        BY <4>2, Wraps
      <4>4. x % Capacity \in 0..Capacity - 1
        BY <4>2, <4>3
      <4>. QED  BY <4>4 DEF x
    <3>6. b \in X /\ p.buf \in [0..Capacity - 1 -> X] /\ p.head \in 0..Capacity - 1
      BY <3>1, <3>2
    <3>. HIDE DEF p, b, q
    <3>7. Fits(q)
      BY <3>4, <3>5, <3>6
    <3>. HIDE DEF Fits
    <3>. QED  BY <3>3, <3>7
  <2>2. CASE ~ (k + 1 <= n)
    BY <2>2
  <2>. QED  BY <2>1, <2>2
<1>5. Nat \subseteq Good
  <2>. HIDE DEF Good
  <2>. QED  BY <1>3, <1>4, Induction
<1>6. Fits(G[n])
  <2>1. n \in Good /\ n <= n
    BY <1>2, <1>5
  <2>. HIDE DEF Fits, n
  <2>. QED  BY <2>1
<1>. QED  BY <1>1, <1>6

(* The times of bars. *)
LEMMA TimesAre ==
    ASSUME NEW s \in Seq(Bar)
    PROVE  /\ B!Times(s) \in Seq(Nat) /\ Len(B!Times(s)) = Len(s)
           /\ \A i \in 1..Len(s) : B!Times(s)[i] = s[i].time /\ s[i] \in Bar
<1>. DEFINE x == B!Times(s)
<1>1. Len(s) \in Nat /\ DOMAIN s = 1..Len(s) /\ \A i \in 1..Len(s) : s[i] \in Bar
  BY LenProperties, ElementOfSeq
<1>2. x = [i \in 1..Len(s) |-> s[i].time]
  BY <1>1 DEF B!Times
<1>3. x \in [1..Len(s) -> Nat]
  BY <1>1, <1>2 DEF Bar
<1>4. x \in Seq(Nat) /\ Len(x) = Len(s)
  <2>. HIDE DEF x
  <2>. QED  BY <1>1, <1>3
<1>. QED  BY <1>1, <1>2, <1>4

LEMMA TimesOfTail ==
    ASSUME NEW s \in Seq(Bar), NEW t \in Seq(Bar), NEW c \in Nat
    PROVE  B!Times(B!LastOf(s \o t, c)) = B!LastOf(B!Times(s) \o B!Times(t), c)
<1>. DEFINE st == s \o t
            l == B!LastOf(st, c)
            u == B!Times(l)
            ts == B!Times(s)
            tt == B!Times(t)
            w == ts \o tt
            v == B!LastOf(w, c)
<1>1. Len(s) \in Nat /\ Len(t) \in Nat
  BY LenProperties
<1>2. /\ st \in Seq(Bar) /\ Len(st) = Len(s) + Len(t)
      /\ \A i \in 1..Len(s) + Len(t) : st[i] = IF i <= Len(s) THEN s[i] ELSE t[i - Len(s)]
  BY ConcatProperties
<1>3. /\ ts \in Seq(Nat) /\ Len(ts) = Len(s) /\ \A i \in 1..Len(s) : ts[i] = s[i].time
      /\ tt \in Seq(Nat) /\ Len(tt) = Len(t) /\ \A i \in 1..Len(t) : tt[i] = t[i].time
  BY TimesAre
<1>. HIDE DEF st, ts, tt
<1>4. /\ w \in Seq(Nat) /\ Len(w) = Len(s) + Len(t)
      /\ \A i \in 1..Len(s) + Len(t) : w[i] = IF i <= Len(s) THEN ts[i] ELSE tt[i - Len(s)]
  BY <1>3, ConcatProperties
<1>5. ASSUME NEW i \in 1..Len(s) + Len(t)
      PROVE  w[i] = st[i].time
  <2>1. CASE i <= Len(s)
    BY <1>1, <2>1, <1>2, <1>3, <1>4
  <2>2. CASE ~ (i <= Len(s))
    <3>1. i - Len(s) \in 1..Len(t)
      BY <1>1, <2>2
    <3>. QED  BY <1>2, <1>3, <1>4, <2>2, <3>1
  <2>. QED  BY <2>1, <2>2
<1>6. /\ l \in Seq(Bar) /\ Len(l) = (IF Len(st) > c THEN c ELSE Len(st))
      /\ \A i \in 1..Len(l) : l[i] = st[Len(st) - Len(l) + i]
  BY <1>2, TailIs
<1>. HIDE DEF w
<1>7. /\ v \in Seq(Nat) /\ Len(v) = (IF Len(w) > c THEN c ELSE Len(w))
      /\ \A i \in 1..Len(v) : v[i] = w[Len(w) - Len(v) + i]
  BY <1>4, TailIs
<1>. HIDE DEF l, v
<1>8. u \in Seq(Nat) /\ Len(u) = Len(l) /\ \A i \in 1..Len(l) : u[i] = l[i].time
  BY <1>6, TimesAre
<1>. HIDE DEF u
<1>9. ASSUME NEW i \in 1..Len(u)
      PROVE  u[i] = v[i]
  <2>. DEFINE j == Len(st) - Len(l) + i
  <2>1. Len(v) = Len(l) /\ Len(w) = Len(st) /\ j \in 1..Len(s) + Len(t)
    BY <1>1, <1>2, <1>4, <1>6, <1>7, <1>8
  <2>. HIDE DEF j
  <2>2. u[i] = st[j].time
    BY <1>6, <1>8 DEF j
  <2>3. v[i] = w[j]
    BY <1>7, <1>8, <2>1 DEF j
  <2>. QED  BY <1>5, <2>1, <2>2, <2>3
<1>10. Len(u) = Len(v)
  BY <1>2, <1>4, <1>6, <1>7, <1>8
<1>11. u = v
  BY <1>7, <1>8, <1>9, <1>10, SeqEqual
<1>. QED  BY <1>11 DEF u, l, st, v, w, ts, tt

-----------------------------------------------------------------------------
(* The scale of a symbol's prices.  What was stored is at the current rate *)
(* but for the rescales under way that have not reached it.                *)

Price == [scale : Int, have : BOOLEAN]
Kinds == {"bars", "price", "peak"}

BarsShape ==
    /\ prices \in Prices /\ rate \in Int
    /\ changing \in [B!Actors -> [left : SUBSET Kinds, by : Int]]
    /\ cached \in Price /\ peak \in Price /\ floor \in Price
    /\ cur \in Bar /\ (cur # B!None => cur.time >= 1)
    /\ tick \in [pc : {"idle", "cache", "bar"}, time : Nat, scale : Int]
    /\ tick.pc # "idle" => tick.time >= 1
    /\ history \in [last : Nat, scale : Int] /\ tracker \in {"off", "rate", "seed", "done"}
    /\ IsRing(ring)

Owes(a, what) == IF what \in changing[a].left THEN changing[a].by ELSE 0
Owed(what) == Owes("loop", what) + Owes("tracker", what)

ScaleInv ==
    /\ cached.have => cached.scale + Owed("price") = rate
    /\ peak.have => peak.scale + Owed("peak") = rate
    /\ floor.have => floor.scale + Owed("peak") = rate
    /\ \A i \in 0..Capacity - 1 : ring.buf[i] # B!None => ring.buf[i].scale + Owed("bars") = rate
    /\ cur # B!None => cur.scale + Owed("bars") = rate
    /\ tick.pc # "idle" => B!NobodyRates /\ tick.scale = rate
    /\ tracker = "seed" => B!NobodyRates /\ history.scale = rate

LEMMA NoneOwed ==
    ASSUME B!NobodyRates
    PROVE  \A what : Owed(what) = 0
BY DEF B!NobodyRates, B!Actors, Owed, Owes

LEMMA OwedIsInt ==
    ASSUME BarsShape
    PROVE  \A what : Owed(what) \in Int
BY DEF BarsShape, B!Actors, Owed, Owes

(* Nobody owes more when nothing of the rate moves. *)
LEMMA SameOwed ==
    ASSUME UNCHANGED changing
    PROVE  (\A what : Owed(what)' = Owed(what)) /\ B!NobodyRates' = B!NobodyRates
BY DEF Owed, Owes, B!NobodyRates

(* A price that is right in a step that moves no rate stays so. *)
LEMMA QuoteKeeps ==
    ASSUME BarsShape, ~prices.overlap => ScaleInv, NEW time \in Nat, time >= 1, B!Quote(time)
    PROVE  BarsShape' /\ (~prices'.overlap => ScaleInv')
<1>1. /\ B!LoopFree /\ (prices.overlap \/ B!NobodyRates)
      /\ tick' = [pc |-> "cache", time |-> time, scale |-> rate]
      /\ UNCHANGED <<prices, ring, cur, pushed, rate, cached, peak, floor, held, changing, history,
                     tracker, changes>>
  BY DEF B!Quote, B!store, B!levels
<1>2. BarsShape'
  BY <1>1 DEF BarsShape, IsRing, B!Actors, B!None
<1>3. ASSUME ~prices.overlap
      PROVE  ScaleInv'
  BY <1>1, <1>3, SameOwed DEF ScaleInv, B!None
<1>. QED  BY <1>1, <1>2, <1>3

LEMMA IngestPriceKeeps ==
    ASSUME BarsShape, ~prices.overlap => ScaleInv, B!IngestPrice
    PROVE  BarsShape' /\ (~prices'.overlap => ScaleInv')
<1>. DEFINE p == [scale |-> tick.scale, have |-> TRUE]
<1>1. /\ tick.pc = "cache" /\ tick' = [tick EXCEPT !.pc = "bar"] /\ cached' = p /\ peak' \in {peak, p}
      /\ UNCHANGED <<prices, ring, cur, pushed, rate, floor, held, changing, history, tracker, changes>>
  BY DEF B!IngestPrice, B!store
<1>2. tick.scale \in Int /\ p \in Price
  BY DEF BarsShape, Price
<1>3. BarsShape'
  BY <1>1, <1>2 DEF BarsShape, IsRing, B!Actors, B!None
<1>4. ASSUME ~prices.overlap
      PROVE  ScaleInv'
  <2>1. B!NobodyRates /\ tick.scale = rate /\ rate \in Int
    BY <1>1, <1>4 DEF ScaleInv, BarsShape
  <2>2. Owed("price") = 0 /\ Owed("peak") = 0 /\ \A what : Owed(what)' = Owed(what)
    BY <1>1, <2>1, NoneOwed, SameOwed
  <2>3. cached'.scale + Owed("price")' = rate'
    BY <1>1, <2>1, <2>2
  <2>4. peak'.have => peak'.scale + Owed("peak")' = rate'
    BY <1>1, <1>4, <2>1, <2>2 DEF ScaleInv
  <2>5. tick'.pc # "idle" /\ tick'.scale = tick.scale
    BY <1>1 DEF BarsShape
  <2>. QED  BY <1>1, <1>4, <2>1, <2>2, <2>3, <2>4, <2>5, SameOwed DEF ScaleInv, B!None
<1>. QED  BY <1>1, <1>3, <1>4

LEMMA HoldKeeps ==
    ASSUME BarsShape, ~prices.overlap => ScaleInv, B!Hold
    PROVE  BarsShape' /\ (~prices'.overlap => ScaleInv')
<1>1. /\ B!NobodyRates /\ peak' = cached /\ floor' = cached
      /\ UNCHANGED <<prices, ring, cur, pushed, rate, cached, changing, tick, history, tracker, changes>>
  BY DEF B!Hold, B!store
<1>2. BarsShape'
  BY <1>1 DEF BarsShape, IsRing, B!Actors, B!None
<1>3. ASSUME ~prices.overlap
      PROVE  ScaleInv'
  BY <1>1, NoneOwed, SameOwed, <1>3 DEF ScaleInv, B!None
<1>. QED  BY <1>1, <1>2, <1>3

(* The rate moves: everything stored is now owed the difference. *)
LEMMA SetRateKeeps ==
    ASSUME B!BarsAssumption, BarsShape, ~prices.overlap => ScaleInv,
           NEW a \in B!Actors, NEW new \in Rates, B!SetRate(a, new)
    PROVE  BarsShape' /\ (~prices'.overlap => ScaleInv')
<1>. DEFINE owing == [left |-> Kinds, by |-> new - rate]
<1>1. /\ changing[a].left = {} /\ rate' = new /\ changing' = [changing EXCEPT ![a] = owing]
      /\ (tick.pc = "idle" \/ prices.overlap) /\ (prices.overlap \/ tracker # "seed")
      /\ UNCHANGED <<prices, ring, cur, pushed, cached, peak, floor, held, tick, history, tracker>>
  BY DEF B!SetRate, B!Later, B!store, B!levels, Kinds
<1>2. new \in Int /\ rate \in Int /\ owing \in [left : SUBSET Kinds, by : Int]
  BY DEF BarsShape, B!BarsAssumption
<1>. HIDE DEF owing
<1>3. BarsShape'
  BY <1>1, <1>2 DEF BarsShape, IsRing, B!Actors, B!None
<1>4. \A what \in Kinds : Owed(what)' = Owed(what) + (new - rate)
  <2>1. changing'[a].left = Kinds /\ changing'[a].by = new - rate
        /\ \A b \in B!Actors \ {a} : changing'[b] = changing[b]
    BY <1>1 DEF BarsShape, owing
  <2>2. ASSUME NEW what \in Kinds
        PROVE  Owed(what)' = Owed(what) + (new - rate)
    BY <1>1, <2>1, <1>2 DEF Owes, BarsShape, Owed, B!Actors
  <2>. QED  BY <2>2
<1>5. ASSUME ~prices.overlap
      PROVE  ScaleInv'
  <2>1. /\ Owed("bars")' = Owed("bars") + (new - rate) /\ Owed("price")' = Owed("price") + (new - rate)
        /\ Owed("peak")' = Owed("peak") + (new - rate)
        /\ Owed("bars") \in Int /\ Owed("price") \in Int /\ Owed("peak") \in Int
    BY <1>4, OwedIsInt DEF Kinds
  <2>2. cached.scale \in Int /\ peak.scale \in Int /\ floor.scale \in Int /\ cur.scale \in Int
        /\ \A i \in 0..Capacity - 1 : ring.buf[i].scale \in Int
    BY DEF BarsShape, IsRing, Price, Bar
  <2>3. cached'.have => cached'.scale + Owed("price")' = rate'
    BY <1>1, <1>2, <1>5, <2>1, <2>2 DEF ScaleInv
  <2>4. peak'.have => peak'.scale + Owed("peak")' = rate'
    BY <1>1, <1>2, <1>5, <2>1, <2>2 DEF ScaleInv
  <2>5. floor'.have => floor'.scale + Owed("peak")' = rate'
    BY <1>1, <1>2, <1>5, <2>1, <2>2 DEF ScaleInv
  <2>6. ASSUME NEW i \in 0..Capacity - 1, ring.buf[i] # B!None
        PROVE  ring.buf[i].scale + Owed("bars")' = rate'
    BY <1>5, <2>6, <1>1, <1>2, <2>1, <2>2 DEF ScaleInv
  <2>7. cur # B!None => cur.scale + Owed("bars")' = rate'
    BY <1>1, <1>2, <1>5, <2>1, <2>2 DEF ScaleInv
  <2>8. tick'.pc = "idle" /\ tracker' # "seed"
    BY <1>1, <1>5
  <2>. QED  BY <1>1, <2>3, <2>4, <2>5, <2>6, <2>7, <2>8 DEF ScaleInv, B!None
<1>. QED  BY <1>1, <1>3, <1>5

(* One rescale reaches its kind: it is owed that much less. *)
LEMMA RescaledOwes ==
    ASSUME BarsShape, NEW a \in B!Actors, NEW what \in Kinds, B!Rescaled(a, what)
    PROVE  /\ Owed(what) = Owed(what)' + changing[a].by
           /\ \A k \in Kinds \ {what} : Owed(k)' = Owed(k)
           /\ \A k \in Kinds : Owed(k) \in Int /\ Owed(k)' \in Int
           /\ changing' \in [B!Actors -> [left : SUBSET Kinds, by : Int]]
           /\ changing[a].by \in Int /\ ~B!NobodyRates
<1>. DEFINE c == changing[a]
            d == [left |-> c.left \ {what}, by |-> c.by]
<1>1. c \in [left : SUBSET Kinds, by : Int] /\ what \in c.left
  BY DEF BarsShape, B!Rescaled
<1>2. changing' = [changing EXCEPT ![a] = d]
  <2>. DEFINE e == [c EXCEPT !.left = c.left \ {what}]
  <2>1. changing' = [changing EXCEPT ![a] = e]
    BY DEF B!Rescaled
  <2>2. e = d
    <3>1. c = [left |-> c.left, by |-> c.by]
      BY <1>1
    <3>. HIDE DEF c
    <3>. QED  BY <3>1
  <2>. QED  BY <2>1, <2>2
<1>3. d \in [left : SUBSET Kinds, by : Int] /\ d.left = c.left \ {what} /\ d.by = c.by
  BY <1>1
<1>. HIDE DEF d
<1>4. changing' \in [B!Actors -> [left : SUBSET Kinds, by : Int]] /\ changing'[a] = d
      /\ \A b \in B!Actors \ {a} : changing'[b] = changing[b]
  BY <1>2, <1>3 DEF BarsShape
<1>5. \A k : /\ Owes("loop", k) \in Int /\ Owes("loop", k)' \in Int
             /\ Owes("tracker", k) \in Int /\ Owes("tracker", k)' \in Int
  BY <1>4 DEF Owes, BarsShape, B!Actors
<1>6. Owes(a, what) = c.by /\ Owes(a, what)' = 0 /\ \A k \in Kinds \ {what} : Owes(a, k)' = Owes(a, k)
  BY <1>1, <1>3, <1>4 DEF Owes
<1>7. \A b \in B!Actors \ {a} : \A k : Owes(b, k)' = Owes(b, k)
  BY <1>4 DEF Owes
<1>8. CASE a = "loop"
  BY <1>1, <1>4, <1>5, <1>6, <1>7, <1>8 DEF Owed, B!Actors, B!NobodyRates
<1>9. CASE a = "tracker"
  BY <1>1, <1>4, <1>5, <1>6, <1>7, <1>9 DEF Owed, B!Actors, B!NobodyRates
<1>. QED  BY <1>8, <1>9 DEF B!Actors

(* Its price is moved by as much. *)
LEMMA ScaledIs ==
    ASSUME NEW p \in Price, NEW by \in Int
    PROVE  /\ B!Scaled(p, by) \in Price /\ (B!Scaled(p, by).have <=> p.have)
           /\ p.have => B!Scaled(p, by).scale = p.scale + by
BY DEF B!Scaled, Price

LEMMA ScaledBarIs ==
    ASSUME NEW b \in Bar, NEW by \in Int
    PROVE  /\ B!ScaledBar(b, by) \in Bar /\ B!ScaledBar(b, by).time = b.time
           /\ b # B!None => B!ScaledBar(b, by).scale = b.scale + by
           /\ b = B!None => B!ScaledBar(b, by) = B!None
           /\ b.time >= 1 => B!ScaledBar(b, by) # B!None
BY DEF B!ScaledBar, Bar, B!None

LEMMA RescaleBarsKeeps ==
    ASSUME BarsShape, ~prices.overlap => ScaleInv, NEW a \in B!Actors, B!RescaleBars(a)
    PROVE  BarsShape' /\ (~prices'.overlap => ScaleInv')
<1>. DEFINE by == changing[a].by
            buf == [i \in 0..Capacity - 1 |-> B!ScaledBar(ring.buf[i], by)]
            c == B!ScaledBar(cur, by)
<1>1. /\ B!Rescaled(a, "bars") /\ cur' = c
      /\ ring' = [ring EXCEPT !.buf = [i \in DOMAIN ring.buf |-> B!ScaledBar(ring.buf[i], by)]]
      /\ UNCHANGED <<prices, rate, cached, peak, floor, held, pushed, tick, history, tracker, changes>>
  BY DEF B!RescaleBars, B!Rescaled
<1>2. /\ ring = [buf |-> ring.buf, head |-> ring.head, n |-> ring.n]
      /\ ring.buf \in [0..Capacity - 1 -> Bar] /\ cur \in Bar
  BY DEF BarsShape, IsRing
<1>3. /\ Owed("bars") = Owed("bars")' + by /\ Owed("price")' = Owed("price")
      /\ Owed("peak")' = Owed("peak") /\ by \in Int /\ ~B!NobodyRates
      /\ Owed("bars") \in Int /\ Owed("bars")' \in Int
      /\ changing' \in [B!Actors -> [left : SUBSET Kinds, by : Int]]
  BY <1>1, RescaledOwes DEF Kinds
<1>4. ring' = [buf |-> buf, head |-> ring.head, n |-> ring.n]
  <2>1. DOMAIN ring.buf = 0..Capacity - 1
    BY <1>2
  <2>2. ring' = [ring EXCEPT !.buf = buf]
    BY <1>1, <2>1
  <2>. HIDE DEF buf
  <2>. QED  BY <1>2, <2>2
<1>. HIDE DEF by
<1>5. /\ \A i \in 0..Capacity - 1 : /\ buf[i] \in Bar
                                    /\ buf[i] # B!None => ring.buf[i] # B!None
                                                          /\ buf[i].scale = ring.buf[i].scale + by
      /\ c \in Bar /\ c.time = cur.time /\ (c # B!None <=> cur # B!None)
      /\ c # B!None => c.scale = cur.scale + by
  <2>1. cur = B!None \/ cur.time >= 1
    BY DEF BarsShape
  <2>2. \A i \in 0..Capacity - 1 : ring.buf[i] \in Bar
    BY <1>2
  <2>. QED  BY <1>2, <1>3, <2>1, <2>2, ScaledBarIs
<1>. HIDE DEF c
<1>6. BarsShape'
  <2>1. buf \in [0..Capacity - 1 -> Bar]
    BY <1>5
  <2>. HIDE DEF buf
  <2>2. IsRing(ring')
    BY <1>4, <2>1 DEF BarsShape, IsRing
  <2>3. IsRing(ring)' <=> IsRing(ring')
    BY DEF IsRing, Bar
  <2>4. cur' \in Bar /\ (cur' # B!None => cur'.time >= 1)
    BY <1>1, <1>5 DEF BarsShape
  <2>. QED  BY <1>1, <1>3, <2>2, <2>3, <2>4 DEF BarsShape, B!Actors, B!None
<1>7. ASSUME ~prices.overlap
      PROVE  ScaleInv'
  <2>1. tick.pc = "idle" /\ tracker # "seed"
    BY <1>3, <1>7 DEF ScaleInv
  <2>2. cur' # B!None => cur'.scale + Owed("bars")' = rate'
    BY <1>2, <1>1, <1>3, <1>5, <1>7 DEF Bar, ScaleInv
  <2>3. ASSUME NEW i \in 0..Capacity - 1, ring'.buf[i] # B!None
        PROVE  ring'.buf[i].scale + Owed("bars")' = rate'
    <3>1. ring'.buf[i] = buf[i] /\ ring.buf[i] \in Bar /\ ring.buf[i].scale \in Int
      BY <1>2, <1>4 DEF Bar
    <3>2. ring.buf[i] # B!None /\ ring'.buf[i].scale = ring.buf[i].scale + by
      BY <1>5, <2>3, <3>1
    <3>3. ring.buf[i].scale + Owed("bars") = rate
      BY <1>7, <3>2 DEF ScaleInv
    <3>. QED  BY <1>1, <1>3, <3>1, <3>2, <3>3
  <2>. QED  BY <1>1, <1>3, <1>7, <2>1, <2>2, <2>3 DEF ScaleInv, B!None
<1>. QED  BY <1>1, <1>6, <1>7

LEMMA RescalePriceKeeps ==
    ASSUME BarsShape, ~prices.overlap => ScaleInv, NEW a \in B!Actors, B!RescalePrice(a)
    PROVE  BarsShape' /\ (~prices'.overlap => ScaleInv')
<1>. DEFINE by == changing[a].by
<1>1. /\ B!Rescaled(a, "price") /\ cached' = B!Scaled(cached, by)
      /\ UNCHANGED <<prices, ring, cur, rate, peak, floor, held, pushed, tick, history, tracker, changes>>
  BY DEF B!RescalePrice, B!Rescaled
<1>2. /\ Owed("price") = Owed("price")' + by /\ Owed("bars")' = Owed("bars")
      /\ Owed("peak")' = Owed("peak") /\ by \in Int /\ ~B!NobodyRates
      /\ Owed("price") \in Int /\ Owed("price")' \in Int
      /\ changing' \in [B!Actors -> [left : SUBSET Kinds, by : Int]]
  BY <1>1, RescaledOwes DEF Kinds
<1>. HIDE DEF by
<1>3. /\ cached' \in Price /\ (cached'.have <=> cached.have) /\ cached.scale \in Int
      /\ cached.have => cached'.scale = cached.scale + by
  BY <1>1, <1>2, ScaledIs DEF BarsShape, Price
<1>4. BarsShape'
  BY <1>1, <1>2, <1>3 DEF BarsShape, IsRing, B!Actors, B!None
<1>5. ASSUME ~prices.overlap
      PROVE  ScaleInv'
  BY <1>2, <1>5, <1>1, <1>3 DEF ScaleInv, B!None
<1>. QED  BY <1>1, <1>4, <1>5

LEMMA RescalePeakKeeps ==
    ASSUME BarsShape, ~prices.overlap => ScaleInv, NEW a \in B!Actors, B!RescalePeak(a)
    PROVE  BarsShape' /\ (~prices'.overlap => ScaleInv')
<1>. DEFINE by == changing[a].by
<1>1. /\ B!Rescaled(a, "peak") /\ peak' = B!Scaled(peak, by) /\ floor' = B!Scaled(floor, by)
      /\ UNCHANGED <<prices, ring, cur, rate, cached, held, pushed, tick, history, tracker, changes>>
  BY DEF B!RescalePeak, B!Rescaled
<1>2. /\ Owed("peak") = Owed("peak")' + by /\ Owed("bars")' = Owed("bars")
      /\ Owed("price")' = Owed("price") /\ by \in Int /\ ~B!NobodyRates
      /\ Owed("peak") \in Int /\ Owed("peak")' \in Int
      /\ changing' \in [B!Actors -> [left : SUBSET Kinds, by : Int]]
  BY <1>1, RescaledOwes DEF Kinds
<1>. HIDE DEF by
<1>3. /\ peak' \in Price /\ (peak'.have <=> peak.have) /\ peak.scale \in Int
      /\ peak.have => peak'.scale = peak.scale + by
      /\ floor' \in Price /\ (floor'.have <=> floor.have) /\ floor.scale \in Int
      /\ floor.have => floor'.scale = floor.scale + by
  BY <1>1, <1>2, ScaledIs DEF BarsShape, Price
<1>4. BarsShape'
  BY <1>1, <1>2, <1>3 DEF BarsShape, IsRing, B!Actors, B!None
<1>5. ASSUME ~prices.overlap
      PROVE  ScaleInv'
  BY <1>2, <1>5, <1>1, <1>3 DEF ScaleInv, B!None
<1>. QED  BY <1>1, <1>4, <1>5

(* What is pushed when a bar is complete: it, and the quiet ones after it. *)
LEMMA GapIs ==
    ASSUME MaxFill \in Nat, cur \in Bar, NEW t \in Nat, t > cur.time
    PROVE  LET bars == <<cur>> \o B!FillGap(t)
           IN /\ bars \in Seq(Bar) /\ Len(bars) \in Nat \ {0}
              /\ \A i \in 1..Len(bars) : bars[i] = [time |-> cur.time + i - 1, scale |-> cur.scale]
              /\ cur.time + Len(bars) = t \/ (Len(bars) = 1 /\ t - cur.time > MaxFill)
<1>. DEFINE fill == B!FillGap(t)
            bars == <<cur>> \o fill
            m == cur.time
            x == cur.scale
            gap == t - m
            k == IF gap <= 1 \/ gap > MaxFill THEN 0 ELSE gap - 1
<1>1. cur = [time |-> m, scale |-> x] /\ m \in Nat /\ x \in Int
  BY DEF Bar
<1>2. k \in Nat /\ gap \in Nat \ {0}
  <2>. HIDE DEF m
  <2>. QED  BY <1>1
<1>3. fill \in Seq(Bar) /\ Len(fill) = k /\ \A i \in 1..k : fill[i] = [time |-> m + i, scale |-> x]
  <2>1. CASE gap <= 1 \/ gap > MaxFill
    <3>1. fill = <<>> /\ k = 0
      BY <2>1 DEF B!FillGap
    <3>2. <<>> \in Seq(Bar) /\ Len(<<>>) = 0
      OBVIOUS
    <3>. HIDE DEF fill, k
    <3>. QED  BY <3>1, <3>2
  <2>2. CASE ~ (gap <= 1 \/ gap > MaxFill)
    <3>1. fill = [i \in 1..k |-> [time |-> m + i, scale |-> x]]
      BY <2>2 DEF B!FillGap
    <3>. HIDE DEF fill, k, m, x
    <3>2. \A i \in 1..k : [time |-> m + i, scale |-> x] \in Bar
      BY <1>1, <1>2 DEF Bar
    <3>3. fill \in [1..k -> Bar]
      BY <3>1, <3>2
    <3>4. fill \in Seq(Bar) /\ Len(fill) = k
      BY <1>2, <3>3
    <3>. QED  BY <3>1, <3>4
  <2>. QED  BY <2>1, <2>2
<1>. HIDE DEF fill
<1>4. <<cur>> \in Seq(Bar) /\ Len(<<cur>>) = 1 /\ <<cur>>[1] = cur
  OBVIOUS
<1>5. /\ bars \in Seq(Bar) /\ Len(bars) = 1 + k
      /\ \A i \in 1..1 + k : bars[i] = IF i <= 1 THEN <<cur>>[i] ELSE fill[i - 1]
  <2>. HIDE DEF k
  <2>. QED  BY <1>2, <1>3, <1>4, ConcatProperties
<1>. HIDE DEF bars
<1>6. ASSUME NEW i \in 1..1 + k
      PROVE  bars[i] = [time |-> m + i - 1, scale |-> x]
  <2>. HIDE DEF k, m, x
  <2>1. CASE i = 1
    BY <1>1, <1>4, <1>5, <2>1
  <2>2. CASE i # 1
    BY <1>1, <1>2, <2>2, <1>5, <1>3
  <2>. QED  BY <2>1, <2>2
<1>7. m + Len(bars) = t \/ (Len(bars) = 1 /\ gap > MaxFill)
  <2>1. Len(bars) = 1 + k
    BY <1>5
  <2>. HIDE DEF m
  <2>. QED  BY <1>1, <1>2, <2>1
<1>8. Len(bars) \in Nat \ {0}
  <2>. HIDE DEF k
  <2>. QED  BY <1>2, <1>5
<1>. QED  BY <1>5, <1>6, <1>7, <1>8 DEF bars, fill

LEMMA IngestBarKeeps ==
    ASSUME B!BarsAssumption, BarsShape, ~prices.overlap => ScaleInv, B!IngestBar,
           NEW s, Holds(ring, s)
    PROVE  BarsShape' /\ (~prices'.overlap => ScaleInv')
<1>. DEFINE t == tick.time
            bar == [time |-> t, scale |-> tick.scale]
            bars == <<cur>> \o B!FillGap(t)
<1>1. /\ tick.pc = "bar" /\ tick' = [tick EXCEPT !.pc = "idle"] /\ B!AddTick(t, tick.scale)
      /\ UNCHANGED <<prices, rate, cached, peak, floor, held, changing, history, tracker, changes>>
  BY DEF B!IngestBar, B!levels
<1>2. /\ Capacity \in Nat \ {0} /\ MaxFill \in Nat
      /\ cur \in Bar /\ t \in Nat /\ t >= 1 /\ tick.scale \in Int /\ IsRing(ring)
  BY <1>1 DEF B!BarsAssumption, BarsShape
<1>3. bar \in Bar /\ bar.time = t /\ bar.scale = tick.scale
  BY <1>2 DEF Bar
<1>4. tick' \in [pc : {"idle", "cache", "bar"}, time : Nat, scale : Int] /\ tick'.pc = "idle"
  BY <1>1 DEF BarsShape
<1>5. \/ cur' \in {cur, bar} /\ ring' = ring
      \/ cur # B!None /\ cur'.time = cur.time /\ ring' = ring /\ cur' \in Bar
         /\ cur'.scale = IF cur.scale = tick.scale THEN cur.scale ELSE B!Mixed
      \/ cur # B!None /\ cur' = bar /\ t > cur.time /\ ring' = B!FoldLeft(B!Push, ring, bars)
  <2>1. CASE cur = B!None
    BY <1>1, <2>1 DEF B!AddTick
  <2>2. CASE cur # B!None /\ t < cur.time
    BY <1>1, <2>2 DEF B!AddTick, B!store
  <2>3. CASE cur # B!None /\ ~ (t < cur.time) /\ t = cur.time
    <3>. DEFINE x == IF cur.scale = tick.scale THEN cur.scale ELSE B!Mixed
    <3>1. cur' = [cur EXCEPT !.scale = x] /\ ring' = ring
      BY <1>1, <2>3 DEF B!AddTick
    <3>2. x \in Int
      BY <1>2 DEF Bar, B!Mixed
    <3>. HIDE DEF x
    <3>3. cur'.time = cur.time /\ cur' \in Bar /\ cur'.scale = x
      BY <1>2, <3>1, <3>2 DEF Bar
    <3>. QED  BY <2>3, <3>1, <3>3 DEF x
  <2>4. CASE cur # B!None /\ ~ (t < cur.time) /\ t # cur.time
    BY <1>2, <2>4, <1>1 DEF Bar, B!AddTick, B!PushAll
  <2>. QED  BY <2>1, <2>2, <2>3, <2>4
<1>6. cur' \in Bar /\ (cur' # B!None => cur'.time >= 1)
  BY <1>2, <1>3, <1>5 DEF BarsShape
<1>7. t > cur.time =>
        /\ bars \in Seq(Bar)
        /\ \A i \in 1..Len(bars) : bars[i] = [time |-> cur.time + i - 1, scale |-> cur.scale]
  BY <1>2, GapIs
<1>. HIDE DEF bars, bar, t
<1>8. IsRing(ring')
  <2>1. CASE ring' = ring
    BY <1>2, <2>1
  <2>2. CASE t > cur.time /\ ring' = B!FoldLeft(B!Push, ring, bars)
    <3>1. Holds(B!FoldLeft(B!Push, ring, bars), B!LastOf(s \o bars, Capacity))
      BY <1>2, <1>7, <2>2, FoldHolds
    <3>2. ASSUME NEW r, r = B!FoldLeft(B!Push, ring, bars)
          PROVE  IsRing(r)
      BY <3>1, <3>2 DEF Holds
    <3>. QED  BY <2>2, <3>2
  <2>. QED  BY <1>5, <2>1, <2>2
<1>9. BarsShape'
  BY <1>1, <1>4, <1>6, <1>8 DEF IsRing, Bar, BarsShape, B!Actors, B!None
<1>10. ASSUME ~prices.overlap
       PROVE  ScaleInv'
  <2>1. B!NobodyRates /\ tick.scale = rate /\ rate \in Int
    BY <1>1, <1>10 DEF ScaleInv, BarsShape
  <2>2. \A what : Owed(what) = 0 /\ Owed(what)' = 0
    BY <1>1, <2>1, NoneOwed, SameOwed
  <2>3. /\ cur # B!None => cur.scale = rate
        /\ \A i \in 0..Capacity - 1 : ring.buf[i] # B!None => ring.buf[i].scale = rate
    BY <1>2, <1>10, <2>1, <2>2 DEF IsRing, Bar, ScaleInv
  <2>4. cur' # B!None => cur'.scale = rate
    BY <1>3, <1>5, <2>1, <2>3
  <2>5. ASSUME NEW i \in 0..Capacity - 1, ring'.buf[i] # B!None
        PROVE  ring'.buf[i].scale = rate
    <3>1. CASE ring' = ring
      BY <2>3, <2>5, <3>1
    <3>2. CASE cur # B!None /\ t > cur.time /\ ring' = B!FoldLeft(B!Push, ring, bars)
      <4>. DEFINE X == {b \in Bar : b = B!None \/ b.scale = rate}
      <4>1. ring.buf \in [0..Capacity - 1 -> X] /\ ring.head \in 0..Capacity - 1
        BY <1>2, <2>3 DEF IsRing
      <4>2. bars \in Seq(X)
        <5>1. bars \in Seq(Bar) /\ Len(bars) \in Nat
          BY <1>7, <3>2, LenProperties
        <5>2. \A j \in 1..Len(bars) : bars[j] \in X
          <6>1. ASSUME NEW j \in 1..Len(bars)
                PROVE  bars[j] \in X
            <7>1. bars[j] \in Bar
              BY <5>1, ElementOfSeq
            <7>2. bars[j] = [time |-> cur.time + j - 1, scale |-> cur.scale]
              BY <1>7, <3>2
            <7>3. bars[j].scale = cur.scale
              <8>1. ASSUME NEW b, b = bars[j]
                    PROVE  b.scale = cur.scale
                BY <7>2, <8>1
              <8>. QED  BY <8>1
            <7>4. bars[j].scale = rate
              BY <7>3, <2>3, <3>2
            <7>. QED  BY <7>1, <7>4
          <6>. QED  BY <6>1
        <5>3. bars \in [1..Len(bars) -> Bar]
          BY <5>1, LenProperties
        <5>. HIDE DEF X
        <5>4. bars \in [1..Len(bars) -> X]
          BY <5>2, <5>3
        <5>. QED  BY <5>1, <5>4
      <4>3. B!FoldLeft(B!Push, ring, bars).buf \in [0..Capacity - 1 -> X]
        <5>. HIDE DEF X
        <5>. QED  BY <1>2, <4>1, <4>2, FoldUses
      <4>4. ring'.buf[i] \in X
        <5>. HIDE DEF X
        <5>1. ASSUME NEW r, r = B!FoldLeft(B!Push, ring, bars)
              PROVE  r.buf[i] \in X
          BY <4>3, <5>1
        <5>. QED  BY <3>2, <5>1
      <4>. QED  BY <2>5, <4>4
    <3>. QED  BY <1>5, <3>1, <3>2
  <2>6. cur' # B!None => cur'.scale + Owed("bars")' = rate
    BY <1>6, <2>1, <2>2, <2>4 DEF Bar
  <2>7. \A i \in 0..Capacity - 1 : ring'.buf[i] # B!None => ring'.buf[i].scale + Owed("bars")' = rate
    BY <2>1, <2>2, <2>5
  <2>. QED  BY <1>1, <1>4, <1>10, <2>1, <2>2, <2>6, <2>7, SameOwed DEF ScaleInv, B!None
<1>. QED  BY <1>1, <1>9, <1>10

(* Nothing that a price is kept in moves. *)
LEMMA StillKeeps ==
    ASSUME BarsShape, ~prices.overlap => ScaleInv,
           UNCHANGED <<prices, ring, cur, rate, cached, peak, floor, changing, tick, history>>,
           tracker' \in {tracker, "rate", "done"}
    PROVE  BarsShape' /\ (~prices'.overlap => ScaleInv')
<1>1. BarsShape'
  BY DEF BarsShape, IsRing, B!Actors, B!None
<1>2. ASSUME ~prices.overlap
      PROVE  ScaleInv'
  BY <1>2, SameOwed DEF ScaleInv, B!None
<1>. QED  BY <1>1, <1>2

LEMMA FetchKeeps ==
    ASSUME BarsShape, ~prices.overlap => ScaleInv, NEW last \in Nat, B!Fetch(last)
    PROVE  BarsShape' /\ (~prices'.overlap => ScaleInv')
<1>1. /\ prices.overlap \/ B!NobodyRates
      /\ history' = [last |-> last, scale |-> rate] /\ tracker' = "seed"
      /\ UNCHANGED <<prices, ring, cur, rate, cached, peak, floor, changing, tick>>
  BY DEF B!Fetch, B!store, B!levels
<1>2. BarsShape'
  BY <1>1 DEF BarsShape, IsRing, B!Actors, B!None
<1>3. ASSUME ~prices.overlap
      PROVE  ScaleInv'
  BY <1>1, <1>3, SameOwed DEF ScaleInv, B!None
<1>. QED  BY <1>1, <1>2, <1>3

(* What a seeded ring holds: the newest of the history's bars. *)
Seeds == [i \in 1..history.last |-> [time |-> i, scale |-> history.scale]]

LEMMA SeedsAre ==
    ASSUME Capacity \in Nat \ {0}, BarsShape, B!SeedHistory
    PROVE  /\ Seeds \in Seq(Bar) /\ Len(Seeds) = history.last
           /\ B!LastOf(Seeds, Capacity) \in Seq(Bar)
           /\ Holds(ring', B!LastOf(Seeds, Capacity))
           /\ ring' = B!FoldLeft(B!Push, B!NewRing, B!LastOf(Seeds, Capacity))
           /\ \A i \in 1..history.last : Seeds[i].scale = history.scale /\ Seeds[i].time = i
<1>. DEFINE n == history.last  x == history.scale  l == B!LastOf(Seeds, Capacity)
<1>1. n \in Nat /\ x \in Int
  BY DEF BarsShape
<1>2. ring' = B!FoldLeft(B!Push, B!NewRing, l)
  BY DEF B!SeedHistory, Seeds
<1>3. Seeds = [i \in 1..n |-> [time |-> i, scale |-> x]]
  BY DEF Seeds
<1>. HIDE DEF n, x
<1>4. Seeds \in [1..n -> Bar]
  BY <1>1, <1>3 DEF Bar
<1>5. Seeds \in Seq(Bar) /\ Len(Seeds) = n
  BY <1>1, <1>4
<1>6. l \in Seq(Bar) /\ Len(l) = IF Len(Seeds) > Capacity THEN Capacity ELSE Len(Seeds)
  BY <1>5, TailIs
<1>. HIDE DEF l
<1>7. Holds(B!FoldLeft(B!Push, B!NewRing, l), B!LastOf(<<>> \o l, Capacity))
  BY <1>6, EmptyHolds, FoldHolds
<1>8. B!LastOf(<<>> \o l, Capacity) = l
  <2>1. <<>> \o l = l
    BY <1>6
  <2>2. Len(l) \in Nat /\ Len(l) <= Capacity
    BY <1>1, <1>5, <1>6
  <2>. DEFINE m == B!LastOf(l, Capacity)
  <2>3. /\ m \in Seq(Bar) /\ Len(m) = (IF Len(l) > Capacity THEN Capacity ELSE Len(l))
        /\ \A i \in 1..Len(m) : m[i] = l[Len(l) - Len(m) + i]
    BY <1>6, TailIs
  <2>. HIDE DEF m
  <2>4. Len(m) = Len(l) /\ \A i \in 1..Len(m) : m[i] = l[i]
    BY <2>2, <2>3
  <2>5. m = l
    BY <1>6, <2>3, <2>4, SeqEqual
  <2>. QED  BY <2>1, <2>5 DEF m
<1>9. \A i \in 1..n : Seeds[i].scale = x /\ Seeds[i].time = i
  BY <1>3
<1>. QED  BY <1>2, <1>5, <1>6, <1>7, <1>8, <1>9 DEF n, x, l

LEMMA SeedKeeps ==
    ASSUME B!BarsAssumption, BarsShape, ~prices.overlap => ScaleInv, B!SeedHistory
    PROVE  BarsShape' /\ (~prices'.overlap => ScaleInv')
<1>. DEFINE l == B!LastOf(Seeds, Capacity)
<1>1. /\ tracker = "seed" /\ tracker' = "done"
      /\ UNCHANGED <<prices, cur, rate, cached, peak, floor, changing, tick, history>>
  BY DEF B!SeedHistory, B!levels
<1>2. Capacity \in Nat \ {0}
  BY DEF B!BarsAssumption
<1>3. /\ Seeds \in Seq(Bar) /\ Len(Seeds) = history.last
      /\ l \in Seq(Bar) /\ Holds(ring', l)
      /\ ring' = B!FoldLeft(B!Push, B!NewRing, l)
      /\ \A i \in 1..history.last : Seeds[i].scale = history.scale
  BY <1>2, SeedsAre
<1>4. /\ Len(l) = (IF Len(Seeds) > Capacity THEN Capacity ELSE Len(Seeds))
      /\ \A i \in 1..Len(l) : l[i] = Seeds[Len(Seeds) - Len(l) + i]
  BY <1>2, <1>3, TailIs
<1>. HIDE DEF l
<1>5. BarsShape'
  BY <1>1, <1>3 DEF IsRing, Bar, BarsShape, Holds, B!Actors, B!None
<1>6. ASSUME ~prices.overlap
      PROVE  ScaleInv'
  <2>1. B!NobodyRates /\ history.scale = rate /\ rate \in Int
    BY <1>1, <1>6 DEF ScaleInv, BarsShape
  <2>2. \A what : Owed(what)' = 0 /\ Owed(what) = 0
    BY <1>1, <2>1, NoneOwed, SameOwed
  <2>. DEFINE X == {b \in Bar : b = B!None \/ b.scale = rate}
  <2>3. l \in Seq(X)
    <3>1. ASSUME NEW i \in 1..Len(l)
          PROVE  l[i] \in X
      <4>1. l[i] \in Bar
        BY <1>3, ElementOfSeq
      <4>. DEFINE j == Len(Seeds) - Len(l) + i
      <4>2. j \in 1..history.last
        BY <1>2, <1>3, <1>4 DEF BarsShape
      <4>. HIDE DEF j
      <4>3. l[i].scale = rate
        BY <1>3, <1>4, <2>1, <4>2 DEF j
      <4>. QED  BY <4>1, <4>3
    <3>2. l \in [1..Len(l) -> Bar] /\ Len(l) \in Nat
      BY <1>3, LenProperties
    <3>. HIDE DEF X
    <3>3. l \in [1..Len(l) -> X]
      BY <3>1, <3>2
    <3>. QED  BY <3>2, <3>3
  <2>. DEFINE r == B!NewRing
  <2>4. r.buf \in [0..Capacity - 1 -> X] /\ r.head \in 0..Capacity - 1
    <3>1. r.buf = [i \in 0..(Capacity - 1) |-> B!None] /\ r.head = 0
      BY DEF B!NewRing
    <3>2. B!None \in X
      BY DEF B!None, Bar
    <3>. HIDE DEF X, r
    <3>. QED  BY <1>2, <3>1, <3>2
  <2>5. B!FoldLeft(B!Push, r, l).buf \in [0..Capacity - 1 -> X]
    <3>. HIDE DEF X, r
    <3>. QED  BY <1>2, <2>3, <2>4, FoldUses
  <2>6. ASSUME NEW i \in 0..Capacity - 1, ring'.buf[i] # B!None
        PROVE  ring'.buf[i].scale = rate
    <3>1. ring'.buf[i] \in X
      <4>. HIDE DEF X
      <4>1. ASSUME NEW q, q = B!FoldLeft(B!Push, r, l)
            PROVE  q.buf[i] \in X
        BY <2>5, <4>1
      <4>. QED  BY <1>3, <4>1
    <3>. QED  BY <2>6, <3>1
  <2>7. \A i \in 0..Capacity - 1 : ring'.buf[i] # B!None => ring'.buf[i].scale + Owed("bars")' = rate
    BY <2>1, <2>2, <2>6
  <2>. QED  BY <1>1, <1>6, <2>1, <2>2, <2>7, SameOwed DEF ScaleInv, B!None
<1>. QED  BY <1>1, <1>5, <1>6

LEMMA RemoveKeeps ==
    ASSUME B!BarsAssumption, BarsShape, ~prices.overlap => ScaleInv, B!RemoveSymbol
    PROVE  BarsShape' /\ (~prices'.overlap => ScaleInv')
<1>1. /\ tracker' = "off" /\ ring' = B!NewRing /\ cur' = B!None
      /\ history' = [last |-> 0, scale |-> 0] /\ tick.pc = "idle"
      /\ UNCHANGED <<prices, rate, cached, peak, floor, changing, tick>>
  BY DEF B!RemoveSymbol, B!levels, B!LoopFree
<1>2. Capacity \in Nat \ {0}
  BY DEF B!BarsAssumption
<1>3. IsRing(B!NewRing) /\ \A i \in 0..Capacity - 1 : B!NewRing.buf[i] = B!None
  BY <1>2, EmptyHolds DEF Holds, B!NewRing
<1>4. B!None \in Bar /\ [last |-> 0, scale |-> 0] \in [last : Nat, scale : Int]
  BY DEF B!None, Bar
<1>5. BarsShape'
  <2>1. IsRing(ring)' <=> IsRing(ring')
    BY DEF IsRing, Bar
  <2>. HIDE DEF B!NewRing
  <2>. QED  BY <1>1, <1>3, <1>4, <2>1 DEF BarsShape, B!Actors, B!None
<1>6. ASSUME ~prices.overlap
      PROVE  ScaleInv'
  BY <1>1, <1>3, <1>6, SameOwed DEF ScaleInv, B!None
<1>. QED  BY <1>1, <1>5, <1>6

LEMMA BarsStart ==
    ASSUME B!BarsAssumption, B!Init
    PROVE  BarsShape /\ ScaleInv
<1>1. Capacity \in Nat \ {0}
  BY DEF B!BarsAssumption
<1>2. IsRing(B!NewRing) /\ \A i \in 0..Capacity - 1 : B!NewRing.buf[i] = B!None
  BY <1>1, EmptyHolds DEF Holds, B!NewRing
<1>3. ring = B!NewRing
  BY DEF B!Init
<1>4. cur \in Bar /\ cached \in Price /\ changing \in [B!Actors -> [left : SUBSET Kinds, by : Int]]
  BY DEF B!Init, B!None, B!NoPrice, B!Settled, Bar, Price
<1>5. BarsShape
  BY <1>2, <1>3, <1>4 DEF B!Init, BarsShape
<1>6. ScaleInv
  BY <1>2, <1>3 DEF B!Init, ScaleInv, B!NoPrice
<1>. QED  BY <1>5, <1>6

(* One step, whichever it is. *)
LEMMA ScaleStep ==
    ASSUME B!BarsAssumption, BarsShape, ~prices.overlap => ScaleInv, NEW s, Holds(ring, s),
           [B!Next]_bvars
    PROVE  BarsShape' /\ (~prices'.overlap => ScaleInv')
<1>1. CASE UNCHANGED bvars
  BY <1>1, StillKeeps DEF bvars
<1>2. CASE \E time \in 1..MaxTime : B!Quote(time)
  <2>1. PICK time \in 1..MaxTime : B!Quote(time)
    BY <1>2
  <2>2. time \in Nat /\ time >= 1
    BY DEF B!BarsAssumption
  <2>. QED  BY <2>1, <2>2, QuoteKeeps
<1>3. CASE B!IngestPrice
  BY <1>3, IngestPriceKeeps
<1>4. CASE B!IngestBar
  BY <1>4, IngestBarKeeps
<1>5. CASE B!Hold
  BY <1>5, HoldKeeps
<1>6. CASE \E a \in B!Actors : \/ \E new \in Rates : B!SetRate(a, new)
                               \/ B!RescaleBars(a) \/ B!RescalePrice(a) \/ B!RescalePeak(a)
  <2>1. PICK a \in B!Actors : \/ \E new \in Rates : B!SetRate(a, new)
                              \/ B!RescaleBars(a) \/ B!RescalePrice(a) \/ B!RescalePeak(a)
    BY <1>6
  <2>. QED  BY <2>1, SetRateKeeps, RescaleBarsKeeps, RescalePriceKeeps, RescalePeakKeeps
<1>7. CASE B!TrackSymbol
  BY <1>7, StillKeeps DEF B!TrackSymbol, B!store, B!levels
<1>8. CASE \E last \in 1..2 : B!Fetch(last)
  BY <1>8, FetchKeeps
<1>9. CASE B!NoHistory
  BY <1>9, StillKeeps DEF B!NoHistory, B!store, B!levels
<1>10. CASE B!SeedHistory
  BY <1>10, SeedKeeps
<1>11. CASE B!RemoveSymbol
  BY <1>11, RemoveKeeps
<1>. QED  BY <1>1, <1>2, <1>3, <1>4, <1>5, <1>6, <1>7, <1>8, <1>9, <1>10, <1>11 DEF B!Next

LEMMA ScaleKept ==
    ASSUME BarsShape, ~prices.overlap, ScaleInv
    PROVE  B!OneScale
<1>1. ASSUME B!NobodyRates, B!LoopFree, tracker # "seed"
      PROVE  /\ \A p \in {cached, peak, floor} : p.have => p.scale = rate
             /\ \A i \in DOMAIN ring.buf : ring.buf[i] # B!None => ring.buf[i].scale = rate
             /\ cur # B!None => cur.scale = rate
  <2>1. \A what : Owed(what) = 0
    BY <1>1, NoneOwed
  <2>2. /\ cached.scale \in Int /\ peak.scale \in Int /\ floor.scale \in Int /\ cur.scale \in Int
        /\ DOMAIN ring.buf = 0..Capacity - 1
        /\ \A i \in 0..Capacity - 1 : ring.buf[i].scale \in Int
    BY DEF BarsShape, IsRing, Price, Bar
  <2>. QED  BY <2>1, <2>2 DEF ScaleInv
<1>. QED  BY <1>1 DEF B!OneScale

-----------------------------------------------------------------------------
(* The series of a symbol: how the time of a bar follows that of the one   *)
(* before.  Seeded history ends at l.                                      *)
Follows(x, y, l) == IF x <= l THEN y >= x ELSE y - x = 1 \/ y - x > MaxFill

Whole(t, l) == \A i \in 1..Len(t) - 1 : Follows(t[i], t[i + 1], l)

SeriesInv ==
    /\ pushed \in Seq(Nat)
    /\ \E s : Holds(ring, s) /\ B!Times(s) = pushed
    /\ ~prices.late =>
         /\ Whole(pushed, history.last)
         /\ cur # B!None /\ Len(pushed) > 0 => Follows(pushed[Len(pushed)], cur.time, history.last)
         /\ cur = B!None => \A i \in 1..Len(pushed) : pushed[i] <= history.last
         /\ tracker # "done" => cur = B!None /\ pushed = <<>> /\ tick.pc = "idle"
         /\ cur = B!None /\ tick.pc # "idle" => tick.time >= history.last

(* The newest of a whole series are one, and end as it does. *)
LEMMA TailIsWhole ==
    ASSUME NEW t \in Seq(Nat), NEW l \in Nat, NEW c \in Nat \ {0}, Whole(t, l)
    PROVE  /\ B!LastOf(t, c) \in Seq(Nat) /\ Whole(B!LastOf(t, c), l)
           /\ Len(B!LastOf(t, c)) > 0 <=> Len(t) > 0
           /\ Len(t) > 0 => B!LastOf(t, c)[Len(B!LastOf(t, c))] = t[Len(t)]
           /\ \A i \in 1..Len(B!LastOf(t, c)) : \E j \in 1..Len(t) : B!LastOf(t, c)[i] = t[j]
<1>. DEFINE u == B!LastOf(t, c)
            n == Len(t)
            m == Len(u)
<1>1. u \in Seq(Nat) /\ m = (IF n > c THEN c ELSE n) /\ \A i \in 1..m : u[i] = t[n - m + i]
  BY TailIs
<1>2. n \in Nat /\ m \in Nat /\ m <= n
  BY <1>1, LenProperties
<1>3. \A i \in 1..n - 1 : Follows(t[i], t[i + 1], l)
  BY DEF Whole
<1>. HIDE DEF u, n, m
<1>4. ASSUME NEW i \in 1..m - 1
      PROVE  Follows(u[i], u[i + 1], l)
  <2>1. i \in 1..m /\ i + 1 \in 1..m /\ n - m + i \in 1..n - 1 /\ n - m + (i + 1) = n - m + i + 1
    BY <1>2
  <2>. QED  BY <1>1, <1>3, <2>1
<1>5. ASSUME n > 0
      PROVE  u[m] = t[n]
  <2>1. m \in 1..m /\ n - m + m = n
    BY <1>1, <1>2, <1>5
  <2>2. u[m] = t[n - m + m]
    BY <1>1, <2>1
  <2>. QED  BY <2>1, <2>2
<1>6. ASSUME NEW i \in 1..m
      PROVE  \E j \in 1..n : u[i] = t[j]
  BY <1>2, <1>1
<1>7. m > 0 <=> n > 0
  BY <1>1, <1>2
<1>. QED  BY <1>1, <1>4, <1>5, <1>6, <1>7 DEF Whole, u, n, m

(* A step that leaves the times of the bars as they are. *)
LEMMA TimesKept ==
    ASSUME SeriesInv, pushed' = pushed, prices' = prices, history' = history,
           ring' = ring, cur' = cur, tracker' # "done" => tracker # "done",
           tick'.pc # "idle" => tick.pc # "idle" /\ tick'.time = tick.time
    PROVE  SeriesInv'
<1>1. PICK s : Holds(ring, s) /\ B!Times(s) = pushed
  BY DEF SeriesInv
<1>2. Holds(ring', s) /\ B!Times(s) = pushed'
  BY <1>1
<1>3. Holds(ring, s)' <=> Holds(ring', s)
  BY DEF Holds, IsRing, Slot, Bar
<1>4. \A x, y, l : Follows(x, y, l)' <=> Follows(x, y, l)
  BY DEF Follows
<1>5. Whole(pushed, history.last)' <=> Whole(pushed, history.last)
  BY DEF Whole, Follows
<1>6. \E t : Holds(ring, t)' /\ B!Times(t)' = pushed'
  BY <1>2, <1>3 DEF B!Times
<1>. QED  BY <1>4, <1>5, <1>6 DEF SeriesInv, B!None

LEMMA RescaleTimes ==
    ASSUME Capacity \in Nat, BarsShape, SeriesInv, NEW a \in B!Actors, B!RescaleBars(a)
    PROVE  SeriesInv'
<1>. DEFINE by == changing[a].by
            r == [ring EXCEPT !.buf = [i \in DOMAIN ring.buf |-> B!ScaledBar(ring.buf[i], by)]]
<1>1. PICK s : Holds(ring, s) /\ B!Times(s) = pushed
  BY DEF SeriesInv
<1>2. /\ ring' = r /\ cur' = B!ScaledBar(cur, by) /\ by \in Int
      /\ UNCHANGED <<prices, pushed, tick, history, tracker>>
  BY RescaledOwes DEF B!RescaleBars, Kinds, B!Rescaled
<1>. DEFINE z == [i \in 1..Len(s) |-> B!ScaledBar(s[i], by)]
<1>3. /\ s \in Seq(Bar) /\ Len(s) = ring.n /\ Len(s) \in Nat /\ DOMAIN s = 1..Len(s)
      /\ \A i \in 1..Len(s) : s[i] \in Bar
  BY <1>1, LenProperties, ElementOfSeq DEF Holds
<1>. HIDE DEF by
<1>4. \A i \in 1..Len(s) : B!ScaledBar(s[i], by) \in Bar /\ B!ScaledBar(s[i], by).time = s[i].time
  BY <1>2, <1>3, ScaledBarIs
<1>5. z \in Seq(Bar) /\ Len(z) = Len(s) /\ \A i \in 1..Len(s) : z[i] = B!ScaledBar(s[i], by)
  <2>. DEFINE k == Len(s)
  <2>. HIDE DEF k
  <2>1. z = [i \in 1..k |-> B!ScaledBar(s[i], by)] /\ k \in Nat
    BY <1>3 DEF k
  <2>2. z \in [1..k -> Bar]
    BY <1>4, <2>1 DEF k
  <2>. HIDE DEF z
  <2>3. z \in Seq(Bar) /\ Len(z) = k
    BY <2>1, <2>2
  <2>. QED  BY <2>1, <2>3 DEF k
<1>6. B!Times(z) = B!Times(s)
  <2>. HIDE DEF z
  <2>1. DOMAIN z = 1..Len(s)
    BY <1>5, LenProperties
  <2>. QED  BY <1>3, <1>4, <1>5, <2>1 DEF B!Times
<1>7. /\ r = [buf |-> r.buf, head |-> r.head, n |-> r.n]
      /\ r.head = ring.head /\ r.n = ring.n
      /\ r.buf = [i \in 0..Capacity - 1 |-> B!ScaledBar(ring.buf[i], by)]
  <2>1. ring = [buf |-> ring.buf, head |-> ring.head, n |-> ring.n] /\ DOMAIN ring.buf = 0..Capacity - 1
    BY DEF BarsShape, IsRing
  <2>. DEFINE buf == [i \in DOMAIN ring.buf |-> B!ScaledBar(ring.buf[i], by)]
  <2>2. r = [ring EXCEPT !.buf = buf]
    OBVIOUS
  <2>3. buf = [i \in 0..Capacity - 1 |-> B!ScaledBar(ring.buf[i], by)]
    BY <2>1
  <2>. HIDE DEF buf, r
  <2>4. r = [buf |-> buf, head |-> ring.head, n |-> ring.n]
    BY <2>1, <2>2
  <2>. QED  BY <2>3, <2>4
<1>. HIDE DEF r, z
<1>8. Holds(r, z)
  <2>1. r.buf \in [0..Capacity - 1 -> Bar]
    <3>1. \A i \in 0..Capacity - 1 : B!ScaledBar(ring.buf[i], by) \in Bar
      BY <1>2, ScaledBarIs DEF BarsShape, IsRing
    <3>. QED  BY <1>7, <3>1
  <2>2. IsRing(r)
    BY <1>7, <2>1 DEF IsRing, BarsShape
  <2>3. ASSUME NEW i \in 1..r.n
        PROVE  r.buf[Slot(r, i)] = z[i]
    <3>1. Slot(r, i) = Slot(ring, i)
      BY <1>7 DEF Slot
    <3>2. Slot(ring, i) \in 0..Capacity - 1
      <4>. DEFINE h == ring.head  n == ring.n
      <4>1. h \in 0..Capacity - 1 /\ n \in 0..Capacity /\ i \in 1..n
        BY <1>7 DEF BarsShape, IsRing
      <4>2. Slot(ring, i) = LET x == h - n + i - 1 IN IF x < 0 THEN x + Capacity ELSE x
        BY DEF Slot
      <4>. DEFINE q == Slot(ring, i)
      <4>3. q = LET x == h - n + i - 1 IN IF x < 0 THEN x + Capacity ELSE x
        BY <4>2
      <4>. HIDE DEF h, n, q
      <4>4. q \in 0..Capacity - 1
        BY <4>1, <4>3
      <4>. QED  BY <4>4 DEF q
    <3>3. ring.buf[Slot(ring, i)] = s[i] /\ i \in 1..Len(s)
      BY <1>1, <1>3, <1>7 DEF Holds
    <3>. QED  BY <1>5, <1>7, <3>1, <3>2, <3>3
  <2>. QED  BY <1>3, <1>5, <1>7, <2>2, <2>3 DEF Holds
<1>9. cur'.time = cur.time /\ (cur' = B!None <=> cur = B!None)
  BY <1>2, ScaledBarIs DEF BarsShape
<1>10. PICK t : Holds(ring', t) /\ B!Times(t) = pushed'
  BY <1>1, <1>2, <1>6, <1>8
<1>11. \E q : Holds(ring, q)' /\ B!Times(q)' = pushed'
  BY <1>10 DEF Holds, IsRing, Slot, Bar, B!Times
<1>. QED  BY <1>2, <1>9, <1>11 DEF SeriesInv, B!None, Whole, Follows

LEMMA QuoteTimes ==
    ASSUME SeriesInv, NEW time, B!Quote(time)
    PROVE  SeriesInv'
<1>1. /\ prices.late \/ (tracker = "done" /\ (cur # B!None \/ time >= history.last))
      /\ tick' = [pc |-> "cache", time |-> time, scale |-> rate]
      /\ UNCHANGED <<prices, ring, cur, pushed, history, tracker>>
  BY DEF B!Quote, B!store
<1>2. tick'.time = time
  BY <1>1
<1>3. \E s : Holds(ring, s)' /\ B!Times(s)' = pushed'
  <2>1. PICK s : Holds(ring, s) /\ B!Times(s) = pushed
    BY DEF SeriesInv
  <2>2. Holds(ring, s)' <=> Holds(ring, s)
    BY <1>1 DEF Holds, IsRing, Slot, Bar
  <2>. QED  BY <1>1, <2>1, <2>2 DEF B!Times
<1>. QED  BY <1>1, <1>2, <1>3 DEF SeriesInv, B!None, Whole, Follows

(* A bar in progress at the time of the last but one, or a later one after *)
(* it: a whole series stays whole. *)
LEMMA WholeGrows ==
    ASSUME NEW t \in Seq(Nat), NEW l \in Nat, NEW m \in Nat, NEW u \in Seq(Nat), MaxFill \in Nat,
           Whole(t, l), Len(t) > 0 => Follows(t[Len(t)], m, l),
           Len(u) > 0, \A i \in 1..Len(u) : u[i] = m + i - 1
    PROVE  Whole(t \o u, l)
<1>. DEFINE w == t \o u  n == Len(t)  k == Len(u)
<1>1. n \in Nat /\ k \in Nat /\ k > 0 /\ \A i \in 1..n : t[i] \in Nat
  BY LenProperties, ElementOfSeq
<1>2. /\ w \in Seq(Nat) /\ Len(w) = n + k
      /\ \A i \in 1..n + k : w[i] = IF i <= n THEN t[i] ELSE u[i - n]
  BY ConcatProperties
<1>3. \A i \in 1..n - 1 : Follows(t[i], t[i + 1], l)
  BY DEF Whole
<1>4. n > 0 => Follows(t[n], m, l)
  OBVIOUS
<1>5. \A i \in 1..k : u[i] = m + i - 1
  OBVIOUS
<1>. HIDE DEF w, n, k
<1>6. ASSUME NEW i \in 1..n + k - 1
      PROVE  Follows(w[i], w[i + 1], l)
  <2>1. CASE i < n
    <3>1. i \in 1..n - 1 /\ i + 1 \in 1..n + k /\ i <= n /\ i + 1 <= n /\ i \in 1..n + k
      BY <1>1, <2>1
    <3>2. w[i] = t[i] /\ w[i + 1] = t[i + 1]
      BY <1>2, <3>1
    <3>. QED  BY <1>3, <3>1, <3>2
  <2>2. CASE i = n
    <3>1. n > 0 /\ i + 1 \in 1..n + k /\ i <= n /\ ~ (i + 1 <= n) /\ i + 1 - n = 1 /\ 1 \in 1..k
          /\ i \in 1..n + k
      BY <1>1, <2>2
    <3>2. w[i] = t[n] /\ w[i + 1] = u[1]
      BY <1>2, <2>2, <3>1, SMTT(30)
    <3>3. u[1] = m
      BY <1>5, <3>1
    <3>. QED  BY <1>4, <3>1, <3>2, <3>3
  <2>3. CASE i > n
    <3>. DEFINE j == i + 1
    <3>1. /\ i \in 1..n + k /\ ~ (i <= n) /\ i - n \in 1..k /\ i \in Nat
          /\ j \in 1..n + k /\ ~ (j <= n) /\ j - n \in 1..k /\ j = i + 1
      BY <1>1, <2>3
    <3>. HIDE DEF j
    <3>2. w[i] = u[i - n] /\ w[j] = u[j - n]
      BY <1>2, <3>1
    <3>3. w[i] = m + (i - n) - 1 /\ w[j] = m + (j - n) - 1
      BY <1>5, <3>1, <3>2
    <3>4. w[j] - w[i] = 1 /\ w[j] >= w[i]
      BY <1>1, <3>1, <3>3
    <3>5. Follows(w[i], w[j], l)
      BY <3>4 DEF Follows
    <3>. QED  BY <3>5 DEF j
  <2>. QED  BY <1>1, <2>1, <2>2, <2>3
<1>7. Whole(w, l)
  <2>1. ASSUME NEW i \in 1..Len(w) - 1
        PROVE  Follows(w[i], w[i + 1], l)
    <3>1. i \in 1..n + k - 1
      BY <1>2, <1>1
    <3>. QED  BY <1>6, <3>1
  <2>. QED  BY <2>1 DEF Whole
<1>. QED  BY <1>7 DEF w

LEMMA IngestBarTimes ==
    ASSUME B!BarsAssumption, BarsShape, SeriesInv, B!IngestBar
    PROVE  SeriesInv'
<1>. DEFINE t == tick.time
            m == cur.time
            l == history.last
            bar == [time |-> t, scale |-> tick.scale]
            bars == <<cur>> \o B!FillGap(t)
            tb == B!Times(bars)
<1>1. /\ tick.pc = "bar" /\ tick' = [tick EXCEPT !.pc = "idle"] /\ B!AddTick(t, tick.scale)
      /\ UNCHANGED <<prices, history, tracker>>
  BY DEF B!IngestBar
<1>2. /\ Capacity \in Nat \ {0} /\ MaxFill \in Nat /\ cur \in Bar /\ t \in Nat /\ t >= 1 /\ l \in Nat
      /\ m \in Nat /\ (cur # B!None => m >= 1)
  BY <1>1 DEF B!BarsAssumption, BarsShape, Bar
<1>3. tick'.pc = "idle"
  BY <1>1 DEF BarsShape
<1>4. bar # B!None /\ bar.time = t
  BY <1>2 DEF B!None
<1>5. \/ cur = B!None /\ cur' = bar /\ UNCHANGED <<ring, pushed>>
      \/ cur # B!None /\ cur'.time = m /\ cur' # B!None /\ UNCHANGED <<ring, pushed>>
      \/ /\ cur # B!None /\ cur' = bar /\ t > m /\ ring' = B!FoldLeft(B!Push, ring, bars)
         /\ pushed' = B!LastOf(pushed \o tb, Capacity)
  <2>1. CASE cur = B!None
    BY <1>1, <2>1 DEF B!AddTick
  <2>2. CASE cur # B!None /\ t < m
    BY <1>1, <2>2 DEF B!AddTick, B!store
  <2>3. CASE cur # B!None /\ ~ (t < m) /\ t = m
    <3>. DEFINE x == IF cur.scale = tick.scale THEN cur.scale ELSE B!Mixed
    <3>1. cur' = [cur EXCEPT !.scale = x] /\ UNCHANGED <<ring, pushed>>
      BY <1>1, <2>3 DEF B!AddTick
    <3>. HIDE DEF x
    <3>2. cur'.time = cur.time
      BY <1>2, <3>1 DEF Bar
    <3>3. cur' # B!None
      BY <1>2, <2>3, <3>2 DEF B!None
    <3>. QED  BY <2>3, <3>1, <3>2, <3>3
  <2>4. CASE cur # B!None /\ ~ (t < m) /\ t # m
    <3>1. t > m
      BY <1>2, <2>4
    <3>2. B!PushAll(bars) /\ cur' = bar
      BY <1>1, <2>4 DEF B!AddTick
    <3>3. ring' = B!FoldLeft(B!Push, ring, bars) /\ pushed' = B!LastOf(pushed \o tb, Capacity)
      BY <3>2 DEF B!PushAll, B!Times
    <3>. QED  BY <2>4, <3>1, <3>2, <3>3
  <2>. QED  BY <2>1, <2>2, <2>3, <2>4
<1>6. t > m =>
        /\ bars \in Seq(Bar) /\ Len(bars) \in Nat \ {0}
        /\ \A i \in 1..Len(bars) : bars[i] = [time |-> m + i - 1, scale |-> cur.scale]
        /\ m + Len(bars) = t \/ (Len(bars) = 1 /\ t - m > MaxFill)
  BY <1>2, GapIs
<1>7. PICK s : Holds(ring, s) /\ B!Times(s) = pushed
  BY DEF SeriesInv
<1>. HIDE DEF bar, bars
<1>8. ASSUME UNCHANGED <<ring, pushed>>
      PROVE  \E q : Holds(ring, q)' /\ B!Times(q)' = pushed'
  BY <1>8, <1>7 DEF Holds, IsRing, Slot, Bar, B!Times
<1>9. CASE cur = B!None /\ cur' = bar /\ UNCHANGED <<ring, pushed>>
  <2>1. cur' # B!None /\ cur'.time = t
    BY <1>4, <1>9
  <2>2. ASSUME ~prices.late, Len(pushed) > 0
        PROVE  Follows(pushed[Len(pushed)], t, l)
    <3>1. Len(pushed) \in 1..Len(pushed) /\ pushed \in Seq(Nat)
      BY <2>2, LenProperties DEF SeriesInv
    <3>2. pushed[Len(pushed)] <= l /\ pushed[Len(pushed)] \in Nat /\ t >= l
      BY <1>1, <1>9, <2>2, <3>1, ElementOfSeq DEF SeriesInv
    <3>. QED  BY <1>2, <3>2 DEF Follows
  <2>3. ASSUME ~prices.late
        PROVE  tracker = "done"
    BY <1>1, <2>3 DEF SeriesInv
  <2>. QED  BY <1>1, <1>3, <1>8, <1>9, <2>1, <2>2, <2>3 DEF SeriesInv, B!None, Whole, Follows
<1>10. CASE cur # B!None /\ cur'.time = m /\ cur' # B!None /\ UNCHANGED <<ring, pushed>>
  BY <1>1, <1>3, <1>8, <1>10 DEF SeriesInv, B!None, Whole, Follows
<1>11. CASE /\ cur # B!None /\ cur' = bar /\ t > m /\ ring' = B!FoldLeft(B!Push, ring, bars)
            /\ pushed' = B!LastOf(pushed \o tb, Capacity)
  <2>1. /\ bars \in Seq(Bar) /\ Len(bars) \in Nat \ {0}
        /\ \A i \in 1..Len(bars) : bars[i] = [time |-> m + i - 1, scale |-> cur.scale]
        /\ m + Len(bars) = t \/ (Len(bars) = 1 /\ t - m > MaxFill)
    BY <1>6, <1>11
  <2>2. /\ tb \in Seq(Nat) /\ Len(tb) = Len(bars)
        /\ \A i \in 1..Len(bars) : tb[i] = bars[i].time
    BY <2>1, TimesAre
  <2>3. \A i \in 1..Len(bars) : tb[i] = m + i - 1
    <3>1. ASSUME NEW i \in 1..Len(bars)
          PROVE  tb[i] = m + i - 1
      <4>1. bars[i] = [time |-> m + i - 1, scale |-> cur.scale]
        BY <2>1
      <4>2. bars[i].time = m + i - 1
        <5>1. ASSUME NEW b, b = bars[i]
              PROVE  b.time = m + i - 1
          BY <4>1, <5>1
        <5>. QED  BY <5>1
      <4>. QED  BY <2>2, <4>2
    <3>. QED  BY <3>1
  <2>. DEFINE fold == B!FoldLeft(B!Push, ring, bars)
              u == B!LastOf(s \o bars, Capacity)
  <2>4. Holds(fold, u) /\ s \in Seq(Bar)
    BY <1>2, <1>7, <2>1, FoldHolds DEF Holds
  <2>5. B!Times(u) = pushed'
    BY <1>2, <1>7, <1>11, <2>1, <2>4, TimesOfTail
  <2>6. \E q : Holds(ring, q)' /\ B!Times(q)' = pushed'
    <3>. HIDE DEF fold, u
    <3>1. PICK q : Holds(ring', q) /\ B!Times(q) = pushed'
      BY <1>11, <2>4, <2>5 DEF fold
    <3>2. Holds(ring', q) <=> Holds(ring, q)'
      BY DEF Holds, IsRing, Slot, Bar
    <3>. QED  BY <3>1, <3>2 DEF B!Times
  <2>. DEFINE w == pushed \o tb
  <2>. HIDE DEF tb, fold, u
  <2>7. /\ w \in Seq(Nat) /\ Len(w) = Len(pushed) + Len(tb)
        /\ \A i \in 1..Len(pushed) + Len(tb) : w[i] = IF i <= Len(pushed) THEN pushed[i] ELSE tb[i - Len(pushed)]
    <3>1. pushed \in Seq(Nat)
      BY DEF SeriesInv
    <3>. QED  BY <2>2, <3>1, ConcatProperties
  <2>8. pushed' \in Seq(Nat)
    <3>. HIDE DEF w
    <3>1. B!LastOf(w, Capacity) \in Seq(Nat)
      BY <1>2, <2>7, TailIs
    <3>. QED  BY <1>11, <3>1 DEF w
  <2>9. cur' # B!None /\ cur'.time = t
    BY <1>4, <1>11
  <2>10. ASSUME ~prices.late
         PROVE  /\ Whole(pushed', l) /\ tracker = "done"
                /\ Len(pushed') > 0 => Follows(pushed'[Len(pushed')], t, l)
    <3>1. /\ pushed \in Seq(Nat) /\ Whole(pushed, l) /\ tracker = "done"
          /\ Len(pushed) > 0 => Follows(pushed[Len(pushed)], m, l)
      BY <1>1, <1>11, <2>10 DEF SeriesInv
    <3>2. Whole(w, l)
      <4>1. Len(tb) > 0 /\ \A i \in 1..Len(tb) : tb[i] = m + i - 1
        BY <2>1, <2>2, <2>3
      <4>. HIDE DEF m, l
      <4>. QED  BY <1>2, <2>2, <3>1, <4>1, WholeGrows
    <3>3. Len(w) > 0 /\ (w[Len(w)] = t - 1 \/ (w[Len(w)] = m /\ t - m > MaxFill))
      <4>. DEFINE n == Len(pushed)  k == Len(tb)  j == n + k
      <4>1. n \in Nat /\ k \in Nat /\ k > 0 /\ k = Len(bars)
        BY <2>1, <2>2, <3>1, LenProperties
      <4>2. Len(w) = j
        BY <2>7
      <4>. HIDE DEF n, k, w
      <4>3. j \in 1..j /\ ~ (j <= n) /\ j - n = k /\ j > 0
        BY <4>1
      <4>. HIDE DEF j
      <4>4. w[j] = tb[k]
        BY <2>7, <4>3 DEF w, n, k, j
      <4>5. tb[k] = m + k - 1
        BY <2>3, <4>1
      <4>6. m + k = t \/ (k = 1 /\ t - m > MaxFill)
        BY <2>1, <4>1
      <4>7. w[j] = t - 1 \/ (w[j] = m /\ t - m > MaxFill)
        <5>. DEFINE x == w[j]
        <5>1. x = m + k - 1
          BY <4>4, <4>5
        <5>. HIDE DEF x, m, t
        <5>2. x = t - 1 \/ (x = m /\ t - m > MaxFill)
          <6>1. m \in Int /\ t \in Int /\ k \in Int
            BY <1>2, <4>1
          <6>2. CASE m + k = t
            BY <5>1, <6>1, <6>2
          <6>3. CASE k = 1 /\ t - m > MaxFill
            BY <5>1, <6>1, <6>3
          <6>. QED  BY <4>6, <6>2, <6>3
        <5>. QED  BY <5>2 DEF x
      <4>. QED  BY <4>2, <4>3, <4>7
    <3>4. Follows(w[Len(w)], t, l)
      <4>. DEFINE x == w[Len(w)]
      <4>1. x = t - 1 \/ (x = m /\ t - m > MaxFill)
        BY <3>3
      <4>. HIDE DEF x
      <4>2. Follows(x, t, l)
        BY <1>2, <1>11, <4>1 DEF Follows
      <4>. QED  BY <4>2 DEF x
    <3>. HIDE DEF w
    <3>5. /\ Whole(B!LastOf(w, Capacity), l)
          /\ B!LastOf(w, Capacity)[Len(B!LastOf(w, Capacity))] = w[Len(w)]
      BY <1>2, <2>7, <3>2, <3>3, TailIsWhole
    <3>6. pushed' = B!LastOf(w, Capacity)
      BY <1>11 DEF w
    <3>. QED  BY <3>1, <3>4, <3>5, <3>6
  <2>11. ASSUME ~prices.late
         PROVE  Whole(pushed, history.last)' /\ (Len(pushed) > 0 => Follows(pushed[Len(pushed)], cur.time, history.last))'
    BY <1>1, <2>9, <2>10, <2>11 DEF Whole, Follows
  <2>. QED  BY <1>1, <1>3, <2>6, <2>8, <2>9, <2>10, <2>11 DEF SeriesInv, B!None
<1>. QED  BY <1>5, <1>9, <1>10, <1>11

LEMMA FetchTimes ==
    ASSUME SeriesInv, NEW last, B!Fetch(last)
    PROVE  SeriesInv'
<1>1. /\ tracker = "rate" /\ tracker' = "seed"
      /\ UNCHANGED <<prices, ring, cur, pushed, tick>>
  BY DEF B!Fetch, B!store
<1>2. \E s : Holds(ring, s)' /\ B!Times(s)' = pushed'
  <2>1. PICK s : Holds(ring, s) /\ B!Times(s) = pushed
    BY DEF SeriesInv
  <2>2. Holds(ring, s)' <=> Holds(ring, s)
    BY <1>1 DEF Holds, IsRing, Slot, Bar
  <2>. QED  BY <1>1, <2>1, <2>2 DEF B!Times
<1>3. ~prices.late => pushed = <<>> /\ cur = B!None /\ tick.pc = "idle"
  BY <1>1 DEF SeriesInv
<1>4. Len(<<>>) = 0
  OBVIOUS
<1>5. ~prices.late => Len(pushed') = 0
  BY <1>1, <1>3, <1>4
<1>. QED  BY <1>1, <1>2, <1>3, <1>5 DEF SeriesInv, B!None, Whole

LEMMA SeedTimes ==
    ASSUME B!BarsAssumption, BarsShape, SeriesInv, B!SeedHistory
    PROVE  SeriesInv'
<1>. DEFINE n == history.last
            bars == [i \in 1..n |-> [time |-> i, scale |-> history.scale]]
            l == B!LastOf(Seeds, Capacity)
            t == [i \in DOMAIN bars |-> i]
            ts == B!Times(Seeds)
<1>1. /\ tracker = "seed" /\ tracker' = "done" /\ pushed' = B!LastOf(t, Capacity)
      /\ UNCHANGED <<prices, cur, tick, history>>
  BY DEF B!SeedHistory, B!levels
<1>2. Capacity \in Nat \ {0} /\ n \in Nat
  BY DEF B!BarsAssumption, BarsShape
<1>3. /\ Seeds \in Seq(Bar) /\ Len(Seeds) = n
      /\ l \in Seq(Bar) /\ Holds(ring', l)
      /\ \A i \in 1..n : Seeds[i].time = i
  BY <1>2, SeedsAre
<1>4. ts \in Seq(Nat) /\ Len(ts) = n /\ \A i \in 1..n : ts[i] = i
  BY <1>3, TimesAre
<1>5. t = ts
  <2>1. DOMAIN bars = 1..n
    OBVIOUS
  <2>2. t = [i \in 1..n |-> i]
    BY <2>1
  <2>. HIDE DEF t, n, ts
  <2>3. t \in [1..n -> Nat]
    BY <1>2, <2>2
  <2>4. t \in Seq(Nat) /\ Len(t) = n /\ \A i \in 1..n : t[i] = i
    BY <1>2, <2>2, <2>3
  <2>. QED  BY <1>4, <2>4, SeqEqual
<1>. HIDE DEF t, ts, n, bars
<1>6. B!Times(l) = pushed'
  <2>1. <<>> \in Seq(Bar) /\ <<>> \o Seeds = Seeds /\ B!Times(<<>>) = <<>> /\ <<>> \o ts = ts
    <3>1. <<>> \in Seq(Bar) /\ <<>> \o Seeds = Seeds /\ <<>> \o ts = ts
      BY <1>3, <1>4
    <3>2. B!Times(<<>>) = <<>>
      <4>1. B!Times(<<>>) \in Seq(Nat) /\ Len(B!Times(<<>>)) = Len(<<>>)
        BY <3>1, TimesAre
      <4>. HIDE DEF B!Times
      <4>. QED  BY <4>1
    <3>. QED  BY <3>1, <3>2
  <2>2. B!Times(B!LastOf(<<>> \o Seeds, Capacity)) = B!LastOf(B!Times(<<>>) \o ts, Capacity)
    BY <1>2, <1>3, <2>1, TimesOfTail DEF ts
  <2>. QED  BY <1>1, <1>5, <2>1, <2>2
<1>. HIDE DEF l
<1>7. \E q : Holds(ring, q)' /\ B!Times(q)' = pushed'
  <2>1. PICK q : Holds(ring', q) /\ B!Times(q) = pushed'
    BY <1>3, <1>6
  <2>2. Holds(ring', q) <=> Holds(ring, q)'
    BY DEF Holds, IsRing, Slot, Bar
  <2>. QED  BY <2>1, <2>2 DEF B!Times
<1>8. /\ pushed' \in Seq(Nat) /\ Len(pushed') <= n /\ Len(pushed') \in Nat
      /\ \A i \in 1..Len(pushed') : pushed'[i] = n - Len(pushed') + i
  <2>. DEFINE u == B!LastOf(ts, Capacity)
  <2>1. /\ u \in Seq(Nat) /\ Len(u) = (IF Len(ts) > Capacity THEN Capacity ELSE Len(ts))
        /\ \A i \in 1..Len(u) : u[i] = ts[Len(ts) - Len(u) + i]
    BY <1>2, <1>4, TailIs
  <2>2. u = pushed'
    BY <1>1, <1>5
  <2>. HIDE DEF u
  <2>3. Len(u) <= n /\ Len(u) \in Nat
    BY <1>2, <1>4, <2>1
  <2>4. ASSUME NEW i \in 1..Len(u)
        PROVE  u[i] = n - Len(u) + i
    BY <1>2, <2>3, <1>4, <2>1
  <2>. QED  BY <2>1, <2>2, <2>3, <2>4
<1>9. /\ Whole(pushed, history.last)'
      /\ \A i \in 1..Len(pushed') : pushed'[i] <= n
  <2>. DEFINE k == Len(pushed')  p == pushed'
  <2>1. k \in Nat /\ k <= n /\ \A i \in 1..k : p[i] = n - k + i
    BY <1>8
  <2>. HIDE DEF k, p
  <2>2. ASSUME NEW i \in 1..k
        PROVE  p[i] <= n
    BY <1>2, <2>1
  <2>3. ASSUME NEW i \in 1..k - 1
        PROVE  p[i] <= n /\ p[i + 1] >= p[i]
    BY <2>1, <1>2
  <2>. QED  BY <1>1, <2>2, <2>3 DEF Whole, Follows, k, p, n
<1>10. ~prices.late => cur = B!None /\ tick.pc = "idle"
  BY <1>1 DEF SeriesInv
<1>. QED  BY <1>1, <1>7, <1>8, <1>9, <1>10 DEF SeriesInv, B!None, n

LEMMA RemoveTimes ==
    ASSUME B!BarsAssumption, SeriesInv, B!RemoveSymbol
    PROVE  SeriesInv'
<1>1. /\ ring' = B!NewRing /\ cur' = B!None /\ pushed' = <<>>
      /\ tick.pc = "idle" /\ UNCHANGED <<prices, tick>>
  BY DEF B!RemoveSymbol, B!LoopFree, B!levels
<1>2. Holds(B!NewRing, <<>>)
  BY EmptyHolds DEF B!BarsAssumption
<1>3. B!Times(<<>>) = <<>>
  <2>1. <<>> \in Seq(Bar)
    OBVIOUS
  <2>2. B!Times(<<>>) \in Seq(Nat) /\ Len(B!Times(<<>>)) = Len(<<>>)
    BY <2>1, TimesAre
  <2>. HIDE DEF B!Times
  <2>. QED  BY <2>2
<1>4. \E q : Holds(ring, q)' /\ B!Times(q)' = pushed'
  <2>1. PICK q : Holds(ring', q) /\ B!Times(q) = pushed'
    BY <1>1, <1>2, <1>3
  <2>2. Holds(ring', q) <=> Holds(ring, q)'
    BY DEF Holds, IsRing, Slot, Bar
  <2>. QED  BY <2>1, <2>2 DEF B!Times
<1>5. <<>> \in Seq(Nat) /\ Len(<<>>) = 0
  OBVIOUS
<1>6. pushed' \in Seq(Nat) /\ Len(pushed') = 0
  BY <1>1, <1>5
<1>. QED  BY <1>1, <1>4, <1>6 DEF SeriesInv, B!None, Whole

LEMMA SeriesStart ==
    ASSUME B!BarsAssumption, B!Init
    PROVE  SeriesInv
<1>1. Holds(ring, <<>>)
  BY EmptyHolds DEF B!BarsAssumption, B!Init
<1>2. B!Times(<<>>) = <<>>
  <2>1. <<>> \in Seq(Bar)
    OBVIOUS
  <2>2. B!Times(<<>>) \in Seq(Nat) /\ Len(B!Times(<<>>)) = Len(<<>>)
    BY <2>1, TimesAre
  <2>. HIDE DEF B!Times
  <2>. QED  BY <2>2
<1>3. <<>> \in Seq(Nat) /\ Len(<<>>) = 0
  OBVIOUS
<1>4. cur = B!None /\ pushed = <<>> /\ tick.pc = "idle"
  BY DEF B!Init
<1>5. Len(pushed) = 0
  BY <1>3, <1>4
<1>. QED  BY <1>1, <1>2, <1>3, <1>4, <1>5 DEF SeriesInv, Whole

LEMMA SeriesStep ==
    ASSUME B!BarsAssumption, BarsShape, SeriesInv, [B!Next]_bvars
    PROVE  SeriesInv'
<1>1. CASE UNCHANGED bvars
  BY <1>1, TimesKept DEF bvars
<1>2. CASE \E time \in 1..MaxTime : B!Quote(time)
  BY <1>2, QuoteTimes
<1>3. CASE B!IngestPrice
  BY <1>3, TimesKept DEF B!IngestPrice, BarsShape, B!store
<1>4. CASE B!IngestBar
  BY <1>4, IngestBarTimes
<1>5. CASE B!Hold
  BY <1>5, TimesKept DEF B!Hold, B!store
<1>6. CASE \E a \in B!Actors : \/ \E new \in Rates : B!SetRate(a, new)
                               \/ B!RescaleBars(a) \/ B!RescalePrice(a) \/ B!RescalePeak(a)
  <2>1. PICK a \in B!Actors : \/ \E new \in Rates : B!SetRate(a, new)
                              \/ B!RescaleBars(a) \/ B!RescalePrice(a) \/ B!RescalePeak(a)
    BY <1>6
  <2>2. CASE \E new \in Rates : B!SetRate(a, new)
    BY <2>2, TimesKept DEF B!SetRate, B!store
  <2>3. CASE B!RescaleBars(a)
    BY <2>3, RescaleTimes DEF B!BarsAssumption
  <2>4. CASE B!RescalePrice(a) \/ B!RescalePeak(a)
    BY <2>4, TimesKept DEF B!RescalePrice, B!RescalePeak, B!Rescaled
  <2>. QED  BY <2>1, <2>2, <2>3, <2>4
<1>7. CASE B!TrackSymbol
  BY <1>7, TimesKept DEF B!TrackSymbol, B!store
<1>8. CASE \E last \in 1..2 : B!Fetch(last)
  BY <1>8, FetchTimes
<1>9. CASE B!NoHistory
  BY <1>9, TimesKept DEF B!NoHistory, B!store
<1>10. CASE B!SeedHistory
  BY <1>10, SeedTimes
<1>11. CASE B!RemoveSymbol
  BY <1>11, RemoveTimes
<1>. QED  BY <1>1, <1>2, <1>3, <1>4, <1>5, <1>6, <1>7, <1>8, <1>9, <1>10, <1>11 DEF B!Next

(* The newest n of a series and its bar in progress. *)
LEMMA TailWithLast ==
    ASSUME NEW S, NEW s \in Seq(S), NEW b \in S, NEW n \in Nat \ {0}
    PROVE  B!LastOf(s, n - 1) \o <<b>> = B!LastOf(s \o <<b>>, n)
<1>. DEFINE e == <<b>>  l == B!LastOf(s, n - 1)  x == l \o e  w == s \o e  y == B!LastOf(w, n)
<1>1. e \in Seq(S) /\ Len(e) = 1 /\ n - 1 \in Nat /\ Len(s) \in Nat
  BY LenProperties
<1>2. /\ l \in Seq(S) /\ Len(l) = (IF Len(s) > n - 1 THEN n - 1 ELSE Len(s))
      /\ \A i \in 1..Len(l) : l[i] = s[Len(s) - Len(l) + i]
  BY <1>1, TailIs
<1>. HIDE DEF e, l
<1>3. /\ x \in Seq(S) /\ Len(x) = Len(l) + 1
      /\ \A i \in 1..Len(l) + 1 : x[i] = IF i <= Len(l) THEN l[i] ELSE e[i - Len(l)]
  <2>1. /\ x \in Seq(S) /\ Len(x) = Len(l) + Len(e)
        /\ \A i \in 1..Len(l) + Len(e) : x[i] = IF i <= Len(l) THEN l[i] ELSE e[i - Len(l)]
    BY <1>1, <1>2, ConcatProperties
  <2>. QED  BY <1>1, <2>1
<1>4. /\ w \in Seq(S) /\ Len(w) = Len(s) + 1
      /\ \A i \in 1..Len(s) + 1 : w[i] = IF i <= Len(s) THEN s[i] ELSE e[i - Len(s)]
  <2>1. /\ w \in Seq(S) /\ Len(w) = Len(s) + Len(e)
        /\ \A i \in 1..Len(s) + Len(e) : w[i] = IF i <= Len(s) THEN s[i] ELSE e[i - Len(s)]
    BY <1>1, ConcatProperties
  <2>. QED  BY <1>1, <2>1
<1>. HIDE DEF x, w
<1>5. /\ y \in Seq(S) /\ Len(y) = (IF Len(w) > n THEN n ELSE Len(w))
      /\ \A i \in 1..Len(y) : y[i] = w[Len(w) - Len(y) + i]
  BY <1>4, TailIs
<1>. HIDE DEF y
<1>6. Len(x) = Len(y) /\ Len(l) \in Nat /\ Len(l) <= Len(s)
  BY <1>1, <1>2, <1>3, <1>4, <1>5
<1>7. ASSUME NEW i \in 1..Len(x)
      PROVE  x[i] = y[i]
  <2>. DEFINE p == Len(l)  q == Len(s)  j == q - p + i
  <2>1. p \in Nat /\ q \in Nat /\ p <= q /\ i \in 1..p + 1
    BY <1>1, <1>3, <1>6
  <2>2. y[i] = w[j]
    <3>1. Len(w) - Len(y) + i = j /\ i \in 1..Len(y)
      <4>1. Len(w) = q + 1 /\ Len(y) = p + 1
        BY <1>3, <1>4, <1>6
      <4>. HIDE DEF p, q
      <4>. QED  BY <2>1, <4>1
    <3>. HIDE DEF j
    <3>. QED  BY <1>5, <3>1
  <2>3. CASE i <= p
    <3>1. i \in 1..p /\ j \in 1..q + 1 /\ j <= q
      BY <2>1, <2>3
    <3>. HIDE DEF j
    <3>2. x[i] = l[i] /\ w[j] = s[j]
      BY <1>3, <1>4, <2>1, <2>3, <3>1
    <3>3. l[i] = s[j]
      BY <1>2, <3>1 DEF j
    <3>. QED  BY <2>2, <3>2, <3>3
  <2>4. CASE ~ (i <= p)
    <3>1. i = p + 1 /\ j = q + 1 /\ j \in 1..q + 1 /\ ~ (j <= q) /\ i - p = 1 /\ j - q = 1
      BY <2>1, <2>4
    <3>. HIDE DEF j
    <3>2. x[i] = e[i - p] /\ w[j] = e[j - q]
      BY <1>3, <1>4, <2>1, <2>4, <3>1
    <3>. QED  BY <2>2, <3>1, <3>2
  <2>. QED  BY <2>3, <2>4
<1>8. x = y
  BY <1>3, <1>5, <1>6, <1>7, SeqEqual
<1>. QED  BY <1>8 DEF x, y, w, l, e

LEMMA SeriesKept ==
    ASSUME B!BarsAssumption, BarsShape, SeriesInv
    PROVE  B!SeriesIsWhole
<1>. DEFINE end == IF cur # B!None THEN <<cur>> ELSE <<>>
            read == B!AppendLast(ring, -1)
            all == read \o end
<1>1. PICK s : Holds(ring, s) /\ B!Times(s) = pushed
  BY DEF SeriesInv
<1>2. Capacity \in Nat \ {0} /\ s \in Seq(Bar) /\ cur \in Bar /\ history.last \in Nat
  BY <1>1 DEF B!BarsAssumption, Holds, BarsShape
<1>3. read = s
  BY <1>1, <1>2, ReadsTail
<1>4. ASSUME NEW n \in 1..(Capacity + 1)
      PROVE  B!TailOf(n) = B!LastOf(all, n)
  <2>1. n \in Nat \ {0} /\ n > 0 /\ n \in Nat \cup {-1} /\ n - 1 \in Nat \cup {-1} /\ n - 1 # -1 /\ n # -1
    BY <1>2
  <2>2. CASE cur # B!None
    <3>1. B!TailOf(n) = B!AppendLast(ring, n - 1) \o <<cur>>
      BY <2>1, <2>2 DEF B!TailOf
    <3>2. B!AppendLast(ring, n - 1) = B!LastOf(s, n - 1)
      BY <1>1, <1>2, <2>1, ReadsTail
    <3>3. B!LastOf(s, n - 1) \o <<cur>> = B!LastOf(s \o <<cur>>, n)
      BY <1>2, <2>1, TailWithLast
    <3>. QED  BY <1>3, <2>2, <3>1, <3>2, <3>3
  <2>3. CASE cur = B!None
    <3>1. B!TailOf(n) = B!AppendLast(ring, n) \o <<>>
      BY <2>1, <2>3 DEF B!TailOf
    <3>2. B!AppendLast(ring, n) = B!LastOf(s, n)
      BY <1>1, <1>2, <2>1, ReadsTail
    <3>3. B!LastOf(s, n) \in Seq(Bar)
      BY <1>2, <2>1, TailIs
    <3>4. B!LastOf(s, n) \o <<>> = B!LastOf(s, n) /\ s \o <<>> = s
      BY <1>2, <3>3
    <3>. QED  BY <1>3, <2>3, <3>1, <3>2, <3>4
  <2>. QED  BY <2>2, <2>3
<1>5. ASSUME ~prices.late, NEW i \in 1..(Len(all) - 1)
      PROVE  LET gap == all[i + 1].time - all[i].time
             IN IF all[i].time <= history.last THEN gap >= 0 ELSE gap = 1 \/ gap > MaxFill
  <2>. DEFINE n == Len(s)  l == history.last
  <2>1. /\ Len(pushed) = n /\ n \in Nat /\ \A j \in 1..n : pushed[j] = s[j].time /\ s[j] \in Bar
    BY <1>1, <1>2, TimesAre, LenProperties
  <2>2. /\ \A j \in 1..n - 1 : Follows(pushed[j], pushed[j + 1], l)
        /\ cur # B!None /\ n > 0 => Follows(pushed[n], cur.time, l)
    BY <1>5, <2>1 DEF SeriesInv, Whole
  <2>. HIDE DEF all
  <2>3. Follows(all[i].time, all[i + 1].time, l) /\ all[i].time \in Nat /\ all[i + 1].time \in Nat
    <3>1. CASE cur # B!None
      <4>1. <<cur>> \in Seq(Bar) /\ Len(<<cur>>) = 1 /\ <<cur>>[1] = cur
        BY <1>2
      <4>2. /\ Len(all) = n + 1 /\ \A j \in 1..n + 1 : all[j] = IF j <= n THEN s[j] ELSE <<cur>>[j - n]
        BY <1>2, <1>3, <3>1, <4>1, ConcatProperties DEF all
      <4>. HIDE DEF n
      <4>3. CASE i < n
        <5>1. i \in 1..n - 1 /\ i \in 1..n /\ i + 1 \in 1..n /\ i \in 1..n + 1 /\ i + 1 \in 1..n + 1
              /\ i <= n /\ i + 1 <= n
          BY <2>1, <4>2, <4>3
        <5>2. all[i] = s[i] /\ all[i + 1] = s[i + 1]
          BY <4>2, <5>1
        <5>3. pushed[i] = s[i].time /\ pushed[i + 1] = s[i + 1].time /\ s[i] \in Bar /\ s[i + 1] \in Bar
          BY <2>1, <5>1
        <5>. QED  BY <2>2, <5>1, <5>2, <5>3 DEF Bar
      <4>4. CASE ~ (i < n)
        <5>1. i = n /\ n > 0 /\ n \in 1..n /\ n \in 1..n + 1 /\ n + 1 \in 1..n + 1 /\ n <= n
              /\ ~ (n + 1 <= n) /\ n + 1 - n = 1
          BY <2>1, <4>2, <4>4
        <5>2. all[i] = s[n] /\ all[i + 1] = cur
          BY <4>1, <4>2, <5>1
        <5>3. pushed[n] = s[n].time /\ s[n] \in Bar
          BY <2>1, <5>1
        <5>. QED  BY <1>2, <2>2, <3>1, <5>1, <5>2, <5>3 DEF Bar
      <4>. QED  BY <4>3, <4>4
    <3>2. CASE cur = B!None
      <4>1. all = s
        BY <1>2, <1>3, <3>2 DEF all
      <4>2. i \in 1..n - 1 /\ i \in 1..n /\ i + 1 \in 1..n
        BY <2>1, <4>1
      <4>3. pushed[i] = s[i].time /\ pushed[i + 1] = s[i + 1].time /\ s[i] \in Bar /\ s[i + 1] \in Bar
        BY <2>1, <4>2
      <4>. QED  BY <2>2, <4>1, <4>2, <4>3 DEF Bar
    <3>. QED  BY <3>1, <3>2
  <2>. DEFINE x == all[i].time  y == all[i + 1].time
  <2>4. Follows(x, y, l) /\ x \in Nat /\ y \in Nat
    BY <2>3
  <2>. HIDE DEF x, y
  <2>5. IF x <= l THEN y - x >= 0 ELSE y - x = 1 \/ y - x > MaxFill
    BY <2>4 DEF Follows
  <2>. QED  BY <2>5 DEF x, y
<1>6. B!Times(read) = pushed
  BY <1>1, <1>3
<1>. HIDE DEF B!Times, B!TailOf, B!LastOf, B!AppendLast
<1>. QED  BY <1>4, <1>5, <1>6 DEF B!SeriesIsWhole

-----------------------------------------------------------------------------
(* What happened to every alert is known, no halt waits for more than one  *)
(* routine alert, and what keeps an order from going out is told once for  *)
(* as long as it stands, and not taken for something else: the queues and  *)
(* sinks of internal/notify, and blockedOnce, lastOrderErr and untradeable *)
(* of the engine. *)
THEOREM OperatorHears == Spec => []OperatorIsTold
<1>1. Init => AlertsInv /\ NewsInv
  BY ServicesAssumption, AlertsStart, NewsStart DEF Init, ServicesAssumption
<1>2. ASSUME AlertsInv, NewsInv, [Next]_vars
      PROVE  AlertsInv' /\ NewsInv'
  BY <1>2, ServicesAssumption, PartsStep, AlertsStep, NewsStep DEF ServicesAssumption
<1>3. AlertsInv /\ NewsInv => OperatorIsTold
  BY AlertsKept, NewsTold DEF OperatorIsTold
<1>. QED  BY <1>1, <1>2, <1>3, PTL DEF Spec

(* What is learned in the background: a symbol has at most one refresh     *)
(* under way and a model votes no more than retrain_every bars after its   *)
(* fit, where the window it is fitted on holds as many; labels settle at   *)
(* the ones written by hand, where threads take turns; a cached schedule   *)
(* tells the venue's hours: the caches of internal/ai and internal/ml, the *)
(* sector labels of engine and risk manager, marketHours. *)
THEOREM LearnedIsKept == RetrainEvery <= Window => (Spec => []LearnedIsRight)
<1>. SUFFICES ASSUME RetrainEvery <= Window
              PROVE  Spec => []LearnedIsRight
  OBVIOUS
<1>. DEFINE Inv == LabelsInv /\ VotesInv /\ HoursInv
<1>1. Init => Inv
  BY ServicesAssumption, LabelsStart, VotesStart, HoursStart DEF Init, ServicesAssumption
<1>2. ASSUME Inv, [Next]_vars
      PROVE  Inv'
  BY <1>2, ServicesAssumption, PartsStep, LabelsStep, VotesStep, HoursStep DEF ServicesAssumption
<1>3. Inv => LearnedIsRight
  BY ServicesAssumption, LabelsKept, VotesKept, HoursKept DEF LearnedIsRight, ServicesAssumption
<1>. QED  BY <1>1, <1>2, <1>3, PTL DEF Spec

(* Prices: an answer from the cache covers the window asked for but for a  *)
(* TTL; while the data source's cooldown runs, the requests sent stay      *)
(* below a bound of the callers and their retries; where no rate arrives   *)
(* while a price is being converted, every price of a symbol is at its     *)
(* current rate once the rescales are through; and what is read of its bar *)
(* store is the newest of what was pushed, in order and with quiet         *)
(* intervals filled: internal/market, barstore.go and setFXRate. *)
THEOREM PricesAreKept == (\A p \in Prices : ~p.overlap) => (Spec => []PricesHold)
<1>. SUFFICES ASSUME \A p \in Prices : ~p.overlap
              PROVE  Spec => []PricesHold
  OBVIOUS
<1>. DEFINE Inv == StormInv /\ CacheInv /\ BarsShape /\ ScaleInv /\ SeriesInv
<1>1. Init => Inv
  BY ServicesAssumption, CallersAreFew, StormStart, CacheStart, BarsStart, SeriesStart DEF Init,
     ServicesAssumption
<1>2. ASSUME Inv, [Next]_vars
      PROVE  Inv'
  <2>1. StormInv'
    BY <1>2, ServicesAssumption, CallersAreFew, PartsStep, StormStep DEF ServicesAssumption
  <2>5. CacheInv'
    BY <1>2, ServicesAssumption, PartsStep, CacheStep DEF ServicesAssumption
  <2>2. BarsShape' /\ (~prices'.overlap => ScaleInv')
    <3>1. PICK s : Holds(ring, s)
      BY <1>2 DEF SeriesInv
    <3>. QED  BY <1>2, <3>1, ServicesAssumption, PartsStep, ScaleStep DEF ServicesAssumption
  <2>3. ~prices'.overlap
    BY <2>2 DEF BarsShape
  <2>4. SeriesInv'
    BY <1>2, ServicesAssumption, PartsStep, SeriesStep DEF ServicesAssumption
  <2>. QED  BY <2>1, <2>2, <2>3, <2>4, <2>5
<1>3. Inv => PricesHold
  <2>1. ASSUME Inv
        PROVE  PricesHold
    <3>1. ~prices.overlap
      BY <2>1 DEF BarsShape
    <3>2. H!CooldownStopsTheStorm
      BY <2>1, ServicesAssumption, CallersAreFew, StormKept DEF ServicesAssumption
    <3>3. B!OneScale
      BY <2>1, <3>1, ScaleKept
    <3>4. B!SeriesIsWhole
      BY <2>1, ServicesAssumption, SeriesKept DEF ServicesAssumption
    <3>5. H!HitsHoldTheWindow
      BY <2>1, ServicesAssumption, CacheKept DEF ServicesAssumption
    <3>. QED  BY <3>2, <3>3, <3>4, <3>5 DEF PricesHold
  <2>. QED  BY <2>1
<1>. QED  BY <1>1, <1>2, <1>3, PTL DEF Spec
=============================================================================
