----------------------------- MODULE Announcements -----------------------------
(***************************************************************************)
(* What the operator is told of one symbol's orders.  Every evaluation     *)
(* tries the same three paths again -- a strategy buy (act), a protective  *)
(* exit (exitPosition), a scale-in (addToPosition) -- for as long as the   *)
(* condition that stops them stands, and each passes a row of gates        *)
(* (internal/engine/engine.go, exits.go, scalein.go).  Who is told when is *)
(* decided by what was said last, kept per key in blockedOnce              *)
(* (blockedonce.go), lastOrderErr and untradeable (untradeable.go).        *)
(***************************************************************************)
EXTENDS Integers, FiniteSets

CONSTANTS
    Scenes,         \* each: path -> what may stand in its way
    MaxChanges      \* bound: how often what stands in the way changes

Paths == {"entry", "exit", "add"}

VARIABLES
    scene,          \* the one under way; fixed
    world,          \* path -> the condition that stands now
    blockedOnce,    \* key -> the family of the reason recorded last
    lastOrderErr,   \* the failure announced last, or Unsaid
    untradeable,    \* the broker refused the instrument for good
    backedOff,      \* addRefusedAt: a refused add is not retried for a while
    told,           \* path -> how often the operator was told of its condition; at most 2
    heard,          \* key -> the last condition told under it; ghost
    changes         \* ghost
vars == <<scene, world, blockedOnce, lastOrderErr, untradeable, backedOff, told, heard, changes>>

ScenesAssumption ==
    /\ Scenes \subseteq [Paths -> SUBSET {"closed", "protected", "venue", "sizing", "guard", "cap", "off",
                                          "fails", "banned", "rejected", "fills"}]
    /\ \A s \in Scenes, p \in Paths : "closed" \in s[p]
    /\ MaxChanges \in Nat

Refusals == {"venue", "sizing", "guard", "cap"}
Keys == {"entry", "exit dry", "entry dry", "add"}
Accounts == Keys \cup {"failure", "protections", "add dry"}

-----------------------------------------------------------------------------
(* A reason carries figures that drift with every price; its family is the *)
(* reason with the figures masked.                                         *)
Figures == {"1", "2"}
Reason(c, figure) == <<c, figure>>
ReasonFamily(reason) == <<reason[1], "#">>
Unsaid == <<"none", "none">>

Say(p, key, c) ==
    /\ told' = [told EXCEPT ![p] = IF @ < 2 THEN @ + 1 ELSE @]
    /\ heard' = [heard EXCEPT ![key] = c]
Silent == UNCHANGED <<told, heard>>

(* alert of anything but a failure: the last failure is forgotten.         *)
Blocked(p, key, c) == Say(p, key, c) /\ lastOrderErr' = Unsaid

(* recordOnce with the keys in cleared forgotten first.                    *)
RecordOnce(p, key, reason, cleared, dry) ==
    /\ blockedOnce' = [k \in Keys |-> IF k = key THEN ReasonFamily(reason)
                                      ELSE IF k \in cleared THEN Unsaid ELSE blockedOnce[k]]
    /\ IF key \notin cleared /\ blockedOnce[key] = ReasonFamily(reason) THEN Silent /\ UNCHANGED lastOrderErr
       ELSE IF dry THEN Say(p, key, ReasonFamily(reason)) /\ UNCHANGED lastOrderErr
       ELSE Blocked(p, key, ReasonFamily(reason))

Forget(keys) == blockedOnce' = [k \in Keys |-> IF k \in keys THEN Unsaid ELSE blockedOnce[k]]

(* alert of a failed order: announced unless it was the last one.          *)
Failure(p, c) == <<c, IF p = "exit" THEN "sell" ELSE "buy">>
Announce(p, failure) ==
    IF lastOrderErr = failure THEN Silent /\ UNCHANGED lastOrderErr
    ELSE Say(p, "failure", failure) /\ lastOrderErr' = failure

(* A banned instrument is noted by the failed buy, and its order is also   *)
(* announced as one that failed.                                           *)
Fail(p, c, cleared) ==
    /\ Forget(cleared) /\ Announce(p, Failure(p, c))
    /\ untradeable' = (untradeable \/ (c = "banned" /\ p # "exit"))

-----------------------------------------------------------------------------
Init ==
    /\ scene \in Scenes
    /\ world = [p \in Paths |-> "closed"]
    /\ blockedOnce = [k \in Keys |-> Unsaid] /\ lastOrderErr = Unsaid
    /\ untradeable = FALSE /\ backedOff = FALSE
    /\ told = [p \in Paths |-> 0] /\ heard = [k \in Accounts |-> Unsaid] /\ changes = 0

(* act, a buy that is not refused for the instrument and not out of hours. *)
Entry(figure) ==
    LET c == world["entry"] IN
    /\ ~untradeable /\ c # "closed" /\ UNCHANGED backedOff
    /\ \/ c = "protected" /\ Blocked("entry", "protections", Reason(c, figure)) /\ UNCHANGED <<blockedOnce, untradeable>>
       \/ c \in Refusals /\ RecordOnce("entry", "entry", Reason(c, figure), {}, FALSE) /\ UNCHANGED untradeable
       \/ c = "off" /\ RecordOnce("entry", "entry dry", Reason(c, figure), {"entry"}, TRUE) /\ UNCHANGED untradeable
       \/ c \in {"fails", "banned"} /\ Fail("entry", c, {"entry", "entry dry"})
       \/ c = "rejected" /\ Forget({"entry", "entry dry"}) /\ Silent /\ UNCHANGED <<lastOrderErr, untradeable>>
       \/ c = "fills" /\ Forget({"entry", "entry dry"}) /\ lastOrderErr' = Unsaid /\ Silent /\ UNCHANGED untradeable

(* exitPosition: no gate but the venue's hours, and none of the memory of  *)
(* the buys.                                                               *)
Exit ==
    LET c == world["exit"] IN
    /\ c # "closed" /\ UNCHANGED <<untradeable, backedOff>>
    /\ \/ c = "off" /\ RecordOnce("exit", "exit dry", Reason(c, "1"), {}, TRUE)
       \/ c \in {"fails", "rejected"} /\ Forget({"exit dry"}) /\ Announce("exit", Failure("exit", c))
       \/ c = "fills" /\ Forget({"exit dry"}) /\ lastOrderErr' = Unsaid /\ Silent

(* The mutant forgets a refused add once it is sized: the guard and        *)
(* Authorize refuse it after that.                                         *)
AddClearsWhenSized(c) == IF c \in {"guard", "cap", "rejected", "fills"} THEN {"add"} ELSE {}
AddClears(c) == IF c \in {"rejected", "fills"} THEN {"add"} ELSE {}

(* addToPosition: an add that cannot be sized is silent, an add the broker *)
(* refused is recorded and not tried for a while.                          *)
Add(figure) ==
    LET c == world["add"] IN
    /\ ~untradeable /\ c # "closed" /\ ~backedOff
    /\ backedOff' = (c = "rejected")
    /\ \/ /\ c \in {"protected", "venue", "guard", "cap", "rejected"}
          /\ RecordOnce("add", "add", Reason(c, figure), AddClears(c), FALSE) /\ UNCHANGED untradeable
       \/ c = "sizing" /\ Silent /\ UNCHANGED <<blockedOnce, lastOrderErr, untradeable>>
       \/ c = "off" /\ Say("add", "add dry", Reason(c, figure)) /\ UNCHANGED <<blockedOnce, lastOrderErr, untradeable>>
       \/ c \in {"fails", "banned"} /\ Fail("add", c, {})
       \/ c = "fills" /\ Forget(AddClears(c)) /\ lastOrderErr' = Unsaid /\ Silent /\ UNCHANGED untradeable

Evaluate == (\E figure \in Figures : Entry(figure) \/ Add(figure)) \/ Exit
Sweep == Evaluate /\ UNCHANGED <<scene, world, changes>>

(* The backoff of a refused add ends; what the operator heard of it then   *)
(* is old.                                                                 *)
BackoffElapses ==
    /\ backedOff /\ backedOff' = FALSE
    /\ told' = [told EXCEPT !["add"] = 0]
    /\ UNCHANGED <<scene, world, blockedOnce, lastOrderErr, untradeable, heard, changes>>

(* Something else stands in the way of one path.                           *)
Change ==
    /\ changes < MaxChanges /\ changes' = changes + 1
    /\ \E p \in Paths : \E c \in scene[p] \ {world[p]} :
          world' = [world EXCEPT ![p] = c] /\ told' = [told EXCEPT ![p] = 0]
    /\ UNCHANGED <<scene, blockedOnce, lastOrderErr, untradeable, backedOff, heard>>

Next == Sweep \/ BackoffElapses \/ Change

-----------------------------------------------------------------------------
Failing == {"fails", "banned", "rejected"}

(* Another path speaks of the same symbol while this one's orders fail.    *)
Unspoken(q) == {"closed", "off"} \cup (IF q = "add" THEN {"sizing"} ELSE {})
Crossed(p) == scene[p] \cap Failing # {} /\ \E q \in Paths \ {p} : ~(scene[q] \subseteq Unspoken(q))

(* However often it is tried again and whatever its figures, a condition   *)
(* that stands is told once.  Left out are what the code does say on every *)
(* evaluation -- a buy held by the protections, a dry run of an add -- and *)
(* failures whose memory another path of the symbol displaces.             *)
ToldOnce ==
    \A p \in Paths : \/ told[p] <= 1 \/ Crossed(p)
                     \/ p = "entry" /\ world[p] = "protected"
                     \/ p = "add" /\ world[p] = "off"

(* And nothing is swallowed as the repeat of something else: what stands   *)
(* against being told is what was told last on its account.                *)
NewsIsTold ==
    /\ \A k \in Keys : blockedOnce[k] \in {Unsaid, heard[k]}
    /\ lastOrderErr \in {Unsaid, heard["failure"]}

OperatorIsTold == ToldOnce /\ NewsIsTold
=============================================================================
