------------------------------ MODULE Submission ------------------------------
(***************************************************************************)
(* What Broker.SubmitOrder promises the engine (internal/broker/broker.go, *)
(* OrderResult): an error says that nothing was placed, unless the answer  *)
(* was lost on its way, a result that is Terminal says what was filled in  *)
(* the end, and any other result says at most what has been filled so far. *)
(* The adapters of Brokers implement it.                                   *)
(***************************************************************************)
EXTENDS Integers

VARIABLES
    lossy,      \* whether a request may arrive and its answer be lost
    asked,      \* the quantity of the order
    placed,     \* the quantity that reached the venue, 0 for none
    filled,     \* what the venue has filled of it
    ended,      \* whether the venue is through with it
    reply       \* what the caller was told

order == <<lossy, asked, placed, filled, ended, reply>>

Waiting         == [kind |-> "waiting", filled |-> 0]
Told(kind, qty) == [kind |-> kind, filled |-> qty]

Init ==
    /\ lossy \in BOOLEAN /\ asked = 0 /\ placed = 0 /\ filled = 0 /\ ended = FALSE
    /\ reply = Told("none", 0)

Ask ==
    /\ reply.kind # "waiting"
    /\ asked' \in Nat \ {0} /\ placed' = 0 /\ filled' = 0 /\ ended' = FALSE
    /\ reply' = Waiting

Place ==
    /\ reply = Waiting /\ placed = 0
    /\ placed' \in 1..asked
    /\ UNCHANGED <<asked, filled, ended, reply>>

Trade ==
    /\ ~ended /\ filled' \in filled + 1 .. placed
    /\ ended' \in {FALSE, filled' = placed}
    /\ UNCHANGED <<asked, placed, reply>>

End ==
    /\ placed > 0 /\ ~ended /\ ended' = TRUE
    /\ UNCHANGED <<asked, placed, filled, reply>>

Fail ==
    /\ reply = Waiting /\ placed = 0
    /\ reply' = Told("error", 0)
    /\ UNCHANGED <<asked, placed, filled, ended>>

Settle ==
    /\ reply = Waiting /\ placed > 0 /\ ended
    /\ reply' = Told("settled", filled)
    /\ UNCHANGED <<asked, placed, filled, ended>>

Open ==
    /\ reply = Waiting
    /\ \E n \in 0..filled : reply' = Told("open", n)
    /\ UNCHANGED <<asked, placed, filled, ended>>

(* The venue answers with what became of the order, or with one that rests.*)
AtOnce ==
    /\ reply = Waiting /\ placed = 0 /\ placed' \in 1..asked
    /\ \/ filled' = placed' /\ ended' = TRUE /\ reply' = Told("settled", placed')
       \/ filled' = 0 /\ ended' = FALSE /\ reply' = Told("open", 0)
    /\ UNCHANGED asked

(* A working order may be changed once the call has returned.              *)
Replace ==
    /\ reply.kind # "waiting" /\ placed > 0 /\ ~ended
    /\ placed' \in {n \in Nat : n > filled}
    /\ UNCHANGED <<asked, filled, ended, reply>>

Lost ==
    /\ lossy /\ reply = Waiting /\ placed = 0
    /\ placed' \in 1..asked /\ reply' = Told("error", 0)
    /\ UNCHANGED <<asked, filled, ended>>

Step == Ask \/ Place \/ Trade \/ End \/ Fail \/ Settle \/ Open \/ AtOnce \/ Replace \/ Lost

Next == Step /\ UNCHANGED lossy

Spec == Init /\ [][Next]_order

=============================================================================
