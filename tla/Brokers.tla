-------------------------------- MODULE Brokers --------------------------------
(***************************************************************************)
(* The broker adapters of internal/broker: how one call of SubmitOrder     *)
(* places an order at Trading 212, Alpaca, Saxo or the paper broker and    *)
(* learns what became of it, and how a Saxo bracket is placed and changed. *)
(*                                                                         *)
(* A step is one HTTP request with its answer, or one event at the venue.  *)
(* Quantities are in the finest unit the bot sends; Unit(p) is one share   *)
(* at p decimals.  Between two polls the venue may do anything; a poll may *)
(* find the time is up.  Prices and currencies are not modelled, but for   *)
(* the rate without which a priced order is refused.                       *)
(***************************************************************************)
EXTENDS Integers, Sequences

CONSTANTS
    DefaultPrecision,       \* defaultT212QtyPrecision
    MaxAttempts,            \* maxT212QtyAttempts
    Symbols,                \* the symbols that name one listing
    Environments            \* the adapter, what the venue does, and bounds

Kinds == {"t212", "alpaca", "saxo", "sim"}

ASSUME BrokerAssumption ==
    /\ DefaultPrecision \in Nat /\ MaxAttempts \in Nat \ {0}
    /\ Environments \subseteq
         [kind : Kinds,
          precision : 0..DefaultPrecision,  \* the most decimals the venue takes
          quantities : SUBSET (Nat \ {0}), held : Nat, limits : BOOLEAN,
          rejects : BOOLEAN,                \* the venue may reject or cancel a placed order
          names : {"the most it takes", "nothing", "anything"},  \* what a refusal names
          losesReply : BOOLEAN,             \* a request may arrive and its answer not
          fails : BOOLEAN,                  \* a request may fail
          calls : Nat, changes : Nat]

VARIABLES
    setting,
    call,       \* the call of SubmitOrder in progress
    learned,    \* t.qtyPrec of the instrument
    book,       \* the venue: the orders it took
    held,       \* the shares in the account
    reply,      \* what the last call returned
    named,      \* t.reverse / s.uicSymbol and the resolved symbols
    change,     \* the call of ModifyOrder in progress
    left

vars == <<setting, call, learned, book, held, reply, named, change, left>>

Pow(b, n) == LET f[i \in 0..n] == IF i = 0 THEN 1 ELSE b * f[i - 1] IN f[n]
Unit(p) == Pow(2, DefaultPrecision - p)

(* roundDownQty, floorUnits                                                *)
RoundDown(qty, p) == qty - (qty % Unit(p))

NoCall   == [step |-> "none", side |-> "buy", type |-> "market", asked |-> 0, qty |-> 0,
             precision |-> 0, attempts |-> 0, capped |-> FALSE, id |-> 0]
NoChange == [step |-> "none", id |-> 0, qty |-> 0, type |-> "", duration |-> ""]

Init ==
    /\ setting \in Environments
    /\ call = NoCall /\ learned = DefaultPrecision + 1 /\ book = <<>> /\ held = setting.held
    /\ reply = [kind |-> "none", filled |-> 0]
    /\ named = [of |-> "", resolved |-> {}]
    /\ change = NoChange
    /\ left = [calls |-> setting.calls, changes |-> setting.changes]

Answer(kind, qty) ==
    /\ reply' = [kind |-> kind, filled |-> qty]
    /\ call' = [NoCall EXCEPT !.asked = call.asked, !.id = call.id]

-----------------------------------------------------------------------------
(* A symbol is resolved to its listing and cached: Saxo keeps the first    *)
(* symbol of a listing as the name of a holding, Trading 212 the last.     *)
Resolve(s) ==
    named' = [resolved |-> named.resolved \cup {s},
              of |-> IF s \in named.resolved \/ (setting.kind = "saxo" /\ named.of # "")
                       THEN named.of ELSE s]

(* CheckOrderable                                                          *)
ResolveSymbol == \E s \in Symbols :
    /\ setting.kind \in {"t212", "saxo"}
    /\ Resolve(s)
    /\ UNCHANGED <<setting, call, learned, book, held, reply, change, left>>

(* The call: what it validates, and the precision it starts at.            *)
Call(side, type, qty) ==
    /\ call.step = "none" /\ change = NoChange
    /\ left.calls > 0 /\ left' = [left EXCEPT !.calls = @ - 1]
    /\ \E s \in Symbols : Resolve(s)
    /\ call' = [NoCall EXCEPT !.step = "send", !.side = side, !.type = type, !.asked = qty,
                  !.qty = qty, !.precision = IF learned <= DefaultPrecision THEN learned
                                             ELSE DefaultPrecision]
    /\ reply' = [kind |-> "waiting", filled |-> 0]
    /\ UNCHANGED <<setting, learned, book, held, change>>

(* The lookup, the rate or the pace fails before anything is sent.         *)
FailBefore ==
    /\ call.step = "send" /\ setting.fails
    /\ Answer("error", 0)
    /\ UNCHANGED <<setting, learned, book, held, named, change, left>>

-----------------------------------------------------------------------------
(* The venue                                                               *)
Working(o)  == o.status \in {"working", "cancelling"}
Selling     == LET Total[i \in 0..Len(book)] ==
                     IF i = 0 THEN 0
                     ELSE Total[i - 1] + IF book[i].side = "sell" /\ Working(book[i]) /\ ~book[i].leg
                                           THEN book[i].qty - book[i].filled ELSE 0
               IN Total[Len(book)]
Sellable    == held - Selling
NotOwned(q) == call.side = "sell" /\ q > Sellable
Taken(q)    == q % Unit(setting.precision) = 0 /\ ~NotOwned(q)

NewOrder(q, type) == [side |-> call.side, qty |-> q, filled |-> 0, status |-> "working",
                      type |-> type, duration |-> "day", leg |-> FALSE, listed |-> TRUE]

Accept(q) ==
    /\ book' = Append(book, NewOrder(q, call.type))
    /\ UNCHANGED held

(* An order fills at once or in two parts, and of a bracket only the entry *)
(* does: the price never reaches the legs.                                 *)
Fills == \E i \in DOMAIN book : \E n \in {1, book[i].qty - book[i].filled} :
    /\ Working(book[i]) /\ ~book[i].leg
    /\ book[i].filled > 0 => n = book[i].qty - book[i].filled
    /\ book' = [book EXCEPT ![i].filled = @ + n,
                            ![i].status = IF book[i].filled + n = book[i].qty THEN "filled" ELSE @]
    /\ held' = IF book[i].side = "buy" THEN held + n ELSE held - n
    /\ UNCHANGED <<setting, call, learned, reply, named, change, left>>

Cancelling == \E i \in DOMAIN book :
    /\ setting.rejects /\ book[i].status = "working"
    /\ book' = [book EXCEPT ![i].status = "cancelling"]
    /\ UNCHANGED <<setting, call, learned, held, reply, named, change, left>>

EndsUnfilled == \E i \in DOMAIN book :
    /\ setting.rejects /\ Working(book[i])
    /\ book' = [book EXCEPT ![i].status = IF book[i].filled = 0 THEN "rejected" ELSE "cancelled"]
    /\ UNCHANGED <<setting, call, learned, held, reply, named, change, left>>

(* An order that is through leaves the set of working orders.              *)
LeavesListing == \E i \in DOMAIN book :
    /\ ~Working(book[i]) /\ book[i].listed
    /\ book' = [book EXCEPT ![i].listed = FALSE]
    /\ UNCHANGED <<setting, call, learned, held, reply, named, change, left>>

-----------------------------------------------------------------------------
(* Trading 212 takes only market orders, and a precision it learns from    *)
(* its refusals.                                                           *)
T212 == setting.kind = "t212" /\ call.step = "send" /\ UNCHANGED <<setting, named, change, left>>
SendQty == RoundDown(call.qty, call.precision)

Again(c) == call' = [c EXCEPT !.attempts = @ + 1] /\ UNCHANGED reply

T212RoundsToZero ==
    /\ T212 /\ SendQty = 0 /\ call.attempts < MaxAttempts
    /\ Answer("error", 0) /\ UNCHANGED <<learned, book, held>>

T212Accepted ==
    /\ T212 /\ SendQty > 0 /\ call.attempts < MaxAttempts /\ Taken(SendQty)
    /\ Accept(SendQty) /\ learned' = call.precision
    /\ call' = [call EXCEPT !.step = "poll", !.id = Len(book')]
    /\ UNCHANGED reply

Named == CASE setting.names = "the most it takes" -> {setting.precision}
           [] setting.names = "nothing"           -> {0}
           [] setting.names = "anything"          -> 0..DefaultPrecision

(* "must be limited to N decimals", or a refusal that names none.          *)
T212TooPrecise ==
    /\ T212 /\ SendQty > 0 /\ call.attempts < MaxAttempts /\ SendQty % Unit(setting.precision) # 0
    /\ IF call.precision = 0 THEN Answer("error", 0)
       ELSE \E next \in Named :
              Again([call EXCEPT !.precision = IF next < call.precision THEN next ELSE 0])
    /\ UNCHANGED <<learned, book, held>>

(* "selling equity not owned": the sell is cut to the holding, once.       *)
\* mutant: not owned is taken for one more precision refusal
NotOwnedIsPrecision ==
    /\ T212 /\ SendQty > 0 /\ call.attempts < MaxAttempts
    /\ SendQty % Unit(setting.precision) = 0 /\ NotOwned(SendQty)
    /\ IF call.precision = 0 THEN Answer("error", 0) ELSE Again([call EXCEPT !.precision = 0])
    /\ UNCHANGED <<learned, book, held>>

T212NotOwned ==
    /\ T212 /\ SendQty > 0 /\ call.attempts < MaxAttempts
    /\ SendQty % Unit(setting.precision) = 0 /\ NotOwned(SendQty)
    /\ \/ /\ ~call.capped /\ held > 0 /\ held < call.qty
          /\ Again([call EXCEPT !.qty = held, !.capped = TRUE])
       \/ /\ setting.fails \/ call.capped \/ held = 0 \/ held >= call.qty
          /\ Answer("error", 0)
    /\ UNCHANGED <<learned, book, held>>

T212GivesUp ==
    /\ T212 /\ call.attempts >= MaxAttempts
    /\ Answer("error", 0) /\ UNCHANGED <<learned, book, held>>

-----------------------------------------------------------------------------
(* Alpaca takes the quantity at the precision it documents; Saxo takes     *)
(* whole shares; both take limit orders, which are not waited for.         *)
Sends == setting.kind \in {"alpaca", "saxo"} /\ call.step = "send"
ShareQty == IF setting.kind = "saxo" THEN RoundDown(call.qty, 0) ELSE RoundDown(call.qty, DefaultPrecision)

PlaceRefused ==
    /\ Sends /\ (ShareQty = 0 \/ ~Taken(ShareQty))
    /\ Answer("error", 0)
    /\ UNCHANGED <<setting, learned, book, held, named, change, left>>

PlaceOrder ==
    /\ Sends /\ ShareQty > 0 /\ Taken(ShareQty)
    /\ Accept(ShareQty)
    /\ IF call.type = "limit"
       THEN /\ reply' = [kind |-> "open", filled |-> 0]
            /\ call' = [NoCall EXCEPT !.asked = call.asked, !.id = Len(book')]
       ELSE /\ call' = [call EXCEPT !.step = "poll", !.id = Len(book')]
            /\ UNCHANGED reply
    /\ UNCHANGED <<setting, learned, named, change, left>>

(* The venue takes the order and the answer never arrives: a timeout, a    *)
(* connection that breaks, a body that cannot be read.                     *)
LoseReply ==
    /\ setting.losesReply /\ call.step = "send" /\ setting.kind # "sim"
    /\ LET q == IF setting.kind = "t212" THEN SendQty ELSE ShareQty IN
       /\ q > 0 /\ Taken(q)
       /\ Accept(q)
    /\ reply' = [kind |-> "error", filled |-> 0]
    /\ call' = [NoCall EXCEPT !.asked = call.asked, !.id = Len(book')]
    /\ UNCHANGED <<setting, learned, named, change, left>>

(* The paper broker fills while it is asked, or does nothing.              *)
SimFills ==
    /\ setting.kind = "sim" /\ call.step = "send" /\ ~NotOwned(call.qty)
    /\ book' = Append(book, [NewOrder(call.qty, call.type) EXCEPT !.filled = call.qty, !.status = "filled"])
    /\ held' = IF call.side = "buy" THEN held + call.qty ELSE held - call.qty
    /\ reply' = [kind |-> "settled", filled |-> call.qty]
    /\ call' = [NoCall EXCEPT !.asked = call.asked, !.id = Len(book')]
    /\ UNCHANGED <<setting, learned, named, change, left>>

SimRefuses ==
    /\ setting.kind = "sim" /\ call.step = "send"
    /\ \/ call.type = "limit" /\ Answer("open", 0)
       \/ (call.side = "buy" \/ NotOwned(call.qty)) /\ Answer("error", 0)
    /\ UNCHANGED <<setting, learned, book, held, named, change, left>>

-----------------------------------------------------------------------------
(* confirmFill: the order is asked for until it is through, the time is up *)
(* or a read fails.                                                        *)
Polling(kind) == /\ call.step = "poll" /\ setting.kind = kind
                 /\ UNCHANGED <<setting, learned, book, held, named, change, left>>
Mine == book[call.id]

\* mutant: every status but the working one is final
FinalWhenNotWorking(status) == status # "working"

Final(status) == status \in {"filled", "cancelled", "rejected"}

(* The result carries what the last poll saw.                              *)
T212Poll ==
    /\ Polling("t212") /\ Mine.listed
    /\ IF Final(Mine.status) THEN Answer("settled", Mine.filled)
       ELSE call' = call /\ reply' = [kind |-> "waiting", filled |-> Mine.filled]

(* 404: the order is gone from the working set, and the history says how   *)
(* it ended, or cannot be read.                                            *)
T212Gone ==
    /\ Polling("t212") /\ ~Mine.listed
    /\ \/ Answer("settled", Mine.filled)
       \/ Answer("open", reply.filled)

AlpacaPoll ==
    /\ Polling("alpaca")
    /\ IF Final(Mine.status) THEN Answer("settled", Mine.filled)
       ELSE call' = call /\ reply' = [kind |-> "waiting", filled |-> Mine.filled]

(* An order no longer listed is taken as filled.                           *)
SaxoPoll ==
    /\ Polling("saxo") /\ ~Mine.listed
    /\ Answer("settled", Mine.qty)

\* mutant: the deadline ends only the wait for an order that fills
TimeIsUpOnceFilling ==
    /\ \E kind \in Kinds : Polling(kind)
    /\ reply.filled > 0
    /\ Answer("open", reply.filled)

TimeIsUp ==
    /\ \E kind \in Kinds : Polling(kind)
    /\ Answer("open", reply.filled)

-----------------------------------------------------------------------------
(* A Saxo bracket: the entry with a stop and a take-profit leg, each an    *)
(* order of its own until cancelled.                                       *)
Leg(type, q) == [NewOrder(q, type) EXCEPT !.side = "sell", !.duration = "gtc", !.leg = TRUE]

PlaceBracket == \E q \in setting.quantities :
    /\ setting.kind = "saxo" /\ call.step = "none" /\ change = NoChange
    /\ left.changes > 1 /\ left' = [left EXCEPT !.changes = @ - 1]
    /\ LET amount == RoundDown(q, 0)
           entry == [NewOrder(amount, "limit") EXCEPT !.side = "buy", !.duration = "gtc"] IN
       /\ amount > 0
       /\ book' = book \o <<entry, Leg("stop", amount), Leg("limit", amount)>>
    /\ UNCHANGED <<setting, call, learned, held, reply, named, change>>

(* ModifyOrder lists the working orders first, for the type and duration   *)
(* of the one it changes.                                                  *)
ModifyList == \E i \in DOMAIN book, q \in setting.quantities, as \in {"market", "limit"} :
    /\ setting.kind = "saxo" /\ call.step = "none" /\ change = NoChange
    /\ left.changes > 0 /\ left' = [left EXCEPT !.changes = @ - 1]
    /\ Working(book[i]) /\ RoundDown(q, 0) > 0
    /\ change' = [step |-> "patch", id |-> i, qty |-> RoundDown(q, 0), as |-> as,
                  type |-> book[i].type, duration |-> book[i].duration]
    /\ UNCHANGED <<setting, call, learned, book, held, reply, named>>

(* A modification asks for market or limit; any other type is kept, and so *)
(* is the duration.                                                        *)
\* mutant: a modification always sends what it asks for
TypeAsAsked == change.as

ModifiedType == IF change.type \in {"market", "limit"} THEN change.as ELSE change.type
ModifiedDuration == change.duration

ModifyOrder ==
    /\ change.step = "patch" /\ change' = NoChange
    /\ book' = IF Working(book[change.id]) /\ change.qty > book[change.id].filled
               THEN [book EXCEPT ![change.id] =
                       [@ EXCEPT !.qty = change.qty, !.type = ModifiedType,
                                 !.duration = ModifiedDuration]]
               ELSE book
    /\ UNCHANGED <<setting, call, learned, held, reply, named, left>>

-----------------------------------------------------------------------------
Sending == T212RoundsToZero \/ T212Accepted \/ T212TooPrecise \/ T212NotOwned \/ T212GivesUp
           \/ PlaceRefused \/ PlaceOrder \/ SimFills \/ SimRefuses

Next ==
    \/ ResolveSymbol
    \/ \E q \in setting.quantities, side \in {"buy", "sell"} :
         \/ Call(side, "market", q)
         \/ setting.limits /\ Call(side, "limit", q)
    \/ FailBefore \/ Sending \/ LoseReply
    \/ T212Poll \/ T212Gone \/ AlpacaPoll \/ SaxoPoll \/ TimeIsUp
    \/ Fills \/ Cancelling \/ EndsUnfilled \/ LeavesListing
    \/ PlaceBracket \/ ModifyList \/ ModifyOrder

Spec == Init /\ [][Next]_vars

(* The goroutine in SubmitOrder is scheduled, and time passes.             *)
FairSpec == Spec /\ WF_vars(Sending) /\ WF_vars(TimeIsUp)

-----------------------------------------------------------------------------
(* Whatever the adapter, a call of SubmitOrder is one of the abstract      *)
(* order: it is placed at most once, an error says nothing was placed if   *)
(* no answer is lost, and a Terminal result says what was filled in the    *)
(* end (OrderResult).                                                      *)
Submitted == INSTANCE Submission WITH
    lossy  <- setting.losesReply,
    asked  <- call.asked,
    placed <- IF call.id = 0 THEN 0 ELSE book[call.id].qty,
    filled <- IF call.id = 0 THEN 0 ELSE book[call.id].filled,
    ended  <- call.id # 0 /\ ~Working(book[call.id]),
    reply  <- IF reply.kind = "waiting" THEN [reply EXCEPT !.filled = 0] ELSE reply

ImplementsSubmission == Submitted!Spec

SellsTheHolding ==
    /\ T212Accepted /\ setting.names = "the most it takes"
    /\ call.side = "sell" /\ call.asked >= Sellable
    /\ \A i \in DOMAIN book : book[i].side = "sell" /\ ~Working(book[i])

(* BR2-1: a sell of everything the account can sell, once Trading 212 took *)
(* it, leaves less than the smallest quantity it takes, whatever it        *)
(* refused on the way.                                                     *)
ExitLeavesNothing ==
    [][SellsTheHolding => Sellable' < Unit(setting.precision)]_vars

(* BR2-2, BR3-7: a modification never turns a stop into another order nor  *)
(* a day order into one that outlives the session.                         *)
OrdersStayWhatTheyAre ==
    [][\A i \in DOMAIN book :
         /\ book[i].type = "stop" => book'[i].type = "stop"
         /\ book'[i].duration = book[i].duration]_vars

(* The probing of a precision ends and a fill is not waited for for ever.  *)
AnswerComes == call.step # "none" ~> call.step = "none"

(* engine/execute.go releases the reservation on an error: "never reached  *)
(* the venue".                                                             *)
ErrorMeansNothingPlaced == reply.kind = "error" => call.id = 0
=============================================================================
