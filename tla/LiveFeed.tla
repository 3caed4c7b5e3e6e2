------------------------------- MODULE LiveFeed -------------------------------
(***************************************************************************)
(* The live feeds of internal/market: Finnhub's websocket, which forgets   *)
(* the subscriptions of a connection that ends, and Binance's poller,      *)
(* whose one batched request is refused whole for one symbol the venue     *)
(* does not know.                                                          *)
(*                                                                         *)
(* The engine subscribes and unsubscribes while the feed's goroutine       *)
(* connects, reads or polls.  A tick is an event: fresh holds the symbols  *)
(* with one since they were subscribed or since the last outage.           *)
(***************************************************************************)
EXTENDS Integers, FiniteSets

CONSTANTS
    Symbols, Feeds

\* what the constants have to be
FeedAssumption == Feeds \subseteq
    [kind : {"finnhub", "binance"},
     known : SUBSET Symbols,    \* what the venue prices
     outages : Nat,             \* bound
     edits : Nat]               \* bound: subscriptions and unsubscriptions

VARIABLES
    feed,
    symbols,    \* the subscribed symbols
    line,       \* finnhub: down | up | broken; binance: the venue, down | up
    streamed,   \* finnhub: what the server sends on this connection
    rejected,   \* binance: symbols left out of the batch
    poll,       \* binance: the poll under way
    fresh,
    outages, edits

vars == <<feed, symbols, line, streamed, rejected, poll, fresh, outages, edits>>

NoPoll == [pc |-> "wait", batch |-> {}, left |-> {}]

Init ==
    /\ feed \in Feeds
    /\ symbols = {} /\ streamed = {} /\ rejected = {} /\ poll = NoPoll /\ fresh = {}
    /\ line = IF feed.kind = "finnhub" THEN "down" ELSE "up"
    /\ outages = feed.outages /\ edits = feed.edits

Finnhub == feed.kind = "finnhub"
Binance == feed.kind = "binance"

-----------------------------------------------------------------------------
(* Subscribe, Unsubscribe.  A send on a line that has broken is lost.      *)
Edit == edits > 0 /\ edits' = edits - 1

Subscribe(s) ==
    /\ Edit /\ symbols' = symbols \cup {s} /\ fresh' = fresh \ {s}
    /\ streamed' = IF Finnhub /\ line = "up" THEN streamed \cup {s} ELSE streamed
    /\ rejected' = rejected \ {s}
    /\ UNCHANGED <<feed, line, poll, outages>>

Unsubscribe(s) ==
    /\ Edit /\ s \in symbols /\ symbols' = symbols \ {s}
    /\ streamed' = IF Finnhub /\ line = "up" THEN streamed \ {s} ELSE streamed
    /\ rejected' = rejected \ {s}
    /\ UNCHANGED <<feed, line, poll, fresh, outages>>

-----------------------------------------------------------------------------
(* Finnhub: connectLoop and runConn.                                       *)

Connect ==
    /\ Finnhub /\ line = "down" /\ line' = "up" /\ streamed' = symbols
    /\ UNCHANGED <<feed, symbols, rejected, poll, fresh, outages, edits>>

(* The line breaks; the reader finds out later.                            *)
Break ==
    /\ Finnhub /\ line = "up" /\ outages > 0 /\ outages' = outages - 1
    /\ line' = "broken" /\ streamed' = {} /\ fresh' = {}
    /\ UNCHANGED <<feed, symbols, rejected, poll, edits>>

ReadFails ==
    /\ Finnhub /\ line = "broken" /\ line' = "down"
    /\ UNCHANGED <<feed, symbols, streamed, rejected, poll, fresh, outages, edits>>

Trade(s) ==
    /\ Finnhub /\ line = "up" /\ s \in streamed /\ s \notin fresh
    /\ fresh' = fresh \cup {s}
    /\ UNCHANGED <<feed, symbols, line, streamed, rejected, poll, outages, edits>>

-----------------------------------------------------------------------------
(* Binance: pollOnce takes the batch under the lock; pollEach after it was *)
(* refused asks symbol by symbol.                                          *)
PollOnce ==
    /\ Binance /\ poll.pc = "wait" /\ symbols \ rejected # {}
    /\ poll' = [pc |-> "batch", batch |-> symbols \ rejected, left |-> {}]
    /\ UNCHANGED <<feed, symbols, line, streamed, rejected, fresh, outages, edits>>

\* mutant: a refused batch ends the poll (MK3-1)
BatchOnly ==
    /\ Binance /\ poll.pc = "batch"
    /\ fresh' = IF line = "up" /\ poll.batch \subseteq feed.known THEN fresh \cup poll.batch ELSE fresh
    /\ poll' = NoPoll
    /\ UNCHANGED <<feed, symbols, line, streamed, rejected, outages, edits>>

Batch ==
    LET refused == line = "up" /\ ~(poll.batch \subseteq feed.known) IN
    /\ Binance /\ poll.pc = "batch"
    /\ fresh' = IF line = "up" /\ ~refused THEN fresh \cup poll.batch ELSE fresh
    /\ poll' = IF refused THEN [poll EXCEPT !.pc = "each", !.left = poll.batch] ELSE NoPoll
    /\ UNCHANGED <<feed, symbols, line, streamed, rejected, outages, edits>>

(* The answers are published when the last one is in.                      *)
PollEach(s) ==
    LET left == poll.left \ {s}
        ok   == line = "up" /\ s \in feed.known
        got  == IF ok THEN poll.batch ELSE poll.batch \ {s}
    IN /\ Binance /\ poll.pc = "each" /\ s \in poll.left
       /\ rejected' = IF line = "up" /\ s \notin feed.known THEN rejected \cup {s} ELSE rejected
       /\ poll' = IF left = {} THEN NoPoll ELSE [poll EXCEPT !.left = left, !.batch = got]
       /\ fresh' = IF left = {} THEN fresh \cup got ELSE fresh
       /\ UNCHANGED <<feed, symbols, line, streamed, outages, edits>>

(* The venue, for Binance.                                                 *)
Outage ==
    /\ Binance /\ line = "up" /\ outages > 0 /\ outages' = outages - 1
    /\ line' = "down" /\ fresh' = {}
    /\ UNCHANGED <<feed, symbols, streamed, rejected, poll, edits>>

Recover ==
    /\ Binance /\ line = "down" /\ line' = "up"
    /\ UNCHANGED <<feed, symbols, streamed, rejected, poll, fresh, outages, edits>>

Poller == PollOnce \/ Batch \/ \E s \in Symbols : PollEach(s)

Next ==
    \/ \E s \in Symbols : Subscribe(s) \/ Unsubscribe(s) \/ Trade(s)
    \/ Connect \/ Break \/ ReadFails
    \/ Poller \/ Outage \/ Recover

Spec == Init /\ [][Next]_vars

(* The feed's goroutine runs, dialling and the venue come back after an    *)
(* outage, and a streamed symbol trades.                                   *)
Fairness ==
    /\ WF_vars(Connect) /\ WF_vars(ReadFails) /\ WF_vars(Recover) /\ WF_vars(Poller)
    /\ \A s \in Symbols : WF_vars(Trade(s))

FairSpec == Spec /\ Fairness

-----------------------------------------------------------------------------
(* A symbol that stays subscribed and that the venue prices gets ticks,    *)
(* through lost connections, outages and refused neighbours.               *)
SubscribedGetsTicks == \A s \in Symbols :
    (s \in symbols /\ s \in feed.known) ~> (s \in fresh \/ s \notin symbols)
=============================================================================
