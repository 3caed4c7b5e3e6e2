------------------------------- MODULE Services -------------------------------
(***************************************************************************)
(* The services the trading engine calls on, each of which keeps its own   *)
(* state under its own lock and shares none with the others: alerts and    *)
(* what is worth one, learned votes and labels, price history, live feeds, *)
(* a symbol's bars, trading hours.  One of them is under way at a time;    *)
(* the others keep still.                                                  *)
(***************************************************************************)
EXTENDS Integers, FiniteSets

CONSTANTS
    QueueSize, UrgentSize, HaltAttempts, RetryCap, Alerts,
    Symbols, Refresh, MaxAge, Timeout, MaxConcurrent, MaxRequests, RetrainEvery, Window, Votes,
    Callers, Reach, TTL, Cooldown, MaxRetries, Intervals, Horizon,
    Feeds,
    Capacity, MaxFill, Rates, MaxTime, MaxChanges, Prices,
    Scenes, MaxScenes,
    Venues, Day, Hours, MetaTTL,
    Learners, Meets, MaxEdits

VARIABLES
    part,
    alerts, boxes, sending, swap, fate, left,
    votes, reading, cache, request, model, stepped,
    now, entry, caller, cooling, storm,
    feed, symbols, line, streamed, rejected, poll, fresh, outages, edits,
    prices, ring, cur, rate, cached, peak, floor, held, changing, tick, history, tracker, pushed,
    changes,
    scene, world, blockedOnce, lastOrderErr, untradeable, backedOff, told, heard, scenes,
    venue, hour, resolved, events, loadedAt, loading,
    meet, hand, auto, merged, guard, rmGuard, screenCfg, stored, thread, asked, saves

nvars == <<alerts, boxes, sending, swap, fate, left>>
avars == <<votes, reading, cache, request, model, stepped>>
hvars == <<now, entry, caller, cooling, storm>>
fvars == <<feed, symbols, line, streamed, rejected, poll, fresh, outages, edits>>
bvars == <<prices, ring, cur, rate, cached, peak, floor, held, changing, tick, history, tracker,
           pushed, changes>>
tvars == <<scene, world, blockedOnce, lastOrderErr, untradeable, backedOff, told, heard, scenes>>
cvars == <<venue, hour, resolved, events, loadedAt, loading>>
lvars == <<meet, hand, auto, merged, guard, rmGuard, screenCfg, stored, thread, asked, saves>>
older == <<nvars, avars, hvars, fvars, bvars>>
newer == <<tvars, cvars, lvars>>
vars  == <<part, older, newer>>

N == INSTANCE Notifier WITH setting <- alerts, Environments <- Alerts
A == INSTANCE Advisor WITH setting <- votes, Settings <- Votes
H == INSTANCE PriceHistory
F == INSTANCE LiveFeed
B == INSTANCE Bars WITH setting <- prices, Settings <- Prices
T == INSTANCE Announcements WITH changes <- scenes, MaxChanges <- MaxScenes
C == INSTANCE TradingHours WITH now <- hour, Horizon <- Hours
L == INSTANCE Labels WITH edits <- saves, Symbols <- {CHOOSE s \in Symbols : TRUE}

ASSUME ServicesAssumption ==
    /\ N!NotifierAssumption /\ A!AdvisorAssumption /\ H!HistoryAssumption
    /\ F!FeedAssumption /\ B!BarsAssumption
    /\ T!ScenesAssumption /\ C!HoursAssumption /\ L!LabelsAssumption

Still(p, value, values) == part = p \/ value = CHOOSE v \in values : TRUE

Init ==
    /\ part \in {"alerts", "votes", "history", "feed", "bars", "orders", "hours", "labels"}
    /\ N!Init /\ A!Init /\ H!Init /\ F!Init /\ B!Init /\ T!Init /\ C!Init /\ L!Init
    /\ Still("orders", scene, Scenes) /\ Still("hours", venue, Venues) /\ Still("labels", meet, Meets)
    /\ Still("alerts", alerts, Alerts) /\ Still("feed", feed, Feeds) /\ Still("bars", prices, Prices)
    /\ Still("votes", votes, {v \in Votes : v.voter = "ml"})

Next ==
    \/ part = "alerts"  /\ N!Next /\ UNCHANGED <<part, avars, hvars, fvars, bvars, newer>>
    \/ part = "votes"   /\ A!Next /\ UNCHANGED <<part, nvars, hvars, fvars, bvars, newer>>
    \/ part = "history" /\ H!Next /\ UNCHANGED <<part, nvars, avars, fvars, bvars, newer>>
    \/ part = "feed"    /\ F!Next /\ UNCHANGED <<part, nvars, avars, hvars, bvars, newer>>
    \/ part = "bars"    /\ B!Next /\ UNCHANGED <<part, nvars, avars, hvars, fvars, newer>>
    \/ part = "orders" /\ T!Next /\ UNCHANGED <<part, older, cvars, lvars>>
    \/ part = "hours"  /\ C!Next /\ UNCHANGED <<part, older, tvars, lvars>>
    \/ part = "labels" /\ L!Next /\ UNCHANGED <<part, older, tvars, cvars>>

Spec == Init /\ [][Next]_vars

(* The fairness of each service, while it is the one under way.            *)
AlertsRun ==
    /\ WF_nvars(part = "alerts" /\ N!Send) /\ WF_nvars(part = "alerts" /\ N!Close)
    /\ WF_nvars(part = "alerts" /\ N!Closed)
    /\ \A i \in 1..3 : WF_nvars(part = "alerts" /\ N!Running(i) /\ N!Worker(i))

VotesRun ==
    /\ WF_avars(part = "votes" /\ A!Tick)
    /\ WF_avars(part = "votes" /\ \E r \in request : A!Step(r))
    /\ \A s \in Symbols : WF_avars(part = "votes" /\ A!Verdict(s))

FeedRuns ==
    /\ WF_fvars(part = "feed" /\ F!Connect) /\ WF_fvars(part = "feed" /\ F!ReadFails)
    /\ WF_fvars(part = "feed" /\ F!Recover) /\ WF_fvars(part = "feed" /\ F!Poller)
    /\ \A s \in Symbols : WF_fvars(part = "feed" /\ F!Trade(s))

FairSpec == Spec /\ AlertsRun /\ VotesRun /\ FeedRuns

-----------------------------------------------------------------------------
(* Every alert is still waiting, dropped, or was sent or failed    *)
(* once at every sink, none is left in a lane no worker reads; and a halt  *)
(* waits for at most the one routine alert that was being taken.  What     *)
(* keeps an order from going out is told once for as long as it stands,    *)
(* however often it is tried, and is not taken for something else.         *)
OperatorIsTold == N!AlertsAreCounted /\ N!HaltsGoFirst /\ T!OperatorIsTold

(* A halt in the urgent lane is tried at every sink, also when a settings  *)
(* save replaces the notifier meanwhile.                                   *)
QueuedHaltIsTried == N!QueuedHaltIsTried

(* What is learned in the background and used from a cache: at most one    *)
(* refresh per symbol and none wedged in flight, and a fitted model votes  *)
(* no more than retrain_every bars after its fit; a label written by hand  *)
(* wins over a learned one and is never saved as one; the trading hours    *)
(* of a cached schedule are the venue's, and hold no exit back.            *)
LearnedIsRight == A!OneRequest /\ A!ModelsAreRefitted /\ L!LabelsHold /\ C!HoursAreKept

(* However quiet the market, every symbol is asked about again and again.  *)
ExpiredIsAskedAgain == part = "votes" => A!ExpiredIsAskedAgain

(* Prices: a cached window misses at most a TTL of what was asked; a       *)
(* cooldown stops the retry storm; after every change of the currency rate *)
(* all of a symbol's prices are on one scale, and its series is whole.     *)
PricesHold == H!HitsHoldTheWindow /\ H!CooldownStopsTheStorm /\ B!OneScale /\ B!SeriesIsWhole

(* A symbol that stays subscribed and that the venue prices gets ticks,    *)
(* through lost connections, outages and refused neighbours.               *)
SubscribedGetsTicks == part = "feed" => F!SubscribedGetsTicks
=============================================================================
