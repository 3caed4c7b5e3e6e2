------------------------------- MODULE Notifier -------------------------------
(***************************************************************************)
(* internal/notify: the worker that delivers alerts to the configured      *)
(* sinks, and engine.SetNotifyConfig, which replaces it while alerts are   *)
(* being sent and stops it at shutdown.                                    *)
(*                                                                         *)
(* A sender first takes the installed notifier and then calls its Send, so *)
(* another may have been installed in between (setting.overlap).  A worker *)
(* step is one select or one attempt at one sink.  Time is counted from    *)
(* Close in units of the sink timeout, for the grace Close gives.          *)
(***************************************************************************)
EXTENDS Integers, Sequences, FiniteSets

CONSTANTS
    QueueSize, UrgentSize,      \* queueSize, urgentQueueSize
    HaltAttempts,               \* haltAttempts
    RetryCap,                   \* haltRetryCap, in sink timeouts
    Environments

\* what the constants have to be
NotifierAssumption ==
    /\ {QueueSize, UrgentSize, HaltAttempts} \subseteq Nat \ {0} /\ RetryCap \in Nat
    /\ Environments \subseteq
         [sinks : Nat \ {0},
          answers : SUBSET {"ok", "busy", "refused", "silent"},  \* what a sink may do
          overlap : BOOLEAN,    \* an alert is sent while the settings are saved
          swaps : Nat, exits : BOOLEAN, halts : Nat, routine : Nat]

VARIABLES
    setting,
    boxes,      \* the notifiers built so far, the installed one last
    sending,    \* the alert a caller is about to send, and to which notifier
    swap,       \* SetNotifyConfig: the notifier it is closing
    fate,       \* what became of each halt
    left

vars == <<setting, boxes, sending, swap, fate, left>>

Fresh == [urgent |-> <<>>, queue |-> <<>>, pc |-> "look", event |-> "none", halt |-> 0, sink |-> 0,
          attempt |-> 0, closed |-> FALSE, elapsed |-> 0, offered |-> 0, sent |-> 0,
          failed |-> 0, dropped |-> 0, overtaken |-> 0]

Nothing == [event |-> "", box |-> 0]

Init ==
    /\ setting \in Environments
    /\ boxes = <<Fresh>> /\ sending = Nothing /\ swap = [pc |-> "idle", box |-> 0]
    /\ fate = <<>>
    /\ left = [swaps |-> setting.swaps, halts |-> setting.halts, routine |-> setting.routine]

Installed == IF swap.pc = "exited" \/ (swap.pc # "idle" /\ left.swaps = 0 /\ setting.exits)
             THEN 0 ELSE Len(boxes)

-----------------------------------------------------------------------------
(* The sender: notifyOf, then Send.                                        *)
Alert(event) ==
    /\ sending = Nothing /\ Installed > 0 /\ left[event] > 0
    /\ setting.overlap \/ swap.pc = "idle"
    /\ sending' = [event |-> event, box |-> Installed]
    /\ left' = [left EXCEPT ![event] = @ - 1]
    /\ UNCHANGED <<setting, boxes, swap, fate>>

Drop(b)      == [b EXCEPT !.dropped = @ + 1]
Enqueue(b, event, id) ==
    IF event = "halts"
    THEN IF Len(b.urgent) < UrgentSize THEN [b EXCEPT !.urgent = Append(@, id)] ELSE Drop(b)
    ELSE IF Len(b.queue) < QueueSize THEN [b EXCEPT !.queue = Append(@, event)] ELSE Drop(b)

Send ==
    LET b  == [boxes[sending.box] EXCEPT !.offered = @ + 1]
        id == Len(fate) + 1
        to == IF b.closed THEN Drop(b) ELSE Enqueue(b, sending.event, id)
    IN /\ sending # Nothing /\ sending' = Nothing
       /\ boxes' = [boxes EXCEPT ![sending.box] = to]
       /\ fate' = IF sending.event # "halts" THEN fate
                  ELSE Append(fate, IF to.dropped > b.dropped THEN "dropped" ELSE "queued")
       /\ UNCHANGED <<setting, swap, left>>

-----------------------------------------------------------------------------
(* The worker of one notifier.                                             *)
Running(i) == i \in DOMAIN boxes /\ swap.pc # "exited"
Becomes(i, b) ==
    /\ boxes' = [boxes EXCEPT ![i] = b]
    /\ UNCHANGED <<setting, sending, swap, left>>

TakeUrgent(b) ==
    [b EXCEPT !.urgent = Tail(@), !.pc = "deliver", !.halt = Head(b.urgent),
              !.event = IF b.pc = "drain" THEN "last" ELSE "halts",
              !.sink = 1, !.attempt = 1, !.overtaken = 0]
TakeRoutine(b) ==
    [b EXCEPT !.queue = Tail(@), !.pc = "deliver", !.event = "routine", !.sink = 1, !.attempt = 1,
              !.overtaken = IF b.urgent = <<>> THEN @ ELSE @ + 1]

(* The first select: the urgent lane, if anything is in it.                *)
Look(i) ==
    /\ Running(i) /\ boxes[i].pc = "look"
    /\ Becomes(i, IF boxes[i].urgent # <<>> THEN TakeUrgent(boxes[i])
                  ELSE [boxes[i] EXCEPT !.pc = "select"])
    /\ UNCHANGED fate

(* The second: whichever of the three is ready.                            *)
Select(i) ==
    LET b == boxes[i] IN
    /\ Running(i) /\ b.pc = "select" /\ UNCHANGED fate
    /\ \/ b.closed /\ Becomes(i, [b EXCEPT !.pc = "drain"])
       \/ b.urgent # <<>> /\ Becomes(i, TakeUrgent(b))
       \/ b.queue # <<>> /\ Becomes(i, TakeRoutine(b))

CountUndelivered(b) ==
    [b EXCEPT !.pc = "stopped", !.queue = <<>>, !.dropped = @ + Len(b.queue)]

\* mutant: the worker stops without looking at the urgent lane
StopAtOnce(i) ==
    /\ Running(i) /\ boxes[i].pc = "drain" /\ UNCHANGED fate
    /\ Becomes(i, CountUndelivered(boxes[i]))

(* drainUrgent, countUndelivered                                           *)
Drain(i) ==
    /\ Running(i) /\ boxes[i].pc = "drain" /\ UNCHANGED fate
    /\ Becomes(i, IF boxes[i].urgent # <<>> THEN TakeUrgent(boxes[i])
                  ELSE CountUndelivered(boxes[i]))

Later(b, cost) == IF b.closed THEN [b EXCEPT !.elapsed = @ + cost] ELSE b

(* One sink is through: the next, or back to the loop that took the event. *)
NextSink(b) ==
    IF b.sink < setting.sinks THEN [b EXCEPT !.sink = @ + 1, !.attempt = 1]
    ELSE [b EXCEPT !.pc = IF b.event = "last" THEN "drain" ELSE "look",
                   !.event = "none", !.halt = 0, !.sink = 0, !.attempt = 0]

Retried(b) == b.event # "routine" /\ b.attempt < HaltAttempts

Attempt(i) == \E answer \in setting.answers :
    LET b == boxes[i] IN
    /\ Running(i) /\ b.pc = "deliver"
    /\ Becomes(i, CASE answer = "ok" -> NextSink([b EXCEPT !.sent = @ + 1])
                    [] answer = "busy" /\ Retried(b) ->
                         Later([b EXCEPT !.attempt = @ + 1], RetryCap)
                    [] OTHER ->
                         NextSink(Later([b EXCEPT !.failed = @ + 1],
                                        IF answer = "silent" THEN 1 ELSE 0)))
    /\ fate' = IF boxes'[i].pc # "deliver" /\ b.event # "routine"
               THEN [fate EXCEPT ![b.halt] = "tried"] ELSE fate

Worker(i) == Look(i) \/ Select(i) \/ Drain(i) \/ Attempt(i)

-----------------------------------------------------------------------------
(* SetNotifyConfig: install the new notifier, close the old one, wait.  At *)
(* shutdown the new one is none and the process ends after the wait.       *)
Install ==
    /\ swap.pc = "idle" /\ left.swaps > 0 /\ left' = [left EXCEPT !.swaps = @ - 1]
    /\ setting.overlap \/ sending = Nothing
    /\ swap' = [pc |-> "close", box |-> Len(boxes)]
    /\ boxes' = IF setting.exits /\ left.swaps = 1 THEN boxes ELSE Append(boxes, Fresh)
    /\ UNCHANGED <<setting, sending, fate>>

Close ==
    /\ swap.pc = "close" /\ swap' = [swap EXCEPT !.pc = "wait"]
    /\ boxes' = [boxes EXCEPT ![swap.box].closed = TRUE]
    /\ UNCHANGED <<setting, sending, fate, left>>

Grace == (setting.sinks + 1) * HaltAttempts

Closed ==
    /\ swap.pc = "wait"
    /\ boxes[swap.box].pc = "stopped" \/ boxes[swap.box].elapsed >= Grace
    /\ swap' = IF setting.exits /\ left.swaps = 0 THEN [swap EXCEPT !.pc = "exited"]
               ELSE [pc |-> "idle", box |-> 0]
    /\ UNCHANGED <<setting, boxes, sending, fate, left>>

Next ==
    \/ Alert("halts") \/ Alert("routine") \/ Send
    \/ \E i \in DOMAIN boxes : Worker(i)
    \/ Install \/ Close \/ Closed

Spec == Init /\ [][Next]_vars

(* Each worker is a goroutine, and a select that is always ready for one   *)
(* lane does not starve another for ever.                                  *)
Fairness ==
    /\ WF_vars(Send) /\ WF_vars(Close) /\ WF_vars(Closed)
    /\ \A i \in 1..3 : WF_vars(Running(i) /\ Worker(i))

FairSpec == Spec /\ Fairness

-----------------------------------------------------------------------------
(* Stats says what happened to every alert: each is still in a lane, was   *)
(* dropped, or was sent or failed once at every sink; and nothing is put   *)
(* in a lane no worker reads any more (NT2-6, NT3-3).                      *)
AlertsAreCounted == \A i \in DOMAIN boxes :
    LET b    == boxes[i]
        todo == IF b.pc = "deliver" THEN setting.sinks - b.sink + 1 ELSE 0
    IN /\ setting.sinks * (b.offered - b.dropped - Len(b.urgent) - Len(b.queue))
            = b.sent + b.failed + todo
       /\ b.pc = "stopped" => b.urgent = <<>> /\ b.queue = <<>>

(* A halt waits for at most the routine alert that was being taken.        *)
HaltsGoFirst == \A i \in DOMAIN boxes : boxes[i].overtaken <= 1

(* A halt in the urgent lane is tried at every sink, also when the         *)
(* notifier is replaced meanwhile.                                         *)
QueuedHaltIsTried == \A id \in 1..2 :
    (id \in DOMAIN fate /\ fate[id] = "queued") ~> (id \in DOMAIN fate /\ fate[id] = "tried")

(* A halt is not lost to a settings save.                                  *)
NoHaltDropped == \A id \in DOMAIN fate : fate[id] # "dropped"
=============================================================================
