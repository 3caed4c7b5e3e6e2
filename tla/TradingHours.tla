------------------------------ MODULE TradingHours ------------------------------
(***************************************************************************)
(* When an order for a symbol may go out: by the exchange schedule of the  *)
(* broker (internal/broker/trading212.go), which is cached, reloaded in    *)
(* the background and covers some days, by the calendar of the symbol's    *)
(* suffix (internal/market/hours.go), which knows no holidays, or by both  *)
(* (marketOpen and entryAllowed of internal/engine/engine.go).             *)
(* Time is counted in hours of which a day has Day.                        *)
(***************************************************************************)
EXTENDS Integers, FiniteSets, FiniteSetsExt

CONSTANTS
    Venues,     \* a venue's sessions and what is known of it
    Day,        \* bound: hours of a day
    Horizon,    \* bound: hours
    MetaTTL     \* the age at which the schedule is reloaded

VARIABLES
    venue,      \* fixed
    now,        \* the hour
    resolved,   \* the broker's name for the symbol is known
    events,     \* the cached schedule: [at, type]
    loadedAt,   \* when it was (re)loaded; -1: never
    loading     \* a reload is under way
vars == <<venue, now, resolved, events, loadedAt, loading>>

Never == -1000
DayOf(t) == t \div Day
Weekend(t) == DayOf(t) % 3 = 2          \* one day of three, to have several in the horizon

(* What the venue does: sessions of each day, some with a break.           *)
InBreak(v, t) == \E s \in v.sessions : s.from <= t /\ t < s.to
InSession(v, t) == (\E s \in v.sessions : s.open - v.early <= t /\ t < s.close) /\ ~InBreak(v, t)

(* OrderingAllowed: open where no calendar is known.                       *)
OrderingAllowed(v, t) ==
    \/ v.calendar = "unknown" \/ v.calendar = "always"
    \/ /\ ~Weekend(t)
       /\ v.regular.open - v.early <= t % Day /\ t % Day <= v.regular.close

(* A venue that lists its sessions has each within a day and its break     *)
(* inside, and orders for one are not taken before the other has closed.   *)
ListsApart(v) ==
    /\ \A s \in v.sessions :
         /\ {s.open, s.close, s.from, s.to} \subseteq Nat
         /\ s.open < s.close /\ DayOf(s.open) = DayOf(s.close)
         /\ s.from < s.to => s.open < s.from /\ s.to < s.close
    /\ \A r, s \in v.sessions : r = s \/ r.close < s.open - v.early \/ s.close < r.open - v.early

(* A venue keeps to its calendar on regular days, and to no hours beyond   *)
(* it on others; the calendar leaves its session open to the last instant. *)
KeepsCalendar(v) == v.calendar # "unknown" => \A t \in 0..Horizon :
    /\ InSession(v, t) => OrderingAllowed(v, t)
    /\ OrderingAllowed(v, t) /\ ~InSession(v, t) =>
         /\ ~Weekend(t)
         /\ DayOf(t) \in v.irregular \/ InBreak(v, t) \/ t % Day = v.regular.close

HoursAssumption ==
    /\ Day \in Nat \ {0} /\ Horizon \in Nat /\ MetaTTL \in Nat
    /\ \A v \in Venues :
         /\ v.early \in Nat /\ v.serves \in Nat
         /\ v.serves > 0 => ListsApart(v)
         /\ KeepsCalendar(v)

-----------------------------------------------------------------------------
(* The broker's schedule                                                   *)

Events(s) ==
    {[at |-> s.open, type |-> "OPEN"], [at |-> s.close, type |-> "CLOSE"]}
        \cup (IF s.from < s.to THEN {[at |-> s.from, type |-> "BREAK_START"], [at |-> s.to, type |-> "BREAK_END"]}
              ELSE {})

(* What loadExchanges gets: the days from the current one that are served. *)
Served == UNION {Events(s) : s \in {r \in venue.sessions : DayOf(r.open) \in DayOf(now)..DayOf(now) + venue.serves - 1}}

Last(type, cutoff) == Max({e.at : e \in {f \in events : f.type = type /\ f.at <= cutoff}} \cup {Never})
Ats == {e.at : e \in events}
Covered == events # {} /\ now >= Min(Ats) - Day /\ now <= Max(Ats)

(* sessionOpenAt: an opening counts from early before it; everything else  *)
(* once it has happened.                                                   *)
SessionOpen ==
    LET opened == Last("OPEN", now + venue.early)
        paused == Last("BREAK_START", now)
    IN /\ opened # Never /\ Last("CLOSE", now) <= opened
       /\ paused = Never \/ paused <= Last("BREAK_END", now)

(* TradingOpen answers from the cache alone.                               *)
ScheduleKnown == resolved /\ Covered

-----------------------------------------------------------------------------
(* The calendar of the suffix, and the two together                        *)

CalendarOpen == OrderingAllowed(venue, now)

MarketOpen == IF ScheduleKnown THEN SessionOpen ELSE CalendarOpen

EntryAllowed == MarketOpen /\ CalendarOpen /\ ~(venue.calendar = "unknown" /\ Weekend(now))

-----------------------------------------------------------------------------
Init ==
    /\ venue \in Venues
    /\ now = 0 /\ resolved = FALSE /\ events = {} /\ loadedAt = -1 /\ loading = FALSE

Tick ==
    /\ now < Horizon /\ now' = now + 1
    /\ UNCHANGED <<venue, resolved, events, loadedAt, loading>>

(* SubmitOrder: the symbol is resolved by the instruments, loaded once;    *)
(* their schedules may fail to load.  Once it is resolved an order only    *)
(* starts a reload of what has aged.                                       *)
Order(kind) ==
    /\ IF kind = "entry" THEN EntryAllowed ELSE MarketOpen
    /\ IF resolved
       THEN /\ loading' = (loading \/ now - loadedAt > MetaTTL)
            /\ UNCHANGED <<resolved, events, loadedAt>>
       ELSE /\ resolved' = TRUE /\ loadedAt' = now /\ UNCHANGED loading
            /\ events' \in {Served, {}}
    /\ UNCHANGED <<venue, now>>

(* The reload in the background: the instruments fail, or they load and    *)
(* their schedules do, too, or not.                                        *)
Reloaded ==
    /\ loading /\ loading' = FALSE
    /\ \/ UNCHANGED <<events, loadedAt>>
       \/ loadedAt' = now /\ events' \in {events, Served}
    /\ UNCHANGED <<venue, now, resolved>>

Next == Tick \/ Order("entry") \/ Order("exit") \/ Reloaded

-----------------------------------------------------------------------------
(* Where the cached schedule covers the hour it says what the venue does,  *)
(* holidays, short days, breaks and the minutes before an opening          *)
(* included, however old it is and whatever part of the days was served.   *)
ScheduleIsRight == ScheduleKnown => (SessionOpen <=> InSession(venue, now))

(* An exit is never held back while the venue trades: not by a schedule    *)
(* that ran out, not by a reload that failed, not by a calendar the bot    *)
(* does not have.                                                          *)
ExitsAreFree == InSession(venue, now) => MarketOpen

(* A buy that may go to a venue that does not trade is one no calendar     *)
(* could tell: the schedule does not cover the hour, it is no weekend, and *)
(* the venue's calendar is unknown or takes a holiday, a short day or a    *)
(* break for an ordinary one.                                              *)
EntriesMeetAVenue ==
    (EntryAllowed /\ ~InSession(venue, now)) =>
        /\ ~ScheduleKnown /\ ~Weekend(now)
        /\ \/ venue.calendar = "unknown" \/ DayOf(now) \in venue.irregular \/ InBreak(venue, now)
           \/ now % Day = venue.regular.close

HoursAreKept == ScheduleIsRight /\ ExitsAreFree /\ EntriesMeetAVenue
=============================================================================
