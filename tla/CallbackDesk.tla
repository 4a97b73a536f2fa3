----------------------------- MODULE CallbackDesk -----------------------------
(***************************************************************************)
(* Handing a caller over to people: RoutingEngine                          *)
(* (business/routing_engine.py), which knows the business hours and        *)
(* connects to agents, and CallbackScheduler                               *)
(* (business/callback_scheduler.py), which collects a number and a time    *)
(* for a call back and books it.  Time is counted in hours since a Monday  *)
(* 00:00 and goes by while the caller answers.                             *)
(***************************************************************************)
EXTENDS Naturals, FiniteSets

CONSTANTS
  Days,           \* bound: days the clock runs through
  HolidayChoices, \* sets of days the engine may be given as holidays
  Asked,          \* hours the caller may ask for: offsets from now
  NoTime

ASSUME DeskAssumption ==
  /\ Days \in Nat \ {0} /\ Asked \subseteq Nat
  /\ \A H \in HolidayChoices : H \subseteq Nat /\ IsFiniteSet(H)
  /\ NoTime \notin Nat

VARIABLES
  clock,        \* datetime.now(), in hours
  holidays,     \* RoutingEngine._holidays
  phoneRetry,   \* _phone_retry_counts of the session
  timeRetry,    \* _time_retry_counts of the session
  number,       \* the number to call: "none", "given" or "caller"
  preferred,    \* the time collected, or NoTime
  heardAt,      \* when it was collected
  reservations, \* what the database was given within the hour: [time, heard, consent]
  agent,        \* the agent system's side of a hand-over: "connected", "refused", "failed"
  routed        \* RoutingResult.is_success of it

deskVars == <<clock, holidays, phoneRetry, timeRetry, number, preferred, heardAt,
              reservations, agent, routed>>

DayOf(t)  == t \div 24
HourOf(t) == t % 24
Weekday(d) == d % 7

DeskTypeOK ==
  /\ clock \in 0..(Days * 24)
  /\ phoneRetry \in 0..1 /\ timeRetry \in 0..2
  /\ number \in {"none", "given", "caller"}
  /\ preferred \in Nat \cup {NoTime} /\ heardAt \in 0..(Days * 24)

DeskInit ==
  /\ clock = 0 /\ holidays \in HolidayChoices
  /\ phoneRetry = 0 /\ timeRetry = 0
  /\ number = "none" /\ preferred = NoTime /\ heardAt = 0
  /\ reservations = {} /\ agent = "none" /\ routed = FALSE

(***************************************************************************)
(* RoutingEngine.is_business_hours and _next_open_time                     *)
(***************************************************************************)
OpenHour == 9
CloseHour == 18
BusinessDay(d) == Weekday(d) <= 4 /\ d \notin holidays
IsOpen(t) == BusinessDay(DayOf(t)) /\ HourOf(t) \in OpenHour..(CloseHour - 1)

(* The loop over the days that follow d. *)
NextDay[d \in Nat] == IF BusinessDay(d + 1) THEN d + 1 ELSE NextDay[d + 1]

NextOpenTomorrow(t) == NextDay[DayOf(t)] * 24 + OpenHour   \* mutant of NextOpenTime
NextOpenTime(t) ==
  IF BusinessDay(DayOf(t)) /\ HourOf(t) < OpenHour
  THEN DayOf(t) * 24 + OpenHour
  ELSE NextDay[DayOf(t)] * 24 + OpenHour

(* route_to_agent.  Which group is asked for depends on the intent only and    *)
(* makes no difference here.  connect_agent answers, answers no, or raises; of *)
(* its answer nothing is kept.  A call back is arranged after it.              *)
ConnectAgent == {"connected", "refused", "failed"}
Connects(a) == a # "failed"

RouteToAgent ==
  /\ number = "none" /\ reservations = {}
  /\ \E a \in ConnectAgent : agent' = a /\ routed' = Connects(a)
  /\ UNCHANGED <<clock, holidays, phoneRetry, timeRetry, number, preferred, heardAt,
                 reservations>>

(* collect_phone_number: after a second unusable number the caller's own is taken. *)
CollectPhone ==
  /\ number = "none"
  /\ \/ number' = "given" /\ UNCHANGED phoneRetry
     \/ phoneRetry >= 1 /\ number' = "caller" /\ UNCHANGED phoneRetry
     \/ phoneRetry = 0 /\ phoneRetry' = 1 /\ UNCHANGED number
  /\ agent' = "none" /\ routed' = FALSE
  /\ UNCHANGED <<clock, holidays, timeRetry, preferred, heardAt, reservations>>

(***************************************************************************)
(* collect_preferred_time                                                  *)
(***************************************************************************)
WeekHours(t) == Weekday(DayOf(t)) < 5 /\ HourOf(t) \in OpenHour..(CloseHour - 1)
AnyFuture(t) == t > clock   \* mutant of IsFutureBusinessHours
IsFutureBusinessHours(t) == t > clock /\ WeekHours(t)

(* _next_business_day knows weekends only. *)
NextWeekday[d \in Nat] == IF Weekday(d + 1) < 5 THEN d + 1 ELSE NextWeekday[d + 1]

TimeRefused == timeRetry' = (IF timeRetry < 2 THEN timeRetry + 1 ELSE 2)
               /\ UNCHANGED <<preferred, heardAt>>
TimeTaken(t) == preferred' = t /\ heardAt' = clock /\ UNCHANGED timeRetry

(* A time said with its zone raises TypeError where it is compared with now, and *)
(* nothing has changed: a stuttering step.                                       *)
CollectTime ==
  /\ number # "none" /\ preferred = NoTime
  /\ \/ TimeRefused   \* not a time, or a key other than 1 and 2
     \/ \E hour \in {10, 14} : TimeTaken(NextWeekday[DayOf(clock)] * 24 + hour)
     \/ \E a \in Asked : IF IsFutureBusinessHours(clock + a) THEN TimeTaken(clock + a) ELSE TimeRefused
  /\ UNCHANGED <<clock, holidays, phoneRetry, number, reservations, agent, routed>>

(* schedule: what was collected is not looked at again. *)
Schedule(consent) ==
  /\ preferred # NoTime
  /\ reservations' = IF consent THEN {[time |-> preferred, heard |-> heardAt, consent |-> consent]}
                     ELSE {}
  /\ number' = "none" /\ preferred' = NoTime /\ heardAt' = 0
  /\ UNCHANGED <<clock, holidays, phoneRetry, timeRetry, agent, routed>>

(* The caller stays on the line for another hour at most once he has named a time. *)
Hour ==
  /\ clock < Days * 24
  /\ preferred # NoTime => clock = heardAt
  /\ clock' = clock + 1
  /\ reservations' = {} /\ agent' = "none" /\ routed' = FALSE
  /\ UNCHANGED <<holidays, phoneRetry, timeRetry, number, preferred, heardAt>>

DeskNext ==
  \/ RouteToAgent \/ CollectPhone \/ CollectTime \/ Hour
  \/ \E consent \in BOOLEAN : Schedule(consent)

DeskSpec == DeskInit /\ [][DeskNext]_deskVars

(* At every hour the next opening the caller is told of is right: open, to come,  *)
(* and with no open hour before it, across nights, weekends and holidays.         *)
NextOpenIsNext == ~IsOpen(clock) =>
  /\ IsOpen(NextOpenTime(clock)) /\ NextOpenTime(clock) > clock
  /\ \A t \in clock..(NextOpenTime(clock) - 1) : ~IsOpen(t)

(* Whatever was misunderstood before, what is booked was agreed to, lies in       *)
(* weekly business hours and was to come when the caller said it.                 *)
BookedAsAgreed == \A r \in reservations :
  r.consent /\ WeekHours(r.time) /\ r.heard < r.time

(* "영업시간 내 미래 시간만 허용" (callback_scheduler.py:109): a booking is for a     *)
(* time at which there is somebody to call.                                       *)
BookedWhenOpen == \A r \in reservations : IsOpen(r.time)

(* agent_system.py:13: connect_agent gives False when the system is down; a       *)
(* caller is told he is connected only if he is.                                  *)
RoutedIsConnected == routed => agent = "connected"
=============================================================================
