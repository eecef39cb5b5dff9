------------------------------ MODULE History ------------------------------
(***************************************************************************)
(* The availability strip: what each of the last days of a service shows,  *)
(* from the spans of its incidents and the outages the checks detected     *)
(* (modules/services.rs, EventRepository::incident_spans,                  *)
(* OutageRepository::since).  Pure: the database and the clock come as     *)
(* arguments.  Time is in units, DayLength to a day; texts are left out.   *)
(***************************************************************************)
EXTENDS Integers, FiniteSets, FiniteSetsExt

CONSTANTS
  DayLength,   \* units in a day
  StripDays,   \* days of the strip
  MinDetected  \* MIN_DETECTED_OUTAGE, in units

ASSUME HistoryAssumption ==
  /\ DayLength \in Nat \ {0} /\ StripDays \in Nat \ {0} /\ MinDetected \in Nat

\* A time that is not set.
Unset == -1

\* clock::local_date and clock::day_start
LocalDate(time) == time \div DayLength
DayStart(day)   == day * DayLength

\* Window::first_day: the strip ends today.
FirstDay(now)   == LocalDate(now) - (StripDays - 1)
WindowDays(now) == FirstDay(now)..LocalDate(now)

\* A span [severity, start, end] of incident_spans: cancelled incidents have
\* none, a span ends when the service came back or, failing that, when the
\* incident was closed, and one that ended before the window is not read.
SpanEnd(incident) ==
  IF incident.restored # Unset THEN incident.restored ELSE incident.ended

IncidentSpans(incidents, now) ==
  {[severity |-> i.severity, start |-> i.started, end |-> SpanEnd(i)] :
     i \in {j \in incidents :
              /\ j.lifecycle # "cancelled"
              /\ SpanEnd(j) = Unset \/ SpanEnd(j) >= DayStart(FirstDay(now))}}

\* OutageRepository::since: under way, or ended within the window
OutagesSince(outages, now) ==
  {o \in outages : o.end = Unset \/ o.end >= DayStart(FirstDay(now))}

SeverityLevel(severity) == IF severity = "critical" THEN 2 ELSE 1

\* worst_level_on
OnDay(span, day, now) ==
  /\ LocalDate(span.start) <= day
  /\ day <= IF span.end = Unset THEN LocalDate(now) ELSE LocalDate(span.end)

WorstLevelOn(spans, day, now) ==
  Max({0} \cup {SeverityLevel(s.severity) : s \in {t \in spans : OnDay(t, day, now)}})

\* lasted_long_enough and detected_minutes_on
EndOrNow(outage, now) == IF outage.end = Unset THEN now ELSE outage.end

LastedLongEnough(outage, now) == EndOrNow(outage, now) - outage.start >= MinDetected

TimeWithin(outage, day, now) ==
  LET start == Max({outage.start, DayStart(day)})
      end   == Min({EndOrNow(outage, now), DayStart(day + 1)})
  IN  Max({end - start, 0})

DetectedOn(outages, day, now) ==
  MapThenSumSet(LAMBDA o : TimeWithin(o, day, now),
                {o \in outages : LastedLongEnough(o, now)})

\* tracked_day: an incident decides the day; failing that, a long enough
\* detected outage colours it as a minor incident.
TrackedDay(spans, outages, day, now) ==
  LET level    == WorstLevelOn(spans, day, now)
      detected == IF level = 0 THEN DetectedOn(outages, day, now) ELSE 0
  IN  [level |-> IF detected > 0 THEN 1 ELSE level, detected |-> detected]

\* day_levels, and strip_of once the history is read: days before the
\* service existed show nothing.
Untracked == [level |-> Unset, detected |-> 0]

StripOf(created, incidents, outages, now) ==
  [day \in WindowDays(now) |->
     IF day < LocalDate(created) THEN Untracked
     ELSE TrackedDay(IncidentSpans(incidents, now), OutagesSince(outages, now), day, now)]

\* The outages a service's side panel lists (OutageRepository::recent), and
\* the days of the strip each one is listed under (days_covered).
DaysCovered(outage, firstDay, now) ==
  {day \in LocalDate(outage.start)..LocalDate(EndOrNow(outage, now)) : day >= firstDay}
=============================================================================
