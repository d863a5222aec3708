--------------------------- MODULE InterviewTimes ---------------------------
(***************************************************************************)
(* The instant an interview is scheduled at.  The employer names a local   *)
(* date and time and a time zone; the instant is stored, and the time is   *)
(* refused when the clocks of the zone never show it, show it twice, or    *)
(* showed it already.                                                      *)
(*                                                                         *)
(* Source: resolveSchedule and parseLocalSchedule of interviews.service.js.*)
(* The runtime tells what the clocks of a zone show at an instant          *)
(* (intlParts); it does not tell which instants show a time.  The service  *)
(* collects the offsets in force around that time, as if it were UTC, and  *)
(* tries each of them.                                                     *)
(*                                                                         *)
(* Instants and local times are integers, in quarters of an hour: every    *)
(* offset in use is a multiple of one.  A zone changes its offset at most  *)
(* twice in the days around the time; the offset between two changes is in *)
(* force for at least MinStay.  Dates that are none (30 February) and zone *)
(* names that are none are refused before, and are left out.               *)
(***************************************************************************)
EXTENDS Integers

CONSTANTS
    Zones,          \* what the zones' clocks do around the times asked for
    LocalTimes,     \* the times asked for
    Moments         \* when

ASSUME TimesAssumption == LocalTimes \subseteq Int

VARIABLES
    zone,           \* the zone in question
    now,
    answer          \* the last request and its outcome

timeVars == <<zone, now, answer>>

-----------------------------------------------------------------------------
(* State *)

Hour == 4
West == -12 * Hour      \* the least offset in use
East == 14 * Hour       \* the greatest
MinStay == 3 * Hour

\* Offset first until the instant start, second until end, third after it.
Zone == [first : West .. East, second : West .. East, third : West .. East,
         start : Int, end : Int]

Outcomes == {"none", "absent", "ambiguous", "past", "scheduled"}

\* at: Interview.scheduledAt of a scheduled one, the instant of a past one.
Answers == [local : Int, outcome : Outcomes, at : Int]

TimesTypeOK ==
    /\ zone \in Zone
    /\ now \in Moments
    /\ answer \in Answers

InitTimes ==
    /\ zone \in {z \in Zones : z \in Zone /\ z.end - z.start >= MinStay}
    /\ now \in Moments
    /\ answer = [local |-> 0, outcome |-> "none", at |-> 0]

-----------------------------------------------------------------------------
(* The conversion *)

Offset(t) ==
    IF t < zone.start THEN zone.first ELSE IF t < zone.end THEN zone.second ELSE zone.third

\* intlParts: what the clocks of the zone show at an instant.
Shown(t) == t + Offset(t)

\* Mistake: twelve hours to either side.
HalfADay == {3 * k : k \in -4 .. 4}

\* hours = -36, -33, ..., 36
SampleHours == {3 * k : k \in -12 .. 12}

OffsetsAround(local) == {Offset(local + Hour * h) : h \in SampleHours}

\* matches
Matches(local) ==
    {t \in {local - offset : offset \in OffsetsAround(local)} : Shown(t) = local}

\* parseLocalSchedule, and the comparison with the present of resolveSchedule
Resolve(local) ==
    LET m == Matches(local)
        t == CHOOSE u \in m : TRUE
    IN  IF m = {} THEN [local |-> local, outcome |-> "absent", at |-> 0]
        ELSE IF m # {t} THEN [local |-> local, outcome |-> "ambiguous", at |-> 0]
        ELSE [local |-> local, at |-> t,
              outcome |-> IF t <= now THEN "past" ELSE "scheduled"]

-----------------------------------------------------------------------------
(* Specification *)

\* createInterview, and updateInterview when the input names a new time
Schedule(local) ==
    /\ answer' = Resolve(local)
    /\ UNCHANGED <<zone, now>>

TimePasses ==
    /\ \E t \in Moments : t > now /\ now' = t
    /\ UNCHANGED <<zone, answer>>

NextTimes ==
    \/ \E local \in LocalTimes : Schedule(local)
    \/ TimePasses

SpecTimes == InitTimes /\ [][NextTimes]_timeVars

-----------------------------------------------------------------------------
(* Properties *)

\* The instants at which the clocks of any zone may show the time.
Possible(local) == (local - East) .. (local - West)

\* An interview is scheduled at the one instant at which the clocks of its zone show the
\* time that was asked for; a time is refused as missing only if they never show it and as
\* ambiguous only if they show it twice, close to a clock change or to the date line
\* (parseLocalSchedule).
ScheduledAsAsked ==
    LET shows(t) == t \in Possible(answer.local) /\ Shown(t) = answer.local IN
    /\ answer.outcome \in {"scheduled", "past"} =>
         /\ shows(answer.at)
         /\ \A t \in Possible(answer.local) : shows(t) => t = answer.at
    /\ answer.outcome = "absent" => \A t \in Possible(answer.local) : ~shows(t)
    /\ answer.outcome = "ambiguous" =>
         \E t, u \in Possible(answer.local) : t # u /\ shows(t) /\ shows(u)

=============================================================================
