-------------------------------- MODULE Cron --------------------------------
(***************************************************************************)
(* internal/cronx: the expressions behind schedules, and Next, the search   *)
(* for the next firing time that every snapshot of the state makes for      *)
(* every schedule.                                                          *)
(*                                                                          *)
(* Time is counted in minutes of an absolute clock; a zone gives the local  *)
(* clock, with one change of its offset.  time.Date, external, turns a      *)
(* local reading into an instant: of a reading that occurs twice or never   *)
(* it takes the offset the runtime finds first.                             *)
(***************************************************************************)
EXTENDS Integers, FiniteSets

CONSTANTS MinutesPerHour, HoursPerDay, DaysPerWeek, DaysPerMonth, Months,
          Years,        \* bound: how far Next looks, the code's four
          Expressions,  \* records of a field for each part of an expression
          Zones,        \* [before, after, at]: the offset changes at an instant
          From          \* instants Next is asked about

ASSUME CronAssumption ==
    /\ MinutesPerHour \in Nat \ {0} /\ HoursPerDay \in Nat \ {0, 1}
    /\ DaysPerWeek \in Nat \ {0} /\ DaysPerMonth \in Nat \ {0} /\ Months \in Nat \ {0}
    /\ Years \in Nat
    /\ Zones \subseteq [before : Int, after : Int, at : Int] /\ From \subseteq Int

VARIABLES sched,        \* the compiled Schedule
          zone,
          since,        \* Next's argument
          cand,         \* the candidate c
        turn,         \* flips at every turn of the loop: a turn that leaves
                      \* c where it was is a step too
          found         \* what Next returned: an instant, "none", or "searching"

cronVars == <<sched, zone, since, cand, turn, found>>

MinutesPerDay == MinutesPerHour * HoursPerDay
FieldNames == {"minute", "hour", "dom", "month", "dow"}

LowOf == [minute |-> 0, hour |-> 0, dom |-> 1, month |-> 1, dow |-> 0]
HighOf == [minute |-> MinutesPerHour - 1, hour |-> HoursPerDay - 1,
           dom |-> DaysPerMonth, month |-> Months, dow |-> DaysPerWeek - 1]

(***************************************************************************)
(* Parse                                                                    *)
(***************************************************************************)

\* A field is a set of parts: all, a value or a range of two, with a step.
All == [kind |-> "all", low |-> 0, high |-> 0, every |-> 1]
Value(v) == [kind |-> "value", low |-> v, high |-> v, every |-> 1]
Between(v, w) == [kind |-> "range", low |-> v, high |-> w, every |-> 1]
Every(part, n) == [part EXCEPT !.every = n]

\* parseValue: the day after the last day of the week is the first.
ParseValue(v, f) == IF f = "dow" /\ v = DaysPerWeek THEN 0 ELSE v

\* parsePart, with the errors that refuse a schedule.
Reads(part, f) ==
    LET v == ParseValue(part.low, f)  w == ParseValue(part.high, f) IN
    /\ part.every >= 1
    /\ part.kind # "all" => v \in LowOf[f]..HighOf[f] /\ w \in LowOf[f]..HighOf[f]
    /\ part.kind = "range" => v <= w

ParsePart(part, f) ==
    LET low == IF part.kind = "all" THEN LowOf[f] ELSE ParseValue(part.low, f)
        high == IF part.kind = "all" \/ (part.kind = "value" /\ part.every > 1)
                THEN HighOf[f] ELSE ParseValue(part.high, f)
    IN {v \in low..high : (v - low) % part.every = 0}

ParseField(parts, f) == UNION {ParsePart(p, f) : p \in parts}

Parses(expr) == \A f \in FieldNames : \A p \in expr[f] : Reads(p, f)

Parse(expr) == [of |-> [f \in FieldNames |-> ParseField(expr[f], f)],
                domRestricted |-> expr.dom # {All},
                dowRestricted |-> expr.dow # {All}]

(***************************************************************************)
(* The local clock                                                          *)
(***************************************************************************)

Offset(z, i) == IF i < z.at THEN z.before ELSE z.after
Local(i) == i + Offset(zone, i)

\* time.Date: the offset is looked up as if the reading were an absolute
\* time, and once more when the change lies in between.
Instant(l) ==
    LET i == l - Offset(zone, l)
    IN IF (i < zone.at) = (l < zone.at) THEN i ELSE l - Offset(zone, i)

Day(i) == Local(i) \div MinutesPerDay
Clock(i) == [minute |-> Local(i) % MinutesPerHour,
             hour |-> (Local(i) \div MinutesPerHour) % HoursPerDay,
             dom |-> (Day(i) % DaysPerMonth) + 1,
             month |-> ((Day(i) \div DaysPerMonth) % Months) + 1,
             dow |-> Day(i) % DaysPerWeek]

\* AddDate keeps the local reading.
AddDays(i, n) == Instant(Local(i) + n * MinutesPerDay)

StartOfHour(i) == Instant(Local(i) - Clock(i).minute)
StartOfDay(i) == Instant(Day(i) * MinutesPerDay)
StartOfMonth(i) == Instant((Day(i) - Clock(i).dom + 1) * MinutesPerDay)

(***************************************************************************)
(* Match and Next                                                           *)
(***************************************************************************)

Hit(f, i) == Clock(i)[f] \in sched.of[f]

\* Mutant: a day of the month and a weekday both have to fit.
BothDays(i) ==
    /\ sched.domRestricted => Hit("dom", i)
    /\ sched.dowRestricted => Hit("dow", i)

DayMatches(i) ==
    IF sched.domRestricted /\ sched.dowRestricted THEN Hit("dom", i) \/ Hit("dow", i)
    ELSE /\ sched.domRestricted => Hit("dom", i)
         /\ sched.dowRestricted => Hit("dow", i)

\* Match repeats the rule about days.
Match(i) ==
    /\ Hit("minute", i) /\ Hit("hour", i) /\ Hit("month", i)
    /\ CASE sched.domRestricted /\ sched.dowRestricted -> Hit("dom", i) \/ Hit("dow", i)
         [] sched.domRestricted /\ ~sched.dowRestricted -> Hit("dom", i)
         [] ~sched.domRestricted /\ sched.dowRestricted -> Hit("dow", i)
         [] OTHER -> TRUE

Limit == AddDays(since + 1, Years * Months * DaysPerMonth)

CronInit ==
    /\ sched \in {Parse(e) : e \in {x \in Expressions : Parses(x)}}
    /\ zone \in Zones
    /\ since \in From
    /\ cand = since + 1
    /\ turn = 0
    /\ found = "searching"

Ready == found = "searching" /\ cand < Limit
Goes(i) == cand' = i /\ turn' = 1 - turn /\ UNCHANGED <<sched, zone, since, found>>

SkipMonth ==
    /\ Ready /\ ~Hit("month", cand)
    /\ Goes(AddDays(StartOfMonth(cand), DaysPerMonth))

SkipDay ==
    /\ Ready /\ Hit("month", cand) /\ ~DayMatches(cand)
    /\ Goes(AddDays(StartOfDay(cand), 1))

\* Mutant: the minute is kept.
HourAdded(i) == i + MinutesPerHour

\* Mutant: the hour begins again.
SameHour(i) == StartOfHour(i)

NextHour(i) == StartOfHour(i) + MinutesPerHour

SkipHour ==
    /\ Ready /\ Hit("month", cand) /\ DayMatches(cand) /\ ~Hit("hour", cand)
    /\ Goes(NextHour(cand))

SkipMinute ==
    /\ Ready /\ Hit("month", cand) /\ DayMatches(cand) /\ Hit("hour", cand)
    /\ ~Hit("minute", cand)
    /\ Goes(cand + 1)

Finds ==
    /\ Ready /\ Hit("month", cand) /\ DayMatches(cand) /\ Hit("hour", cand)
    /\ Hit("minute", cand)
    /\ found' = "found"
    /\ UNCHANGED <<sched, zone, since, cand, turn>>

GivesUp ==
    /\ found = "searching" /\ cand >= Limit
    /\ found' = "none"
    /\ UNCHANGED <<sched, zone, since, cand, turn>>

CronNext == SkipMonth \/ SkipDay \/ SkipHour \/ SkipMinute \/ Finds \/ GivesUp

\* The loop runs.
CronSpec == CronInit /\ [][CronNext]_cronVars /\ WF_cronVars(CronNext)

(***************************************************************************)
(* Properties                                                               *)
(***************************************************************************)

CronTypeOK ==
    /\ sched \in [of : [FieldNames -> SUBSET Int], domRestricted : BOOLEAN,
                  dowRestricted : BOOLEAN]
    /\ zone \in Zones /\ since \in From /\ cand \in Int /\ turn \in {0, 1}
    /\ found \in {"searching", "found", "none"}

\* "Next returns the first firing time strictly after t" (cronx/cron.go:224),
\* whatever the change of clocks does: the time it returns fires, and nothing
\* fires between; "or the zero time if the expression cannot fire".
NextIsFirst ==
    /\ found = "found" => /\ cand > since /\ Match(cand)
                          /\ \A i \in since + 1..cand - 1 : ~Match(i)
    /\ found = "none" => \A i \in since + 1..Limit - 1 : ~Match(i)

\* A zone that changes by an hour, on the hour; and if the change skips or
\* repeats a midnight, west of Greenwich.
OnTheHour(z) ==
    LET low == IF z.before < z.after THEN z.before ELSE z.after IN
    /\ (z.at + z.before) % MinutesPerHour = 0
    /\ z.after - z.before \in {-MinutesPerHour, 0, MinutesPerHour}
    /\ z.before # z.after /\ (z.at + low) % MinutesPerDay = 0 => low < 0

\* A zone whose clock never skips a midnight, and where time.Date takes the
\* second of two equal readings, as it does from Greenwich east.
Smooth(z) ==
    /\ z.before > z.after => z.after >= 0
    /\ z.before < z.after => ~\E l \in z.at + z.before..z.at + z.after - 1 : l % MinutesPerDay = 0

\* In a smooth zone the search goes forward at every step, so it ends: the weekday, the
\* month and the hour all skip ahead without ever coming back to where it was.
SearchGoesForward == [][Smooth(zone) /\ turn' # turn => cand' > cand]_cronVars

\* "the zero time if the expression cannot fire within four years": Next
\* returns, in every zone.
NextReturns == found = "searching" ~> found # "searching"
=============================================================================
