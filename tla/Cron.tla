-------------------------------- MODULE Cron --------------------------------
(***************************************************************************)
(* The cadence of a trigger: cron expressions and intervals, parsed and    *)
(* asked for the occurrence that an instant belongs to.  Everything is     *)
(* UTC and pure.  An instant is a number of minutes since 1970-01-01 and a *)
(* day a number of days since then; text is what its parts say: a field is *)
(* empty for "*" or a sequence of items, an item a range with a step.      *)
(***************************************************************************)
EXTENDS Integers, Sequences, FiniteSets, FiniteSetsExt

FourYears == 4 * 365         \* mutant: a leap day short

LookbackDays == 4 * 366

MinutesOf(day, hour, minute) == (day * 24 + hour) * 60 + minute
DayOf(t) == t \div (24 * 60)
HourOf(t) == (t \div 60) % 24
MinuteOf(t) == t % 60

----------------------------------------------------------------------------
\* The Gregorian calendar: days are counted in eras of 400 years from
\* 0000-03-01, so that the day a leap year adds is the last of its year.
Civil(day) ==
    LET z == day + 719468
        inEra == z % 146097
        yearOfEra == (inEra - inEra \div 1460 + inEra \div 36524
                            - inEra \div 146096) \div 365
        inYear == inEra - (365 * yearOfEra + yearOfEra \div 4
                                           - yearOfEra \div 100)
        marchMonth == (5 * inYear + 2) \div 153
    IN  [month |-> IF marchMonth < 10 THEN marchMonth + 3 ELSE marchMonth - 9,
         dom   |-> inYear - (153 * marchMonth + 2) \div 5 + 1]

\* Monday is 0, as in Python; 1970-01-01 was a Thursday.
Weekday(day) == (day + 3) % 7

----------------------------------------------------------------------------
\* One field of a cron expression.  "*" alone is Star, which leaves a day field
\* unrestricted; "*/n" is an item like any other.
Star == <<>>
Whole(step) == [whole |-> TRUE, from |-> 0, to |-> 0, step |-> step]
Span(lo, hi, step) == [whole |-> FALSE, from |-> lo, to |-> hi, step |-> step]
Value(n) == Span(n, n, 1)
Sunday(n) == IF n = 7 THEN 0 ELSE n

Bounds(item, lo, hi) ==
    IF item.whole THEN [item EXCEPT !.from = lo, !.to = hi] ELSE item

ItemOK(item, lo, hi) ==
    LET b == Bounds(item, lo, hi)
    IN  b.step > 0 /\ lo <= b.from /\ b.from <= b.to /\ b.to <= hi

ItemValues(item, lo, hi) ==
    LET b == Bounds(item, lo, hi)
    IN  {v \in b.from .. b.to : (v - b.from) % b.step = 0}

Items(raw) == IF raw = Star THEN <<Whole(1)>> ELSE raw
FieldOK(raw, lo, hi) == \A n \in DOMAIN Items(raw) : ItemOK(Items(raw)[n], lo, hi)
FieldValues(raw, lo, hi) ==
    UNION {ItemValues(Items(raw)[n], lo, hi) : n \in DOMAIN Items(raw)}

----------------------------------------------------------------------------
\* A day matches either restricted field when both are; both otherwise.
DayMatches(day, s) ==
    LET date == Civil(day)
        domOK == s.domIsStar \/ date.dom \in s.doms
        dowOK == s.dowIsStar \/ (Weekday(day) + 1) % 7 \in s.dows
    IN  /\ date.month \in s.months
        /\ IF s.domIsStar \/ s.dowIsStar THEN domOK /\ dowOK ELSE domOK \/ dowOK

\* 2028-01-01: the day from which a schedule is searched for a match.
Reference == 21184

ScheduleOf(fields) ==
    [minutes   |-> FieldValues(fields[1], 0, 59),
     hours     |-> FieldValues(fields[2], 0, 23),
     doms      |-> FieldValues(fields[3], 1, 31),
     domIsStar |-> fields[3] = Star,
     months    |-> FieldValues(fields[4], 1, 12),
     dows      |-> {Sunday(v) : v \in FieldValues(fields[5], 0, 7)},
     dowIsStar |-> fields[5] = Star]

CronOK(fields) ==
    /\ Len(fields) = 5
    /\ FieldOK(fields[1], 0, 59) /\ FieldOK(fields[2], 0, 23)
    /\ FieldOK(fields[3], 1, 31) /\ FieldOK(fields[4], 1, 12)
    /\ FieldOK(fields[5], 0, 7)
    /\ LET s == ScheduleOf(fields)
       IN  \E day \in Reference .. Reference + LookbackDays - 1 : DayMatches(day, s)

----------------------------------------------------------------------------
\* The minutes of `day' that s names and that are not after t.
Candidates(day, s, t) ==
    {c \in {MinutesOf(day, hour, minute) : hour \in s.hours, minute \in s.minutes} :
        day < DayOf(t) \/ c <= t}

NoOccurrence == -1

\* The walk goes back day by day and stops at the first that has a candidate.
OccurrenceAtOrBefore(s, t) ==
    LET walk == {n \in 0 .. LookbackDays - 1 :
                    /\ DayMatches(DayOf(t) - n, s)
                    /\ Candidates(DayOf(t) - n, s, t) # {}}
    IN  IF walk = {} THEN NoOccurrence
        ELSE Max(Candidates(DayOf(t) - Min(walk), s, t))

\* An interval is a positive number with a unit; its occurrence is the bucket
\* of the epoch the instant falls into.
Seconds(interval) ==
    interval.number * (CASE interval.unit = "h" -> 3600
                         [] interval.unit = "m" -> 60
                         [] OTHER -> 1)
IntervalOK(interval) == interval.number > 0
Bucket(seconds, t) == (t * 60) \div seconds
=============================================================================
