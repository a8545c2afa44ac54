----------------------------- MODULE MCSchedule -----------------------------
(* Processes of every kind of cadence, check and key, on the days around a  *)
(* 29th of February.                                                        *)
EXTENDS Schedule, TLC

CONSTANTS c1, c2
MCConditions == {c1, c2}
Symmetry == Permutations(MCConditions)

Expression(minute, hour, dom, month, dow) == <<minute, hour, dom, month, dow>>
Process(byCron, cron, interval, dedup, always, command) ==
    [byCron |-> byCron, cron |-> cron, interval |-> interval,
     dedup |-> dedup, always |-> always, command |-> command]
Hourly == [number |-> 1, unit |-> "h"]

\* "0 1 29 2 *", "0,30 3-15/12 13 * 5-7" and an interval.
MCDefinition ==
    [leap    |-> Process(TRUE, Expression(<<Value(0)>>, <<Value(1)>>, <<Value(29)>>,
                                          <<Value(2)>>, Star),
                         Hourly, "per-interval", FALSE, FALSE),
     unlucky |-> Process(TRUE, Expression(<<Value(0), Value(30)>>, <<Span(3, 15, 12)>>,
                                          <<Value(13)>>, Star, <<Span(5, 7, 1)>>),
                         Hourly, "per-state", FALSE, TRUE),
     hourly  |-> Process(FALSE, Star, Hourly, "per-state", TRUE, FALSE)]
MCProcesses == DOMAIN MCDefinition

\* 2032-02-29 is a Sunday, and a leap day the first after that of 2028.
LeapDay == Reference + 59 + 1461
MCInstants == {MinutesOf(LeapDay, 0, 59), MinutesOf(LeapDay, 1, 0),
               MinutesOf(LeapDay + 13, 3, 15)}
=============================================================================
