--------------------------- MODULE MCProxyMetering ---------------------------
(* TLC instances of ProxyMetering: three requests, two of one session. *)
EXTENDS ProxyMetering, TLC

CONSTANTS r1, r2, r3, i1, s1

Budget(d, s, w, i) == [daily |-> d, session |-> s, runaway |-> w, includeImported |-> i]

\* The first two requests share a session, the third declares none.
Sessioned == [x \in Requests \cup Imports |-> IF x \in {r1, r2, i1} THEN s1 ELSE NoSession]

DailyOnly == {Budget(2, Unset, Unset, FALSE)}
AnyBudget == {Budget(2, Unset, Unset, TRUE), Budget(Unset, 2, Unset, FALSE), Budget(Unset, Unset, 2, FALSE)}

Alike == Permutations({r1, r2})

\* Days of 24 h, and days that are shorter or longer when the clock is changed.
TwoDays == {0, 2}
ShortDay == {0, 1}
LongDay == {0, 3}  \* DayMs = 2

\* Priced exactly for good, by an estimate, and with no exact rate.
AllPricings == {<<TRUE, FALSE>>, <<TRUE, TRUE>>, <<FALSE, TRUE>>}
Exact == {<<TRUE, FALSE>>}
=============================================================================
