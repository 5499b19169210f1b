--------------------------- MODULE MCStrategicRefresh ---------------------------
\* Model values for checking StrategicRefresh: two workers and a request on
\* the second session, which a worker holds by a lease while it refreshes the
\* first.
EXTENDS StrategicRefresh, TLC

CONSTANTS w1, w2, r1

TwoWorkers == {w1, w2}
OneRequest == {r1}
OnSecond == [r \in Requests |-> 2]

================================================================================
