---------------------------- MODULE MCSourceMonitor ----------------------------
\* Model values for checking SourceMonitor: two pollers, which are alike, and
\* one manual request, on a source that changes.
EXTENDS SourceMonitor

CONSTANTS p1, p2, q1

TwoPollers == {p1, p2}
OneRequest == {q1}

================================================================================
