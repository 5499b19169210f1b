----------------------------- MODULE MCReportQueue -----------------------------
\* Model values for checking ReportQueue: two report workers, queued runs and
\* one inline run.
EXTENDS ReportQueue, TLC

CONSTANTS a, b, i, w1, w2

TwoRuns == {a, b}
OneInline == {i}
TwoReporters == {w1, w2}

================================================================================
