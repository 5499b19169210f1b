------------------------------- MODULE ReportQueue -------------------------------
(***************************************************************************)
(* Reports about completed simulation runs: the simulation worker, which   *)
(* announces the end of a run in the middle of the transaction that ends   *)
(* it, and report workers, which look for completed runs without a report  *)
(* when they start and whenever the stream gives them events.              *)
(*                                                                         *)
(* The events only wake a report worker; what it does depends on the rows  *)
(* it finds.  It claims them, generates the reports and gives the leases   *)
(* back in one transaction, so that no other process ever sees a lease     *)
(* there: what separates two report workers are row locks.                 *)
(*                                                                         *)
(* The stream is that of module StreamWorker; here events are counted, an  *)
(* event of a round that failed or died comes again, and the bound on      *)
(* failures is below worker_max_attempts, so that none is parked.          *)
(***************************************************************************)
EXTENDS Integers, FiniteSets, Functions

CONSTANTS
    Queued,     \* runs that the simulation worker executes
    Inline,     \* runs executed and reported by the request that creates them
    Reporters,  \* report worker processes
    Limit,      \* runs that a round of a worker claims
    Batch,      \* stream_consumer_count
    MaxUnacked, \* bound: events in the stream that are not acknowledged
    MaxFaults   \* bound: exceptions and killed processes

Runs == Queued \cup Inline

ASSUME RunsAssumption == Queued \cap Inline = {}
ASSUME ReportersAssumption == IsFiniteSet(Reporters)
ASSUME BoundsAssumption ==
    /\ {Limit, Batch, MaxUnacked} \subseteq Nat \ {0}
    /\ MaxFaults \in Nat

VARIABLES
    completed,  \* committed COMPLETED runs, in an order: run -> rank, or 0
    reports,    \* committed reports of each run
    executed,   \* runs that open transactions have executed and announced
    inbox,      \* events nobody has been given
    hand,       \* events each report worker has been given
    at,         \* where each report worker is
    candidates, \* candidates it has read
    claimed,    \* runs it has claimed, in the open transaction
    written,    \* those whose report it has generated
    excused,    \* history: completed runs that wait for the next event
    faults

tables == <<completed, reports>>
reporting == <<hand, at, candidates, claimed, written>>
reportVars == <<tables, executed, inbox, reporting, excused, faults>>

ReportInit ==
    /\ completed = [r \in Runs |-> 0]
    /\ reports = [r \in Runs |-> 0]
    /\ executed = {}
    /\ inbox = 0
    /\ hand = [w \in Reporters |-> 0]
    /\ at = [w \in Reporters |-> "boot"]
    /\ candidates = [w \in Reporters |-> {}]
    /\ claimed = [w \in Reporters |-> {}]
    /\ written = [w \in Reporters |-> {}]
    /\ excused = {}
    /\ faults = 0

Goto(w, where) == at' = [at EXCEPT ![w] = where]
Done == {r \in Runs : completed[r] > 0}

\* Events in the stream that are not acknowledged.
Unacked == inbox + SumFunction(hand)

\* An event that no report worker has begun to act on, or a start to come.
Wakes == inbox > 0 \/ \E w \in Reporters : at[w] \in {"boot", "select"}

(***************************************************************************)
(* Simulations.                                                            *)
(***************************************************************************)

\* SIMULATION_COMPLETED or SCENARIO_COMPLETED is published when the run has
\* been executed; its options, versions and commit are still to come.
Execute(r) ==
    /\ r \notin Done \cup executed
    /\ Unacked < MaxUnacked
    /\ executed' = executed \cup {r}
    /\ inbox' = inbox + 1
    /\ UNCHANGED <<tables, reporting, excused, faults>>

\* The commit of rs.  completed_at is taken before, per run; runs of one batch
\* are not told apart.  A request commits its run and the report together.
Complete(rs) ==
    /\ completed' = [r \in Runs |-> IF r \in rs THEN Cardinality(Done) + 1 ELSE completed[r]]
    /\ reports' = [r \in Runs |-> IF r \in rs \cap Inline THEN 1 ELSE reports[r]]

\* The simulation worker commits its round at once; a request its own run.
Commit ==
    \E rs \in {executed \cap Queued} \cup {{r} : r \in executed \cap Inline} :
        /\ rs # {}
        /\ Complete(rs)
        /\ executed' = executed \ rs
        /\ excused' = IF Wakes THEN excused ELSE excused \cup (rs \cap Queued)
        /\ UNCHANGED <<inbox, reporting, faults>>

\* An exception or a crash takes back the runs, not the events.
Rollback ==
    /\ executed # {}
    /\ faults < MaxFaults
    /\ faults' = faults + 1
    /\ \E rs \in {executed \cap Queued} \cup {{r} : r \in executed \cap Inline} :
        executed' = executed \ rs
    /\ UNCHANGED <<tables, inbox, reporting, excused>>

\* An event about some other run.
OtherEvent ==
    /\ inbox = 0
    /\ Unacked < MaxUnacked
    /\ inbox' = 1
    /\ UNCHANGED <<tables, executed, reporting, excused, faults>>

(***************************************************************************)
(* A report worker.                                                        *)
(***************************************************************************)

\* Up to Batch events come at once.
Consume(w) ==
    /\ at[w] = "wait"
    /\ \E n \in 1..Batch :
        /\ n <= inbox
        /\ inbox' = inbox - n
        /\ hand' = [hand EXCEPT ![w] = n]
    /\ Goto(w, "select")
    /\ UNCHANGED <<tables, executed, candidates, claimed, written, excused, faults>>

\* Mutant of Unreported: reports are not looked at.
UnreportedAny == Done

\* Mutant of Unreported: a run that was passed over is not selected again.
UnreportedOnce == {r \in Done \ excused : reports[r] = 0}

Unreported == {r \in Done : reports[r] = 0}

\* The first n of rs by completion; those of one batch in any order.
Firsts(rs, n) ==
    {f \in SUBSET rs :
        /\ Cardinality(f) = IF Cardinality(rs) < n THEN Cardinality(rs) ELSE n
        /\ \A r \in f, q \in rs \ f : completed[r] <= completed[q]}

\* The candidates of the first select, Limit * 3 at most; the others wait.
Select(w) ==
    /\ at[w] \in {"boot", "select"}
    /\ \E rs \in Firsts(Unreported, 3 * Limit) :
        /\ candidates' = [candidates EXCEPT ![w] = rs]
        /\ excused' = excused \cup (Unreported \ rs)
    /\ Goto(w, "claim")
    /\ UNCHANGED <<tables, executed, inbox, hand, claimed, written, faults>>

LockedByOther(w, r) == \E v \in Reporters \ {w} : r \in claimed[v]

\* The update waits for the row.  It asks for the status and a free lease,
\* which it always finds, and not again for a report.
Claim(w) ==
    /\ at[w] = "claim"
    /\ candidates[w] # {} /\ Cardinality(claimed[w]) < Limit
    /\ \E f \in Firsts(candidates[w], 1) : \E r \in f :
        /\ ~LockedByOther(w, r)
        /\ claimed' = [claimed EXCEPT ![w] = @ \cup {r}]
        /\ candidates' = [candidates EXCEPT ![w] = @ \ {r}]
    /\ UNCHANGED <<tables, executed, inbox, hand, at, written, excused, faults>>

\* The reports are generated one after the other.  A report that fails is
\* logged and left out; the row is given back with the others.
Generate(w) ==
    /\ at[w] = "claim"
    /\ candidates[w] = {} \/ Cardinality(claimed[w]) = Limit
    /\ \E bad \in SUBSET claimed[w] :
        /\ faults + Cardinality(bad) <= MaxFaults
        /\ faults' = faults + Cardinality(bad)
        /\ written' = [written EXCEPT ![w] = claimed[w] \ bad]
    /\ Goto(w, "commit")
    /\ UNCHANGED <<tables, executed, inbox, hand, candidates, claimed, excused>>

Rest(w) ==
    /\ candidates' = [candidates EXCEPT ![w] = {}]
    /\ claimed' = [claimed EXCEPT ![w] = {}]
    /\ written' = [written EXCEPT ![w] = {}]

\* The round commits, and its events are acknowledged later.  It leaves behind
\* the reports that failed, and the candidates it did not get to.
CommitReports(w) ==
    /\ at[w] = "commit"
    /\ reports' = [r \in Runs |-> IF r \in written[w] THEN reports[r] + 1 ELSE reports[r]]
    /\ excused' = excused \cup candidates[w] \cup (claimed[w] \ written[w])
    /\ Rest(w)
    /\ Goto(w, "ack")
    /\ UNCHANGED <<completed, executed, inbox, hand, faults>>

Ack(w) ==
    /\ at[w] = "ack"
    /\ hand' = [hand EXCEPT ![w] = 0]
    /\ Goto(w, "wait")
    /\ UNCHANGED <<tables, executed, inbox, candidates, claimed, written, excused, faults>>

\* Mutant of Fails: the events of a failed round are acknowledged.
FailsAcked(w) ==
    /\ faults < MaxFaults
    /\ faults' = faults + 1
    /\ hand' = [hand EXCEPT ![w] = 0]
    /\ Rest(w)
    /\ UNCHANGED <<tables, executed, inbox, excused>>

\* The transaction is rolled back; the events come again.
Fails(w) ==
    /\ faults < MaxFaults
    /\ faults' = faults + 1
    /\ inbox' = inbox + hand[w]
    /\ hand' = [hand EXCEPT ![w] = 0]
    /\ Rest(w)
    /\ UNCHANGED <<tables, executed, excused>>

\* A database error ends the round, and the process when it was the sweep at
\* its start; a killed process starts again.
RoundFails(w) ==
    /\ at[w] \in {"claim", "commit"}
    /\ Fails(w)
    /\ Goto(w, IF hand[w] = 0 THEN "boot" ELSE "wait")

Kill(w) ==
    /\ Fails(w)
    /\ Goto(w, "boot")

Reporter(w) ==
    Consume(w) \/ Select(w) \/ Claim(w) \/ Generate(w) \/ CommitReports(w) \/ Ack(w)

ReportNext ==
    \/ \E r \in Runs : Execute(r)
    \/ Commit \/ Rollback \/ OtherEvent
    \/ \E w \in Reporters : Reporter(w) \/ RoundFails(w) \/ Kill(w)

ReportSpec == ReportInit /\ [][ReportNext]_reportVars

\* Report workers go on with their rounds, and wait for each other's rows
\* only as long as a round takes.
ReportFairSpec == ReportSpec /\ \A w \in Reporters : WF_reportVars(Reporter(w))

(***************************************************************************)
(* Properties.                                                             *)
(***************************************************************************)

\* The values of the columns and of the local variables.
ReportTypeOK ==
    /\ completed \in [Runs -> Nat] /\ IsFiniteSet(Done)
    /\ reports \in [Runs -> Nat]
    /\ executed \subseteq Runs /\ IsFiniteSet(executed)
    /\ inbox \in Nat
    /\ hand \in [Reporters -> Nat]
    /\ at \in [Reporters -> {"boot", "wait", "select", "claim", "commit", "ack"}]
    /\ candidates \in [Reporters -> SUBSET Done]
    /\ claimed \in [Reporters -> SUBSET Done]
    /\ written \in [Reporters -> SUBSET Done]
    /\ excused \subseteq Done
    /\ faults \in 0..MaxFaults

\* A completed run without a report is in the hands of a report worker, or a
\* wake-up is on its way, or it is known why there is none: its event came
\* before its commit, its report failed, or a round was full.  No failed or
\* killed round, and no race of two of them, loses a run in any other way.
UnreportedHasReason ==
    \A r \in Unreported :
        \/ Wakes
        \/ r \in excused
        \/ \E w \in Reporters : r \in candidates[w] \cup claimed[w]

\* A run can get a second report, as the claim does not look for one again,
\* but only from a worker that read it as a candidate before the first was
\* committed; so there are never more reports than workers.
OneReportPerWorker == \A r \in Queued : reports[r] <= Cardinality(Reporters)

\* As long as events of any kind keep coming, every completed run gets its
\* report, also the runs that were passed over before.  Failures are bounded
\* here (MaxFaults): _claim_report_runs has no limit of attempts and takes the
\* oldest runs first, so a batch of runs whose reports always fail would be
\* claimed in every round, and the runs after them in none.
ReportsAppear ==
    []<>(inbox > 0) => \A r \in Runs : completed[r] > 0 ~> reports[r] > 0

================================================================================
