------------------------- MODULE PredictionRevision -------------------------
(***************************************************************************)
(* Revision of predictions when the evidence they rest on changes: the     *)
(* prediction-revision worker, the simulation worker and the event bus     *)
(* between them.                                                           *)
(*                                                                         *)
(* A simulation run that a user queued starts a number of prediction       *)
(* series, one for each of its options.  An event about an evidence item   *)
(* makes the revision worker create a job for every series that rests on   *)
(* the item and has no active job; a user may ask for a job at any time.   *)
(* The job queues a new run of the simulation and, when that run has       *)
(* completed, appends a version to the series.                             *)
(*                                                                         *)
(* Neither worker looks at its queue on its own account: the simulation    *)
(* worker sweeps when it starts and after an event of its topics, and the  *)
(* revision worker, which reads its topics inside its round, waits there   *)
(* until an event arrives.                                                 *)
(*                                                                         *)
(* There is one evidence item whose changes are told apart only by their   *)
(* number, news.  Run 0 is the user's, and run j > 0 that of job j.        *)
(***************************************************************************)
EXTENDS Integers, Sequences, FiniteSets, FiniteSetsExt

CONSTANTS
    MaxAttempts,  \* worker_max_attempts
    Limit,        \* rows a worker claims in one round
    MaxNews,      \* bound: changes of the evidence item
    MaxJobs,      \* bound: revision jobs ever committed, and those of the open round
    MaxSeries,    \* bound: series that run 0 starts, which all rest on the item
    MaxFaults     \* bound: deaths of a worker and failed publications

ASSUME LimitsAssumption ==
    /\ MaxAttempts \in Nat \ {0} /\ Limit \in Nat \ {0}
    /\ MaxNews \in Nat /\ MaxJobs \in Nat /\ MaxSeries \in Nat /\ MaxFaults \in Nat

VARIABLES
    news,      \* changes of the evidence item that are committed
    inbox,     \* events about it that the revision group has not been given
    unacked,   \* those that a dead process was given and did not acknowledge
    knowledge, \* there is an event about something else for the revision group
    wake,      \* there is a KNOWLEDGE_EXTRACTED event for the simulation group
    jobs,      \* committed revision jobs, in order of creation
    runs,      \* simulation runs; "none" where there is no row yet
    chains,    \* series -> its versions, none before the series exists; the
               \* last one is ACTIVE and current
    phase,     \* where the revision worker is in its round
    hand,      \* events about the item it still has to handle
    session,   \* jobs and versions as its open transaction sees them
    todo,      \* jobs it has claimed in this round
    simPhase,  \* where the simulation worker is
    simTodo,   \* runs it has claimed and not executed
    simRuns,   \* the runs it has executed, as its open transaction sees them
    missed,    \* history: series that missed a change, not because of a crash
    faults

bus == <<inbox, unacked, knowledge, wake>>
tables == <<jobs, runs, chains>>
revisionWorker == <<phase, hand, session, todo>>
simulationWorker == <<simPhase, simTodo, simRuns>>
vars == <<news, bus, tables, revisionWorker, simulationWorker, missed, faults>>

Ids == 0..MaxJobs
JobIds == 1..MaxJobs
Series == 1..MaxSeries

\* No row of a job yet.
NoJob == [series |-> 0, base |-> 0, manual |-> FALSE, status |-> "none"]
Rows(js) == {j \in JobIds : js[j].status # "none"}

\* Rows of snapshots and decisions, the changes read and the series started belong
\* to the last execution of a run that was committed.
NoRun == [status |-> "none", attempts |-> 0, rows |-> FALSE, read |-> 0, series |-> {}]
Queued == [NoRun EXCEPT !.status = "PENDING"]

\* The first rows of a queue, in order of creation.
Claimed(ids) == {i \in ids : Cardinality({j \in ids : j < i}) < Limit}

\* Nothing executed in the transaction of the simulation worker.
NoneRun == [i \in Ids |-> NoRun]

\* The last version of a series, which exists.
Latest(chain) == chain[Len(chain)]

Active(job) == job.status \in {"PENDING", "PROCESSING"}

Init ==
    /\ news = 0 /\ inbox = 0 /\ unacked = 0 /\ knowledge = FALSE /\ wake = FALSE
    /\ jobs = [j \in JobIds |-> NoJob]
    /\ runs = [NoneRun EXCEPT ![0] = Queued]
    /\ chains = [s \in Series |-> <<>>]
    /\ phase = "waiting" /\ hand = 0 /\ todo = {}
    /\ session = [jobs |-> jobs, chains |-> chains, counted |-> FALSE]
    /\ simPhase = "boot" /\ simTodo = {} /\ simRuns = NoneRun
    /\ missed = {} /\ faults = 0

-----------------------------------------------------------------------------
(* Services outside the two workers.                                       *)

\* A claim of the evidence item is accepted: the commit, then EVIDENCE_CREATED.
NewsArrives ==
    /\ news < MaxNews
    /\ news' = news + 1
    /\ inbox' = inbox + 1
    /\ UNCHANGED <<unacked, knowledge, wake, tables, revisionWorker,
                   simulationWorker, missed, faults>>

\* The number of the latest job, committed or not.
Newest == Max({0} \cup Rows(jobs) \cup Rows(session.jobs))

\* A job to revise the latest version that is committed.
NewJob(s, manual) ==
    [series |-> s, base |-> Len(chains[s]), manual |-> manual, status |-> "PENDING"]

\* A user's request for a new forecast, whether or not a job of the series is
\* active.  The open round reads what is committed.  Its event carries no evidence
\* item the worker would look for, so that it only wakes the worker, if it is
\* published after the commit.
Reforecast ==
    /\ Newest < MaxJobs
    /\ \E s \in Series :
         /\ chains[s] # <<>>
         /\ jobs' = [jobs EXCEPT ![Newest + 1] = NewJob(s, TRUE)]
         /\ session' = [session EXCEPT !.jobs[Newest + 1] = NewJob(s, TRUE)]
    /\ knowledge' \in {knowledge, TRUE}
    /\ UNCHANGED <<news, inbox, unacked, wake, runs, chains, phase, hand, todo,
                   simulationWorker, missed, faults>>

\* KNOWLEDGE_EXTRACTED for some other item: both groups read the topic.
OtherKnowledge ==
    /\ knowledge' = TRUE
    /\ wake' = TRUE
    /\ UNCHANGED <<news, inbox, unacked, tables, revisionWorker,
                   simulationWorker, missed, faults>>

-----------------------------------------------------------------------------
(* The simulation worker.                                                  *)

SimulationSweep ==
    LET queue == Claimed({i \in Ids : runs[i].status = "PENDING"}) IN
    /\ \/ simPhase = "boot" /\ simPhase' = "booting" /\ UNCHANGED wake
       \/ simPhase = "waiting" /\ wake /\ simPhase' = "running" /\ wake' = FALSE
    /\ simTodo' = queue
    /\ UNCHANGED <<news, inbox, unacked, knowledge, tables, revisionWorker,
                   simRuns, missed, faults>>

\* The run under way.
InHand == Min(simTodo)
Executing ==
    /\ simPhase \in {"booting", "running"}
    /\ simTodo # {}

Execute(result) ==
    /\ Executing
    /\ ~runs[InHand].rows
    /\ simRuns' = [simRuns EXCEPT ![InHand] = [result EXCEPT !.attempts = runs[InHand].attempts + 1]]
    /\ simTodo' = simTodo \ {InHand}
    /\ UNCHANGED <<news, bus, tables, revisionWorker, simPhase, missed, faults>>

\* An execution that got as far as its rows.  Only the user's run starts series:
\* the configuration of the others says which version they revise.
Reached(status, series) ==
    /\ Execute([Queued EXCEPT !.status = status, !.rows = TRUE, !.read = news,
                              !.series = series])
    /\ InHand # 0 => series = {}

RunCompletes == Reached("COMPLETED", IF InHand = 0 THEN Series ELSE {})

AfterFailure == IF runs[InHand].attempts + 1 >= MaxAttempts THEN "FAILED" ELSE "PENDING"

\* An exception before the first state and decision rows were added, after them,
\* or after some of the series: what was added stays in the session and is
\* committed with the failure.
RunFails ==
    /\ Executing
    /\ \/ Execute([Queued EXCEPT !.status = AfterFailure])
       \/ \E begun \in 0..MaxSeries : Reached(AfterFailure, 1..begun)

\* The rows of an earlier attempt violate the unique keys of the new ones.  The
\* session is then unusable, so the handler of the failure raises as well and
\* the whole transaction is rolled back.  The event is retried or dead-lettered;
\* at startup the process ends and is started again.
RunCollides ==
    /\ Executing
    /\ runs[InHand].rows
    /\ simTodo' = {} /\ simRuns' = NoneRun
    /\ simPhase' = IF simPhase = "booting" THEN "boot" ELSE "waiting"
    /\ \/ UNCHANGED <<wake, knowledge>>
       \/ simPhase = "running" /\ wake' = TRUE /\ knowledge' = TRUE
    /\ UNCHANGED <<news, inbox, unacked, tables, revisionWorker, missed, faults>>

SimulationCommits ==
    /\ simPhase \in {"booting", "running"} /\ simTodo = {}
    /\ runs' = [i \in Ids |-> IF simRuns[i].status = "none" THEN runs[i] ELSE simRuns[i]]
    /\ chains' = [s \in Series |->
                    IF s \in simRuns[0].series THEN <<[run |-> 0, parent |-> 0]>>
                    ELSE chains[s]]
    \* A change handled before the series existed passes it by.
    /\ missed' = IF simRuns[0].read < news THEN missed \cup simRuns[0].series ELSE missed
    /\ simPhase' = "waiting" /\ simRuns' = NoneRun
    /\ UNCHANGED <<news, bus, jobs, revisionWorker, simTodo, faults>>

SimulationCrash ==
    /\ simPhase # "boot" /\ faults < MaxFaults
    /\ simPhase' = "boot" /\ simTodo' = {} /\ simRuns' = NoneRun
    /\ faults' = faults + 1
    /\ UNCHANGED <<news, bus, tables, revisionWorker, missed>>

-----------------------------------------------------------------------------
(* The revision worker.                                                    *)

BeginRound ==
    /\ phase' = "events"
    /\ session' = [jobs |-> jobs, chains |-> chains, counted |-> FALSE]

\* Events of a dead process, once they have been idle for a minute.
Reclaim ==
    /\ phase = "waiting" /\ unacked > 0
    /\ BeginRound
    /\ hand' = unacked /\ unacked' = 0
    /\ UNCHANGED <<news, inbox, knowledge, wake, tables, todo, simulationWorker,
                   missed, faults>>

\* XREADGROUP with BLOCK 0, which waits until there is an event.
Consume ==
    /\ phase = "waiting" /\ (inbox > 0 \/ knowledge)
    /\ BeginRound
    /\ hand' = inbox /\ inbox' = 0 /\ knowledge' = FALSE
    /\ UNCHANGED <<news, unacked, wake, tables, todo, simulationWorker, missed, faults>>

\* Mutant of HasActiveJob: only jobs whose simulation has not been started.
HasPendingJob(s) ==
    \E j \in JobIds : session.jobs[j].series = s /\ session.jobs[j].status = "PENDING"

HasActiveJob(s) ==
    \E j \in JobIds : session.jobs[j].series = s /\ Active(session.jobs[j])

Concerned == {s \in Series : chains[s] # <<>>}

\* The jobs of a session after jobs for a set of series were added, in order.
WithJobs(set) ==
    LET Added(j) == {s \in set : Newest + Cardinality({t \in set : t <= s}) = j} IN
    [j \in JobIds |-> IF Added(j) = {} THEN session.jobs[j]
                      ELSE NewJob(CHOOSE s \in Added(j) : TRUE, FALSE)]

\* What the latest execution of a run, committed or not, has read.
Executed(i) == IF simRuns[i].status = "none" THEN runs[i] ELSE simRuns[i]
UpToDate(i) == Executed(i).status = "COMPLETED" => Executed(i).read = news

\* Series whose active job has already run its simulation on older evidence.
PassedBy ==
    {s \in Concerned :
        /\ HasActiveJob(s)
        /\ \A j \in JobIds :
              session.jobs[j].series = s /\ Active(session.jobs[j]) => ~UpToDate(j)}

\* Mutant of HandleEvent: the request is not announced on the bus.
HandleEventQuietly ==
    LET new == {s \in Concerned : ~HasActiveJob(s)} IN
    /\ phase = "events" /\ hand > 0
    /\ Newest + Cardinality(new) <= MaxJobs
    /\ session' = [session EXCEPT !.jobs = WithJobs(new), !.counted = @ \/ new # {}]
    /\ hand' = hand - 1
    /\ missed' = missed \cup PassedBy
    /\ UNCHANGED <<news, inbox, unacked, knowledge, wake, tables, phase, todo,
                   simulationWorker, faults>>

\* enqueue_revisions_for_evidence publishes PREDICTION_REVISION_REQUESTED about
\* the same item for each job; then the event is acknowledged, before the commit.
HandleEvent ==
    LET new == {s \in Concerned : ~HasActiveJob(s)} IN
    /\ phase = "events" /\ hand > 0
    /\ Newest + Cardinality(new) <= MaxJobs
    /\ session' = [session EXCEPT !.jobs = WithJobs(new), !.counted = @ \/ new # {}]
    /\ inbox' = inbox + Cardinality(new)
    /\ hand' = hand - 1
    /\ missed' = missed \cup PassedBy
    /\ UNCHANGED <<news, unacked, knowledge, wake, tables, phase, todo,
                   simulationWorker, faults>>

\* A publication fails: the event goes to the dead letters, the jobs added so
\* far stay in the session and are not counted.
HandleEventFails ==
    LET new == {s \in Concerned : ~HasActiveJob(s)} IN
    /\ phase = "events" /\ hand > 0 /\ faults < MaxFaults
    /\ \E added \in (SUBSET new) \ {{}} :
         /\ Newest + Cardinality(added) <= MaxJobs
         /\ session' = [session EXCEPT !.jobs = WithJobs(added)]
         /\ inbox' = inbox + Cardinality(added) - 1
    /\ hand' = hand - 1
    /\ missed' = missed \cup new \cup PassedBy
    /\ faults' = faults + 1
    /\ UNCHANGED <<news, unacked, knowledge, wake, tables, phase, todo, simulationWorker>>

\* The commit, which depends on the count, and the claims of process_revision_jobs.
ClaimJobs ==
    /\ phase = "events" /\ hand = 0
    /\ jobs' = IF session.counted THEN session.jobs ELSE jobs
    /\ todo' = Claimed({j \in JobIds : Active(session.jobs[j])})
    /\ phase' = "jobs"
    /\ UNCHANGED <<news, bus, runs, chains, hand, session, simulationWorker,
                   missed, faults>>

Current == Min(todo)
Working(status) ==
    /\ phase = "jobs" /\ todo # {}
    /\ session.jobs[Current].status = status
    /\ todo' = todo \ {Current}
    /\ UNCHANGED <<news, bus, tables, phase, hand, simulationWorker>>

\* _start_revision_simulation: the row of the run is added with the commit.
StartRevisionSimulation ==
    /\ Working("PENDING")
    /\ session' = [session EXCEPT !.jobs[Current].status = "PROCESSING"]
    /\ UNCHANGED <<missed, faults>>

\* _finalize_revision_job while the run has not ended.
RunNotEnded ==
    /\ Working("PROCESSING")
    /\ runs[Current].status \notin {"COMPLETED", "FAILED"}
    /\ UNCHANGED <<session, missed, faults>>

\* Mutant of RunHasFailed: a failed run is taken for one that has not ended.
RunHasFailedIgnored ==
    /\ Working("PROCESSING")
    /\ runs[Current].status = "FAILED"
    /\ UNCHANGED <<session, missed, faults>>

RunHasFailed ==
    /\ Working("PROCESSING")
    /\ runs[Current].status = "FAILED"
    /\ session' = [session EXCEPT !.jobs[Current].status = "FAILED"]
    /\ missed' = missed \cup {session.jobs[Current].series}
    /\ UNCHANGED faults

\* The version is appended to the series, and the one that was current superseded,
\* even when that was made from newer evidence by another job.  When one of the two
\* publications fails, the job is FAILED and the version stays.
FinalizeRevision ==
    LET job == session.jobs[Current]
        version == [run |-> Current, parent |-> job.base]
        superseded == Latest(session.chains[job.series])
    IN
    /\ Working("PROCESSING")
    /\ runs[Current].status = "COMPLETED"
    /\ \E status \in {"COMPLETED", "FAILED"} :
         /\ session' = [session EXCEPT !.jobs[Current].status = status,
                                       !.chains[job.series] = Append(@, version)]
         /\ status = "FAILED" => faults < MaxFaults
         /\ faults' = IF status = "FAILED" THEN faults + 1 ELSE faults
    /\ missed' = IF runs[superseded.run].read > runs[Current].read
                 THEN missed \cup {job.series} ELSE missed

CommitRound ==
    /\ phase = "jobs" /\ todo = {}
    /\ jobs' = session.jobs
    /\ chains' = [s \in Series |-> IF session.chains[s] = <<>> THEN chains[s]
                                   ELSE session.chains[s]]
    /\ runs' = [i \in Ids |->
                  IF /\ i \in JobIds
                     /\ session.jobs[i].status = "PROCESSING"
                     /\ runs[i].status = "none"
                  THEN Queued ELSE runs[i]]
    /\ phase' = "waiting"
    /\ session' = [jobs |-> jobs', chains |-> chains', counted |-> FALSE]
    /\ UNCHANGED <<news, bus, hand, todo, simulationWorker, missed, faults>>

\* The process dies and is started again; its transaction is rolled back.
RevisionCrash ==
    /\ phase # "waiting" /\ faults < MaxFaults
    /\ phase' = "waiting" /\ hand' = 0 /\ todo' = {}
    /\ unacked' = unacked + hand
    /\ session' = [jobs |-> jobs, chains |-> chains, counted |-> FALSE]
    /\ faults' = faults + 1
    /\ UNCHANGED <<news, inbox, knowledge, wake, tables, simulationWorker, missed>>

-----------------------------------------------------------------------------
Execution == RunCompletes \/ RunFails \/ RunCollides
SimulationStep == SimulationSweep \/ Execution \/ SimulationCommits

Round ==
    \/ HandleEvent \/ HandleEventFails \/ ClaimJobs
    \/ StartRevisionSimulation \/ RunNotEnded \/ RunHasFailed \/ FinalizeRevision
    \/ CommitRound

Next ==
    \/ NewsArrives \/ OtherKnowledge \/ Reforecast
    \/ SimulationStep \/ SimulationCrash
    \/ Reclaim \/ Consume \/ Round \/ RevisionCrash

Spec == Init /\ [][Next]_vars

\* Both workers go on whenever they have something to go on with, and entries
\* idle for a minute are reclaimed before new ones are read.
FairSpec ==
    /\ Spec
    /\ WF_vars(SimulationStep)
    /\ WF_vars(Round) /\ WF_vars(Consume) /\ SF_vars(Reclaim)

\* In addition knowledge about other items never stops arriving.
BusySpec == FairSpec /\ WF_vars(OtherKnowledge)

-----------------------------------------------------------------------------
(* Properties.                                                             *)

Runs == [status : {"none", "PENDING", "COMPLETED", "FAILED"}, attempts : 0..MaxAttempts,
         rows : BOOLEAN, read : 0..MaxNews, series : SUBSET Series]
Jobs == [series : Series, base : Nat, manual : BOOLEAN,
         status : {"PENDING", "PROCESSING", "COMPLETED", "FAILED"}]
JobTable == [JobIds -> Jobs \cup {NoJob}]
Versions == [run : Ids, parent : Nat]

\* Every variable has its type.
TypeOK ==
    /\ news \in 0..MaxNews
    /\ inbox \in Nat /\ unacked \in Nat /\ hand \in Nat
    /\ knowledge \in BOOLEAN /\ wake \in BOOLEAN
    /\ jobs \in JobTable
    /\ runs \in [Ids -> Runs] /\ simRuns \in [Ids -> Runs]
    /\ chains \in [Series -> Seq(Versions)]
    /\ missed \subseteq Series
    /\ phase \in {"waiting", "events", "jobs"}
    /\ session \in [jobs : JobTable, chains : [Series -> Seq(Versions)], counted : BOOLEAN]
    /\ todo \subseteq JobIds
    /\ simPhase \in {"boot", "booting", "waiting", "running"}
    /\ simTodo \subseteq Ids
    /\ faults \in 0..MaxFaults

\* A prediction is revised along one line, except where a user asked for a forecast of
\* his own.  Each version after the first was made from an earlier one, by a completed run
\* of its own; and what a revision that evidence caused left aside, between the version it
\* revises and itself, are only forecasts users asked for.  It rests on the worker creating
\* no job for a series that has an active one, over rounds that overlap with runs,
\* requests that come between its check and its commit, and crashes.
OnlyRequestsFork ==
    \A s \in Series : \A k \in DOMAIN chains[s] :
        LET version == chains[s][k]
            Requested(l) == jobs[chains[s][l].run].manual
        IN
        /\ version.parent < k
        /\ k > 1 => version.parent > 0 /\ runs[version.run].status = "COMPLETED"
        /\ k > 1 /\ ~Requested(k) => \A l \in (version.parent + 1)..(k - 1) : Requested(l)
        /\ \A l \in DOMAIN chains[s] : chains[s][l].run = version.run => l = k

Stale(chain) == chain # <<>> /\ runs[Latest(chain).run].read < news

\* A crash never makes a series forget a change of its evidence, although events
\* are acknowledged before the jobs they led to are committed: as long as the
\* latest version is older than the evidence, an event about the item is on its
\* way, or a job whose run has not read something older, or the series missed
\* the change in one of the ways of missed: it began on old evidence, the change was
\* passed by for an active job with an older run, a run or a publication failed, or a
\* slower job superseded a newer version.
Remembered(js, cs) ==
    \A s \in Series \ missed :
        Stale(cs[s]) =>
            \/ inbox + unacked + hand > 0
            \/ \E j \in JobIds : js[j].series = s /\ Active(js[j]) /\ UpToDate(j)

NothingForgotten == Remembered(jobs, chains)

\* A run that was left with the rows of a failed attempt blocks the queue.
Blocked == \E i \in Ids : runs[i].status = "PENDING" /\ runs[i].rows

\* The bound on jobs stops the worker.
AtBound ==
    /\ phase = "events" /\ hand > 0
    /\ Newest + Cardinality({s \in Concerned : ~HasActiveJob(s)}) > MaxJobs

\* Revision jobs do not pile up: again and again there is none that is active,
\* if knowledge keeps arriving and no run blocks the queue.  Whatever the two
\* workers miss of each other's commits, a later event lets them see it.
RevisionJobsEnd ==
    []<>(Blocked \/ AtBound \/ \A j \in JobIds : ~Active(jobs[j]))
=============================================================================
