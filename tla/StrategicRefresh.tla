---------------------------- MODULE StrategicRefresh ----------------------------
(***************************************************************************)
(* The worker that refreshes saved strategic sessions on their schedule,   *)
(* and the requests and watch polls that add versions to the same          *)
(* sessions.                                                               *)
(*                                                                         *)
(* A worker claims up to ten due sessions by updates it does not commit:   *)
(* until the brief of the first of them is stored, row locks and not       *)
(* leases keep other workers away.  Every worker has the same lease owner, *)
(* so nothing tells one lease from another.  Each session gets a brief,    *)
(* which gives the lease back, and then a run, whose last transaction      *)
(* looks for the watch rule of the session, locks the session row, takes   *)
(* the next version number and commits.                                    *)
(*                                                                         *)
(* Row locks are those of PostgreSQL: an UPDATE takes NO KEY UPDATE, the   *)
(* insert of a row that refers to a session KEY SHARE, and SELECT FOR      *)
(* UPDATE waits for both.  All end with the transaction.                   *)
(***************************************************************************)
EXTENDS Integers, Sequences, FiniteSets, FiniteSetsExt, Functions

CONSTANTS
    Workers,    \* strategic watch worker processes
    Requests,   \* users' runs, daily briefs and changes of settings, and polls
                \* that store a version
    Count,      \* number of strategic sessions
    On,         \* the session of each request
    None,
    MaxTurns    \* bound, all together: schedules that come due again, leases
                \* that run out under a worker, windows that end, exceptions,
                \* killed processes

Procs == Workers \cup Requests
Sessions == 1..Count  \* in the order of next_refresh_at

ASSUME ProcsAssumption == Workers \cap Requests = {} /\ None \notin Procs
ASSUME OnAssumption == Count \in Nat \ {0} /\ On \in [Requests -> Sessions]
ASSUME BoundsAssumption == MaxTurns \in Nat

VARIABLES
    schedule,   \* "due", "later", or "off": auto_refresh_enabled, next_refresh_at
    open,       \* the 24 hour window of each session has not ended
    lease,      \* committed lease of each session: "none", "live" or "expired"
    rules,      \* number of watch rules of each session
    rows,       \* version numbers of each session, in commit order
    pc,         \* where each process is
    todo,       \* candidates the worker has still to claim
    batch,      \* sessions it has claimed and not finished, the first at work
    draft,      \* what the open transaction of a run will commit
    updating,   \* holder of the NO KEY UPDATE lock of each session, or None
    locked,     \* holder of its FOR UPDATE lock, or None
    sharing,    \* holders of its KEY SHARE lock
    turns,      \* how much of the bound is used
    losses      \* leases that ended under the worker that had claimed

table == <<schedule, open, lease, rules, rows>>
plan == <<todo, batch>>
locks == <<updating, locked, sharing>>
budgets == <<turns, losses>>
vars == <<table, pc, plan, draft, locks, budgets>>

\* What is changed in the session row.  refresh: the schedule is set, or kept;
\* clear: a lease is cleared.
Settings == [refresh : {"keep", "off", "due", "later"}, clear : BOOLEAN]
Kept == [refresh |-> "keep", clear |-> FALSE]

\* number: of the version; rule: a watch rule is inserted; brief: it is a daily
\* brief, and no run.
Blank == [number |-> 0, rule |-> FALSE, brief |-> FALSE, settings |-> Kept]

\* The sessions are saved and have not been run.
Init ==
    /\ schedule = [s \in Sessions |-> "due"]
    /\ open = [s \in Sessions |-> TRUE]
    /\ lease = [s \in Sessions |-> "none"]
    /\ rules = [s \in Sessions |-> 0]
    /\ rows = [s \in Sessions |-> <<>>]
    /\ pc = [p \in Procs |-> "idle"]
    /\ todo = [w \in Workers |-> {}]
    /\ batch = [w \in Workers |-> <<>>]
    /\ draft = [p \in Procs |-> Blank]
    /\ updating = [s \in Sessions |-> None]
    /\ locked = [s \in Sessions |-> None]
    /\ sharing = [s \in Sessions |-> {}]
    /\ turns = 0 /\ losses = 0

Turn == turns < MaxTurns /\ turns' = turns + 1

Goto(p, where) == pc' = [pc EXCEPT ![p] = where]

\* The session that process p is about.
Subject(p) == IF p \in Workers THEN Head(batch[p]) ELSE On[p]

\* The end of a transaction of p gives all its locks back.
Release(p) ==
    /\ updating' = [s \in Sessions |-> IF updating[s] = p THEN None ELSE updating[s]]
    /\ locked' = [s \in Sessions |-> IF locked[s] = p THEN None ELSE locked[s]]
    /\ sharing' = [s \in Sessions |-> sharing[s] \ {p}]

\* p may update the row of s.
MayUpdate(p, s) == updating[s] \in {None, p} /\ locked[s] \in {None, p}

(***************************************************************************)
(* Claims and briefs.                                                      *)
(***************************************************************************)

\* Mutant of LeaseFree: a lease that has run out still counts.
LeaseFreeNone(s) == lease[s] = "none"

LeaseFree(s) == lease[s] # "live"

Claimable(s) == schedule[s] = "due" /\ LeaseFree(s)

\* The candidates are read first.
Select(w) ==
    /\ pc[w] = "idle"
    /\ \E s \in Sessions : Claimable(s)
    /\ todo' = [todo EXCEPT ![w] = {s \in Sessions : Claimable(s)}]
    /\ Goto(w, "claim")
    /\ UNCHANGED <<table, batch, draft, locks, budgets>>

\* Mutant of Claim: the row is claimed as it was selected.
ClaimUnchecked(w) ==
    /\ pc[w] = "claim"
    /\ todo[w] # {}
    /\ LET s == Min(todo[w]) IN
        /\ MayUpdate(w, s)
        /\ updating' = [updating EXCEPT ![s] = w]
        /\ batch' = [batch EXCEPT ![w] = Append(@, s)]
    /\ todo' = [todo EXCEPT ![w] = @ \ {Min(@)}]
    /\ UNCHANGED <<table, pc, draft, locked, sharing, budgets>>

\* Each candidate is updated if it is still claimable, once its row is free,
\* in the order of next_refresh_at.
\* The lease stays in the transaction.
Claim(w) ==
    /\ pc[w] = "claim"
    /\ todo[w] # {}
    /\ LET s == Min(todo[w]) IN
        /\ MayUpdate(w, s)
        /\ IF Claimable(s)
           THEN /\ updating' = [updating EXCEPT ![s] = w]
                /\ batch' = [batch EXCEPT ![w] = Append(@, s)]
           ELSE UNCHANGED <<updating, batch>>
    /\ todo' = [todo EXCEPT ![w] = @ \ {Min(@)}]
    /\ UNCHANGED <<table, pc, draft, locked, sharing, budgets>>

\* The next claimed session, or the end of the round, which rolls back what
\* is left of the transaction: nothing.
Take(w) ==
    /\ pc[w] = "claim"
    /\ todo[w] = {}
    /\ Goto(w, IF batch[w] = <<>> THEN "idle" ELSE "brief")
    /\ UNCHANGED <<table, plan, draft, locks, budgets>>

Sought(w) == {batch[w][i] : i \in DOMAIN batch[w]}

\* The sessions worker w has claimed and not begun to run.
Claimed(w) ==
    IF pc[w] \in {"idle", "claim", "brief", "failing"} THEN Sought(w) ELSE Sought(w) \ {Subject(w)}

\* A lease of s ends that is not the one of p.
Lose(s, p) ==
    losses' = IF lease[s] = "live" /\ \E v \in Workers \ {p} : s \in Claimed(v)
              THEN losses + 1 ELSE losses

\* A commit of w in which its subject gets no lease; the other sessions it
\* has claimed in this transaction get theirs.
CommitClaims(w) ==
    /\ lease' = [s \in Sessions |->
            CASE s = Subject(w)    -> "none"
              [] updating[s] = w   -> "live"
              [] OTHER             -> lease[s]]
    /\ Release(w)

\* The window of the session has ended: it is not refreshed any more.
Retire(w) ==
    /\ pc[w] = "brief"
    /\ LET s == Subject(w) IN
        /\ ~open[s]
        /\ MayUpdate(w, s)
        /\ schedule' = [schedule EXCEPT ![s] = "off"]
    /\ CommitClaims(w)
    /\ batch' = [batch EXCEPT ![w] = Tail(@)]
    /\ Goto(w, "claim")
    /\ UNCHANGED <<open, rules, rows, todo, draft, budgets>>

\* The daily brief, whose sources have been searched and analysed.  It moves
\* the schedule to the next day and clears the lease, whoever holds it now;
\* its commit is the first since the claims.
Brief(w) ==
    /\ pc[w] = "brief"
    /\ LET s == Subject(w) IN
        /\ open[s]
        /\ MayUpdate(w, s)
        /\ schedule' = [schedule EXCEPT ![s] = IF @ = "off" THEN @ ELSE "later"]
    /\ CommitClaims(w)
    /\ Goto(w, "ensure")
    /\ UNCHANGED <<open, rules, rows, plan, draft, budgets>>

(***************************************************************************)
(* Runs.  The ingest run, the simulation and the debate come first, with   *)
(* commits of their own; they are the time between Brief and Ensure.       *)
(***************************************************************************)

\* A user asks for a run or for a daily brief, or a watch poll comes to its
\* version.
Begin(r) ==
    /\ r \in Requests
    /\ pc[r] = "idle"
    /\ \/ Goto(r, "lock") /\ UNCHANGED draft
       \/ /\ Goto(r, "ensure")
          /\ \E brief \in BOOLEAN : draft' = [draft EXCEPT ![r].brief = brief]
    /\ UNCHANGED <<table, plan, locks, budgets>>

\* The lease columns that a process which clears them can have loaded: those of
\* now, or, if it had to wait for the row, those before the lease.
Loaded(s) == {FALSE, lease[s] # "none"}

\* What p's payload can make of the settings of s.  A user switches the refresh
\* off, which clears a lease, or on, which moves the schedule to the hour after
\* the last brief.  A worker's payload, from before its brief, has it on, which
\* counts if a rollback in the run has made it load the row again.
Chosen(p, s) ==
    IF p \in Workers
    THEN [refresh : {"later"} \ {schedule[s]}, clear : {FALSE}]
    ELSE [refresh : {"due", "later"} \ {schedule[s]}, clear : {FALSE}]
         \cup [refresh : {"off"} \ {schedule[s]}, clear : Loaded(s)]

\* A user's daily brief clears the lease in any case, and moves the schedule to
\* the next day if the payload has the refresh on.
Briefed(s) == [refresh : {"later", "off"}, clear : Loaded(s)]

\* ensure_session loads the session row and writes what differs; after a brief
\* something does.  A run then looks up the watch rule,
Ensure(p) ==
    /\ pc[p] = "ensure"
    /\ LET s == Subject(p) IN
        /\ \/ ~draft[p].brief /\ UNCHANGED <<updating, draft>>
           \/ /\ MayUpdate(p, s)
              /\ updating' = [updating EXCEPT ![s] = p]
              /\ \E d \in IF draft[p].brief THEN Briefed(s) ELSE {Kept} \cup Chosen(p, s) :
                    draft' = [draft EXCEPT ![p].settings = d]
        /\ Goto(p, IF draft[p].brief \/ rules[s] > 0 THEN "lock" ELSE "insert")
    /\ UNCHANGED <<table, plan, locked, sharing, budgets>>

\* and inserted when there is none; the row refers to the session.
InsertRule(p) ==
    /\ pc[p] = "insert"
    /\ LET s == Subject(p) IN
        /\ locked[s] = None
        /\ sharing' = [sharing EXCEPT ![s] = @ \cup {p}]
    /\ draft' = [draft EXCEPT ![p].rule = TRUE]
    /\ Goto(p, "lock")
    /\ UNCHANGED <<table, plan, updating, locked, budgets>>

\* 1 more than the largest version number, or 1.
NextNumber(s) == Max({0} \cup Range(rows[s])) + 1

Lockable(p, s) == MayUpdate(p, s) /\ sharing[s] \subseteq {p}

\* Mutant of LockTimeline: the next number is read without the lock.
LockTimelineNot(p) ==
    /\ pc[p] = "lock"
    /\ draft' = [draft EXCEPT ![p].number = NextNumber(Subject(p))]
    /\ Goto(p, "write")
    /\ UNCHANGED <<table, plan, locks, budgets>>

\* The session row is locked; then the largest number is read.
LockTimeline(p) ==
    /\ pc[p] = "lock"
    /\ LET s == Subject(p) IN
        /\ Lockable(p, s)
        /\ locked' = [locked EXCEPT ![s] = p]
        /\ draft' = [draft EXCEPT ![p].number = NextNumber(s)]
    /\ Goto(p, "write")
    /\ UNCHANGED <<table, plan, updating, sharing, budgets>>

\* What follows a run: the next session of the batch, or the response.
Proceed(p) ==
    IF p \in Workers
    THEN /\ batch' = [batch EXCEPT ![p] = Tail(@)]
         /\ Goto(p, "claim")
    ELSE /\ UNCHANGED batch
         /\ Goto(p, "done")

\* The settings d of the session are committed.
Store(d, s, p) ==
    /\ schedule' = [schedule EXCEPT ![s] = IF d.refresh = "keep" THEN @ ELSE d.refresh]
    /\ IF d.clear
       THEN /\ lease' = [lease EXCEPT ![s] = "none"]
            /\ Lose(s, p)
       ELSE UNCHANGED <<lease, losses>>

\* Version and snapshot are committed, or version and brief, with the watch
\* rule and the settings.  The unique constraint on the number is left out: the
\* lock is there so that it never refuses a row.
Write(p) ==
    /\ pc[p] = "write"
    /\ LET s == Subject(p) IN
        /\ rows' = [rows EXCEPT ![s] = Append(@, draft[p].number)]
        /\ rules' = [rules EXCEPT ![s] = IF draft[p].rule THEN @ + 1 ELSE @]
        /\ Store(draft[p].settings, s, p)
    /\ draft' = [draft EXCEPT ![p] = Blank]
    /\ Release(p)
    /\ Proceed(p)
    /\ UNCHANGED <<open, todo, turns>>

\* POST /assistant/sessions with the id of a session: its settings only.
Save(r) ==
    /\ r \in Requests
    /\ pc[r] = "idle"
    /\ MayUpdate(r, On[r])
    /\ \E d \in Chosen(r, On[r]) : Store(d, On[r], r)
    /\ Goto(r, "done")
    /\ UNCHANGED <<open, rules, rows, plan, draft, locks, turns>>

Storing(p) == pc[p] \in {"ensure", "insert", "lock", "write"}

\* What goes wrong while the results are stored is rolled back and, in a run,
\* reported as a warning.  A worker counts the session as refreshed, but the
\* rollback has expired the other rows of its batch, on which it breaks off.
Swallow(p) ==
    /\ draft' = [draft EXCEPT ![p] = Blank]
    /\ Release(p)
    /\ IF p \in Workers
       THEN batch' = [batch EXCEPT ![p] = <<>>] /\ Goto(p, "idle")
       ELSE UNCHANGED batch /\ Goto(p, "done")
    /\ UNCHANGED <<schedule, open, lease, rules, rows, todo>>

StoreFails(p) ==
    /\ Storing(p)
    /\ Turn
    /\ Swallow(p)
    /\ UNCHANGED losses

\* p waits for the end of the transaction of q.
WaitsFor(p, q) ==
    /\ p # q /\ pc[p] = "lock"
    /\ LET s == Subject(p) IN updating[s] = q \/ locked[s] = q \/ q \in sharing[s]

\* Two runs that have inserted a watch rule for a session wait for each
\* other's KEY SHARE lock; the database aborts one.
Deadlock(p) ==
    /\ \E q \in Procs : WaitsFor(p, q) /\ WaitsFor(q, p)
    /\ Swallow(p)
    /\ UNCHANGED budgets

(***************************************************************************)
(* Failures of the worker.                                                 *)
(***************************************************************************)

\* An exception in the brief, or in the run before its results are stored,
\* that leaves the session usable.
Fail(w) ==
    /\ pc[w] \in {"brief", "ensure"}
    /\ Turn
    /\ Goto(w, IF pc[w] = "brief" THEN "failing" ELSE "late")
    /\ UNCHANGED <<table, plan, draft, locks, losses>>

\* _mark_failure: again in an hour, unless the window ends before; also for a
\* session that has been switched off, and whoever has the lease by now.  The
\* commit stores the other claims.
MarkFailure(w) ==
    /\ pc[w] \in {"failing", "late"}
    /\ LET s == Subject(w) IN
        /\ MayUpdate(w, s)
        /\ \E retry \in IF open[s] THEN {"later", "off"} ELSE {"off"} :
            schedule' = [schedule EXCEPT ![s] = retry]
        /\ Lose(s, w)
    /\ CommitClaims(w)
    /\ batch' = [batch EXCEPT ![w] = Tail(@)]
    /\ Goto(w, "claim")
    /\ UNCHANGED <<open, rules, rows, todo, draft, turns>>

\* An exception after which the handler cannot even log, because a rollback
\* has expired the rows it names; a database error, which leaves nothing to
\* commit; or a killed process.  The round ends, and the committed leases of
\* the batch stay.
Escape(w) ==
    /\ pc[w] # "idle"
    /\ Turn
    /\ todo' = [todo EXCEPT ![w] = {}]
    /\ batch' = [batch EXCEPT ![w] = <<>>]
    /\ Release(w)
    /\ draft' = [draft EXCEPT ![w] = Blank]
    /\ Goto(w, "idle")
    /\ UNCHANGED <<table, losses>>

(***************************************************************************)
(* Time.                                                                   *)
(***************************************************************************)

\* A lease runs out: after a crash, or while the worker is busy with the
\* sessions before it.
Expire(s) ==
    /\ lease[s] = "live"
    /\ IF \E w \in Workers : s \in Claimed(w)
       THEN Turn /\ losses' = losses + 1
       ELSE UNCHANGED budgets
    /\ lease' = [lease EXCEPT ![s] = "expired"]
    /\ UNCHANGED <<schedule, open, rules, rows, pc, plan, draft, locks>>

ComeDue(s) ==
    /\ schedule[s] = "later"
    /\ Turn
    /\ schedule' = [schedule EXCEPT ![s] = "due"]
    /\ UNCHANGED <<open, lease, rules, rows, pc, plan, draft, locks, losses>>

CloseWindow(s) ==
    /\ open[s]
    /\ Turn
    /\ open' = [open EXCEPT ![s] = FALSE]
    /\ UNCHANGED <<schedule, lease, rules, rows, pc, plan, draft, locks, losses>>

WorkerStep(w) ==
    \/ Select(w) \/ Claim(w) \/ Take(w) \/ Retire(w) \/ Brief(w) \/ MarkFailure(w)

RunStep(p) ==
    \/ Ensure(p) \/ InsertRule(p) \/ LockTimeline(p) \/ Write(p) \/ Deadlock(p)

Next ==
    \/ \E w \in Workers : WorkerStep(w) \/ Fail(w) \/ Escape(w)
    \/ \E r \in Requests : Begin(r) \/ Save(r)
    \/ \E p \in Procs : RunStep(p) \/ StoreFails(p)
    \/ \E s \in Sessions : Expire(s) \/ ComeDue(s) \/ CloseWindow(s)

Spec == Init /\ [][Next]_vars

\* Workers loop, runs go on once their locks are free, and a lease runs out.
Fairness ==
    /\ \A w \in Workers : WF_vars(WorkerStep(w) \/ RunStep(w))
    /\ \A r \in Requests : WF_vars(RunStep(r))
    /\ WF_vars(\E s \in Sessions : Expire(s))

FairSpec == Spec /\ Fairness

(***************************************************************************)
(* Properties.                                                             *)
(***************************************************************************)

Drafts == [number : Nat, rule : BOOLEAN, brief : BOOLEAN, settings : Settings]

\* The values of the columns and of the local variables.
TypeOK ==
    /\ schedule \in [Sessions -> {"due", "later", "off"}]
    /\ open \in [Sessions -> BOOLEAN]
    /\ lease \in [Sessions -> {"none", "live", "expired"}]
    /\ rules \in [Sessions -> Nat]
    /\ rows \in [Sessions -> Seq(Nat \ {0})]
    /\ pc \in [Procs -> {"idle", "claim", "brief", "ensure", "insert", "lock",
                         "write", "failing", "late", "done"}]
    /\ todo \in [Workers -> SUBSET Sessions]
    /\ batch \in [Workers -> Seq(Sessions)]
    /\ \A w \in Workers : pc[w] \notin {"idle", "claim"} => batch[w] # <<>>
    /\ draft \in [Procs -> Drafts]
    /\ updating \in [Sessions -> Procs \cup {None}]
    /\ locked \in [Sessions -> Procs \cup {None}]
    /\ sharing \in [Sessions -> SUBSET Procs]
    /\ turns \in 0..MaxTurns
    /\ losses \in Nat

Abstract == INSTANCE Timeline WITH timeline <- rows

\* Workers, runs of users and polls number the versions of a session 1, 2, 3
\* ... in the order of their commits, although each takes the maximum it reads
\* plus one: the lock is taken before that and kept until the commit.
ImplementsTimeline == Abstract!Spec

\* Two workers are to brief the same session only when one of them has lost
\* its lease, to time, to the late failure of an earlier refresh, or to a user
\* who asked for a daily brief or switched the refresh off, and each loss lets
\* one more in: until the claims are committed the row locks keep others away,
\* and every candidate is looked at again once its row is free.
EachOverlapIsALoss ==
    \A s \in Sessions : Cardinality({w \in Workers : s \in Claimed(w)}) <= 1 + losses

\* Once no schedule comes due any more, every due session is refreshed,
\* postponed by a failure, or switched off, whatever has failed before: the
\* lease of a round that broke off does not keep it from the next.
DueIsServed == <>[](\A s \in Sessions : schedule[s] # "due")

================================================================================
