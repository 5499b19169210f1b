----------------------------- MODULE WatchLease -----------------------------
(***************************************************************************)
(* The execution lease of watch rules.  A watch rule is one database row.  *)
(* WatchIngestWorker processes claim batches of due rules and poll them    *)
(* one after the other; the trigger endpoint of the API claims one rule    *)
(* for a manual execution.  Both hold the rule through the lease columns   *)
(* (WatchExecutionLeaseManager) and give it back with an UPDATE fenced by  *)
(* the owner.  Users disable, enable and delete rules at any moment.       *)
(*                                                                         *)
(* A rule is monitored for a window after its created_at, and an assistant *)
(* run for the rule's session moves created_at back to the creation of the *)
(* session, without the lease and without touching an open schedule.       *)
(* Workers and requests decide by the created_at they loaded.              *)
(*                                                                         *)
(* Time is an integer clock; every rule is created at 0.  poll_attempts,   *)
(* last_poll_error and updated_at are never read by this code and are left *)
(* out, and so is what a poll does between its claim and its settlement:   *)
(* its ingest runs, simulations and debates are not fenced by the lease.   *)
(***************************************************************************)
EXTENDS Integers, Sequences, FiniteSets

CONSTANTS
    Rules,        \* watch rule ids
    Workers,      \* owner ids of WatchIngestWorker processes
    Requests,     \* owner ids of trigger requests, fresh for each request
    None,         \* SQL NULL
    Window,       \* length of the community monitoring window (24 h)
    Leads,        \* how much older than a rule its session may be
    LeaseTicks,   \* watch_execution_lease_expires_at - now
    Intervals,    \* values of poll_interval_minutes
    RetryDelay,   \* the 60 minutes of _mark_failure
    BatchLimit,   \* limit of _claim_due_rules
    MaxTime,      \* bound: the clock stops here
    MaxPatches,   \* bound: enable/disable requests of users
    MaxCrashes,   \* bound: worker processes killed from outside
    MaxFaultTime  \* bound: kills and disconnects happen no later than this, so
                  \* that the leases they leave expire before the clock stops

Owners == Workers \cup Requests

ASSUME TimesAssumption ==
    /\ Window \in Nat \ {0} /\ Leads \subseteq Nat /\ LeaseTicks \in Nat \ {0}
    /\ Intervals \subseteq Nat \ {0} /\ RetryDelay \in Nat \ {0}
    /\ MaxTime \in Nat /\ MaxFaultTime \in Nat /\ MaxPatches \in Nat /\ MaxCrashes \in Nat
    /\ BatchLimit \in Nat \ {0}
ASSUME OwnersAssumption == Workers \cap Requests = {} /\ None \notin Owners
ASSUME NoneAssumption == None \notin Int
ASSUME RulesAssumption == IsFiniteSet(Rules)

VARIABLES
    now,                                    \* utc_now()
    exists, enabled, nextPoll, lastPoll,    \* rows and their columns
    created,                                \* created_at
    owner, expires,                         \* lease_owner, lease_expires_at
    phase,    \* worker -> "next" rule of the batch, "polling", or "dead"
    todo,     \* worker -> claimed_rules not yet settled, in order
    loaded,   \* worker -> rule -> created_at of the row as claimed
    stage,    \* request -> "new", "read", "working" or "done"
    seen,     \* request -> the row as loaded by session.get, and `now`
    claim,    \* process -> rule -> expiry its open claim was granted, or None
    late,     \* history: rules whose start was moved while something planned
              \* with the old start was outstanding
    patches, crashes

columns == <<exists, enabled, nextPoll, lastPoll>>
start == <<created, late>>
lease == <<owner, expires>>
workerVars == <<phase, todo, loaded>>
requestVars == <<stage, seen>>
budgets == <<patches, crashes>>
vars == <<now, columns, start, lease, workerVars, requestVars, claim, budgets>>

Times == Nat \cup {None}
NoClaims == [r \in Rules |-> None]

\* create_watch_rule: next_poll_at = now, the other columns at their defaults.
Init ==
    /\ now = 0
    /\ exists = Rules
    /\ enabled = [r \in Rules |-> TRUE]
    /\ nextPoll = [r \in Rules |-> 0]
    /\ lastPoll = [r \in Rules |-> None]
    /\ created = [r \in Rules |-> 0]
    /\ owner = [r \in Rules |-> None]
    /\ expires = [r \in Rules |-> None]
    /\ phase = [w \in Workers |-> "next"]
    /\ todo = [w \in Workers |-> <<>>]
    /\ loaded = [w \in Workers |-> [r \in Rules |-> 0]]
    /\ stage = [q \in Requests |-> "new"]
    /\ seen = [q \in Requests |-> None]
    /\ claim = [p \in Owners |-> NoClaims]
    /\ late = {}
    /\ patches = 0
    /\ crashes = 0

-----------------------------------------------------------------------------
(* Schedule and lease of one row.                                          *)

WindowExpired(from, t) == t >= from + Window

\* Mutant of NextSchedule: without the end of the window.
NextScheduleUnbounded(from, t, delay) == t + delay

\* The next poll after t, or NULL when it would fall outside the window.
NextSchedule(from, t, delay) == IF t + delay < from + Window THEN t + delay ELSE None

\* Mutant of LeaseFree: <= for <.
LeaseFreeAtExpiry(r, t) == owner[r] # None => expires[r] <= t

LeaseFree(r, t) == owner[r] # None => expires[r] < t

Due(r, t) ==
    /\ r \in exists /\ enabled[r]
    /\ nextPoll[r] # None /\ nextPoll[r] <= t
    /\ LeaseFree(r, t)

\* The claiming UPDATE, for the rules of one transaction.
Take(p, S, t) ==
    /\ owner' = [r \in Rules |-> IF r \in S THEN p ELSE owner[r]]
    /\ expires' = [r \in Rules |-> IF r \in S THEN t + LeaseTicks ELSE expires[r]]
    /\ claim' = [claim EXCEPT ![p] =
                    [r \in Rules |-> IF r \in S THEN t + LeaseTicks ELSE @[r]]]

\* Mutant of Fenced: the owner is not compared.
FencedById(p, r) == r \in exists

\* WHERE id = :rule_id AND lease_owner = :owner
Fenced(p, r) == r \in exists /\ owner[r] = p

ReleaseLease(r) ==
    /\ owner' = [owner EXCEPT ![r] = None]
    /\ expires' = [expires EXCEPT ![r] = None]

EndClaim(p, r) == claim' = [claim EXCEPT ![p][r] = None]

Complete(p, r, completedAt, next) ==
    /\ Fenced(p, r)
    /\ ReleaseLease(r)
    /\ enabled' = [enabled EXCEPT ![r] = (next # None)]
    /\ nextPoll' = [nextPoll EXCEPT ![r] = next]
    /\ lastPoll' = [lastPoll EXCEPT ![r] = completedAt]
    /\ UNCHANGED exists

\* fail: rowcount is ignored, so a lost lease makes it a no-op.
Fail(p, r, on, next) ==
    IF Fenced(p, r)
    THEN /\ ReleaseLease(r)
         /\ enabled' = [enabled EXCEPT ![r] = on]
         /\ nextPoll' = [nextPoll EXCEPT ![r] = next]
         /\ UNCHANGED <<exists, lastPoll>>
    ELSE UNCHANGED <<columns, lease>>

-----------------------------------------------------------------------------
(* WatchIngestWorker.                                                      *)

\* The batches run_once may claim at time t: the due rules with the earliest
\* next_poll_at, in that order, at most BatchLimit of them.
Batches(t) ==
    LET due == {r \in Rules : Due(r, t)}
        size == IF Cardinality(due) < BatchLimit THEN Cardinality(due) ELSE BatchLimit
        Claimed(b) == {b[i] : i \in 1..size}
    IN  {b \in [1..size -> due] :
            /\ \A i, j \in 1..size : i < j => b[i] # b[j] /\ nextPoll[b[i]] <= nextPoll[b[j]]
            /\ \A r \in due \ Claimed(b), i \in 1..size : nextPoll[b[i]] <= nextPoll[r]}

ClaimDue(w) ==
    /\ phase[w] = "next" /\ todo[w] = <<>>
    /\ \E b \in Batches(now) :
         /\ b # <<>>
         /\ Take(w, {b[i] : i \in DOMAIN b}, now)
         /\ todo' = [todo EXCEPT ![w] = b]
         /\ loaded' = [loaded EXCEPT ![w] =
                          [r \in Rules |-> IF \E i \in DOMAIN b : b[i] = r THEN created[r] ELSE @[r]]]
    /\ UNCHANGED <<now, columns, start, phase, requestVars, budgets>>

\* The worker leaves rule Head(todo[w]) and turns to the rest of its batch.
\* A rollback expires the loaded rows, and reading the next rule's id then
\* raises outside the try block: the process ends with the rest still leased.
LeaveRule(w, raises) ==
    /\ todo' = [todo EXCEPT ![w] = IF raises THEN <<>> ELSE Tail(@)]
    /\ phase' = [phase EXCEPT ![w] = IF raises THEN "dead" ELSE "next"]
    /\ claim' = [claim EXCEPT ![w] =
                    IF raises THEN NoClaims ELSE [@ EXCEPT ![Head(todo[w])] = None]]
    /\ UNCHANGED loaded

\* The worker judges the window by the row as it was claimed.
RuleExpired(w) == WindowExpired(loaded[w][Head(todo[w])], now)

StartPoll(w) ==
    /\ phase[w] = "next" /\ todo[w] # <<>>
    /\ ~RuleExpired(w)
    /\ phase' = [phase EXCEPT ![w] = "polling"]
    /\ UNCHANGED <<now, columns, start, lease, todo, loaded, requestVars, claim, budgets>>

\* Mutant of CloseWindow: the lease is cleared and the schedule kept.
CloseWindowKeepsSchedule(w) ==
    /\ phase[w] = "next" /\ todo[w] # <<>>
    /\ RuleExpired(w)
    /\ ReleaseLease(Head(todo[w]))
    /\ LeaveRule(w, FALSE)
    /\ UNCHANGED <<now, columns, start, requestVars, budgets>>

\* The window is over: the row is disabled and its lease cleared, whoever
\* holds it by now.
CloseWindow(w) ==
    LET r == Head(todo[w]) IN
    /\ phase[w] = "next" /\ todo[w] # <<>>
    /\ RuleExpired(w)
    /\ r \in exists
    /\ enabled' = [enabled EXCEPT ![r] = FALSE]
    /\ nextPoll' = [nextPoll EXCEPT ![r] = None]
    /\ ReleaseLease(r)
    /\ LeaveRule(w, FALSE)
    /\ UNCHANGED <<now, exists, lastPoll, start, requestVars, budgets>>

\* _mark_poll_success: the next poll is counted from the end of this one.
PollSucceeds(w) ==
    LET r == Head(todo[w]) IN
    /\ phase[w] = "polling"
    /\ \E d \in Intervals : Complete(w, r, now, NextSchedule(loaded[w][r], now, d))
    /\ LeaveRule(w, FALSE)
    /\ UNCHANGED <<now, start, requestVars, budgets>>

\* An exception in the poll, a deleted row, or WatchExecutionLeaseLostError:
\* rollback and _mark_failure.  When a transaction was open, the rollback
\* expires the rows: this one is loaded again, the rest of the batch is lost.
PollFails(w) ==
    LET r == Head(todo[w])
        Retry(open) == NextSchedule(IF open THEN created[r] ELSE loaded[w][r], now, RetryDelay)
    IN
    /\ todo[w] # <<>>
    /\ \/ phase[w] = "polling"
       \/ phase[w] = "next" /\ RuleExpired(w) /\ r \notin exists
    /\ \E open \in BOOLEAN :
         /\ Fail(w, r, Retry(open) # None, Retry(open))
         /\ LeaveRule(w, open /\ Tail(todo[w]) # <<>>)
    /\ UNCHANGED <<now, start, requestVars, budgets>>

Crash(w) ==
    /\ phase[w] # "dead" /\ crashes < MaxCrashes /\ now <= MaxFaultTime
    /\ crashes' = crashes + 1
    /\ phase' = [phase EXCEPT ![w] = "dead"]
    /\ todo' = [todo EXCEPT ![w] = <<>>]
    /\ claim' = [claim EXCEPT ![w] = NoClaims]
    /\ UNCHANGED <<now, columns, start, lease, loaded, requestVars, patches>>

\* The supervisor starts a new process.  Its owner id is a fresh uuid: the id
\* of a dead process stands for it once no row carries the old one.
Restart(w) ==
    /\ phase[w] = "dead"
    /\ \A r \in Rules : owner[r] # w
    /\ phase' = [phase EXCEPT ![w] = "next"]
    /\ UNCHANGED <<now, columns, start, lease, todo, loaded, requestVars, claim, budgets>>

-----------------------------------------------------------------------------
(* POST /watch/rules/{rule_id}/trigger.                                    *)

\* session.get, then now = utc_now(); the row may change before the UPDATE.
TriggerRead(q) ==
    /\ stage[q] = "new"
    /\ \E r \in exists :
         seen' = [seen EXCEPT ![q] =
                    [rule |-> r, enabled |-> enabled[r], nextPoll |-> nextPoll[r],
                     start |-> created[r], held |-> owner[r] # None, at |-> now]]
    /\ stage' = [stage EXCEPT ![q] = "read"]
    /\ UNCHANGED <<now, columns, start, lease, workerVars, claim, budgets>>

\* The 409 for an expired window.  The flush writes the columns whose loaded
\* value differs from the assigned one, and fails on a deleted row.
TriggerExpired(q) ==
    LET s == seen[q]
        r == s.rule
    IN
    /\ stage[q] = "read" /\ WindowExpired(s.start, s.at)
    /\ IF r \in exists
       THEN /\ enabled' = [enabled EXCEPT ![r] = @ /\ ~s.enabled]
            /\ nextPoll' = [nextPoll EXCEPT ![r] = IF s.nextPoll # None THEN None ELSE @]
            /\ IF s.held THEN ReleaseLease(r) ELSE UNCHANGED lease
            /\ UNCHANGED <<exists, lastPoll>>
       ELSE UNCHANGED <<columns, lease>>
    /\ stage' = [stage EXCEPT ![q] = "done"]
    /\ UNCHANGED <<now, start, workerVars, seen, claim, budgets>>

\* After the claim is committed the row is loaded again (session.refresh).
TriggerClaim(q) ==
    LET s == seen[q] IN
    /\ stage[q] = "read" /\ ~WindowExpired(s.start, s.at)
    /\ s.rule \in exists /\ LeaseFree(s.rule, s.at)
    /\ Take(q, {s.rule}, s.at)
    /\ stage' = [stage EXCEPT ![q] = "working"]
    /\ seen' = [seen EXCEPT ![q].start = created[s.rule]]
    /\ UNCHANGED <<now, columns, start, workerVars, budgets>>

\* The 409 for a rule that is being processed.
TriggerRejected(q) ==
    LET s == seen[q] IN
    /\ stage[q] = "read" /\ ~WindowExpired(s.start, s.at)
    /\ ~(s.rule \in exists /\ LeaseFree(s.rule, s.at))
    /\ stage' = [stage EXCEPT ![q] = "done"]
    /\ UNCHANGED <<now, columns, start, lease, workerVars, seen, claim, budgets>>

\* completed_at and the next poll are counted from the start of the request.
TriggerSucceeds(q) ==
    LET s == seen[q] IN
    /\ stage[q] = "working"
    /\ \E d \in Intervals : Complete(q, s.rule, s.at, NextSchedule(s.start, s.at, d))
    /\ EndClaim(q, s.rule)
    /\ stage' = [stage EXCEPT ![q] = "done"]
    /\ UNCHANGED <<now, start, workerVars, seen, budgets>>

\* Any exception restores the schedule as it was read; a lost lease only
\* rolls back, which the fence of Fail amounts to.
TriggerFails(q) ==
    LET s == seen[q] IN
    /\ stage[q] = "working"
    /\ Fail(q, s.rule, s.enabled, s.nextPoll)
    /\ EndClaim(q, s.rule)
    /\ stage' = [stage EXCEPT ![q] = "done"]
    /\ UNCHANGED <<now, start, workerVars, seen, budgets>>

\* The client disconnects or the server stops: nothing is written.
TriggerAbandoned(q) ==
    /\ stage[q] \in {"read", "working"} /\ now <= MaxFaultTime
    /\ EndClaim(q, seen[q].rule)
    /\ stage' = [stage EXCEPT ![q] = "done"]
    /\ UNCHANGED <<now, columns, start, lease, workerVars, seen, budgets>>

-----------------------------------------------------------------------------
(* Users, the clock, and the specification.                                *)

\* PATCH /watch/rules/{rule_id} with {"enabled": on}
SetEnabled(r, on) ==
    /\ r \in exists /\ enabled[r] # on /\ patches < MaxPatches
    /\ enabled' = [enabled EXCEPT ![r] = on]
    /\ patches' = patches + 1
    /\ UNCHANGED <<now, exists, nextPoll, lastPoll, start, lease, workerVars, requestVars, claim, crashes>>

\* DELETE /watch/rules/{rule_id}
DeleteRule(r) ==
    /\ r \in exists
    /\ exists' = exists \ {r}
    /\ UNCHANGED <<now, enabled, nextPoll, lastPoll, start, lease, workerVars, requestVars, claim, budgets>>

\* A worker has yet to settle rule r, or a request is about it.
Busy(r) ==
    \/ \E w \in Workers : \E i \in DOMAIN todo[w] : todo[w][i] = r
    \/ \E q \in Requests : stage[q] \in {"read", "working"} /\ seen[q].rule = r

\* An assistant run for the session of rule r (ensure_watch_rule).  The start
\* of the rule is moved back to the creation of the session.  If the window
\* is over then, the rule is disabled, whoever holds it; if not, its schedule
\* stays, inside the new window or not.
MonitoringStart(r, lead) ==
    LET from == IF 0 - lead < created[r] THEN 0 - lead ELSE created[r]
        over == WindowExpired(from, now)
    IN
    /\ r \in exists
    /\ created' = [created EXCEPT ![r] = from]
    /\ enabled' = [enabled EXCEPT ![r] = @ /\ ~over]
    /\ nextPoll' = [nextPoll EXCEPT ![r] = IF over THEN None ELSE @]
    /\ late' = IF from # created[r] /\ (Busy(r) \/ nextPoll'[r] # None)
               THEN late \cup {r} ELSE late
    /\ UNCHANGED <<now, exists, lastPoll, lease, workerVars, requestVars, claim, budgets>>

Tick ==
    /\ now < MaxTime
    /\ now' = now + 1
    /\ UNCHANGED <<columns, start, lease, workerVars, requestVars, claim, budgets>>

WorkerStep(w) ==
    \/ ClaimDue(w) \/ StartPoll(w) \/ CloseWindow(w)
    \/ PollSucceeds(w) \/ PollFails(w)

RequestStep(q) ==
    \/ TriggerExpired(q) \/ TriggerClaim(q) \/ TriggerRejected(q)
    \/ TriggerSucceeds(q) \/ TriggerFails(q)

Next ==
    \/ \E w \in Workers : WorkerStep(w) \/ Crash(w) \/ Restart(w)
    \/ \E q \in Requests : RequestStep(q) \/ TriggerRead(q) \/ TriggerAbandoned(q)
    \/ \E r \in Rules :
          \/ DeleteRule(r)
          \/ \E on \in BOOLEAN : SetEnabled(r, on)
          \/ \E lead \in Leads : MonitoringStart(r, lead)
    \/ Tick

Spec == Init /\ [][Next]_vars

\* Worker processes keep running and are restarted when they die, polls and
\* requests under way end (their calls have timeouts), and time passes.
\* Requests need not arrive.
FairSpec ==
    /\ Spec
    /\ \A w \in Workers : WF_vars(WorkerStep(w)) /\ WF_vars(Restart(w))
    /\ \A q \in Requests : WF_vars(RequestStep(q))
    /\ WF_vars(Tick)

-----------------------------------------------------------------------------
(* Properties.                                                             *)

Sightings == [rule : Rules, enabled : BOOLEAN, nextPoll : Times, start : Int,
              held : BOOLEAN, at : 0..MaxTime]

\* Every variable has its type.
TypeOK ==
    /\ now \in 0..MaxTime
    /\ exists \subseteq Rules
    /\ enabled \in [Rules -> BOOLEAN]
    /\ nextPoll \in [Rules -> Times]
    /\ lastPoll \in [Rules -> Times]
    /\ created \in [Rules -> Int]
    /\ owner \in [Rules -> Owners \cup {None}]
    /\ expires \in [Rules -> Times]
    /\ phase \in [Workers -> {"next", "polling", "dead"}]
    /\ todo \in [Workers -> Seq(Rules)]
    /\ loaded \in [Workers -> [Rules -> Int]]
    /\ stage \in [Requests -> {"new", "read", "working", "done"}]
    /\ seen \in [Requests -> Sightings \cup {None}]
    /\ claim \in [Owners -> [Rules -> Times]]
    /\ late \subseteq Rules
    /\ patches \in Nat /\ crashes \in Nat

Live(p, r) == claim[p][r] # None /\ now <= claim[p][r]

WindowOpen(r) == ~WindowExpired(created[r], now)

\* Within the window a process whose claim has not run out still owns the row:
\* neither another worker, another trigger request, a stale read of the row, a
\* late settlement of an earlier claim nor a moved start takes an unexpired
\* lease away.
LiveClaimIsHeld ==
    \A p \in Owners, r \in Rules :
        Live(p, r) /\ WindowOpen(r) => owner[r] = p

\* No two processes hold live claims on one rule.
MutualExclusion ==
    \A p, q \in Owners, r \in Rules :
        Live(p, r) /\ Live(q, r) /\ WindowOpen(r) => p = q

\* A poll is never scheduled past the window counted from the creation of the
\* rule.  It lies past the window counted from a moved start only when that
\* start was moved over a schedule, a claim or a request made with the old one:
\* a settlement whose row was loaded since then and the stale schedule that a
\* failed request writes back stay inside.
ScheduleWithinWindow ==
    \A r \in Rules : nextPoll[r] # None =>
        /\ nextPoll[r] < Window
        /\ r \in late \/ nextPoll[r] < created[r] + Window

\* Once the window is over, every rule that is still scheduled and enabled is
\* retired, whatever crashes, failures, requests and moves of its start happen
\* around its end.
RuleRetires ==
    \A r \in Rules :
        ~WindowOpen(r) ~> (r \notin exists \/ ~enabled[r] \/ nextPoll[r] = None)

Slot == INSTANCE FencedSlot WITH
            Slots <- Rules, Marks <- 0..MaxTime, holder <- owner, mark <- lastPoll,
            claims <- [p \in Owners |-> {r \in Rules : claim[p][r] # None}],
            overdue <- {r \in Rules : expires[r] # None /\ expires[r] < now},
            closed <- {r \in Rules : ~WindowOpen(r)}

\* A rule is given to a process only when it is free or its lease has run out,
\* last_poll_at is written and the rule freed only by the process that holds
\* it and works on it, and anyone else frees it only after its window: the
\* lease columns implement the fenced slot.
ImplementsFencedSlot == Slot!SlotSpec
=============================================================================
