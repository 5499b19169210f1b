----------------------------- MODULE ReviewQueue -----------------------------
(***************************************************************************)
(* The review queue of gray-zone claims.  Review workers claim pending     *)
(* items under a lease, hold a debate about each of them, and accept or    *)
(* reject it on the verdict; an item that is not ready goes back to the    *)
(* queue for users, who may decide any item at any moment.  Meanwhile the  *)
(* knowledge worker re-evaluates the confidence of claims.                 *)
(*                                                                         *)
(* A debate takes a language model's time, and the worker decides on the   *)
(* rows it loaded before.  Its session writes a column only when the value *)
(* differs from the one loaded, which is why loaded rows are modelled.     *)
(* Every claim here has a review item, and both have the same name.  What  *)
(* is published after a commit is left out: nothing here reads it.         *)
(***************************************************************************)
EXTENDS Integers, Sequences, FiniteSets, SequencesExt

CONSTANTS
    Items,        \* review items, and their claims
    Workers,      \* ReviewWorker processes
    None,
    MaxAttempts,  \* worker_max_attempts
    MaxEvents     \* bound: decisions of users, rounds of re-evaluation,
                  \* exceptions and killed workers, taken together

ASSUME LimitsAssumption == MaxAttempts \in Nat \ {0} /\ MaxEvents \in Nat
ASSUME NoneAssumption == None \notin Workers \cup {"worker", "user"}

VARIABLES
    status,      \* review_items.status
    lease,       \* the worker whose grant lease_expires_at belongs to, or None
    attempts,    \* processing_attempts
    decidedBy,   \* reviewer_id: "worker", "user" or None
    claimStatus, \* claims.status
    band,        \* claims.confidence, as the number of thresholds it reaches
    artifacts,   \* signals, events or trends promoted from the claim
    verdicts,    \* verdicts of the debates about the claim, oldest first
    live,        \* worker -> items whose latest grant to it has not run out
    lapsed,      \* items whose lease ran out while they were being processed
    pc, todo, copy,  \* the workers: phase ("idle" until an event comes), claimed
                     \* items, loaded rows
    sweep,       \* the rows a re-evaluation has loaded, or None
    events       \* how many of those have happened

itemVars == <<status, lease, attempts, decidedBy>>
claimVars == <<claimStatus, band, artifacts>>
rows == <<itemVars, claimVars, verdicts>>
timers == <<live, lapsed>>
workerVars == <<pc, todo, copy>>
vars == <<rows, timers, workerVars, sweep, events>>

\* Thresholds: review floor, conditional accept, auto process, accepted.
Floor == 1
ConditionalAccept == 2
AutoProcess == 3
Accepted == 4
Bands == 0..4

Init ==
    /\ status = [i \in Items |-> "PENDING"]
    /\ lease = [i \in Items |-> None]
    /\ attempts = [i \in Items |-> 0]
    /\ decidedBy = [i \in Items |-> None]
    /\ claimStatus = [i \in Items |-> "PENDING_REVIEW"]
    /\ band \in [Items -> Floor..AutoProcess]
    /\ artifacts = [i \in Items |-> 0]
    /\ verdicts = [i \in Items |-> <<>>]
    /\ live = [w \in Workers |-> {}]
    /\ lapsed = {}
    /\ pc \in [Workers -> {"idle", "due"}]
    /\ todo = [w \in Workers |-> {}]
    /\ copy = [w \in Workers |-> None]
    /\ sweep = None
    /\ events = 0

CountEvent == events < MaxEvents /\ events' = events + 1

-----------------------------------------------------------------------------
(* Waking, the claiming UPDATE and the lease clock.                        *)

\* A worker sweeps the queue when it starts and after each batch of
\* claim.review_requested events it reads or reclaims, and at no other time.
\* (An event that finds no pending item changes nothing.)
Event(w) ==
    /\ pc[w] = "idle" /\ \E i \in Items : status[i] = "PENDING"
    /\ pc' = [pc EXCEPT ![w] = "due"]
    /\ UNCHANGED <<rows, timers, todo, copy, sweep, events>>

\* Mutant of LeaseFree: the lease columns are not compared.
LeaseFreeAlways(i) == i \in Items

LeaseFree(i) == lease[i] # None => i \notin live[lease[i]]

Claimable == {i \in Items : status[i] = "PENDING" /\ LeaseFree(i)}

\* Mutant of ClaimItems: attempts are not counted.
ClaimItemsUncounted(w) ==
    /\ pc[w] = "due" /\ Claimable # {}
    /\ lease' = [i \in Items |-> IF i \in Claimable THEN w ELSE lease[i]]
    /\ live' = [live EXCEPT ![w] = @ \cup Claimable]
    /\ todo' = [todo EXCEPT ![w] = Claimable]
    /\ pc' = [pc EXCEPT ![w] = "next"]
    /\ UNCHANGED <<status, attempts, decidedBy, claimVars, verdicts, lapsed, copy, sweep, events>>

ClaimItems(w) ==
    /\ pc[w] = "due" /\ Claimable # {}
    /\ lease' = [i \in Items |-> IF i \in Claimable THEN w ELSE lease[i]]
    /\ attempts' = [i \in Items |-> IF i \in Claimable THEN attempts[i] + 1 ELSE attempts[i]]
    /\ live' = [live EXCEPT ![w] = @ \cup Claimable]
    /\ todo' = [todo EXCEPT ![w] = Claimable]
    /\ pc' = [pc EXCEPT ![w] = "next"]
    /\ UNCHANGED <<status, decidedBy, claimVars, verdicts, lapsed, copy, sweep, events>>

ClaimNothing(w) ==
    /\ pc[w] = "due" /\ Claimable = {}
    /\ pc' = [pc EXCEPT ![w] = "idle"]
    /\ UNCHANGED <<rows, timers, todo, copy, sweep, events>>

\* Items the worker has claimed and not yet left.
Held(w) == todo[w]

\* A lease runs out; leases are not renewed while a debate is under way.
LeaseRunsOut(w, i) ==
    /\ i \in live[w]
    /\ live' = [live EXCEPT ![w] = @ \ {i}]
    /\ lapsed' = IF i \in Held(w) THEN lapsed \cup {i} ELSE lapsed
    /\ UNCHANGED <<rows, workerVars, sweep, events>>

-----------------------------------------------------------------------------
(* _process_review_item.  copy[w] holds the item under way as loaded.      *)

Leave(w) ==
    /\ todo' = [todo EXCEPT ![w] = @ \ {copy[w].item}]
    /\ copy' = [copy EXCEPT ![w] = None]
    /\ pc' = [pc EXCEPT ![w] = "next"]

\* An item decided since it was claimed is left alone.
Skip(w) ==
    /\ pc[w] = "next"
    /\ \E i \in todo[w] :
         /\ status[i] # "PENDING"
         /\ todo' = [todo EXCEPT ![w] = @ \ {i}]
    /\ UNCHANGED <<rows, timers, pc, copy, sweep, events>>

BatchDone(w) ==
    /\ pc[w] = "next" /\ todo[w] = {}
    /\ pc' = [pc EXCEPT ![w] = "idle"]
    /\ UNCHANGED <<rows, timers, todo, copy, sweep, events>>

\* What follows from an earlier automated debate, from related claims (any of
\* which may or may not call for a debate), confidence and attempts.
AfterLoad(i, related) ==
    IF verdicts[i] # <<>> THEN Last(verdicts[i])
    ELSE IF related \/ band[i] >= AutoProcess \/ attempts[i] >= MaxAttempts THEN "debate"
    ELSE "release"

Load(w) ==
    /\ pc[w] = "next"
    /\ \E i \in todo[w], related \in BOOLEAN :
         /\ status[i] = "PENDING"
         /\ copy' = [copy EXCEPT ![w] = [item |-> i, leased |-> lease[i] # None,
                        attempts |-> attempts[i], claim |-> claimStatus[i], band |-> band[i]]]
         /\ pc' = [pc EXCEPT ![w] = AfterLoad(i, related)]
    /\ UNCHANGED <<rows, timers, todo, sweep, events>>

\* DebateWorkflow.decide commits the verdict it reaches.
Debate(w) ==
    /\ pc[w] = "debate"
    /\ \E v \in {"ACCEPTED", "REJECTED", "CONDITIONAL"} :
         /\ verdicts' = [verdicts EXCEPT ![copy[w].item] = Append(@, v)]
         /\ pc' = [pc EXCEPT ![w] = v]
    /\ UNCHANGED <<itemVars, claimVars, timers, todo, copy, sweep, events>>

\* The lease columns are written if they were set when the row was loaded.
ClearLease(w) ==
    lease' = IF copy[w].leased THEN [lease EXCEPT ![copy[w].item] = None] ELSE lease

\* accept_review_item and reject_review_item on the loaded rows.
Settle(w, s) ==
    LET i == copy[w].item IN
    /\ status' = [status EXCEPT ![i] = s]
    /\ decidedBy' = [decidedBy EXCEPT ![i] = "worker"]
    /\ ClearLease(w)
    /\ claimStatus' = IF copy[w].claim # s THEN [claimStatus EXCEPT ![i] = s] ELSE claimStatus
    /\ artifacts' = IF s = "ACCEPTED" THEN [artifacts EXCEPT ![i] = @ + 1] ELSE artifacts
    /\ Leave(w)
    /\ UNCHANGED <<attempts, band, verdicts, timers, sweep, events>>

AutoAccept(w) == pc[w] = "ACCEPTED" /\ Settle(w, "ACCEPTED")
AutoReject(w) == pc[w] = "REJECTED" /\ Settle(w, "REJECTED")

\* Mutant of ResolveConditional: before the last attempt.
ResolveConditionalEarly(w) ==
    /\ pc[w] = "CONDITIONAL"
    /\ Settle(w, IF copy[w].band >= ConditionalAccept THEN "ACCEPTED" ELSE "REJECTED")

\* _resolve_or_release_conditional, after the last attempt.
ResolveConditional(w) ==
    /\ pc[w] = "CONDITIONAL"
    /\ copy[w].attempts >= MaxAttempts
    /\ Settle(w, IF copy[w].band >= ConditionalAccept THEN "ACCEPTED" ELSE "REJECTED")

\* Mutant of Release: the whole loaded row is written back.
ReleaseWritesRow(w) ==
    /\ \/ pc[w] = "release"
       \/ pc[w] = "CONDITIONAL" /\ copy[w].attempts < MaxAttempts
    /\ status' = [status EXCEPT ![copy[w].item] = "PENDING"]
    /\ ClearLease(w)
    /\ Leave(w)
    /\ UNCHANGED <<attempts, decidedBy, claimVars, verdicts, timers, sweep, events>>

\* _release_review_item: back to the queue.
Release(w) ==
    /\ \/ pc[w] = "release"
       \/ pc[w] = "CONDITIONAL" /\ copy[w].attempts < MaxAttempts
    /\ ClearLease(w)
    /\ Leave(w)
    /\ UNCHANGED <<status, attempts, decidedBy, claimVars, verdicts, timers, sweep, events>>

\* An exception before the decision is committed: rollback, and the item as it
\* is now is released if it is still pending.
Raises(w) ==
    LET i == copy[w].item IN
    /\ pc[w] \notin {"idle", "due", "next", "dead"}
    /\ CountEvent
    /\ lease' = IF status[i] = "PENDING" THEN [lease EXCEPT ![i] = None] ELSE lease
    /\ Leave(w)
    /\ UNCHANGED <<status, attempts, decidedBy, claimVars, verdicts, timers, sweep>>

Crash(w) ==
    /\ pc[w] # "dead"
    /\ CountEvent
    /\ pc' = [pc EXCEPT ![w] = "dead"]
    /\ todo' = [todo EXCEPT ![w] = {}]
    /\ copy' = [copy EXCEPT ![w] = None]
    /\ UNCHANGED <<rows, timers, sweep>>

Restart(w) ==
    /\ pc[w] = "dead"
    /\ pc' = [pc EXCEPT ![w] = "due"]
    /\ UNCHANGED <<rows, timers, todo, copy, sweep, events>>

-----------------------------------------------------------------------------
(* Users and the knowledge worker.                                         *)

\* POST /review/items/{id}/accept and /reject: no condition on the status, and
\* the row is read and written by one short request.
UserDecides(i, s) ==
    /\ CountEvent
    /\ status' = [status EXCEPT ![i] = s]
    /\ decidedBy' = [decidedBy EXCEPT ![i] = "user"]
    /\ lease' = [lease EXCEPT ![i] = None]
    /\ claimStatus' = [claimStatus EXCEPT ![i] = s]
    /\ artifacts' = IF s = "ACCEPTED" THEN [artifacts EXCEPT ![i] = @ + 1] ELSE artifacts
    /\ UNCHANGED <<attempts, band, verdicts, timers, workerVars, sweep>>

\* _reevaluate_related_claims loads the accepted and pending claims ...
ReevaluationLoads ==
    /\ sweep = None
    /\ CountEvent
    /\ sweep' = [i \in {c \in Items : claimStatus[c] # "REJECTED"} |-> claimStatus[i]]
    /\ UNCHANGED <<rows, timers, workerVars>>

\* ... and gives some of them a new confidence and the status it calls for.
NewStatus(old, b) ==
    IF b >= Accepted THEN "ACCEPTED"
    ELSE IF b < Floor /\ old = "ACCEPTED" THEN "PENDING_REVIEW"
    ELSE old

ReevaluationCommits ==
    /\ sweep # None
    /\ \E changed \in SUBSET DOMAIN sweep : \E new \in [changed -> Bands] :
         LET Changes(i) == i \in changed /\ NewStatus(sweep[i], new[i]) # sweep[i] IN
         /\ band' = [i \in Items |-> IF i \in changed THEN new[i] ELSE band[i]]
         /\ claimStatus' = [i \in Items |-> IF Changes(i) THEN NewStatus(sweep[i], new[i])
                                            ELSE claimStatus[i]]
    /\ sweep' = None
    /\ UNCHANGED <<itemVars, artifacts, verdicts, timers, workerVars, events>>

-----------------------------------------------------------------------------
WorkerStep(w) ==
    \/ ClaimItems(w) \/ ClaimNothing(w) \/ Skip(w) \/ BatchDone(w) \/ Load(w) \/ Debate(w)
    \/ AutoAccept(w) \/ AutoReject(w) \/ ResolveConditional(w) \/ Release(w)
    \/ Restart(w)

Next ==
    \/ \E w \in Workers : WorkerStep(w) \/ Event(w) \/ Raises(w) \/ Crash(w)
    \/ \E w \in Workers, i \in Items : LeaseRunsOut(w, i)
    \/ \E i \in Items : UserDecides(i, "ACCEPTED") \/ UserDecides(i, "REJECTED")
    \/ ReevaluationLoads \/ ReevaluationCommits

Spec == Init /\ [][Next]_vars

\* Workers finish the rounds they begin and are restarted, debates end, and
\* leases run out.  Users and the knowledge worker need not do anything.
FairSpec ==
    /\ Spec
    /\ \A w \in Workers : WF_vars(WorkerStep(w))
    /\ \A w \in Workers, i \in Items : WF_vars(LeaseRunsOut(w, i))

\* Nothing in the code brings a worker back to an item that was released, or
\* whose worker died and whose event was reclaimed before the lease ran out:
\* requests for the review of other claims do, in a system where they keep
\* coming.
BusySpec == FairSpec /\ WF_vars(\E w \in Workers : Event(w))

-----------------------------------------------------------------------------
(* Properties.                                                             *)

Verdicts == {"ACCEPTED", "REJECTED", "CONDITIONAL"}
ItemStates == {"PENDING", "ACCEPTED", "REJECTED"}
ClaimStates == {"PENDING_REVIEW", "ACCEPTED", "REJECTED"}
Copies == [item : Items, leased : BOOLEAN, attempts : Nat, claim : ClaimStates, band : Bands]

\* Every variable has its type.
TypeOK ==
    /\ status \in [Items -> ItemStates]
    /\ lease \in [Items -> Workers \cup {None}]
    /\ attempts \in [Items -> Nat]
    /\ decidedBy \in [Items -> {"worker", "user", None}]
    /\ claimStatus \in [Items -> ClaimStates]
    /\ band \in [Items -> Bands]
    /\ artifacts \in [Items -> Nat]
    /\ verdicts \in [Items -> Seq(Verdicts)]
    /\ live \in [Workers -> SUBSET Items]
    /\ lapsed \subseteq Items
    /\ pc \in [Workers -> Verdicts \cup {"idle", "due", "next", "debate", "release", "dead"}]
    /\ todo \in [Workers -> SUBSET Items]
    /\ copy \in [Workers -> Copies \cup {None}]
    /\ sweep = None \/ (DOMAIN sweep \subseteq Items /\ \A i \in DOMAIN sweep : sweep[i] \in ClaimStates)
    /\ events \in Nat

\* Two workers never hold the same item unless a lease on it ran out under its
\* holder: releases, exceptions, decisions and restarts of others free no item
\* that is being processed.
LeaseSeparatesWorkers ==
    \A v, w \in Workers : v # w => Held(v) \cap Held(w) \subseteq lapsed

\* What a worker decided rests on a debate that reached this verdict, or on one
\* without a result and on all attempts, even if several workers raced for it.
WorkerDecisionHasGround ==
    \A i \in Items : decidedBy[i] = "worker" =>
        \/ status[i] \in ToSet(verdicts[i])
        \/ "CONDITIONAL" \in ToSet(verdicts[i]) /\ attempts[i] >= MaxAttempts

\* A decided item never goes back to the queue, although late workers release
\* and settle it from the rows they loaded while it was pending.
DecidedStaysDecided ==
    [][\A i \in Items : status[i] # "PENDING" => status'[i] # "PENDING"]_vars

\* As long as requests for reviews keep coming (BusySpec), every item is decided:
\* the automated review neither passes it on forever nor loses it to a dead
\* worker.
EveryItemDecided == \A i \in Items : <>(status[i] # "PENDING")

\* tests/test_phase1_api.py: a rejected review item has a rejected claim.  The
\* re-evaluation that loaded the claim before accepts it again.
RejectedClaimStaysRejected ==
    \A i \in Items : status[i] = "REJECTED" => claimStatus[i] # "ACCEPTED"
=============================================================================
