--------------------------- MODULE IngestPipeline ---------------------------
(***************************************************************************)
(* Ingest runs from their creation to extracted knowledge                  *)
(* (PhaseOnePipelineService): requests create runs, INLINE ones process    *)
(* their items at once, QUEUED ones are staged by the ingest worker and    *)
(* materialized by the knowledge worker.                                   *)
(*                                                                         *)
(* Every request and every worker round is one transaction, committed at   *)
(* its end, after which the buffered events are published.  db is the      *)
(* committed database and tx the image the transaction under way has       *)
(* built.  One transaction writes at a time, as on SQLite, whose branch of *)
(* the deduplicating insert is the one modelled.  The lease of a run or an *)
(* item is set and cleared within one transaction and so is never seen by  *)
(* another one: every committed lease is NULL.                             *)
(*                                                                         *)
(* Items stand for their dedupe keys, which are unique over all runs.  The *)
(* batch limits (10 runs, 50 items) are above the size of any instance.    *)
(***************************************************************************)
EXTENDS Integers, Sequences, FiniteSetsExt

CONSTANTS
    Runs, Items,
    Requests,       \* what users may ask for: functions from runs to sequences of items
    InlineRuns,     \* runs created with execution_mode INLINE
    ArchiveFails,   \* items whose source snapshot may fail to be stored
    None,
    MaxAttempts,    \* worker_max_attempts
    MaxCrashes      \* bound: worker processes killed from outside

ASSUME RequestAssumption ==
    /\ \A request \in Requests : request \in [Runs -> Seq(Items)]
    /\ InlineRuns \subseteq Runs /\ ArchiveFails \subseteq Items
ASSUME LimitsAssumption == MaxAttempts \in Nat \ {0} /\ MaxCrashes \in Nat

RunStates == {None, "PENDING", "PROCESSING", "COMPLETED", "FAILED"}

\* order: runs by created_at.  asked: the items in the payload of each run.
\* owner: item -> run of its raw_source_items row.  known: "partial" when the
\* normalized and evidence rows exist without claims.
Databases ==
    [order : Seq(Runs), asked : Requests, status : [Runs -> RunStates], attempts : [Runs -> Nat],
     duplicates : [Runs -> Nat], owner : [Items -> Runs \cup {None}],
     item : [Items -> {"PENDING", "COMPLETED", "FAILED"}], tries : [Items -> Nat],
     known : [Items -> {"none", "partial", "full"}]]

ASSUME NoneAssumption ==
    None \notin Runs \cup Databases \cup {"PENDING", "PROCESSING", "COMPLETED", "FAILED"}

VARIABLES
    db,         \* committed rows
    tx,         \* rows as the writing transaction sees them, or None
    ing,        \* the ingest worker
    kno,        \* the knowledge worker
    api,        \* run -> the request that creates it
    published,  \* <<topic, item>> given to the event bus
    wake,       \* events wait for the knowledge worker, or it has just been started
    crashes

vars == <<db, tx, ing, kno, api, published, wake, crashes>>

\* No run, no item.
EmptyDb(request) ==
    [order |-> <<>>,
     asked |-> request,
     status |-> [r \in Runs |-> None],
     attempts |-> [r \in Runs |-> 0],
     duplicates |-> [r \in Runs |-> 0],
     owner |-> [i \in Items |-> None],
     item |-> [i \in Items |-> "PENDING"],
     tries |-> [i \in Items |-> 0],
     known |-> [i \in Items |-> "none"]]

IngestIdle == [phase |-> "idle", queue |-> {}, pos |-> 1, staged |-> 0,
               duplicates |-> 0, expired |-> FALSE, out |-> <<>>]
KnowledgeIdle == [phase |-> "idle", left |-> {}, touched |-> {}, out |-> <<>>]
NewRequest == [phase |-> "new", pos |-> 1, out |-> <<>>]

Init ==
    /\ \E request \in Requests : db = EmptyDb(request)
    /\ tx = None
    /\ ing = IngestIdle
    /\ kno = KnowledgeIdle
    /\ api = [r \in Runs |-> NewRequest]
    /\ published = {}
    /\ wake = TRUE
    /\ crashes = 0

Request == db.asked

Raw(i) == <<"raw.ingested", i>>
Knowledge(i) == <<"knowledge.extracted", i>>

\* A run is worked on again after a failure until its attempts are used up.
AfterFailure(attempts) == IF attempts >= MaxAttempts THEN "FAILED" ELSE "PENDING"

-----------------------------------------------------------------------------
(* create_ingest_run                                                       *)

CreateQueued(r) ==
    /\ r \notin InlineRuns /\ api[r].phase = "new" /\ tx = None
    /\ db' = [db EXCEPT !.order = Append(@, r), !.status[r] = "PENDING"]
    /\ api' = [api EXCEPT ![r].phase = "answered"]
    /\ UNCHANGED <<tx, ing, kno, published, wake, crashes>>

BeginInline(r) ==
    /\ r \in InlineRuns /\ api[r].phase = "new" /\ tx = None
    /\ tx' = [db EXCEPT !.order = Append(@, r), !.status[r] = "PROCESSING"]
    /\ api' = [api EXCEPT ![r].phase = "staging"]
    /\ UNCHANGED <<db, ing, kno, published, wake, crashes>>

InlineItem(r) == Request[r][api[r].pos]
InlineItemsLeft(r) == api[r].phase = "staging" /\ api[r].pos <= Len(Request[r])

\* A new item is inserted and materialized in a savepoint; when that raises,
\* the item stays PENDING and the next one follows.
InlineNewItem(r) ==
    LET i == InlineItem(r) IN
    /\ InlineItemsLeft(r)
    /\ tx.owner[i] = None
    /\ \/ /\ tx' = [tx EXCEPT !.owner[i] = r, !.item[i] = "COMPLETED", !.known[i] = "full"]
          /\ api' = [api EXCEPT ![r].pos = @ + 1, ![r].out = @ \o <<Raw(i), Knowledge(i)>>]
       \/ /\ tx' = [tx EXCEPT !.owner[i] = r]
          /\ api' = [api EXCEPT ![r].pos = @ + 1, ![r].out = Append(@, Raw(i))]
    /\ UNCHANGED <<db, ing, kno, published, wake, crashes>>

\* A duplicate violates the unique key; the whole transaction is rolled back,
\* with it the new run and the items before this one, and processing goes on.
InlineDuplicate(r) ==
    /\ InlineItemsLeft(r)
    /\ tx.owner[InlineItem(r)] # None
    /\ tx' = db
    /\ api' = [api EXCEPT ![r].pos = @ + 1]
    /\ UNCHANGED <<db, ing, kno, published, wake, crashes>>

\* An exception outside the savepoint: the request fails and nothing is kept.
InlineRaises(r) ==
    /\ InlineItemsLeft(r)
    /\ InlineItem(r) \in ArchiveFails /\ tx.owner[InlineItem(r)] = None
    /\ tx' = None
    /\ api' = [api EXCEPT ![r] = [NewRequest EXCEPT !.phase = "failed"]]
    /\ UNCHANGED <<db, ing, kno, published, wake, crashes>>

\* The final assignments reach the row only if the run is still in the session.
CommitInline(r) ==
    /\ api[r].phase = "staging" /\ api[r].pos > Len(Request[r])
    /\ db' = IF tx.status[r] # None THEN [tx EXCEPT !.status[r] = "COMPLETED"] ELSE tx
    /\ tx' = None
    /\ api' = [api EXCEPT ![r].phase = "publishing"]
    /\ UNCHANGED <<ing, kno, published, wake, crashes>>

\* The bus may fail on any event: the rows are committed, the request fails.
PublishInline(r) ==
    LET out == api[r].out IN
    /\ api[r].phase = "publishing"
    /\ \E n \in 0..Len(out) :
         /\ published' = published \cup {out[k] : k \in 1..n}
         /\ wake' = (wake \/ n > 0)
         /\ api' = [api EXCEPT ![r] = [NewRequest EXCEPT
                      !.phase = IF n = Len(out) THEN "answered" ELSE "failed"]]
    /\ UNCHANGED <<db, tx, ing, kno, crashes>>

-----------------------------------------------------------------------------
(* IngestWorker: process_queued_runs                                       *)

\* PENDING runs, and PROCESSING ones without a lease: since no lease is ever
\* committed, these are the runs staged before and not yet finished.
Claimable(r) == db.status[r] \in {"PENDING", "PROCESSING"}

\* The run of a set that was created first.
First(runs) == db.order[Min({k \in DOMAIN db.order : db.order[k] \in runs})]

ClaimRuns ==
    LET queue == {r \in Runs : Claimable(r)} IN
    /\ ing.phase = "idle" /\ tx = None
    /\ queue # {}
    /\ tx' = [db EXCEPT
                !.status = [r \in Runs |-> IF Claimable(r) THEN "PROCESSING" ELSE @[r]],
                !.attempts = [r \in Runs |-> IF Claimable(r) THEN @[r] + 1 ELSE @[r]]]
    /\ ing' = [IngestIdle EXCEPT !.phase = "staging", !.queue = queue,
                                 !.duplicates = db.duplicates[First(queue)]]
    /\ UNCHANGED <<db, kno, api, published, wake, crashes>>

StagedRun == First(ing.queue)
ItemsLeft == /\ ing.phase = "staging" /\ ing.queue # {}
             /\ ing.pos <= Len(Request[StagedRun])
NextItem == Request[StagedRun][ing.pos]

\* The items of a run are read from its row: fatal when the row is expired,
\* which at the start of a run means a rollback in an earlier one.
FirstReadRaises == /\ ing.phase = "staging" /\ ing.queue # {}
                   /\ ing.expired /\ ing.pos = 1

\* The worker turns to the next claimed run.
Turn(rows) ==
    LET left == ing.queue \ {StagedRun} IN
    /\ tx' = rows
    /\ ing' = [ing EXCEPT !.queue = left, !.pos = 1, !.staged = 0,
                          !.duplicates = IF left = {} THEN 0 ELSE rows.duplicates[First(left)]]

\* Mutant of StageNewItem: the dedupe key is not looked up.
StageNewItemUnchecked ==
    /\ ItemsLeft /\ ~ing.expired
    /\ tx' = [tx EXCEPT !.owner[NextItem] = StagedRun]
    /\ ing' = [ing EXCEPT !.pos = @ + 1, !.staged = @ + 1, !.out = Append(@, Raw(NextItem))]
    /\ UNCHANGED <<db, kno, api, published, wake, crashes>>

StageNewItem ==
    /\ ItemsLeft /\ ~ing.expired
    /\ tx.owner[NextItem] = None
    /\ tx' = [tx EXCEPT !.owner[NextItem] = StagedRun]
    /\ ing' = [ing EXCEPT !.pos = @ + 1, !.staged = @ + 1, !.out = Append(@, Raw(NextItem))]
    /\ UNCHANGED <<db, kno, api, published, wake, crashes>>

\* The rollback takes back the claims and every item staged in this round, and
\* expires the loaded runs; the counters of the worker are kept.
StageDuplicate ==
    /\ ItemsLeft /\ ~ing.expired
    /\ tx.owner[NextItem] # None
    /\ tx' = db
    /\ ing' = [ing EXCEPT !.pos = @ + 1, !.duplicates = @ + 1, !.expired = TRUE]
    /\ UNCHANGED <<db, kno, api, published, wake, crashes>>

\* An exception while staging a run: what was inserted so far stays.
StageRaises ==
    LET r == StagedRun IN
    /\ ItemsLeft /\ ~ing.expired
    /\ NextItem \in ArchiveFails /\ tx.owner[NextItem] = None
    /\ Turn([tx EXCEPT !.status[r] = AfterFailure(tx.attempts[r]), !.owner[NextItem] = r])
    /\ UNCHANGED <<db, kno, api, published, wake, crashes>>

\* Mutant of StageDone: a staged run is closed.
StageDoneCloses ==
    LET r == StagedRun IN
    /\ ing.phase = "staging" /\ ing.queue # {} /\ ing.pos > Len(Request[r])
    /\ ~FirstReadRaises
    /\ Turn([tx EXCEPT !.duplicates[r] = ing.duplicates, !.status[r] = "COMPLETED"])
    /\ UNCHANGED <<db, kno, api, published, wake, crashes>>

StageDone ==
    LET r == StagedRun IN
    /\ ing.phase = "staging" /\ ing.queue # {} /\ ing.pos > Len(Request[r])
    /\ ~FirstReadRaises
    /\ Turn([tx EXCEPT !.duplicates[r] = IF ing.duplicates > Len(Request[r])
                                         THEN Len(Request[r]) + 1 ELSE ing.duplicates,
                       !.status[r] = IF ing.staged = 0 THEN "COMPLETED" ELSE @])
    /\ UNCHANGED <<db, kno, api, published, wake, crashes>>

\* Reading an expired run raises, also in the exception handler: the round is
\* lost and the process ends.
StageAborts ==
    /\ (ItemsLeft /\ ing.expired) \/ FirstReadRaises
    /\ tx' = None
    /\ ing' = [IngestIdle EXCEPT !.phase = "dead"]
    /\ UNCHANGED <<db, kno, api, published, wake, crashes>>

CommitStaged ==
    /\ ing.phase = "staging" /\ ing.queue = {}
    /\ db' = tx
    /\ tx' = None
    /\ ing' = [IngestIdle EXCEPT !.phase = "publishing", !.out = ing.out]
    /\ UNCHANGED <<kno, api, published, wake, crashes>>

PublishStaged ==
    /\ ing.phase = "publishing"
    /\ IF ing.out = <<>>
       THEN /\ ing' = IngestIdle
            /\ UNCHANGED <<published, wake>>
       ELSE /\ ing' = [ing EXCEPT !.out = Tail(@)]
            /\ published' = published \cup {Head(ing.out)}
            /\ wake' = TRUE
    /\ UNCHANGED <<db, tx, kno, api, crashes>>

-----------------------------------------------------------------------------
(* KnowledgeWorker: process_pending_knowledge, run once at startup and once *)
(* after each batch of raw.ingested events, not on an interval.            *)

\* Mutant of Unprocessed: items of runs that wait, not of those in work.
UnprocessedOfWaiting(i) ==
    /\ db.owner[i] # None
    /\ db.status[db.owner[i]] = "PENDING"
    /\ db.item[i] = "PENDING"

Unprocessed(i) ==
    /\ db.owner[i] # None
    /\ db.status[db.owner[i]] = "PROCESSING"
    /\ db.item[i] = "PENDING"

ClaimItems ==
    LET claimed == {i \in Items : Unprocessed(i)} IN
    /\ kno.phase = "idle" /\ tx = None
    /\ wake /\ claimed # {}
    /\ wake' = FALSE
    /\ tx' = [db EXCEPT !.tries = [i \in Items |-> IF i \in claimed THEN @[i] + 1 ELSE @[i]]]
    /\ kno' = [KnowledgeIdle EXCEPT !.phase = "working", !.left = claimed,
                                    !.touched = {db.owner[i] : i \in claimed}]
    /\ UNCHANGED <<db, ing, api, published, crashes>>

\* A round that finds nothing; its events are acknowledged all the same.
ClaimNothing ==
    /\ kno.phase = "idle"
    /\ wake /\ \A i \in Items : ~Unprocessed(i)
    /\ wake' = FALSE
    /\ UNCHANGED <<db, tx, ing, kno, api, published, crashes>>

\* A raw.ingested event of something else than these runs reaches the worker.
\* (One that finds nothing to claim changes nothing.)
OtherEvent ==
    /\ kno.phase = "idle" /\ ~wake /\ \E i \in Items : Unprocessed(i)
    /\ wake' = TRUE
    /\ UNCHANGED <<db, tx, ing, kno, api, published, crashes>>

\* Mutant of Materialize: the event is published before the commit.
MaterializeAnnounces(i) ==
    /\ kno.phase = "working" /\ i \in kno.left
    /\ tx' = [tx EXCEPT !.item[i] = "COMPLETED",
                        !.known[i] = IF @ = "none" THEN "full" ELSE @]
    /\ kno' = [kno EXCEPT !.left = @ \ {i}]
    /\ published' = published \cup {Knowledge(i)}
    /\ UNCHANGED <<db, ing, api, wake, crashes>>

\* An item that already has a normalized row is only marked.
Materialize(i) ==
    /\ kno.phase = "working" /\ i \in kno.left
    /\ tx' = [tx EXCEPT !.item[i] = "COMPLETED",
                        !.known[i] = IF @ = "none" THEN "full" ELSE @]
    /\ kno' = [kno EXCEPT !.left = @ \ {i},
                          !.out = IF tx.known[i] = "none" THEN Append(@, Knowledge(i)) ELSE @]
    /\ UNCHANGED <<db, ing, api, published, wake, crashes>>

\* Mutant of MaterializeRaises: the exception is logged and the item is done.
MaterializeRaisesQuietly(i) ==
    /\ kno.phase = "working" /\ i \in kno.left
    /\ tx' = [tx EXCEPT !.item[i] = "COMPLETED"]
    /\ kno' = [kno EXCEPT !.left = @ \ {i}]
    /\ UNCHANGED <<db, ing, api, published, wake, crashes>>

\* An exception before or after the normalized row was added; there is no
\* savepoint, so the rows that were added are committed with the round.
MaterializeRaises(i) ==
    /\ kno.phase = "working" /\ i \in kno.left
    /\ tx.known[i] = "none"
    /\ \E rows \in {"none", "partial"} :
         tx' = [tx EXCEPT !.item[i] = AfterFailure(tx.tries[i]), !.known[i] = rows]
    /\ kno' = [kno EXCEPT !.left = @ \ {i}]
    /\ UNCHANGED <<db, ing, api, published, wake, crashes>>

\* Mutant of FinalStatus: pending items are forgotten.
FinalStatusIgnoresPending(rows, r) ==
    IF \E i \in Items : rows.owner[i] = r /\ rows.item[i] = "FAILED" THEN "FAILED" ELSE "COMPLETED"

\* _finalize_queued_run
FinalStatus(rows, r) ==
    LET staged == {i \in Items : rows.owner[i] = r}
        In(s) == {i \in staged : rows.item[i] = s}
    IN  CASE \/ Cardinality(staged) + rows.duplicates[r] < Len(Request[r])
             \/ In("PENDING") # {}     -> "PROCESSING"
          [] OTHER                     -> IF In("FAILED") # {} THEN "FAILED" ELSE "COMPLETED"

CommitKnowledge ==
    /\ kno.phase = "working" /\ kno.left = {}
    /\ db' = [tx EXCEPT !.status =
                [r \in Runs |-> IF r \in kno.touched THEN FinalStatus(tx, r) ELSE @[r]]]
    /\ tx' = None
    /\ kno' = [KnowledgeIdle EXCEPT !.phase = "publishing", !.out = kno.out]
    /\ UNCHANGED <<ing, api, published, wake, crashes>>

PublishKnowledge ==
    /\ kno.phase = "publishing"
    /\ IF kno.out = <<>>
       THEN /\ kno' = KnowledgeIdle
            /\ UNCHANGED published
       ELSE /\ kno' = [kno EXCEPT !.out = Tail(@)]
            /\ published' = published \cup {Head(kno.out)}
    /\ UNCHANGED <<db, tx, ing, api, wake, crashes>>

-----------------------------------------------------------------------------
(* Deaths and restarts of the two workers.                                 *)

CrashIngest ==
    /\ ing.phase # "dead" /\ crashes < MaxCrashes
    /\ tx' = IF ing.phase = "staging" THEN None ELSE tx
    /\ ing' = [IngestIdle EXCEPT !.phase = "dead"]
    /\ crashes' = crashes + 1
    /\ UNCHANGED <<db, kno, api, published, wake>>

CrashKnowledge ==
    /\ kno.phase # "dead" /\ crashes < MaxCrashes
    /\ tx' = IF kno.phase = "working" THEN None ELSE tx
    /\ kno' = [KnowledgeIdle EXCEPT !.phase = "dead"]
    /\ crashes' = crashes + 1
    /\ UNCHANGED <<db, ing, api, published, wake>>

RestartIngest ==
    /\ ing.phase = "dead"
    /\ ing' = IngestIdle
    /\ UNCHANGED <<db, tx, kno, api, published, wake, crashes>>

RestartKnowledge ==
    /\ kno.phase = "dead"
    /\ kno' = KnowledgeIdle
    /\ wake' = TRUE
    /\ UNCHANGED <<db, tx, ing, api, published, crashes>>

-----------------------------------------------------------------------------
InlineStep(r) ==
    \/ BeginInline(r) \/ InlineNewItem(r) \/ InlineDuplicate(r) \/ InlineRaises(r)
    \/ CommitInline(r) \/ PublishInline(r)

IngestStep ==
    \/ StageNewItem \/ StageDuplicate \/ StageRaises \/ StageDone
    \/ StageAborts \/ CommitStaged \/ PublishStaged \/ RestartIngest

KnowledgeStep ==
    \/ (\E i \in Items : Materialize(i) \/ MaterializeRaises(i))
    \/ CommitKnowledge \/ PublishKnowledge \/ ClaimNothing \/ RestartKnowledge

Next ==
    \/ \E r \in Runs : CreateQueued(r) \/ InlineStep(r)
    \/ ClaimRuns \/ IngestStep \/ CrashIngest
    \/ ClaimItems \/ KnowledgeStep \/ CrashKnowledge \/ OtherEvent

Spec == Init /\ [][Next]_vars

\* The ingest worker runs on an interval and the knowledge worker on each event
\* it is given; both are restarted when they die, and get the write lock again
\* and again although the other one keeps asking for it.
FairSpec ==
    /\ Spec
    /\ WF_vars(IngestStep) /\ WF_vars(KnowledgeStep)
    /\ SF_vars(ClaimRuns) /\ SF_vars(ClaimItems)
    /\ \A r \in InlineRuns : WF_vars(InlineStep(r) /\ api[r].phase # "new")

\* Nothing in the code wakes the knowledge worker for items that were committed
\* and never announced (the ingest worker died between its commit and the
\* event), nor for an extraction that failed in an acknowledged round: a busy
\* system does, where raw.ingested events keep coming.
BusySpec == FairSpec /\ WF_vars(OtherEvent)

-----------------------------------------------------------------------------
(* Properties.                                                             *)

Topics == {"raw.ingested", "knowledge.extracted"} \X Items

ProcessTypeOK ==
    /\ db \in Databases
    /\ tx \in Databases \cup {None}
    /\ ing \in [phase : {"idle", "staging", "publishing", "dead"}, queue : SUBSET Runs,
               pos : Nat \ {0}, staged : Nat, duplicates : Nat, expired : BOOLEAN, out : Seq(Topics)]
    /\ kno \in [phase : {"idle", "working", "publishing", "dead"}, left : SUBSET Items,
               touched : SUBSET Runs, out : Seq(Topics)]
    /\ api \in [Runs -> [phase : {"new", "staging", "publishing", "answered", "failed"},
                         pos : Nat \ {0}, out : Seq(Topics)]]
    /\ published \subseteq Topics
    /\ crashes \in 0..MaxCrashes

\* Every variable has its type.
TypeOK == ProcessTypeOK /\ wake \in BOOLEAN

ItemsOf(r) == {i \in Items : db.owner[i] = r}

\* A knowledge round announces an extraction only once it is committed: no
\* rollback or death takes back what graph and simulation workers were told of
\* it.  INLINE requests do announce items that a later duplicate rolled back,
\* and a re-evaluation of claims, which is not part of this module, announces
\* before its commit.
AnnouncedKnowledgeIsCommitted ==
    [][\A i \in Items :
          Knowledge(i) \in published' \ published /\ UNCHANGED api
              => db'.known[i] = "full"]_vars

\* Rows only advance: an item keeps its first run, a finished item is not
\* reopened, and committed knowledge is neither lost nor built a second time,
\* through rollbacks, deaths and repeated staging.
RowsOnlyAdvance ==
    [][\A i \in Items :
          /\ db.owner[i] # None => db'.owner[i] = db.owner[i]
          /\ db.item[i] # "PENDING" => db'.item[i] = db.item[i]
          /\ db.known[i] # "none" => db'.known[i] = db.known[i]]_vars

\* The knowledge worker closes a run only when every item of it is finished.
KnowledgeClosesFinishedRuns ==
    [][\A r \in Runs :
          kno.phase = "working" /\ db'.status[r] # db.status[r] /\ db'.status[r] # "PROCESSING"
              => /\ \A i \in ItemsOf(r) : db'.item[i] # "PENDING"
                 /\ Cardinality(ItemsOf(r)) + db.duplicates[r] >= Len(Request[r])]_vars

\* No item is asked for twice, and all can be stored.
OwnItems ==
    LET asked(i) == {p \in Runs \X (1..Cardinality(Items)) :
                        p[2] <= Len(Request[p[1]]) /\ Request[p[1]][p[2]] = i}
    IN  \A i \in Items : asked(i) = {} \/ (i \notin ArchiveFails /\ Cardinality(asked(i)) = 1)

\* As long as other events keep waking the knowledge worker (BusySpec), a queued
\* run of several new items is staged, processed and closed, whatever extraction
\* fails and whichever worker dies on the way, also between the commit of the
\* staged items and their event: staging a run again only loses a round.  (For a
\* run of one item see EarlyCloseIsARestaging.)
QueuedRunsFinish ==
    \A r \in Runs \ InlineRuns :
        (OwnItems /\ db.status[r] = "PENDING")
            ~> /\ db.status[r] \in {"COMPLETED", "FAILED"}
               /\ \A i \in ItemsOf(r) : db.item[i] # "PENDING"

\* A queued run answers as COMPLETED with items that are still to be extracted
\* only by counting its own items as duplicates: while it waits for the knowledge
\* worker it looks abandoned and is staged again.  A single staging, by whatever
\* rollback, failure or death it is broken, never closes it early.
EarlyCloseIsARestaging ==
    \A r \in Runs \ InlineRuns :
        db.status[r] = "COMPLETED" /\ (\E i \in ItemsOf(r) : db.item[i] = "PENDING")
            => Cardinality(ItemsOf(r)) + db.duplicates[r] > Len(Request[r])

\* An item is COMPLETED without its claims only by a retry: the extraction
\* failed after its normalized row, the row was committed with the failure, and
\* the next attempt takes it for the whole.  No other item counts as complete.
UnextractedIsARetry ==
    \A i \in Items : db.item[i] = "COMPLETED" /\ db.known[i] # "full" => db.tries[i] > 1
=============================================================================
