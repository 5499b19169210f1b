----------------------------- MODULE SourceMonitor -----------------------------
(***************************************************************************)
(* What a poll of a watch rule does with the source it reads: the cursor   *)
(* row that remembers the last content, the change records, the ingest     *)
(* run, the reaction, and the recommendation version that cites the change.*)
(* The poll holds the rule's lease, whose rules are in module WatchLease;  *)
(* here a lease is given, given back, or lost.                             *)
(*                                                                         *)
(* A poll commits twice: cursor and change record with the ingest run, and *)
(* the recommendation with the end of the lease.  In between it runs       *)
(* simulations and debates, which take long and may fail.  Content is a    *)
(* version number, and the rule has one source, of which the poll treats   *)
(* one group at a time.                                                    *)
(***************************************************************************)
EXTENDS Integers, Sequences, FiniteSets

CONSTANTS
    Pollers,    \* watch ingest workers
    Requests,   \* POST /watch/rules/{rule_id}/trigger
    None,
    Refresh,    \* force_full_refresh_every_minutes, in ticks
    MaxNews,    \* bound: versions of the source's content
    MaxMishaps  \* bound: leases that run out under a working owner, users'
                \* resets and patches, exceptions and killed processes

Owners == Pollers \cup Requests

ASSUME OwnersAssumption == Pollers \cap Requests = {} /\ None \notin Owners
ASSUME BoundsAssumption ==
    Refresh \in Nat \ {0} /\ MaxNews \in Nat \ {0} /\ MaxMishaps \in Nat

VARIABLES
    world,     \* the version the source shows now
    seen,      \* last_seen_hash of the cursor row, or None
    age,       \* ticks since last_success_at, up to Refresh, or None
    changes,   \* committed change records: the hashes before and after
    linked,    \* there is a strategic session: named by the rule, or about its query
    advised,   \* the change records its recommendation versions cite
    unheard,   \* history: those whose poll ended well without a session to advise
    note,      \* the rule's own note, the first item of each of its ingest runs:
               \* "new" or "known" to the table of items when runs are processed
               \* at once on SQLite, and "harmless" otherwise
    holder,    \* owner of the rule's lease, or None
    pc,        \* where each poll or request is
    copy,      \* what it has read and found
    rowLock,   \* the poll whose transaction has changed the cursor row
    lapses, edits, faults  \* how many of each there have been

cursor == <<seen, age>>
advice == <<linked, advised, unheard>>
records == <<cursor, changes, advice, note>>
budgets == <<lapses, edits, faults>>
Mishaps == lapses + edits + faults
vars == <<world, records, holder, pc, copy, rowLock, budgets>>

Versions == 1..MaxNews
Change == [before : Versions \cup {None}, after : Versions]

\* content: what it found in the source; before, found: the hash it compared
\* with, and the outcome; change: its committed change record, or 0; cited: a
\* version was stored for it.
Blank == [content |-> 0, before |-> None, found |-> "nothing", change |-> 0, cited |-> FALSE]
Copies == [content : 0..MaxNews, before : Versions \cup {None},
           found : {"nothing", "same", "change"}, change : Nat, cited : BOOLEAN]

Init ==
    /\ world = 1
    /\ seen = None
    /\ age = None
    /\ changes = <<>>
    /\ linked \in BOOLEAN
    /\ advised = {} /\ unheard = {}
    /\ note \in {"harmless", "new"}
    /\ holder = None
    /\ pc = [p \in Owners |-> "idle"]
    /\ copy = [p \in Owners |-> Blank]
    /\ rowLock = None
    /\ lapses = 0 /\ edits = 0 /\ faults = 0

Goto(p, where) == pc' = [pc EXCEPT ![p] = where]
Unlocked(p) == IF rowLock = p THEN None ELSE rowLock

(***************************************************************************)
(* A poll, or a request that is served like one.                           *)
(***************************************************************************)

\* Mutant of Free: the lease is not looked at.
FreeAlways == TRUE

Free == holder = None

Begin(p) ==
    /\ pc[p] = "idle" /\ Free
    /\ holder' = p
    /\ copy' = [copy EXCEPT ![p] = Blank]
    /\ Goto(p, "analyze")
    /\ UNCHANGED <<world, records, rowLock, budgets>>

\* The sources are searched.  A request does not compare them with the cursor.
Analyze(p) ==
    /\ pc[p] = "analyze"
    /\ IF p \in Requests
       THEN Goto(p, "ingest") /\ UNCHANGED copy
       ELSE Goto(p, "detect") /\ copy' = [copy EXCEPT ![p].content = world]
    /\ UNCHANGED <<world, records, holder, rowLock, budgets>>

\* Mutant of ShouldFetch: a source that has answered once is not read again.
ShouldFetchOnce == age = None

\* Within the refresh interval after a successful fetch the content found is
\* not compared with the cursor.  No fetch is ever recorded as failed.
ShouldFetch == age = None \/ age >= Refresh

\* Where a poll goes once the sources are compared.  The first content of a
\* source has high significance, which is never below the threshold; the rest
\* depends on scores.  Below it there is no ingest run and no reaction.
Judged(p) ==
    IF copy[p].found = "change" /\ copy[p].before = None THEN {"ingest"} ELSE {"ingest", "settle"}

\* Whether the content found differs from the cursor's.
Compared(p) ==
    CASE ~ShouldFetch           -> "nothing"
      [] seen = copy[p].content -> "same"
      [] OTHER                  -> "change"

\* The cursor row is read; whether the content changed is decided on it.  What
\* was found is needed no more if it did not.
Detect(p) ==
    /\ pc[p] = "detect"
    /\ copy' = [copy EXCEPT ![p] =
                    IF Compared(p) = "change"
                    THEN [@ EXCEPT !.before = seen, !.found = "change"]
                    ELSE [Blank EXCEPT !.found = Compared(p)]]
    /\ \E next \in IF ShouldFetch THEN {"write"} ELSE Judged(p) : Goto(p, next)
    /\ UNCHANGED <<world, records, holder, rowLock, budgets>>

\* Models summarise the change first, which takes long; then the cursor row
\* and the change record are flushed.  The flush waits for the row.
WriteCursor(p) ==
    /\ pc[p] = "write"
    /\ rowLock = None
    /\ rowLock' = p
    /\ \E next \in Judged(p) : Goto(p, next)
    /\ UNCHANGED <<world, records, holder, copy, budgets>>

\* Mutant of Flushed: the hash is committed without its change record.
FlushedHashOnly(p) ==
    IF rowLock = p
    THEN /\ age' = 0
         /\ seen' = copy[p].content
         /\ UNCHANGED changes
    ELSE UNCHANGED <<cursor, changes>>

\* What the open transaction of p has changed in the cursor and the change
\* records.  A value equal to the one loaded is not written.
Flushed(p) ==
    IF rowLock = p
    THEN /\ age' = 0
         /\ IF copy[p].found = "change"
            THEN /\ seen' = copy[p].content
                 /\ changes' = Append(changes, [before |-> copy[p].before,
                                                after |-> copy[p].content])
            ELSE UNCHANGED <<seen, changes>>
    ELSE UNCHANGED <<cursor, changes>>

\* The change record of p, once its transaction has committed, or 0.
Recorded(p) ==
    IF rowLock = p /\ copy[p].found = "change" THEN Len(changes) + 1 ELSE copy[p].change

\* The ingest run is stored and the transaction commits, the cursor and the
\* change record with it; the row is free again.
Ingest(p) ==
    /\ pc[p] = "ingest"
    /\ note # "known"
    /\ note' = IF note = "new" THEN "known" ELSE note
    /\ Flushed(p)
    /\ copy' = [copy EXCEPT ![p] = [Blank EXCEPT !.change = Recorded(p)]]
    /\ rowLock' = Unlocked(p)
    /\ Goto(p, "react")
    /\ UNCHANGED <<world, advice, holder, budgets>>

\* No strategic session is refreshed; a simulation and a debate may run.
RunActions(p) ==
    /\ pc[p] = "react"
    /\ Goto(p, "settle")
    /\ UNCHANGED <<world, records, holder, copy, rowLock, budgets>>

\* A strategic session is refreshed, and its workflow commits a version that
\* cites the change records of the poll.
RefreshSession(p) ==
    /\ pc[p] = "react" /\ p \in Pollers
    /\ linked
    /\ advised' = advised \cup ({copy[p].change} \ {0})
    /\ copy' = [copy EXCEPT ![p].cited = TRUE]
    /\ Goto(p, "settle")
    /\ UNCHANGED <<world, cursor, changes, linked, unheard, note, holder, rowLock, budgets>>

\* The workflow could not store its results and carries on without them.  The
\* poll then takes the latest version there is, if any, for the one it asked for.
RefreshUnstored(p) ==
    /\ pc[p] = "react" /\ p \in Pollers
    /\ linked
    /\ Mishaps < MaxMishaps
    /\ faults' = faults + 1
    /\ \E older \in BOOLEAN : copy' = [copy EXCEPT ![p].cited = older]
    /\ Goto(p, "settle")
    /\ UNCHANGED <<world, records, holder, rowLock, lapses, edits>>

\* Mutant of Cited: the version is left to the refresh of the session.
CitedByRefresh(p) == {}

\* What the version stored at the end cites; none is stored without a session.
Cited(p) == IF copy[p].cited THEN {} ELSE {Recorded(p)} \ {0}

Leave(p) ==
    /\ copy' = [copy EXCEPT ![p] = Blank]
    /\ rowLock' = Unlocked(p)
    /\ Goto(p, IF p \in Requests THEN "done" ELSE "idle")

\* The version is stored, unless the refresh has stored one or there is no
\* session, and the lease is given back, in one transaction.
Settle(p) ==
    /\ pc[p] = "settle"
    /\ holder = p
    /\ holder' = None
    /\ Flushed(p)
    /\ IF linked THEN advised' = advised \cup Cited(p) /\ UNCHANGED unheard
                 ELSE unheard' = unheard \cup Cited(p) /\ UNCHANGED advised
    /\ Leave(p)
    /\ UNCHANGED <<world, linked, note, budgets>>

\* The lease was lost on the way: what is not committed is rolled back.
SettleLost(p) ==
    /\ pc[p] = "settle"
    /\ holder # p
    /\ Leave(p)
    /\ UNCHANGED <<world, records, holder, budgets>>

Working(p) == pc[p] \notin {"idle", "done", "dead"}

\* An exception: rolled back, the failure recorded, the lease given back if it
\* is still p's.
Abandon(p) ==
    /\ holder' = IF holder = p THEN None ELSE holder
    /\ Leave(p)

Fail(p) ==
    /\ Working(p)
    /\ Mishaps < MaxMishaps
    /\ faults' = faults + 1
    /\ Abandon(p)
    /\ UNCHANGED <<world, records, lapses, edits>>

\* On SQLite an inline run that meets an item ingested before rolls the whole
\* transaction back, the cursor and the change record with it, and expires the
\* loaded rule; reading the rule next raises.  The note is the same in every
\* poll until the rule is renamed, so every run after the first ends here.
IngestRollsBack(p) ==
    /\ pc[p] = "ingest"
    /\ note = "known"
    /\ Abandon(p)
    /\ UNCHANGED <<world, records, budgets>>

\* The ingest run of a session's refresh can meet known items as well, after
\* which the refresh goes on and stores its version, and the poll fails on its
\* expired rule.
RefreshRollsBack(p) ==
    /\ pc[p] = "react" /\ p \in Pollers
    /\ linked /\ note # "harmless"
    /\ advised' = advised \cup ({copy[p].change} \ {0})
    /\ Abandon(p)
    /\ UNCHANGED <<world, cursor, changes, linked, unheard, note, budgets>>

\* The process dies; the database rolls its transaction back.
Kill(p) ==
    /\ Working(p)
    /\ Mishaps < MaxMishaps
    /\ faults' = faults + 1
    /\ copy' = [copy EXCEPT ![p] = Blank]
    /\ rowLock' = Unlocked(p)
    /\ Goto(p, "dead")
    /\ UNCHANGED <<world, records, holder, lapses, edits>>

Restart(p) ==
    /\ pc[p] = "dead" /\ p \in Pollers
    /\ Goto(p, "idle")
    /\ UNCHANGED <<world, records, holder, copy, rowLock, budgets>>

(***************************************************************************)
(* Time, users and the world.                                              *)
(***************************************************************************)

\* The lease of an owner that no longer works, or of one that is too slow.
Lapse ==
    /\ holder # None
    /\ IF Working(holder) THEN Mishaps < MaxMishaps /\ lapses' = lapses + 1
                          ELSE UNCHANGED lapses
    /\ holder' = None
    /\ UNCHANGED <<world, records, pc, copy, rowLock, edits, faults>>

\* POST /watch/rules/{rule_id}/cursor/reset.  The time of the last success
\* stays as it is.
Reset ==
    /\ Mishaps < MaxMishaps
    /\ rowLock = None
    /\ edits' = edits + 1
    /\ seen' = None
    /\ UNCHANGED <<world, age, changes, advice, note, holder, pc, copy, rowLock,
                   lapses, faults>>

\* A session about the query is created, or PATCH /watch/rules/{rule_id} gives
\* the rule a session or a query, with which its note is a new one.
Relink ==
    /\ Mishaps < MaxMishaps
    /\ edits' = edits + 1
    /\ linked' = ~linked
    /\ note' \in IF note = "harmless" THEN {note} ELSE {note, "new"}
    /\ UNCHANGED <<world, cursor, changes, advised, unheard, holder, pc, copy,
                   rowLock, lapses, faults>>

News ==
    /\ world < MaxNews
    /\ world' = world + 1
    /\ UNCHANGED <<records, holder, pc, copy, rowLock, budgets>>

Tick ==
    /\ age # None /\ age < Refresh
    /\ age' = age + 1
    /\ UNCHANGED <<world, seen, changes, advice, note, holder, pc, copy,
                   rowLock, budgets>>

Advance(p) ==
    \/ Analyze(p) \/ Detect(p) \/ WriteCursor(p) \/ Ingest(p)
    \/ RunActions(p) \/ RefreshSession(p) \/ Settle(p) \/ SettleLost(p)

Next ==
    \/ \E p \in Owners : Begin(p) \/ Advance(p) \/ RefreshUnstored(p) \/ Fail(p) \/ Kill(p)
                         \/ IngestRollsBack(p) \/ RefreshRollsBack(p)
    \/ \E p \in Pollers : Restart(p)
    \/ Lapse \/ Reset \/ Relink \/ News \/ Tick

Spec == Init /\ [][Next]_vars

\* A poller serves the due rule and goes on with what it has begun, and is
\* started again after a crash; a lease whose owner is gone runs out; time
\* passes.  Nothing is assumed of users, of failures and of the source.
Fairness ==
    /\ WF_vars(\E p \in Pollers : Begin(p))
    /\ \A p \in Owners : WF_vars(Advance(p))
    /\ \A p \in Pollers : WF_vars(Restart(p))
    /\ WF_vars(Lapse /\ ~Working(holder))
    /\ WF_vars(Tick)

FairSpec == Spec /\ Fairness

(***************************************************************************)
(* Properties.                                                             *)
(***************************************************************************)

\* The changes a poll has ended well with.
Told == advised \cup unheard

\* The values the columns and the polls' variables can have.
TypeOK ==
    /\ world \in Versions
    /\ seen \in Versions \cup {None}
    /\ age \in 0..Refresh \cup {None}
    /\ changes \in Seq(Change)
    /\ linked \in BOOLEAN
    /\ note \in {"harmless", "new", "known"}
    /\ Told \subseteq DOMAIN changes
    /\ holder \in Owners \cup {None}
    /\ pc \in [Owners -> {"idle", "analyze", "detect", "write", "ingest",
                          "react", "settle", "done", "dead"}]
    /\ copy \in [Owners -> Copies]
    /\ rowLock \in Owners \cup {None}
    /\ {lapses, edits, faults} \subseteq Nat /\ Mishaps <= MaxMishaps

\* The hash of the cursor is the one of the last change record: whatever the
\* polls, resets, failures and lost leases, no content is remembered as seen
\* without a record of how it came.
SeenIsRecorded ==
    seen # None => changes # <<>> /\ seen = changes[Len(changes)].after

BrokenLinks ==
    {i \in 1..(Len(changes) - 1) : changes[i + 1].before \notin {None, changes[i].after}}

\* The change records of a source form a chain, each beginning where the last
\* one ended or anew after a reset.  Only a lease that ran out under its owner
\* can break a link, since the cursor row is read long before it is locked and
\* nothing but the lease keeps two polls apart.  It breaks two at most: that of
\* the late poll, and that of the poll which read the cursor before it wrote.
EachBreakIsALapse == Cardinality(BrokenLinks) <= 2 * lapses

Forgotten ==
    {i \in DOMAIN changes \ Told : \A p \in Owners : copy[p].change # i}

\* A change is committed before the recommendation that cites it.  Each change
\* for which no poll will store one any more is the work of one failure or of
\* one lost lease, or its poll found at its end that there was no session to
\* advise.  A poll that ends well and has one has had its change cited, also if
\* the session came only while the poll was under way.
EachForgottenHasCause == Cardinality(Forgotten) <= lapses + faults

\* Once the source rests, the cursor comes to its content, whatever has been
\* lost on the way; so a failed poll repeats what it rolled back, and a reset
\* does not stop later polls.  (The rule has to live longer than Refresh.)  With
\* inline ingest on SQLite it need not: see IngestRollsBack.
NewsIsSeen == note # "harmless" \/ []<>(seen = world)

================================================================================
