---------------------------- MODULE StreamWorker ----------------------------
(***************************************************************************)
(* Delivery of events to workers over one Redis stream topic               *)
(* (RedisStreamEventBus and the loop of _run_stream_worker).               *)
(*                                                                         *)
(* Each worker type is a consumer group of the topic and runs as one or    *)
(* more processes.  A process takes a batch of entries, either pending     *)
(* ones idle for a minute or new ones, runs its worker once, and then      *)
(* acknowledges the batch or, after an exception, settles its events one   *)
(* by one: it publishes a copy with the next attempt number, or records a  *)
(* dead letter in the database and publishes it to the dead-letter stream; *)
(* only then does it acknowledge.  Processes may die between any two of    *)
(* these calls.                                                            *)
(*                                                                         *)
(* The payload is the event id and its attempt number.  How long an entry  *)
(* has been idle is left open: any pending entry may be reclaimed, also    *)
(* one whose process is only slow.  Sleeping between retries only delays.  *)
(***************************************************************************)
EXTENDS Integers, Sequences, FiniteSets, FiniteSetsExt

CONSTANTS
    Events,       \* events published once each by the services
    Groups,       \* consumer groups (worker names) of the topic
    Consumers,    \* worker processes
    GroupOf,      \* process -> its group
    MaxAttempts,  \* worker_max_attempts
    BatchSize,    \* stream_consumer_count
    MaxLen,       \* stream_maxlen
    MaxEntries,   \* bound: entries ever added to the stream
    MaxCrashes    \* bound: processes that die

ASSUME GroupAssumption == GroupOf \in [Consumers -> Groups]
ASSUME LimitsAssumption ==
    /\ MaxAttempts \in Nat \ {0} /\ BatchSize \in Nat \ {0} /\ MaxLen \in Nat \ {0}
    /\ MaxEntries \in Nat /\ MaxCrashes \in Nat

VARIABLES
    log,       \* every entry ever added: [event, attempt]; its id is its index
    trimmed,   \* entries up to this id were removed by MAXLEN
    last,      \* group -> last delivered id
    pending,   \* group -> ids delivered and not acknowledged
    pc,        \* process -> where it is in the loop
    batch,     \* process -> ids it still has to acknowledge
    done,      \* group -> events for which a run of its worker succeeded
    rows,      \* <<event, group>> with a row in dead_letter_events
    parked,    \* <<event, group>> published to the dead-letter stream
    crashes

stream == <<log, trimmed>>
groupVars == <<last, pending>>
outcomes == <<done, rows, parked>>
vars == <<stream, groupVars, pc, batch, outcomes, crashes>>

Init ==
    /\ log = <<>>
    /\ trimmed = 0
    /\ last = [g \in Groups |-> 0]
    /\ pending = [g \in Groups |-> {}]
    /\ pc = [c \in Consumers |-> "boot"]
    /\ batch = [c \in Consumers |-> {}]
    /\ done = [g \in Groups |-> {}]
    /\ rows = {}
    /\ parked = {}
    /\ crashes = 0

-----------------------------------------------------------------------------
(* The stream.                                                             *)

\* XADD with MAXLEN ~: trimming is approximate, so it may keep more.
Append1(entry) ==
    /\ Len(log) < MaxEntries
    /\ log' = Append(log, entry)
    /\ trimmed' \in trimmed..Max({trimmed, Len(log) + 1 - MaxLen})

Present(ids) == {i \in ids : i > trimmed}

\* The first n of a set of ids.
First(n, ids) == {i \in ids : Cardinality({j \in ids : j < i}) < n}

Publish(e) ==
    /\ \A i \in DOMAIN log : log[i].event # e
    /\ Append1([event |-> e, attempt |-> 1])
    /\ UNCHANGED <<groupVars, pc, batch, outcomes, crashes>>

-----------------------------------------------------------------------------
(* One worker process.                                                     *)

\* The sweep of the backlog before the loop; it takes no events.
StartupSweep(c) ==
    /\ pc[c] = "boot"
    /\ pc' = [pc EXCEPT ![c] = "idle"]
    /\ UNCHANGED <<stream, groupVars, batch, outcomes, crashes>>

Take(c, ids) ==
    /\ batch' = [batch EXCEPT ![c] = ids]
    /\ pc' = [pc EXCEPT ![c] = "running"]

\* XAUTOCLAIM: pending entries that were idle long enough.  Those that were
\* trimmed meanwhile are dropped from the pending list.
Reclaim(c) ==
    LET g == GroupOf[c] IN
    /\ pc[c] = "idle"
    /\ \E idle \in SUBSET Present(pending[g]) :
         /\ idle # {}
         /\ Take(c, First(BatchSize, idle))
    /\ pending' = [pending EXCEPT ![g] = Present(@)]
    /\ UNCHANGED <<stream, last, outcomes, crashes>>

\* Mutant of Consume: the entries are read without the pending list (NOACK).
ConsumeNoAck(c) ==
    LET g == GroupOf[c]
        new == First(BatchSize, Present(last[g] + 1..Len(log)))
    IN
    /\ pc[c] = "idle"
    /\ new # {}
    /\ Take(c, new)
    /\ last' = [last EXCEPT ![g] = Max(new)]
    /\ UNCHANGED <<stream, pending, outcomes, crashes>>

\* XREADGROUP ">": the next entries nobody in the group has seen.
Consume(c) ==
    LET g == GroupOf[c]
        new == First(BatchSize, Present(last[g] + 1..Len(log)))
    IN
    /\ pc[c] = "idle"
    /\ new # {}
    /\ Take(c, new)
    /\ last' = [last EXCEPT ![g] = Max(new)]
    /\ pending' = [pending EXCEPT ![g] = @ \cup new]
    /\ UNCHANGED <<stream, outcomes, crashes>>

RunSucceeds(c) ==
    /\ pc[c] = "running"
    /\ pc' = [pc EXCEPT ![c] = "acking"]
    /\ done' = [done EXCEPT ![GroupOf[c]] = @ \cup {log[i].event : i \in batch[c]}]
    /\ UNCHANGED <<stream, groupVars, batch, rows, parked, crashes>>

\* Mutant of RunFails: a failed batch is acknowledged like a successful one.
RunFailsAcks(c) ==
    /\ pc[c] = "running"
    /\ pc' = [pc EXCEPT ![c] = "acking"]
    /\ UNCHANGED <<stream, groupVars, batch, outcomes, crashes>>

RunFails(c) ==
    /\ pc[c] = "running"
    /\ pc' = [pc EXCEPT ![c] = "settling"]
    /\ UNCHANGED <<stream, groupVars, batch, outcomes, crashes>>

\* The event of the batch that is settled next.
Current(c) == Min(batch[c])
Letter(c) == <<log[Current(c)].event, GroupOf[c]>>

\* _retry_or_dead_letter_event: a copy for every group of the topic.
Retry(c) ==
    LET entry == log[Current(c)] IN
    /\ pc[c] = "settling"
    /\ entry.attempt + 1 <= MaxAttempts
    /\ Append1([entry EXCEPT !.attempt = @ + 1])
    /\ pc' = [pc EXCEPT ![c] = "settled"]
    /\ UNCHANGED <<groupVars, batch, outcomes, crashes>>

\* Mutant of RecordDeadLetter: the row is added and not committed.
RecordDeadLetterUncommitted(c) ==
    /\ pc[c] = "settling"
    /\ log[Current(c)].attempt + 1 > MaxAttempts
    /\ pc' = [pc EXCEPT ![c] = "recorded"]
    /\ UNCHANGED <<stream, groupVars, batch, outcomes, crashes>>

RecordDeadLetter(c) ==
    /\ pc[c] = "settling"
    /\ log[Current(c)].attempt + 1 > MaxAttempts
    /\ rows' = rows \cup {Letter(c)}
    /\ pc' = [pc EXCEPT ![c] = "recorded"]
    /\ UNCHANGED <<stream, groupVars, batch, done, parked, crashes>>

PublishDeadLetter(c) ==
    /\ pc[c] = "recorded"
    /\ parked' = parked \cup {Letter(c)}
    /\ pc' = [pc EXCEPT ![c] = "settled"]
    /\ UNCHANGED <<stream, groupVars, batch, done, rows, crashes>>

\* Mutant of Ack: settled events are not acknowledged.
AckSuccessOnly(c) ==
    LET rest == batch[c] \ {Current(c)} IN
    /\ pc[c] \in {"acking", "settled"}
    /\ pending' = IF pc[c] = "acking"
                  THEN [pending EXCEPT ![GroupOf[c]] = @ \ {Current(c)}] ELSE pending
    /\ batch' = [batch EXCEPT ![c] = rest]
    /\ pc' = [pc EXCEPT ![c] = IF rest = {} THEN "idle"
                               ELSE IF @ = "acking" THEN "acking" ELSE "settling"]
    /\ UNCHANGED <<stream, last, outcomes, crashes>>

\* XACK removes the entry from the group whichever process it is assigned to.
Ack(c) ==
    LET rest == batch[c] \ {Current(c)} IN
    /\ pc[c] \in {"acking", "settled"}
    /\ pending' = [pending EXCEPT ![GroupOf[c]] = @ \ {Current(c)}]
    /\ batch' = [batch EXCEPT ![c] = rest]
    /\ pc' = [pc EXCEPT ![c] = IF rest = {} THEN "idle"
                               ELSE IF @ = "acking" THEN "acking" ELSE "settling"]
    /\ UNCHANGED <<stream, last, outcomes, crashes>>

\* The process dies: it is killed, or a call to Redis or to the database that
\* nothing guards raises.
Crash(c) ==
    /\ pc[c] # "dead" /\ crashes < MaxCrashes
    /\ pc' = [pc EXCEPT ![c] = "dead"]
    /\ batch' = [batch EXCEPT ![c] = {}]
    /\ crashes' = crashes + 1
    /\ UNCHANGED <<stream, groupVars, outcomes>>

Restart(c) ==
    /\ pc[c] = "dead"
    /\ pc' = [pc EXCEPT ![c] = "boot"]
    /\ UNCHANGED <<stream, groupVars, batch, outcomes, crashes>>

-----------------------------------------------------------------------------
ProcessStep(c) ==
    \/ StartupSweep(c) \/ Reclaim(c) \/ Consume(c)
    \/ RunSucceeds(c) \/ RunFails(c)
    \/ Retry(c) \/ RecordDeadLetter(c) \/ PublishDeadLetter(c) \/ Ack(c)
    \/ Restart(c)

Next ==
    \/ \E e \in Events : Publish(e)
    \/ \E c \in Consumers : ProcessStep(c) \/ Crash(c)

Spec == Init /\ [][Next]_vars

\* Every process keeps going and is restarted when it dies (the containers run
\* with restart: unless-stopped).  Nobody has to publish.
FairSpec ==
    /\ Spec
    /\ \A c \in Consumers : WF_vars(ProcessStep(c))

-----------------------------------------------------------------------------
(* Properties.                                                             *)

Entries == [event : Events, attempt : 1..MaxAttempts]

\* Every variable has its type.
TypeOK ==
    /\ log \in Seq(Entries)
    /\ trimmed \in 0..Len(log)
    /\ last \in [Groups -> 0..Len(log)]
    /\ pending \in [Groups -> SUBSET (1..Len(log))]
    /\ pc \in [Consumers -> {"boot", "idle", "running", "acking", "settling",
                             "recorded", "settled", "dead"}]
    /\ batch \in [Consumers -> SUBSET (1..Len(log))]
    /\ done \in [Groups -> SUBSET Events]
    /\ rows \subseteq Events \X Groups
    /\ parked \subseteq Events \X Groups
    /\ crashes \in 0..MaxCrashes

\* An entry of the event that the group has still to see or to acknowledge.
InFlight(e, g) ==
    \E i \in DOMAIN log : log[i].event = e /\ (i > last[g] \/ i \in pending[g])

Settled(e, g) == e \in done[g] \/ <<e, g>> \in rows

\* The owed work of a published event survives every crash: the group has
\* finished it, has a dead-letter row for it, or will be given it again, unless
\* MAXLEN removed an entry of it from the stream.
NothingLost ==
    \A i \in DOMAIN log, g \in Groups :
        LET e == log[i].event IN
        \/ Settled(e, g)
        \/ InFlight(e, g)
        \/ \E j \in 1..trimmed : log[j].event = e

\* A dead letter reaches the stream only after its database row is committed.
ParkedHasRow == parked \subseteq rows

\* An entry leaves the pending list of a group only when its event is settled
\* there, was published again, or was trimmed.
AckAfterOutcome ==
    [][\A g \in Groups : \A i \in pending[g] \ pending'[g] :
          \/ Settled(log[i].event, g)
          \/ i <= trimmed
          \/ \E j \in DOMAIN log : j > i /\ log[j] = [log[i] EXCEPT !.attempt = @ + 1]]_vars

\* Every event is settled by every group: repeated deaths and failures end in
\* a success or in a dead letter, and no process waits for another.
EventuallySettled ==
    \A e \in Events, g \in Groups :
        (\E i \in DOMAIN log : log[i].event = e)
            ~> (Settled(e, g) \/ \E j \in 1..trimmed : log[j].event = e)

\* Every delivered entry is acknowledged in the end.
PendingDrains == \A g \in Groups : (pending[g] # {}) ~> (Present(pending[g]) = {})
=============================================================================
