----------------------------- MODULE DebateStream -----------------------------
(***************************************************************************)
(* Debates about one simulation run.  A streamed debate commits its        *)
(* session as RUNNING, then works through its rounds in one transaction    *)
(* while the client watches, and commits rounds, verdict and terminal      *)
(* status together; a decided debate does everything in one transaction.   *)
(* Users may interrupt a debate that runs: the message is stored by        *)
(* another request and picked up before the next round.                    *)
(*                                                                         *)
(* Sessions read committed rows and see their own uncommitted changes.  A  *)
(* session that has changed a row holds its lock until it ends, which is   *)
(* what keeps two debates from both adding the run's decision option: the  *)
(* run's summary is written before the option is looked up.                *)
(***************************************************************************)
EXTENDS Integers, FiniteSets

CONSTANTS
    Streamed,   \* debates opened by observe, one request each
    Decided,    \* debates taken by decide, one request each
    Interrupts, \* requests that interrupt a debate
    About,      \* the debate each of them names
    Rounds,     \* rounds of the debate plan
    None,
    MaxMishaps  \* bound: exceptions, disconnected clients, killed processes

Debates == Streamed \cup Decided

ASSUME DebatesAssumption == Streamed \cap Decided = {} /\ None \notin Debates
ASSUME AboutAssumption == About \in [Interrupts -> Debates]
ASSUME BoundsAssumption == Rounds \in Nat \ {0} /\ MaxMishaps \in Nat

VARIABLES
    status,    \* committed debate_sessions.status, "none" before the insert
    rounds,    \* committed rounds of each debate
    verdict,   \* debates with a committed verdict
    mail,      \* committed status of each interrupt, "none" before the insert
    options,   \* committed decision options of the run
    post,      \* where each interrupting request is
    pc,        \* where each debate's request is
    modelled,  \* debates whose rounds come one by one from a language model
    spoken,    \* rounds persisted by the open transaction
    marked,    \* interrupts the open transaction has marked INJECTED
    context,   \* interrupts whose text is in the context of the rounds
    runLock,   \* the debate whose transaction has changed the run, or None
    adds,      \* debates that insert a decision option
    published, \* (topic, debate) pairs on the event bus
    mishaps

committed == <<status, rounds, verdict, mail, options>>
work == <<modelled, spoken, marked, context, adds>>
debateVars == <<committed, post, pc, work, runLock, published, mishaps>>

Terminal == {"COMPLETED", "FAILED"}

DebateInit ==
    /\ status = [d \in Debates |-> "none"]
    /\ rounds = [d \in Debates |-> 0]
    /\ verdict = {}
    /\ mail = [i \in Interrupts |-> "none"]
    /\ options = 0
    /\ post = [i \in Interrupts |-> "idle"]
    /\ pc = [d \in Debates |-> "idle"]
    /\ modelled = {}
    /\ spoken = [d \in Debates |-> 0]
    /\ marked = [d \in Debates |-> {}]
    /\ context = [d \in Debates |-> {}]
    /\ runLock = None
    /\ adds = {}
    /\ published = {}
    /\ mishaps = 0

Goto(d, where) == pc' = [pc EXCEPT ![d] = where]

(***************************************************************************)
(* The request that runs a debate.                                         *)
(***************************************************************************)

\* observe inserts the session and its archive row and commits them.  The
\* rounds come from the language model, or all at once from the assessment
\* when none is available.
Open(d) ==
    /\ d \in Streamed
    /\ pc[d] = "idle"
    /\ status' = [status EXCEPT ![d] = "RUNNING"]
    /\ modelled' \in {modelled, modelled \cup {d}}
    /\ Goto(d, "round")
    /\ UNCHANGED <<rounds, verdict, mail, options, post, spoken, marked, context,
                   runLock, adds, published, mishaps>>

\* decide inserts session and rounds without committing them.
Assess(d) ==
    /\ d \in Decided
    /\ pc[d] = "idle"
    /\ spoken' = [spoken EXCEPT ![d] = Rounds]
    /\ Goto(d, "round")
    /\ UNCHANGED <<committed, post, modelled, marked, context, runLock, adds,
                   published, mishaps>>

\* The interrupts of debate d that a select of its session returns.
Pending(d) ==
    {i \in Interrupts : About[i] = d /\ mail[i] = "PENDING"} \ marked[d]

\* Before a round the pending interrupts are read; those found extend the
\* context of this round and of the ones after it.
ReadInterrupts(d) ==
    /\ d \in modelled
    /\ pc[d] = "round"
    /\ spoken[d] < Rounds
    /\ context' = [context EXCEPT ![d] = @ \cup Pending(d)]
    /\ Goto(d, IF Pending(d) = {} THEN "speak" ELSE "mark")
    /\ UNCHANGED <<committed, post, modelled, spoken, marked, runLock, adds,
                   published, mishaps>>

\* A second select of the pending interrupts marks what it returns.
MarkInjected(d) ==
    /\ pc[d] = "mark"
    /\ marked' = [marked EXCEPT ![d] = @ \cup Pending(d)]
    /\ Goto(d, "speak")
    /\ UNCHANGED <<committed, post, modelled, spoken, context, runLock, adds,
                   published, mishaps>>

\* A role speaks, by its model or by the fallback, and the round is flushed.
Speak(d) ==
    /\ d \in Streamed
    /\ \/ pc[d] = "speak"
       \/ pc[d] = "round" /\ d \notin modelled /\ spoken[d] < Rounds
    /\ spoken' = [spoken EXCEPT ![d] = @ + 1]
    /\ Goto(d, "round")
    /\ UNCHANGED <<committed, post, modelled, marked, context, runLock, adds,
                   published, mishaps>>

\* Mutant of LockRun: the option is looked up before the run is written.
LockRunLater(d) ==
    /\ pc[d] = "round"
    /\ spoken[d] = Rounds
    /\ adds' = IF options = 0 THEN adds \cup {d} ELSE adds
    /\ Goto(d, "complete")
    /\ UNCHANGED <<committed, post, modelled, spoken, marked, context, runLock,
                   published, mishaps>>

\* The completed debate writes the summary of the run, which waits for the
\* row, and then looks for a decision option of the run: it inserts one, and
\* its hypothesis, when there is none.
LockRun(d) ==
    /\ pc[d] = "round"
    /\ spoken[d] = Rounds
    /\ runLock = None
    /\ runLock' = d
    /\ adds' = IF options = 0 THEN adds \cup {d} ELSE adds
    /\ Goto(d, "complete")
    /\ UNCHANGED <<committed, post, modelled, spoken, marked, context, published, mishaps>>

Released(d) == IF runLock = d THEN None ELSE runLock

\* Mutant of Commit: the verdict is announced before it is committed, and
\* the commit is then lost.
CommitLate(d) ==
    /\ pc[d] = "complete"
    /\ published' = published \cup {<<"completed", d>>}
    /\ Goto(d, "announce")
    /\ UNCHANGED <<committed, post, work, runLock, mishaps>>

\* The final commit makes everything since the last commit visible at once.
Commit(d) ==
    /\ pc[d] = "complete"
    /\ status' = [status EXCEPT ![d] = "COMPLETED"]
    /\ rounds' = [rounds EXCEPT ![d] = spoken[d]]
    /\ verdict' = verdict \cup {d}
    /\ mail' = [i \in Interrupts |-> IF i \in marked[d] THEN "INJECTED" ELSE mail[i]]
    /\ options' = IF d \in adds THEN options + 1 ELSE options
    /\ runLock' = Released(d)
    /\ Goto(d, "announce")
    /\ UNCHANGED <<post, work, published, mishaps>>

\* debate.triggered and debate.completed follow the commit, one after the
\* other; then the stream hands its result to the client.
Announce(d) ==
    \/ /\ pc[d] = "announce"
       /\ published' = published \cup {<<"triggered", d>>}
       /\ Goto(d, "announced")
       /\ UNCHANGED <<committed, post, work, runLock, mishaps>>
    \/ /\ pc[d] = "announced"
       /\ published' = published \cup {<<"completed", d>>}
       /\ Goto(d, IF d \in Streamed THEN "finish" ELSE "done")
       /\ UNCHANGED <<committed, post, work, runLock, mishaps>>

Finish(d) ==
    /\ pc[d] = "finish"
    /\ Goto(d, "done")
    /\ UNCHANGED <<committed, post, work, runLock, published, mishaps>>

Underway(d) == pc[d] \notin {"idle", "done", "killed"}

Abort(d) ==
    /\ Underway(d)
    /\ mishaps < MaxMishaps
    /\ mishaps' = mishaps + 1
    /\ runLock' = Released(d)
    /\ UNCHANGED <<rounds, verdict, options, post, work, published>>

\* Mutant of Fail: the handler commits what the session holds, without a
\* rollback.
FailKeepsWork(d) ==
    /\ Abort(d)
    /\ status' = [status EXCEPT ![d] = IF @ = "none" THEN @ ELSE "FAILED"]
    /\ mail' = [i \in Interrupts |-> IF i \in marked[d] THEN "INJECTED" ELSE mail[i]]
    /\ Goto(d, "done")

\* An exception rolls the transaction back.  A streamed debate then sets its
\* committed session to FAILED, also when its verdict is committed already
\* and only the events or the last read failed.
Fail(d) ==
    /\ Abort(d)
    /\ status' = IF d \in Streamed THEN [status EXCEPT ![d] = "FAILED"] ELSE status
    /\ Goto(d, "done")
    /\ UNCHANGED mail

\* Mutant of Disconnect: the handler is for Exception only.
DisconnectUnhandled(d) ==
    /\ d \in Streamed
    /\ Abort(d)
    /\ Goto(d, "done")
    /\ UNCHANGED <<status, mail>>

\* A client that leaves closes the stream, which the same handler treats
\* like an exception.
Disconnect(d) ==
    /\ d \in Streamed
    /\ Abort(d)
    /\ status' = [status EXCEPT ![d] = "FAILED"]
    /\ Goto(d, "done")
    /\ UNCHANGED mail

\* The process is killed, and its database connection with it.  Nothing
\* looks after the debate later.
Kill(d) ==
    /\ Abort(d)
    /\ Goto(d, "killed")
    /\ UNCHANGED <<status, mail>>

(***************************************************************************)
(* The request that interrupts a debate.                                   *)
(***************************************************************************)

\* It refuses a debate that is not RUNNING,
CheckRunning(i) ==
    /\ post[i] = "idle"
    /\ status[About[i]] # "none"
    /\ post' = [post EXCEPT ![i] = IF status[About[i]] = "RUNNING" THEN "accepted" ELSE "refused"]
    /\ UNCHANGED <<committed, pc, work, runLock, published, mishaps>>

\* and stores the interrupt in a later statement.
Store(i) ==
    /\ post[i] = "accepted"
    /\ post' = [post EXCEPT ![i] = "stored"]
    /\ mail' = [mail EXCEPT ![i] = "PENDING"]
    /\ UNCHANGED <<status, rounds, verdict, options, pc, work, runLock, published, mishaps>>

Step(d) ==
    \/ ReadInterrupts(d) \/ MarkInjected(d) \/ Speak(d) \/ LockRun(d)
    \/ Commit(d) \/ Announce(d) \/ Finish(d)

DebateNext ==
    \/ \E d \in Debates :
        Open(d) \/ Assess(d) \/ Step(d) \/ Fail(d) \/ Disconnect(d) \/ Kill(d)
    \/ \E i \in Interrupts : CheckRunning(i) \/ Store(i)

DebateSpec == DebateInit /\ [][DebateNext]_debateVars

\* A request that has started goes on, and its client reads what it sends;
\* nobody has to start one, and mishaps need not happen.
DebateFairSpec == DebateSpec /\ \A d \in Debates : WF_debateVars(Step(d))

(***************************************************************************)
(* Properties.                                                             *)
(***************************************************************************)

\* Every variable has the values its column or local variable can have.
DebateTypeOK ==
    /\ status \in [Debates -> {"none", "RUNNING"} \cup Terminal]
    /\ rounds \in [Debates -> 0..Rounds]
    /\ verdict \subseteq Debates
    /\ mail \in [Interrupts -> {"none", "PENDING", "INJECTED"}]
    /\ options \in Nat
    /\ post \in [Interrupts -> {"idle", "accepted", "refused", "stored"}]
    /\ pc \in [Debates -> {"idle", "round", "mark", "speak", "complete", "announce",
                           "announced", "finish", "done", "killed"}]
    /\ modelled \subseteq Streamed
    /\ spoken \in [Debates -> 0..Rounds]
    /\ marked \in [Debates -> SUBSET Interrupts]
    /\ context \in [Debates -> SUBSET Interrupts]
    /\ runLock \in Debates \cup {None}
    /\ adds \subseteq Debates
    /\ published \subseteq {"triggered", "completed"} \X Debates
    /\ mishaps \in 0..MaxMishaps

\* The run has one decision option from its debates however many of them
\* complete at the same time, and has it as soon as one has a verdict: the
\* lookup and the insert of _ensure_debate_prediction are covered by the lock
\* that the write of run.summary takes.
OneOptionPerRun == options = IF verdict = {} THEN 0 ELSE 1

\* Only a debate with a verdict has rounds, and then all of them; an interrupt
\* is INJECTED only in a debate with a verdict.  A debate that breaks off
\* anywhere leaves nothing but its FAILED session.
OutcomeIsWhole ==
    /\ \A d \in Debates : rounds[d] = IF d \in verdict THEN Rounds ELSE 0
    /\ \A i \in Interrupts : mail[i] = "INJECTED" => About[i] \in verdict

\* debate.completed is on the bus only for a debate whose verdict any
\* consumer can read.
AnnouncedIsCommitted ==
    \A d \in Debates : <<"completed", d>> \in published => d \in verdict

\* A debate shown as RUNNING ends COMPLETED or FAILED, whatever exception it
\* meets and whenever its client leaves, unless its process is killed.
StreamsEnd ==
    \A d \in Streamed :
        status[d] = "RUNNING" ~> status[d] \in Terminal \/ pc[d] = "killed"

\* debate_interrupt.py: an interrupt "will be recorded and injected into the
\* context of the next round".  An interrupt recorded as injected is in the
\* context of its debate.
InjectedIsInContext ==
    \A i \in Interrupts : mail[i] = "INJECTED" => i \in context[About[i]]
=============================================================================
