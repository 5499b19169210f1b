-------------------------------- MODULE Backtest --------------------------------
(***************************************************************************)
(* How predictions are held against what happened.  Once the horizon of a  *)
(* prediction version has passed, the calibration worker gives it a        *)
(* verdict, from its hypothesis or from claims, and stores it twice: in a  *)
(* backtest record and as the status of the version.  Users give verdicts  *)
(* too, and change them; revisions supersede versions; the accuracy of a   *)
(* rule is recounted from the latest records in every round.               *)
(*                                                                         *)
(* Nobody takes a lease.  A session writes the columns whose new value     *)
(* differs from the one it has loaded, and holds the row of a version from *)
(* its flush to its end.  The record is unique per version.                *)
(***************************************************************************)
EXTENDS Integers, FiniteSets, FiniteSetsExt, Functions

CONSTANTS
    Workers,     \* calibration workers
    Verifies,    \* number of POST /predictions/{series_id}/versions/{version_id}/verify
    Supposed,    \* versions that have a hypothesis
    None,
    Limit,       \* rows the selects of hypotheses and of versions return
    Recent,      \* rows the select of records returns
    MaxVersions, \* bound: versions of all series together
    MaxTurns     \* bound, all together: exceptions, killed processes, verdicts
                 \* of users about hypotheses

Users == 1..Verifies        \* their requests, in the order of arrival
Versions == 1..MaxVersions  \* in the order of created_at
Verdicts == {"CONFIRMED", "REFUTED"}  \* PARTIAL is like either

ASSUME ActorsAssumption ==
    Workers \cap Users = {} /\ IsFiniteSet(Workers) /\ Supposed \subseteq Versions
ASSUME NoneAssumption == None \notin Verdicts \cup {"PENDING"}
ASSUME BoundsAssumption ==
    {Limit, Recent, MaxVersions} \subseteq Nat \ {0} /\ {Verifies, MaxTurns} \subseteq Nat

VARIABLES
    series,    \* the first version of its series, or 0 before it is made
    status,    \* prediction_versions.status
    record,    \* verification_status of its backtest record, or None
    verified,  \* verified_at of its backtest record, or 0
    hyp,       \* verification_status of its hypothesis, or None
    due,       \* versions whose horizon has passed, and that of their hypothesis
    tally,     \* rule_accuracies.confirmed, for a rule that all runs follow
    pc,        \* where each process is
    todo,      \* rows a worker has loaded and not looked at
    moment,    \* the time a round or request has noted, or 0
    plan,      \* verdicts of its round, not committed
    flushed,   \* versions it has written, not committed
    count,     \* verdicts it has read for the tally
    copy,      \* what a user's request has loaded
    clashes,   \* requests that wrote what another one had changed meanwhile
    turns      \* how much of the bound is used

tables == <<series, status, record, verified, hyp, due, tally>>
round == <<todo, plan, flushed, count>>
vars == <<tables, pc, moment, round, copy, clashes, turns>>

Made == {v \in Versions : series[v] # 0}
NoPlan == [v \in Versions |-> None]
NoVersion == [version |-> 0, status |-> "none", record |-> None]

Init ==
    /\ series = [v \in Versions |-> 0]
    /\ status = [v \in Versions |-> "none"]
    /\ record = [v \in Versions |-> None]
    /\ verified = [v \in Versions |-> 0]
    /\ hyp = [v \in Versions |-> None]
    /\ due = {}
    /\ tally = 0
    /\ pc = [p \in Workers \cup Users |-> "idle"]
    /\ moment = [p \in Workers \cup Users |-> 0]
    /\ todo = [w \in Workers |-> {}]
    /\ plan = [w \in Workers |-> NoPlan]
    /\ flushed = [w \in Workers |-> {}]
    /\ count = [w \in Workers |-> 0]
    /\ copy = [q \in Users |-> NoVersion]
    /\ clashes = 0 /\ turns = 0

Turn == turns < MaxTurns /\ turns' = turns + 1

Goto(p, where) == pc' = [pc EXCEPT ![p] = where]

\* The clock: later than what has been noted and is still to be seen.
Now == Max({0} \cup Range(verified) \cup Range(moment)) + 1

\* The row of v is held by a worker's transaction.
Locked(v) == \E w \in Workers : v \in flushed[w]

(***************************************************************************)
(* Versions come and grow old.                                             *)
(***************************************************************************)

\* Mutant of Superseded: all versions of the series, not the active one.
SupersededAll(s) == {v \in Versions : series[v] = s}

Superseded(s) == {v \in Versions : series[v] = s /\ status[v] = "ACTIVE"}

\* A simulation run makes the first version of a series, a revision a further
\* one, which supersedes what is active.  Its hypothesis, when it has one, is
\* a little older and has the same horizon.
NewVersion ==
    /\ Made # Versions
    /\ LET new == Cardinality(Made) + 1 IN
       \E s \in {series[v] : v \in Made} \cup {new} :
        /\ \A v \in Superseded(s) : ~Locked(v)
        /\ series' = [series EXCEPT ![new] = s]
        /\ status' = [v \in Versions |->
                        IF v = new THEN "ACTIVE"
                        ELSE IF v \in Superseded(s) THEN "SUPERSEDED" ELSE status[v]]
        /\ hyp' = IF new \in Supposed THEN [hyp EXCEPT ![new] = "PENDING"] ELSE hyp
    /\ UNCHANGED <<record, verified, due, tally, pc, moment, round, copy, clashes, turns>>

ComeDue(v) ==
    /\ v \in Made \ due
    /\ due' = due \cup {v}
    /\ UNCHANGED <<series, status, record, verified, hyp, tally, pc, moment, round,
                   copy, clashes, turns>>

(***************************************************************************)
(* A round of the calibration worker.                                      *)
(***************************************************************************)

\* The first Limit of a set of versions, by creation.
Firsts(vs) == {v \in vs : Cardinality({u \in vs : u < v}) < Limit}

\* Hypotheses are loaded, the due ones of them are looked at,
SelectHypotheses(w) ==
    /\ pc[w] = "idle"
    /\ todo' = [todo EXCEPT ![w] =
            Firsts({v \in Versions : hyp[v] = "PENDING"}) \cap due]
    /\ Goto(w, "hypotheses")
    /\ UNCHANGED <<tables, moment, plan, flushed, count, copy, clashes, turns>>

\* and get a verdict from the claims there are.  One that fails is logged.
\* A verdict that a user has given meanwhile is overwritten.
CommitHypotheses(w) ==
    /\ pc[w] = "hypotheses"
    /\ \E bad \in SUBSET todo[w] : \E found \in [todo[w] \ bad -> Verdicts] :
        /\ turns + Cardinality(bad) <= MaxTurns
        /\ turns' = turns + Cardinality(bad)
        /\ hyp' = [v \in Versions |-> IF v \in DOMAIN found THEN found[v] ELSE hyp[v]]
    /\ todo' = [todo EXCEPT ![w] = {}]
    /\ Goto(w, "versions")
    /\ UNCHANGED <<series, status, record, verified, due, tally, moment, plan,
                   flushed, count, copy, clashes>>

\* The time is noted, active versions are loaded, and the due ones of them are
\* looked at one by one.
SelectVersions(w) ==
    /\ pc[w] = "versions"
    /\ todo' = [todo EXCEPT ![w] =
            Firsts({v \in Versions : status[v] = "ACTIVE"}) \cap due]
    /\ moment' = [moment EXCEPT ![w] = IF todo'[w] = {} THEN 0 ELSE Now]
    /\ Goto(w, "check")
    /\ UNCHANGED <<tables, plan, flushed, count, copy, clashes, turns>>

Oldest(w) == Min(todo[w])

\* The verdict of the hypothesis when it has one, or one from the claims.
Resolutions(v) == IF hyp[v] \in Verdicts THEN {hyp[v]} ELSE Verdicts

\* What the worker has added is written by its next query, or by its commit.
Check(w) ==
    /\ pc[w] = "check"
    /\ todo[w] # {}
    /\ LET v == Oldest(w) IN
        /\ IF record[v] # None
           THEN UNCHANGED plan
           ELSE \E k \in Resolutions(v) : plan' = [plan EXCEPT ![w][v] = k]
        /\ Goto(w, IF record[v] # None THEN "check" ELSE "flush")
        /\ todo' = [todo EXCEPT ![w] = @ \ {v}]
    /\ UNCHANGED <<tables, moment, flushed, count, copy, clashes, turns>>

\* The lookup of claims fails: logged, and left for the next round.
CheckFails(w) ==
    /\ pc[w] = "check"
    /\ todo[w] # {}
    /\ Turn
    /\ todo' = [todo EXCEPT ![w] = @ \ {Oldest(w)}]
    /\ UNCHANGED <<tables, pc, moment, plan, flushed, count, copy, clashes>>

Drafted(w) == {v \in Versions : plan[w][v] # None}

\* The end of a transaction that leaves nothing, and of the round.
Drop(w) ==
    /\ moment' = [moment EXCEPT ![w] = 0]
    /\ todo' = [todo EXCEPT ![w] = {}]
    /\ plan' = [plan EXCEPT ![w] = NoPlan]
    /\ flushed' = [flushed EXCEPT ![w] = {}]
    /\ count' = [count EXCEPT ![w] = 0]
    /\ Goto(w, "idle")

\* Mutant of Flush: the record is not unique per version.
FlushAnyway(w) ==
    /\ pc[w] = "flush"
    /\ \A v \in Drafted(w) : v \in flushed[w] \/ ~Locked(v)
    /\ flushed' = [flushed EXCEPT ![w] = Drafted(w)]
    /\ Goto(w, "check")
    /\ UNCHANGED <<tables, moment, todo, plan, count, copy, clashes, turns>>

\* The version is updated, which waits for its row, and the record inserted.
\* Another one has been committed since the lookup: the insert is refused and
\* the session cannot be used any more, so that the round ends.
Flush(w) ==
    /\ pc[w] = "flush"
    /\ \A v \in Drafted(w) : v \in flushed[w] \/ ~Locked(v)
    /\ IF \A v \in Drafted(w) : record[v] = None
       THEN /\ flushed' = [flushed EXCEPT ![w] = Drafted(w)]
            /\ Goto(w, "check")
            /\ UNCHANGED <<moment, todo, plan, count>>
       ELSE Drop(w)
    /\ UNCHANGED <<tables, copy, clashes, turns>>

\* Mutant of CommitVersions: the status of the version is left.
CommitRecords(w) ==
    /\ pc[w] = "check"
    /\ todo[w] = {}
    /\ record' = [v \in Versions |-> IF v \in flushed[w] THEN plan[w][v] ELSE record[v]]
    /\ verified' = [v \in Versions |-> IF v \in flushed[w] THEN moment[w] ELSE verified[v]]
    /\ moment' = [moment EXCEPT ![w] = 0]
    /\ plan' = [plan EXCEPT ![w] = NoPlan]
    /\ flushed' = [flushed EXCEPT ![w] = {}]
    /\ Goto(w, "recount")
    /\ UNCHANGED <<series, status, hyp, due, tally, todo, count, copy,
                   clashes, turns>>

\* Status and record of all versions of the round are committed.  The status
\* has been loaded as ACTIVE, so that it is written whatever it is by now.
CommitVersions(w) ==
    /\ pc[w] = "check"
    /\ todo[w] = {}
    /\ status' = [v \in Versions |-> IF v \in flushed[w] THEN plan[w][v] ELSE status[v]]
    /\ record' = [v \in Versions |-> IF v \in flushed[w] THEN plan[w][v] ELSE record[v]]
    /\ verified' = [v \in Versions |-> IF v \in flushed[w] THEN moment[w] ELSE verified[v]]
    /\ moment' = [moment EXCEPT ![w] = 0]
    /\ plan' = [plan EXCEPT ![w] = NoPlan]
    /\ flushed' = [flushed EXCEPT ![w] = {}]
    /\ Goto(w, "recount")
    /\ UNCHANGED <<series, hyp, due, tally, todo, count, copy, clashes, turns>>

Judged == {v \in Versions : record[v] # None}

\* What the select can return: the records last verified, Recent of them when
\* there are as many.  Those of one round share their time.
Latest ==
    {vs \in SUBSET Judged :
        /\ Cardinality(vs) = IF Cardinality(Judged) < Recent THEN Cardinality(Judged) ELSE Recent
        /\ \A v \in vs, u \in Judged \ vs : verified[u] <= verified[v]}

\* How many of them can be confirmed.
Confirmed == {Cardinality({v \in vs : record[v] = "CONFIRMED"}) : vs \in Latest}

\* Mutant of Recount: verdicts are added as they come.
RecountNew(w) ==
    /\ pc[w] = "recount"
    /\ \E n \in Confirmed : count' = [count EXCEPT ![w] = IF tally < n THEN n ELSE tally]
    /\ Goto(w, "tally")
    /\ UNCHANGED <<tables, moment, todo, plan, flushed, copy, clashes, turns>>

\* The latest verdicts are counted from the records,
Recount(w) ==
    /\ pc[w] = "recount"
    /\ \E n \in Confirmed : count' = [count EXCEPT ![w] = n]
    /\ Goto(w, "tally")
    /\ UNCHANGED <<tables, moment, todo, plan, flushed, copy, clashes, turns>>

\* and the counts replace those of the round before.
CommitTally(w) ==
    /\ pc[w] = "tally"
    /\ tally' = count[w]
    /\ count' = [count EXCEPT ![w] = 0]
    /\ Goto(w, "idle")
    /\ UNCHANGED <<series, status, record, verified, hyp, due, moment, todo, plan,
                   flushed, copy, clashes, turns>>

\* A database error or a killed process ends the round.
RoundFails(w) ==
    /\ pc[w] # "idle"
    /\ Turn
    /\ Drop(w)
    /\ UNCHANGED <<tables, copy, clashes>>

(***************************************************************************)
(* Users.                                                                  *)
(***************************************************************************)

\* verify_prediction loads the version, of any status, and notes the time,
Load(q) ==
    /\ pc[q] = "idle"
    /\ \A r \in Users : r < q => pc[r] # "idle"
    /\ \E v \in Made :
        copy' = [copy EXCEPT ![q] = [version |-> v, status |-> status[v], record |-> None]]
    /\ moment' = [moment EXCEPT ![q] = Now]
    /\ Goto(q, "read")
    /\ UNCHANGED <<tables, round, clashes, turns>>

\* then its record,
ReadRecord(q) ==
    /\ pc[q] = "read"
    /\ copy' = [copy EXCEPT ![q].record = record[copy[q].version]]
    /\ Goto(q, "write")
    /\ UNCHANGED <<tables, moment, round, clashes, turns>>

Leave(q) ==
    /\ copy' = [copy EXCEPT ![q] = NoVersion]
    /\ moment' = [moment EXCEPT ![q] = 0]
    /\ Goto(q, "done")

\* A second insert is refused.
Refuse(q) ==
    /\ pc[q] = "write"
    /\ copy[q].record = None /\ record[copy[q].version] # None
    /\ Leave(q)
    /\ UNCHANGED <<tables, round, clashes, turns>>

Fresh(q) ==
    LET v == copy[q].version IN status[v] = copy[q].status /\ record[v] = copy[q].record

\* and writes to both what differs from what it has loaded, and its time.
Verify(q) ==
    /\ pc[q] = "write"
    /\ LET v == copy[q].version IN
        /\ ~Locked(v)
        /\ copy[q].record = None => record[v] = None
        /\ \E k \in Verdicts :
            /\ status' = [status EXCEPT ![v] = IF k = copy[q].status THEN @ ELSE k]
            /\ record' = [record EXCEPT ![v] = IF k = copy[q].record THEN @ ELSE k]
        /\ verified' = [verified EXCEPT ![v] = moment[q]]
        /\ clashes' = IF Fresh(q) THEN clashes ELSE clashes + 1
    /\ Leave(q)
    /\ UNCHANGED <<series, hyp, due, tally, round, turns>>

\* POST /hypotheses/{hypothesis_id}/verify, which can also reopen it.
VerifyHypothesis(v) ==
    /\ hyp[v] # None
    /\ Turn
    /\ \E k \in Verdicts \cup {"PENDING"} : hyp' = [hyp EXCEPT ![v] = k]
    /\ UNCHANGED <<series, status, record, verified, due, tally, pc, moment, round,
                   copy, clashes>>

Calibrate(w) ==
    \/ SelectHypotheses(w) \/ CommitHypotheses(w) \/ SelectVersions(w)
    \/ Check(w) \/ Flush(w) \/ CommitVersions(w) \/ Recount(w) \/ CommitTally(w)

Next ==
    \/ NewVersion
    \/ \E v \in Versions : ComeDue(v) \/ VerifyHypothesis(v)
    \/ \E w \in Workers : Calibrate(w) \/ CheckFails(w) \/ RoundFails(w)
    \/ \E q \in Users : Load(q) \/ ReadRecord(q) \/ Refuse(q) \/ Verify(q)

Spec == Init /\ [][Next]_vars

\* The worker runs its rounds in an interval loop and is started again when
\* it dies; time passes.  Nothing is assumed of users, revisions and failures.
FairSpec ==
    /\ Spec
    /\ \A w \in Workers : WF_vars(Calibrate(w))
    /\ \A v \in Versions : WF_vars(ComeDue(v))

(***************************************************************************)
(* Properties.                                                             *)
(***************************************************************************)

\* The values of the columns and of the local variables.
TypeOK ==
    /\ series \in [Versions -> 0..MaxVersions]
    /\ status \in [Versions -> {"none", "ACTIVE", "SUPERSEDED"} \cup Verdicts]
    /\ record \in [Versions -> Verdicts \cup {None}]
    /\ verified \in [Versions -> Nat]
    /\ hyp \in [Versions -> Verdicts \cup {"PENDING", None}]
    /\ due \subseteq Versions
    /\ tally \in Nat
    /\ pc \in [Workers \cup Users -> {"idle", "hypotheses", "versions", "check", "flush",
                                      "recount", "tally", "read", "write", "done"}]
    /\ moment \in [Workers \cup Users -> Nat]
    /\ todo \in [Workers -> SUBSET Versions]
    /\ plan \in [Workers -> [Versions -> Verdicts \cup {None}]]
    /\ flushed \in [Workers -> SUBSET Versions]
    /\ count \in [Workers -> Nat]
    /\ copy \in [Users -> [version : 0..MaxVersions, record : Verdicts \cup {None},
                           status : {"none", "ACTIVE", "SUPERSEDED"} \cup Verdicts]]
    /\ clashes \in Nat /\ turns \in 0..MaxTurns

Torn == {v \in Versions : record[v] # None /\ status[v] # record[v]}

\* The two places that hold a verdict agree: neither a revision at the same
\* time nor a round that breaks off between them tears them apart.  Only a
\* request that wrote what another one had changed since it loaded them can,
\* and each tears one.
EachTornIsAClash == Cardinality(Torn) <= clashes

\* A verdict that has been given is changed only by a request of a user: the
\* worker never replaces one, also when it comes after the worker has looked
\* for it.
OnlyUsersChangeVerdicts ==
    [][\A v \in Versions :
        record[v] \notin {None, record'[v]} => \E q \in Users : pc[q] # pc'[q]]_vars

\* Every version gets a verdict or is superseded, whatever the rounds lose to
\* users, to failures and to versions ahead of it in the select.
EveryVersionJudged == \A v \in Versions : status[v] = "ACTIVE" ~> status[v] # "ACTIVE"

\* When no verdict changes any more, the accuracy of the rule comes to count the
\* Recent latest of them, each once: those that users have changed with what
\* they are now and when they were changed, and none that has been pushed out.
TallySettles == <>[](tally \in Confirmed)

================================================================================
