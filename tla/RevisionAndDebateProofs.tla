------------------------ MODULE RevisionAndDebateProofs ------------------------
(***************************************************************************)
(* Proofs about what rests on the runs of the simulation: the revisions of *)
(* predictions, and the debates about a run.                               *)
(*                                                                         *)
(* The first part is about PredictionRevision, for any number of series,   *)
(* jobs, changes of the evidence and faults, any limit and any number of   *)
(* attempts.  The second is about DebateStream, for any number of debates, *)
(* interrupts, rounds and mishaps.                                         *)
(***************************************************************************)
EXTENDS PredictionRevision, DebateStream, FiniteSetTheorems, WellFoundedInduction, TLAPS

\* What the simulation worker has claimed or executed is waiting in the table,
\* and only rows of committed jobs, and the user's, are there.  The limit on
\* attempts holds, and nothing has read changes that are still to come.
Queueing ==
    /\ \A i \in Ids : runs[i].status # "none" => i = 0 \/ i \in Rows(jobs)
    /\ \A i \in simTodo : runs[i].status = "PENDING"
    /\ \A i \in Ids :
        /\ simRuns[i].status # "none" => runs[i].status = "PENDING" /\ ~runs[i].rows
        /\ simRuns[i].series # {} => i = 0 /\ simRuns[i].status # "none" /\ simRuns[i].rows
        /\ \A run \in {runs[i], simRuns[i]} :
            /\ run.status = "PENDING" => run.attempts < MaxAttempts
            /\ run.read <= news

\* The chains as the open round will commit them: of a series that did not
\* exist when the round began it sees nothing.
Merged == [s \in Series |-> IF session.chains[s] = <<>> THEN chains[s] ELSE session.chains[s]]

\* Of the jobs of a series that evidence caused at most one is active.
Caused(job) == Active(job) /\ ~job.manual
OneCaused(js) ==
    \A i, j \in JobIds : Caused(js[i]) /\ Caused(js[j]) /\ js[i].series = js[j].series => i = j

\* Between a version and the k-th are only forecasts users asked for.
Beside(js, chain, base, k) == \A l \in (base + 1)..(k - 1) : js[chain[l].run].manual

\* A job revises a version of its series; if evidence caused it, all later ones
\* are forecasts users asked for.
Based(js, cs) ==
    \A j \in Rows(js) :
        LET chain == cs[js[j].series] IN
        /\ js[j].base \in 1..Len(chain)
        /\ Caused(js[j]) => Beside(js, chain, js[j].base, Len(chain) + 1)

\* A version after the first belongs to a job that has ended and a completed run.
Revised(js, rs, chain, k) ==
    LET version == chain[k] IN
    /\ version.run \in Rows(js) /\ ~Active(js[version.run])
    /\ rs[version.run].status = "COMPLETED"
    /\ version.parent \in 1..(k - 1)
    /\ ~js[version.run].manual => Beside(js, chain, version.parent, k)

Linear(js, rs, chain) ==
    \A k \in DOMAIN chain :
        /\ k = 1 => chain[k].run = 0 /\ chain[k].parent = 0
        /\ k > 1 => Revised(js, rs, chain, k)
        /\ \A l \in DOMAIN chain : chain[l].run = chain[k].run => l = k

Consistent(js, cs, rs) ==
    /\ OneCaused(js) /\ Based(js, cs)
    /\ \A s \in Series : Linear(js, rs, cs[s]) /\ (cs[s] # <<>> => rs[0].rows)

InPhase ==
    /\ phase # "events" => hand = 0
    /\ phase # "jobs" => todo = {}

\* A round works on copies: what it adds and changes, and when.
Copies ==
    /\ \A j \in Rows(jobs) :
        /\ j \in Rows(session.jobs)
        /\ session.jobs[j].series = jobs[j].series
        /\ phase # "jobs" => session.jobs[j] = jobs[j]
    /\ \A s \in Series :
        \/ session.chains[s] \in {<<>>, chains[s]}
        \/ phase = "jobs" /\ Len(chains[s]) <= Len(session.chains[s])
    /\ \A j \in Rows(session.jobs) :
        /\ runs[j].status # "none" => session.chains[session.jobs[j].series] # <<>>
        /\ j \notin Rows(jobs) => session.jobs[j].series \in missed \/ inbox > 0

\* What the open round is about to commit forgets nothing either.
SessionRemembers == Remembered(session.jobs, Merged)

RevisionInv ==
    /\ TypeOK /\ Queueing /\ InPhase /\ Copies
    /\ Consistent(jobs, chains, runs) /\ Consistent(session.jobs, Merged, runs)
    /\ NothingForgotten /\ SessionRemembers

-----------------------------------------------------------------------------
(* Lemmas about the operators the actions are built from.                  *)

\* A set of numbers has a least element, and Min is it.
LEMMA MinOfNumbers ==
    ASSUME NEW S \in SUBSET Nat, S # {}
    PROVE  Min(S) \in S /\ \A n \in S : Min(S) <= n
<1>1. \E m \in S : \A n \in S : ~ (<<n, m>> \in OpToRel(<, Nat))
  BY NatLessThanWellFounded, WFMin, Zenon
<1>2. PICK m \in S : \A n \in S : ~ (n < m)
  BY <1>1 DEF OpToRel
<1>3. \A n \in S : m <= n
  BY <1>2
<1> QED
  BY <1>3 DEF Min

\* A bounded set of numbers with 0 in it has a greatest element, and Max is it.
LEMMA MaxOfNumbers ==
    ASSUME NEW n \in Nat, NEW S \in SUBSET (0..n), 0 \in S
    PROVE  Max(S) \in S /\ \A k \in S : k <= Max(S)
<1> DEFINE Bounds == {b \in Nat : \A k \in S : k <= b}
           m == Min(Bounds)
<1>1. m \in Bounds /\ \A b \in Bounds : m <= b
  <2>1. n \in Bounds
    OBVIOUS
  <2> QED
    BY <2>1, MinOfNumbers
<1> HIDE DEF m
<1>2. m \in S
  <2> SUFFICES ASSUME m \notin S PROVE FALSE
    OBVIOUS
  <2>1. m - 1 \in Bounds
    BY <1>1
  <2> QED
    BY <1>1, <2>1
<1>3. \A k \in S : m >= k
  BY <1>1
<1> QED
  BY <1>2, <1>3 DEF Max

\* The bounds.
LEMMA Numbers ==
    /\ MaxAttempts \in Nat \ {0} /\ Limit \in Nat \ {0}
    /\ MaxNews \in Nat /\ MaxJobs \in Nat /\ MaxSeries \in Nat /\ MaxFaults \in Nat
BY LimitsAssumption

\* Series are finitely many.
LEMMA FewSeries ==
    ASSUME NEW S \in SUBSET Series
    PROVE  IsFiniteSet(S) /\ Cardinality(S) \in Nat /\ (S = {} <=> Cardinality(S) = 0)
<1>1. IsFiniteSet(1..MaxSeries)
  BY Numbers, FS_Interval
<1> QED
  BY <1>1, FS_Subset, FS_CardinalityType, FS_EmptySet DEF Series

\* What jobs and versions have in them.
LEMMA Types ==
    ASSUME TypeOK
    PROVE  /\ JobIds \subseteq Ids /\ 0 \notin JobIds /\ 0 \in Ids
           /\ \A j \in Rows(jobs) :
                /\ j \in JobIds /\ j \in Ids /\ jobs[j] \in Jobs
                /\ jobs[j].series \in Series /\ jobs[j].base \in Nat
           /\ \A j \in Rows(session.jobs) :
                /\ j \in JobIds /\ j \in Ids /\ session.jobs[j] \in Jobs
                /\ session.jobs[j].series \in Series /\ session.jobs[j].base \in Nat
           /\ \A j \in JobIds : /\ Active(jobs[j]) => j \in Rows(jobs)
                                /\ Active(session.jobs[j]) => j \in Rows(session.jobs)
           /\ \A s \in Series : chains[s] \in Seq(Versions) /\ session.chains[s] \in Seq(Versions)
           /\ Merged \in [Series -> Seq(Versions)]
<1>1. JobIds \subseteq Ids /\ 0 \notin JobIds /\ 0 \in Ids
  BY Numbers DEF JobIds, Ids
<1>2. \A job \in Jobs : job.series \in Series /\ job.base \in Nat
  BY DEF Jobs
<1>3. \A js \in JobTable : /\ \A j \in Rows(js) : j \in JobIds /\ js[j] \in Jobs
                           /\ \A j \in JobIds : Active(js[j]) => j \in Rows(js)
  BY DEF JobTable, Rows, NoJob, Active
<1>4. jobs \in JobTable /\ session.jobs \in JobTable
  BY DEF TypeOK
<1>5. \A s \in Series : chains[s] \in Seq(Versions) /\ session.chains[s] \in Seq(Versions)
  BY DEF TypeOK
<1>6. Merged \in [Series -> Seq(Versions)]
  BY <1>5 DEF Merged
<1> QED
  BY <1>1, <1>2, <1>3, <1>4, <1>5, <1>6

\* No job, committed or not, has a later number than Newest.
LEMMA NewestJob ==
    ASSUME TypeOK
    PROVE  /\ Newest \in Nat
           /\ \A j \in Rows(jobs) \cup Rows(session.jobs) : j <= Newest
<1> DEFINE S == {0} \cup Rows(jobs) \cup Rows(session.jobs)
<1>1. S \in SUBSET (0..MaxJobs)
  BY Numbers DEF Rows, JobIds
<1>2. Max(S) \in S /\ \A k \in S : k <= Max(S)
  BY <1>1, Numbers, MaxOfNumbers
<1> HIDE DEF S
<1>3. Newest \in S /\ \A k \in S : k <= Newest
  BY <1>2 DEF Newest, S
<1> QED
  BY <1>1, <1>3 DEF S

\* What a session has after jobs for some series were added.
LEMMA AddedJobs ==
    ASSUME TypeOK, NEW S \in SUBSET Series
    PROVE  LET js == WithJobs(S) IN
           /\ js \in JobTable
           /\ \A j \in Rows(session.jobs) : j \in Rows(js) /\ js[j] = session.jobs[j]
           /\ \A j \in Rows(js) \ Rows(session.jobs) :
                /\ j \notin Rows(jobs)
                /\ \E s \in S : js[j] = NewJob(s, FALSE)
           /\ \A i, j \in Rows(js) \ Rows(session.jobs) : js[i].series = js[j].series => i = j
<1> DEFINE js == WithJobs(S)
           Place(s) == Newest + Cardinality({t \in S : t <= s})
           Added(j) == {s \in S : Place(s) = j}
<1>1. \A s \in S : Place(s) > Newest
  <2> TAKE s \in S
  <2>0. s \in Nat
    BY Numbers DEF Series
  <2>1. {t \in S : t <= s} \in SUBSET Series /\ s \in {t \in S : t <= s}
    <3>1. s <= s
      BY <2>0
    <3> QED
      BY <3>1, Zenon
  <2>2. Cardinality({t \in S : t <= s}) \in Nat /\ Cardinality({t \in S : t <= s}) # 0
    BY <2>1, FewSeries
  <2> QED
    BY <2>2, NewestJob
<1>2. js = [j \in JobIds |-> IF Added(j) = {} THEN session.jobs[j]
                             ELSE NewJob(CHOOSE s \in Added(j) : TRUE, FALSE)]
  BY Zenon DEF WithJobs
<1> HIDE DEF Place
<1>3. \A j \in JobIds :
        \/ Added(j) = {} /\ js[j] = session.jobs[j]
        \/ \E s \in S : Place(s) = j /\ js[j] = NewJob(s, FALSE)
  <2> TAKE j \in JobIds
  <2>1. CASE Added(j) = {}
    BY <1>2, <2>1
  <2>2. CASE Added(j) # {}
    <3> DEFINE s == CHOOSE s \in Added(j) : TRUE
    <3>1. s \in Added(j)
      BY <2>2
    <3>2. js[j] = NewJob(s, FALSE)
      BY <1>2, <2>2
    <3> HIDE DEF s
    <3> QED
      BY <3>1, <3>2
  <2> QED
    BY <2>1, <2>2
<1> HIDE DEF js, Added
<1>4. \A s \in S : NewJob(s, FALSE) \in Jobs /\ NewJob(s, FALSE).series = s
                   /\ NewJob(s, FALSE).status = "PENDING"
  <2> TAKE s \in S
  <2>1. s \in Series /\ Len(chains[s]) \in Nat
    BY DEF TypeOK
  <2> QED
    BY <2>1 DEF NewJob, Jobs
<1>5. js \in JobTable
  <2>1. DOMAIN js = JobIds /\ js = [j \in JobIds |-> js[j]]
    BY <1>2
  <2>2. \A j \in JobIds : js[j] \in Jobs \cup {NoJob}
    <3>1. \A j \in JobIds : session.jobs[j] \in Jobs \cup {NoJob}
      BY DEF TypeOK, JobTable
    <3> QED
      BY <1>3, <1>4, <3>1
  <2> QED
    BY <2>1, <2>2 DEF JobTable
<1>6. ASSUME NEW j \in Rows(jobs) \cup Rows(session.jobs)
      PROVE  j \in JobIds /\ js[j] = session.jobs[j]
  <2>1. j \in JobIds /\ j <= Newest /\ j \in Nat /\ Newest \in Nat
    BY NewestJob, Numbers DEF Rows, JobIds
  <2>2. \A s \in S : Place(s) # j
    BY <1>1, <2>1
  <2> QED
    BY <1>3, <2>1, <2>2
<1>7. \A j \in Rows(session.jobs) : j \in Rows(js) /\ js[j] = session.jobs[j]
  BY <1>6 DEF Rows
<1>8. ASSUME NEW j \in Rows(js) \ Rows(session.jobs)
      PROVE  /\ j \notin Rows(jobs)
             /\ \E s \in S : Place(s) = j /\ js[j] = NewJob(s, FALSE)
  <2>1. j \in JobIds /\ js[j].status # "none" /\ session.jobs[j].status = "none"
    BY DEF Rows
  <2>2. js[j] # session.jobs[j]
    BY <2>1
  <2>3. j \notin Rows(jobs)
    BY <1>6, <2>2
  <2> QED
    BY <1>3, <2>1, <2>2, <2>3
<1>9. ASSUME NEW i \in Rows(js) \ Rows(session.jobs), NEW j \in Rows(js) \ Rows(session.jobs),
             js[i].series = js[j].series
      PROVE  i = j
  <2>1. PICK s \in S : Place(s) = i /\ js[i] = NewJob(s, FALSE)
    BY <1>8
  <2>2. PICK t \in S : Place(t) = j /\ js[j] = NewJob(t, FALSE)
    BY <1>8
  <2>3. s = t
    BY <1>4, <1>9, <2>1, <2>2
  <2> QED
    BY <2>1, <2>2, <2>3
<1> QED
  BY <1>5, <1>7, <1>8, <1>9 DEF js

\* A series that exists has a latest version, made by some run.
LEMMA LastVersion ==
    ASSUME NEW chain \in Seq(Versions), chain # <<>>
    PROVE  /\ Len(chain) \in Nat \ {0} /\ Len(chain) \in DOMAIN chain
           /\ Latest(chain) \in Versions /\ Latest(chain).run \in Ids
<1>1. /\ Len(chain) \in Nat \ {0} /\ Len(chain) \in DOMAIN chain
      /\ chain[Len(chain)] \in Versions
  OBVIOUS
<1> QED
  BY <1>1 DEF Versions, Latest

\* What is said of requests holds of another table that has the same rows and more.
SameRows(js, ks) ==
    \A j \in Rows(js) : /\ j \in Rows(ks)
                        /\ ks[j].series = js[j].series /\ ks[j].base = js[j].base
                        /\ ks[j].manual = js[j].manual

\* So the versions beside a line stay requests.
LEMMA BesideKept ==
    ASSUME NEW js, NEW ks, NEW rs, NEW chain \in Seq(Versions), Linear(js, rs, chain),
           SameRows(js, ks), NEW base \in Nat \ {0}, NEW k \in 1..(Len(chain) + 1),
           Beside(js, chain, base, k)
    PROVE  Beside(ks, chain, base, k)
<1> SUFFICES ASSUME NEW l \in (base + 1)..(k - 1) PROVE ks[chain[l].run].manual
  BY DEF Beside
<1>1. l \in DOMAIN chain /\ l > 1
  OBVIOUS
<1>2. chain[l].run \in Rows(js)
  BY <1>1 DEF Linear, Revised
<1> QED
  BY <1>2 DEF SameRows, Beside

\* Chains stay in line when rows are added and jobs that have ended stay so.
LEMMA LinearKept ==
    ASSUME NEW js, NEW ks, NEW rs, NEW chain \in Seq(Versions), Linear(js, rs, chain),
           SameRows(js, ks), \A j \in Rows(js) : Active(ks[j]) => Active(js[j])
    PROVE  Linear(ks, rs, chain)
<1> SUFFICES ASSUME NEW k \in DOMAIN chain, k > 1 PROVE Revised(ks, rs, chain, k)
  BY DEF Linear
<1>1. Revised(js, rs, chain, k)
  BY DEF Linear
<1>2. /\ chain[k].run \in Rows(js) /\ ~Active(js[chain[k].run])
      /\ rs[chain[k].run].status = "COMPLETED"
      /\ chain[k].parent \in 1..(k - 1)
      /\ ~js[chain[k].run].manual => Beside(js, chain, chain[k].parent, k)
  BY <1>1 DEF Revised
<1>3. chain[k].parent \in Nat \ {0} /\ k \in 1..(Len(chain) + 1)
  BY <1>2
<1>4. ASSUME Beside(js, chain, chain[k].parent, k) PROVE Beside(ks, chain, chain[k].parent, k)
  BY <1>3, <1>4, BesideKept
<1> QED
  BY <1>2, <1>4 DEF Revised, SameRows

\* Jobs that are added keep a consistent state so: each revises some version of its
\* series, and those that evidence caused the latest, when there is no active job.
LEMMA MoreJobsConsistent ==
    ASSUME NEW js, NEW ks, NEW cs \in [Series -> Seq(Versions)], NEW rs, Consistent(js, cs, rs),
           \A j \in Rows(js) : j \in Rows(ks) /\ ks[j] = js[j] /\ js[j].series \in Series,
           \A j \in Rows(ks) \ Rows(js) :
                /\ ks[j].series \in Series /\ ks[j].base \in 1..Len(cs[ks[j].series])
                /\ ~ks[j].manual =>
                    /\ ks[j].base = Len(cs[ks[j].series])
                    /\ \A i \in Rows(js) : Active(js[i]) => js[i].series # ks[j].series,
           \A i, j \in Rows(ks) \ Rows(js) :
                ~ks[i].manual /\ ~ks[j].manual /\ ks[i].series = ks[j].series => i = j
    PROVE  Consistent(ks, cs, rs)
<1>1. SameRows(js, ks) /\ \A j \in Rows(js) : Active(ks[j]) => Active(js[j])
  BY DEF SameRows
<1>2. \A j \in JobIds : Caused(ks[j]) => j \in Rows(ks) /\ Active(ks[j]) /\ ~ks[j].manual
  BY DEF Caused, Active, Rows
<1>3. OneCaused(ks)
  <2> SUFFICES ASSUME NEW i \in JobIds, NEW j \in JobIds, Caused(ks[i]), Caused(ks[j]),
                      ks[i].series = ks[j].series
               PROVE  i = j
    BY DEF OneCaused
  <2>1. CASE i \in Rows(js) /\ j \in Rows(js)
    BY <2>1 DEF Consistent, OneCaused
  <2> QED
    BY <1>2, <2>1
<1>4. ASSUME NEW j \in Rows(ks)
      PROVE  LET chain == cs[ks[j].series] IN
             /\ ks[j].base \in 1..Len(chain)
             /\ Caused(ks[j]) => Beside(ks, chain, ks[j].base, Len(chain) + 1)
  <2> DEFINE chain == cs[ks[j].series]
  <2>1. ks[j].series \in Series /\ chain \in Seq(Versions) /\ Len(chain) \in Nat
    BY <1>4
  <2>2. CASE j \in Rows(js)
    <3>1. /\ ks[j] = js[j] /\ ks[j].base \in 1..Len(chain)
          /\ Caused(js[j]) => Beside(js, chain, ks[j].base, Len(chain) + 1)
      BY <2>2 DEF Consistent, Based
    <3>2. Linear(js, rs, chain) /\ ks[j].base \in Nat \ {0} /\ Len(chain) + 1 \in 1..(Len(chain) + 1)
      BY <2>1, <3>1 DEF Consistent
    <3> HIDE DEF chain
    <3>3. ASSUME Beside(js, chain, ks[j].base, Len(chain) + 1)
          PROVE  Beside(ks, chain, ks[j].base, Len(chain) + 1)
      BY <1>1, <2>1, <3>2, <3>3, BesideKept
    <3> QED
      BY <3>1, <3>3 DEF chain
  <2>3. CASE j \notin Rows(js)
    BY <1>2, <2>1, <2>3 DEF Beside, Caused
  <2> QED
    BY <2>2, <2>3
<1>5. \A s \in Series : Linear(ks, rs, cs[s])
  BY <1>1, LinearKept DEF Consistent
<1> QED
  BY <1>3, <1>4, <1>5 DEF Consistent, Based

\* Rows of runs that are written anew leave a consistent state so.
LEMMA StillConsistent ==
    ASSUME NEW js, NEW cs, NEW rs, NEW qs, Consistent(js, cs, rs),
           \A i \in Rows(js) : rs[i].status = "COMPLETED" => qs[i].status = "COMPLETED",
           rs[0].rows => qs[0].rows
    PROVE  Consistent(js, cs, qs)
<1>1. \A s \in Series : Linear(js, qs, cs[s])
  BY DEF Consistent, Linear, Revised
<1> QED
  BY <1>1 DEF Consistent

\* Every job belongs to a series that exists.
LEMMA JobsHaveSeries ==
    ASSUME NEW js, NEW cs \in [Series -> Seq(Versions)], NEW rs, Consistent(js, cs, rs),
           NEW j \in Rows(js), js[j].series \in Series
    PROVE  cs[js[j].series] # <<>>
<1>1. js[j].base \in 1..Len(cs[js[j].series])
  BY DEF Consistent, Based
<1>2. Len(<<>>) = 0 /\ 1..0 = {}
  OBVIOUS
<1> QED
  BY <1>1, <1>2

-----------------------------------------------------------------------------
(* The invariant holds at first.                                           *)

\* What a run without a row and a queued one are.
LEMMA EmptyRun ==
    /\ 0 \in Ids /\ NoRun \in Runs /\ Queued \in Runs
    /\ NoRun.status = "none" /\ NoRun.series = {} /\ NoRun.read = 0 /\ ~NoRun.rows
    /\ Queued.status = "PENDING" /\ Queued.attempts = 0 /\ Queued.read = 0
    /\ Queued.series = {} /\ ~Queued.rows
<1>1. NoRun \in Runs
  BY Numbers DEF NoRun, Runs
<1>2. Queued \in Runs
  BY <1>1 DEF Queued, Runs
<1>3. 0 \in Ids
  BY Numbers DEF Ids
<1> QED
  BY <1>1, <1>2, <1>3 DEF NoRun, Queued

\* It holds before any event.
LEMMA InitRevision == Init => RevisionInv
<1> SUFFICES ASSUME Init PROVE RevisionInv
  OBVIOUS
<1>2. /\ runs \in [Ids -> Runs] /\ simRuns \in [Ids -> Runs]
      /\ \A i \in Ids : runs[i] = (IF i = 0 THEN Queued ELSE NoRun) /\ simRuns[i] = NoRun
  BY EmptyRun DEF Init, NoneRun
<1>3. session.jobs = jobs /\ session.chains = [s \in Series |-> <<>>] /\ session.counted = FALSE
  BY DEF Init
<1>4. jobs \in JobTable /\ Rows(jobs) = {} /\ \A j \in JobIds : ~Active(jobs[j])
  BY DEF Init, JobTable, Rows, NoJob, Active
<1>5. TypeOK
  <2>1. <<>> \in Seq(Versions)
    OBVIOUS
  <2>2. chains \in [Series -> Seq(Versions)]
    BY DEF Init
  <2>3. session \in [jobs : JobTable, chains : [Series -> Seq(Versions)], counted : BOOLEAN]
    BY <1>4, <2>1, <2>2 DEF Init
  <2> QED
    BY <1>2, <1>4, <2>1, <2>2, <2>3, Numbers DEF Init, TypeOK
<1>6. Queueing
  BY <1>2, EmptyRun, Numbers DEF Init, Queueing
<1>7. InPhase /\ Copies
  BY <1>3, <1>4 DEF Init, InPhase, Copies
<1>8. Merged = chains /\ \A s \in Series : chains[s] = <<>>
  BY <1>3 DEF Init, Merged
<1>9. Consistent(jobs, chains, runs)
  BY <1>4, <1>8 DEF Consistent, OneCaused, Caused, Based, Linear
<1>10. NothingForgotten /\ SessionRemembers
  BY <1>8 DEF NothingForgotten, SessionRemembers, Remembered, Stale
<1> QED
  BY <1>3, <1>5, <1>6, <1>7, <1>8, <1>9, <1>10 DEF RevisionInv

-----------------------------------------------------------------------------
(* The simulation worker between its commits.                              *)

\* An execution that does not collide gives the run an outcome: it has counted
\* the attempt and, when it has completed, has read the evidence of now.
Outcome(i, run) ==
    /\ run \in Runs
    /\ run.status # "none" /\ run.read <= news
    /\ run.status = "PENDING" => run.attempts < MaxAttempts
    /\ run.status = "COMPLETED" => run.read = news
    /\ run.series # {} => i = 0 /\ run.rows

\* The first run claimed is the one that gets it.
LEMMA ExecutionOutcome ==
    ASSUME TypeOK, Queueing, NEW result \in Runs, Execute(result),
           result.status # "none", result.read \in {0, news},
           result.status = "PENDING" => result.status = AfterFailure,
           result.status = "COMPLETED" => result.read = news,
           result.series # {} => InHand = 0 /\ result.rows
    PROVE  \E i \in simTodo, run \in Runs :
             /\ ~runs[i].rows /\ Outcome(i, run)
             /\ simRuns' = [simRuns EXCEPT ![i] = run]
             /\ simTodo' \subseteq simTodo
<1> DEFINE i == InHand
           run == [result EXCEPT !.attempts = runs[InHand].attempts + 1]
<1>1. i \in simTodo
  <2>1. simTodo \subseteq Nat /\ simTodo # {}
    BY Numbers DEF Execute, Executing, TypeOK, Ids
  <2> QED
    BY <2>1, MinOfNumbers DEF InHand
<1>2. runs[i].status = "PENDING" /\ runs[i] \in Runs /\ runs[i].attempts < MaxAttempts
  BY <1>1 DEF TypeOK, Queueing
<1>3. runs[i].attempts + 1 \in 0..MaxAttempts
  BY <1>2, Numbers DEF Runs
<1>4. run \in Runs /\ run.status = result.status /\ run.read = result.read
      /\ run.series = result.series /\ run.rows = result.rows
      /\ run.attempts = runs[i].attempts + 1
  BY <1>3 DEF Runs
<1>5. result.status = "PENDING" => run.attempts < MaxAttempts
  BY <1>3, <1>4, Numbers DEF AfterFailure
<1>6. result.read <= news
  BY Numbers DEF TypeOK
<1>7. Outcome(i, run)
  BY <1>4, <1>5, <1>6 DEF Outcome
<1>8. /\ ~runs[i].rows
      /\ simRuns' = [simRuns EXCEPT ![i] = run]
      /\ simTodo' = simTodo \ {i}
  BY DEF Execute
<1> QED
  BY <1>1, <1>4, <1>7, <1>8

\* So does one that got as far as its rows.
LEMMA ReachedOutcome ==
    ASSUME TypeOK, Queueing, NEW state \in {"PENDING", "COMPLETED", "FAILED"},
           NEW series \in SUBSET Series, Reached(state, series),
           state = "PENDING" => state = AfterFailure
    PROVE  \E i \in simTodo, run \in Runs :
             /\ ~runs[i].rows /\ Outcome(i, run)
             /\ simRuns' = [simRuns EXCEPT ![i] = run]
             /\ simTodo' \subseteq simTodo
<1> DEFINE result == [Queued EXCEPT !.status = state, !.rows = TRUE, !.read = news,
                                    !.series = series]
<1>1. /\ result \in Runs /\ result.status = state /\ result.rows /\ result.read = news
      /\ result.series = series
  BY EmptyRun DEF Runs, TypeOK
<1>2. Execute(result) /\ (series # {} => InHand = 0)
  BY DEF Reached
<1> HIDE DEF result
<1> QED
  BY <1>1, <1>2, ExecutionOutcome

\* An execution gives a run its outcome, or gives up the transaction.
LEMMA ExecutionResult ==
    ASSUME TypeOK, Queueing, Execution
    PROVE  \/ simRuns' = NoneRun /\ simTodo' = {}
           \/ \E i \in simTodo, run \in Runs :
                /\ ~runs[i].rows /\ Outcome(i, run)
                /\ simRuns' = [simRuns EXCEPT ![i] = run]
                /\ simTodo' \subseteq simTodo
<1>1. CASE RunCompletes
  <2>1. Reached("COMPLETED", IF InHand = 0 THEN Series ELSE {})
    BY <1>1 DEF RunCompletes
  <2> QED
    BY <2>1, ReachedOutcome
<1>2. AfterFailure \in {"PENDING", "FAILED"}
  BY DEF AfterFailure
<1>3. ASSUME Execute([Queued EXCEPT !.status = AfterFailure])
      PROVE  \E i \in simTodo, run \in Runs :
                /\ ~runs[i].rows /\ Outcome(i, run)
                /\ simRuns' = [simRuns EXCEPT ![i] = run]
                /\ simTodo' \subseteq simTodo
  <2> DEFINE result == [Queued EXCEPT !.status = AfterFailure]
  <2>1. /\ result \in Runs /\ result.status = AfterFailure /\ result.read = 0
        /\ result.series = {}
    BY <1>2, EmptyRun DEF Runs
  <2>2. Execute(result)
    BY <1>3
  <2> HIDE DEF result
  <2> QED
    BY <1>2, <2>1, <2>2, ExecutionOutcome
<1>4. ASSUME NEW begun \in 0..MaxSeries, Reached(AfterFailure, 1..begun)
      PROVE  \E i \in simTodo, run \in Runs :
                /\ ~runs[i].rows /\ Outcome(i, run)
                /\ simRuns' = [simRuns EXCEPT ![i] = run]
                /\ simTodo' \subseteq simTodo
  <2>1. 1..begun \subseteq Series
    BY Numbers DEF Series
  <2> QED
    BY <1>2, <1>4, <2>1, ReachedOutcome
<1>5. CASE RunCollides
  BY <1>5 DEF RunCollides
<1> QED
  BY <1>1, <1>3, <1>4, <1>5 DEF Execution, RunFails

\* Between its commits it keeps its own part of the invariant, and what the
\* latest execution of a run has read becomes newer, or does not count.
Reexecuted(i) ==
    \/ Executed(i)' = Executed(i)
    \/ Executed(i)'.status # "COMPLETED"
    \/ Executed(i)'.read = news

\* The steps of the simulation worker between its commits.
LEMMA SimulationWork ==
    ASSUME TypeOK, Queueing, SimulationSweep \/ Execution \/ SimulationCrash
    PROVE  /\ UNCHANGED <<news, inbox, unacked, tables, revisionWorker, missed>>
           /\ TypeOK' /\ Queueing'
           /\ \A i \in Ids : Reexecuted(i)
<1>1. UNCHANGED <<news, inbox, unacked, tables, revisionWorker, missed>>
  BY DEF SimulationSweep, Execution, RunCompletes, RunFails, RunCollides, Reached, Execute,
         SimulationCrash, bus
<1>2. knowledge' \in BOOLEAN /\ wake' \in BOOLEAN /\ faults' \in 0..MaxFaults
      /\ simPhase' \in {"boot", "booting", "waiting", "running"}
  <2>1. CASE SimulationSweep
    BY <2>1 DEF SimulationSweep, TypeOK
  <2>2. CASE Execution
    BY <2>2 DEF Execution, RunCompletes, RunFails, RunCollides, Reached, Execute, bus, TypeOK
  <2>3. CASE SimulationCrash
    BY <2>3, Numbers DEF SimulationCrash, bus, TypeOK
  <2> QED
    BY <2>1, <2>2, <2>3
<1>3. NoneRun \in [Ids -> Runs] /\ \A i \in Ids : NoneRun[i] = NoRun
  BY EmptyRun DEF NoneRun
<1> DEFINE Own == /\ simTodo' \subseteq Ids /\ simRuns' \in [Ids -> Runs]
                  /\ \A i \in simTodo' : runs[i].status = "PENDING"
                  /\ \A i \in Ids : \/ simRuns'[i] = simRuns[i]
                                    \/ simRuns'[i] = NoRun
                                    \/ /\ runs[i].status = "PENDING" /\ ~runs[i].rows
                                       /\ Outcome(i, simRuns'[i])
<1>4. Own
  <2>1. CASE SimulationSweep
    BY <2>1 DEF SimulationSweep, Claimed, TypeOK
  <2>2. CASE SimulationCrash
    BY <1>3, <2>2 DEF SimulationCrash
  <2>3. CASE simRuns' = NoneRun /\ simTodo' = {}
    BY <1>3, <2>3
  <2>4. ASSUME NEW i \in simTodo, NEW run \in Runs, ~runs[i].rows, Outcome(i, run),
               simRuns' = [simRuns EXCEPT ![i] = run], simTodo' \subseteq simTodo
        PROVE  Own
    BY <2>4 DEF TypeOK, Queueing
  <2> QED
    BY <2>1, <2>2, <2>3, <2>4, ExecutionResult
<1>5. TypeOK'
  BY <1>1, <1>2, <1>4 DEF TypeOK, tables, revisionWorker
<1>6. Queueing'
  <2>1. \A i \in simTodo' : runs[i].status = "PENDING"
    BY <1>4
  <2>2. ASSUME NEW i \in Ids
        PROVE  /\ simRuns'[i].status # "none" => runs[i].status = "PENDING" /\ ~runs[i].rows
               /\ simRuns'[i].series # {} => i = 0 /\ simRuns'[i].status # "none" /\ simRuns'[i].rows
               /\ simRuns'[i].status = "PENDING" => simRuns'[i].attempts < MaxAttempts
               /\ simRuns'[i].read <= news
    <3>1. CASE simRuns'[i] = simRuns[i]
      BY <3>1 DEF Queueing
    <3>2. CASE simRuns'[i] = NoRun
      BY <3>2, EmptyRun, Numbers DEF TypeOK
    <3>3. CASE runs[i].status = "PENDING" /\ ~runs[i].rows /\ Outcome(i, simRuns'[i])
      BY <3>3 DEF Outcome
    <3> QED
      BY <1>4, <3>1, <3>2, <3>3
  <2> QED
    BY <1>1, <2>1, <2>2 DEF Queueing, tables
<1>7. ASSUME NEW i \in Ids PROVE Reexecuted(i)
  <2>1. CASE simRuns'[i] = simRuns[i]
    BY <1>1, <2>1 DEF Reexecuted, Executed, tables
  <2>2. CASE simRuns'[i] = NoRun
    BY <1>1, <2>2, EmptyRun DEF Reexecuted, Executed, tables, Queueing
  <2>3. CASE Outcome(i, simRuns'[i])
    BY <2>3 DEF Outcome, Reexecuted, Executed
  <2> QED
    BY <1>4, <2>1, <2>2, <2>3
<1> QED
  BY <1>1, <1>5, <1>6, <1>7

\* There is an event when there is one anywhere.
LEMMA SumOfEvents ==
    ASSUME NEW a \in Nat, NEW b \in Nat, NEW c \in Nat
    PROVE  a + b + c > 0 <=> a > 0 \/ b > 0 \/ c > 0
OBVIOUS

\* Reasons last while the tables, or what the round sees of them, do.
LEMMA ReasonsLast ==
    ASSUME UNCHANGED <<runs, news>>, missed \subseteq missed',
           inbox + unacked + hand > 0 => inbox' + unacked' + hand' > 0,
           \A j \in JobIds : UpToDate(j) => UpToDate(j)'
    PROVE  /\ NothingForgotten /\ UNCHANGED <<jobs, chains>> => NothingForgotten'
           /\ SessionRemembers /\ UNCHANGED <<session, chains>> => SessionRemembers'
<1>1. ASSUME UNCHANGED <<jobs, chains>>, NothingForgotten PROVE NothingForgotten'
  BY <1>1 DEF NothingForgotten, Remembered, Stale
<1>2. ASSUME UNCHANGED <<session, chains>>, SessionRemembers PROVE SessionRemembers'
  <2>1. Merged' = Merged /\ session'.jobs = session.jobs
    BY <1>2 DEF Merged
  <2> QED
    BY <1>2, <2>1 DEF SessionRemembers, Remembered, Stale
<1> QED
  BY <1>1, <1>2

\* Claims, executions and deaths of the simulation worker change no table.
LEMMA SimulationWorkInv ==
    ASSUME RevisionInv, SimulationSweep \/ Execution \/ SimulationCrash
    PROVE  RevisionInv'
<1> USE DEF RevisionInv
<1>1. /\ UNCHANGED <<news, inbox, unacked, tables, revisionWorker, missed>>
      /\ TypeOK' /\ Queueing'
      /\ \A i \in Ids : Reexecuted(i)
  BY SimulationWork
<1>2. UNCHANGED <<news, inbox, unacked, jobs, runs, chains, phase, hand, session, todo, missed>>
  BY <1>1 DEF tables, revisionWorker
<1>3. InPhase' /\ Copies'
  BY <1>2 DEF InPhase, Copies
<1>4. Merged' = Merged
  BY <1>2 DEF Merged
<1>5. Consistent(jobs, chains, runs)' /\ Consistent(session.jobs, Merged, runs)'
  BY <1>2, <1>4
<1>6. \A j \in JobIds : UpToDate(j) => UpToDate(j)'
  BY <1>1, <1>2, Types DEF UpToDate, Reexecuted
<1>7. NothingForgotten' /\ SessionRemembers'
  BY <1>2, <1>6, ReasonsLast
<1> QED
  BY <1>1, <1>3, <1>5, <1>7

\* Runs that have completed or left rows are not written again.
Settled(i) == runs[i].status = "COMPLETED" \/ (i = 0 /\ runs[i].rows)

\* The run a latest version was made by is not executed again.
LEMMA VersionsSettled ==
    ASSUME NEW js, NEW cs \in [Series -> Seq(Versions)], Consistent(js, cs, runs),
           NEW s \in Series, cs[s] # <<>>
    PROVE  Settled(Latest(cs[s]).run) /\ Latest(cs[s]).run \in Ids
<1> DEFINE chain == cs[s]
           k == Len(chain)
<1>1. chain \in Seq(Versions)
  OBVIOUS
<1>2. k \in Nat \ {0} /\ k \in DOMAIN chain /\ chain[k].run \in Ids
  BY <1>1, LastVersion DEF Latest
<1>3. Linear(js, runs, chain) /\ runs[0].rows
  BY DEF Consistent
<1>4. CASE k = 1
  BY <1>2, <1>3, <1>4 DEF Linear, Settled, Latest
<1>5. CASE k > 1
  BY <1>2, <1>3, <1>5 DEF Linear, Revised, Settled, Latest
<1>6. k = 1 \/ k > 1
  <2> HIDE DEF k
  <2> QED
    BY <1>2
<1> QED
  BY <1>2, <1>4, <1>5, <1>6

-----------------------------------------------------------------------------
(* The commits of the simulation worker.                                   *)

\* The commit of the simulation worker, which may start the series.
LEMMA SimulationCommitsInv == RevisionInv /\ SimulationCommits => RevisionInv'
<1> SUFFICES ASSUME RevisionInv, SimulationCommits PROVE RevisionInv'
  OBVIOUS
<1> USE DEF RevisionInv
<1> DEFINE S == simRuns[0].series
<1>1. /\ runs' = [i \in Ids |-> IF simRuns[i].status = "none" THEN runs[i] ELSE simRuns[i]]
      /\ chains' = [s \in Series |-> IF s \in S THEN <<[run |-> 0, parent |-> 0]>> ELSE chains[s]]
      /\ missed' = IF simRuns[0].read < news THEN missed \cup S ELSE missed
      /\ simRuns' = NoneRun /\ simTodo = {} /\ simTodo' = {} /\ simPhase' = "waiting"
      /\ UNCHANGED <<news, inbox, unacked, knowledge, wake, jobs, phase, hand, session, todo, faults>>
  BY DEF SimulationCommits, bus, revisionWorker
<1>2. /\ S \subseteq Series /\ simRuns[0] \in Runs
      /\ \A i \in Ids : runs[i] \in Runs /\ simRuns[i] \in Runs
  BY EmptyRun DEF TypeOK, Runs
<1>3. \A i \in Ids : /\ runs'[i] \in Runs
                     /\ runs'[i] = IF simRuns[i].status = "none" THEN runs[i] ELSE simRuns[i]
                     /\ simRuns'[i] = NoRun
  BY <1>1, <1>2 DEF NoneRun
<1>4. \A i \in Ids : Executed(i)' = Executed(i)
  BY <1>3, EmptyRun DEF Executed
<1>5. \A i \in Ids : Settled(i) => runs'[i] = runs[i]
  BY <1>3 DEF Settled, Queueing
<1>6. chains' \in [Series -> Seq(Versions)] /\ missed' \subseteq Series /\ missed \subseteq missed'
  <2>1. [run |-> 0, parent |-> 0] \in Versions
    BY EmptyRun DEF Versions
  <2> QED
    BY <1>1, <1>2, <2>1 DEF TypeOK
<1>7. TypeOK'
  <2>1. runs' \in [Ids -> Runs] /\ simRuns' \in [Ids -> Runs]
    BY <1>1, <1>2, EmptyRun DEF NoneRun
  <2> QED
    BY <1>1, <1>6, <2>1 DEF TypeOK
<1>8. Queueing'
  <2>1. ASSUME NEW i \in Ids
        PROVE  /\ runs'[i].status # "none" => i = 0 \/ i \in Rows(jobs)
               /\ \A run \in {runs'[i], simRuns'[i]} :
                    /\ run.status = "PENDING" => run.attempts < MaxAttempts
                    /\ run.read <= news
    BY <1>3, EmptyRun, Numbers DEF Queueing, TypeOK
  <2> QED
    BY <1>1, <1>3, <2>1, EmptyRun DEF Queueing
<1>9. InPhase'
  BY <1>1 DEF InPhase
<1>10. \A j \in JobIds : UpToDate(j)' = UpToDate(j)
  BY <1>1, <1>4, Types DEF UpToDate
<1>11. inbox' + unacked' + hand' = inbox + unacked + hand
  BY <1>1
<1>12. CASE S = {}
  <2>1. chains' = chains /\ Merged' = Merged
    BY <1>1, <1>12 DEF TypeOK, Merged
  <2>2. Consistent(jobs, chains, runs)' /\ Consistent(session.jobs, Merged, runs)'
    <3>1. runs[0].rows => runs'[0].rows
      BY <1>5, EmptyRun DEF Settled
    <3>2. \A i \in Ids : runs[i].status = "COMPLETED" => runs'[i].status = "COMPLETED"
      BY <1>5 DEF Settled
    <3>3. Rows(jobs) \subseteq Ids /\ Rows(session.jobs) \subseteq Ids
      BY Types
    <3> QED
      BY <1>1, <2>1, <3>1, <3>2, <3>3, StillConsistent
  <2>3. Copies'
    <3>1. \A j \in Rows(session.jobs) : runs'[j].status # "none" => runs[j].status # "none"
      BY <1>3, Types DEF Queueing
    <3> QED
      BY <1>1, <1>6, <2>1, <3>1 DEF Copies
  <2>4. ASSUME NEW s \in Series
        PROVE  Stale(chains[s])' = Stale(chains[s]) /\ Stale(Merged[s])' = Stale(Merged[s])
    <3>1. chains \in [Series -> Seq(Versions)] /\ Merged \in [Series -> Seq(Versions)]
      BY Types DEF TypeOK
    <3>2. chains[s] # <<>> => runs'[Latest(chains[s]).run] = runs[Latest(chains[s]).run]
      BY <1>5, <3>1, VersionsSettled
    <3>3. Merged[s] # <<>> => runs'[Latest(Merged[s]).run] = runs[Latest(Merged[s]).run]
      BY <1>5, <3>1, VersionsSettled
    <3> QED
      BY <1>1, <2>1, <3>2, <3>3 DEF Stale, Latest
  <2>5. NothingForgotten'
    BY <1>1, <1>6, <1>10, <1>11, <2>1, <2>4 DEF NothingForgotten, Remembered
  <2>6. SessionRemembers'
    BY <1>1, <1>6, <1>10, <1>11, <2>1, <2>4 DEF SessionRemembers, Remembered
  <2> QED
    BY <1>7, <1>8, <1>9, <2>2, <2>3, <2>5, <2>6
<1>13. CASE S # {}
  <2>1. simRuns[0].status # "none" /\ simRuns[0].rows /\ ~runs[0].rows /\ runs'[0] = simRuns[0]
    BY <1>3, <1>13, EmptyRun DEF Queueing
  <2>2. \A s \in Series : chains[s] = <<>> /\ session.chains[s] = <<>>
    BY <2>1 DEF Consistent, Merged
  <2>3. Rows(jobs) = {} /\ Rows(session.jobs) = {}
    <3>1. chains \in [Series -> Seq(Versions)] /\ Merged \in [Series -> Seq(Versions)]
      BY Types DEF TypeOK
    <3>2. \A s \in Series : Merged[s] = <<>>
      BY <2>2 DEF Merged
    <3> QED
      BY <2>2, <3>1, <3>2, Types, JobsHaveSeries
  <2>4. \A s \in Series : chains'[s] = IF s \in S THEN <<[run |-> 0, parent |-> 0]>> ELSE <<>>
    BY <1>1, <2>2
  <2>5. Merged' = chains'
    BY <1>1, <1>6, <2>2 DEF Merged
  <2>6. \A s \in Series : Linear(jobs, runs', chains'[s]) /\ Linear(session.jobs, runs', chains'[s])
    BY <2>4 DEF Linear
  <2>7. Consistent(jobs, chains, runs)' /\ Consistent(session.jobs, Merged, runs)'
    BY <1>1, <2>1, <2>3, <2>5, <2>6 DEF Consistent, Based
  <2>8. Copies'
    BY <1>1, <2>2, <2>3 DEF Copies
  <2>9. \A s \in Series \ missed' : ~Stale(chains[s])'
    BY <1>1, <2>1, <2>4 DEF Stale, Latest
  <2>10. NothingForgotten' /\ SessionRemembers'
    BY <2>5, <2>9 DEF NothingForgotten, SessionRemembers, Remembered, Stale
  <2> QED
    BY <1>7, <1>8, <1>9, <2>7, <2>8, <2>10
<1> QED
  BY <1>12, <1>13

-----------------------------------------------------------------------------
(* Services outside the two workers.                                       *)

\* New evidence comes with an event about it.
LEMMA OutsideInv == RevisionInv /\ (NewsArrives \/ OtherKnowledge) => RevisionInv'
<1> SUFFICES ASSUME RevisionInv, NewsArrives \/ OtherKnowledge PROVE RevisionInv'
  OBVIOUS
<1> USE DEF RevisionInv
<1>1. /\ UNCHANGED <<unacked, jobs, runs, chains, phase, hand, session, todo, simPhase, simTodo,
                     simRuns, missed, faults>>
      /\ news' \in 0..MaxNews /\ news' >= news
      /\ inbox' \in Nat /\ inbox' >= inbox /\ (news' = news \/ inbox' > 0)
      /\ knowledge' \in BOOLEAN /\ wake' \in BOOLEAN
  <2>1. CASE NewsArrives
    BY <2>1, Numbers DEF NewsArrives, tables, revisionWorker, simulationWorker, TypeOK
  <2>2. CASE OtherKnowledge
    BY <2>2, Numbers DEF OtherKnowledge, tables, revisionWorker, simulationWorker, TypeOK
  <2> QED
    BY <2>1, <2>2
<1>2. TypeOK' /\ InPhase'
  BY <1>1 DEF TypeOK, InPhase
<1>3. Queueing'
  <2>1. \A i \in Ids : runs[i].read \in Nat /\ simRuns[i].read \in Nat
    BY Numbers DEF TypeOK, Runs
  <2> QED
    BY <1>1, <2>1, Numbers DEF Queueing, TypeOK
<1>4. Copies'
  <2>1. inbox > 0 => inbox' > 0
    BY <1>1 DEF TypeOK
  <2> QED
    BY <1>1, <2>1 DEF Copies
<1>5. Merged' = Merged
  BY <1>1 DEF Merged
<1>6. Consistent(jobs, chains, runs)' /\ Consistent(session.jobs, Merged, runs)'
  BY <1>1, <1>5
<1>7. NothingForgotten' /\ SessionRemembers'
  <2>0. /\ inbox \in Nat /\ unacked \in Nat /\ hand \in Nat
        /\ inbox' \in Nat /\ unacked' \in Nat /\ hand' \in Nat
    BY <1>2 DEF TypeOK
  <2>1. /\ inbox > 0 => inbox' > 0
        /\ unacked > 0 => unacked' > 0
        /\ hand > 0 => hand' > 0
        /\ inbox' > 0 \/ news' = news
    BY <1>1, <2>0
  <2>2. CASE inbox' > 0
    <3>1. inbox' + unacked' + hand' > 0
      BY <2>0, <2>2, SumOfEvents
    <3> QED
      BY <3>1 DEF NothingForgotten, SessionRemembers, Remembered
  <2>3. CASE news' = news
    <3>1. inbox + unacked + hand > 0 => inbox' + unacked' + hand' > 0
      BY <2>0, <2>1, SumOfEvents
    <3>2. \A j \in JobIds : UpToDate(j) => UpToDate(j)'
      BY <1>1, <2>3 DEF UpToDate, Executed
    <3> QED
      BY <1>1, <2>3, <3>1, <3>2, ReasonsLast
  <2> QED
    BY <2>1, <2>2, <2>3
<1> QED
  BY <1>2, <1>3, <1>4, <1>6, <1>7

\* A user's job is seen by the open round, has no run and takes no reason away.
LEMMA ReforecastInv == RevisionInv /\ Reforecast => RevisionInv'
<1> SUFFICES ASSUME RevisionInv, Reforecast PROVE RevisionInv'
  OBVIOUS
<1> USE DEF RevisionInv
<1> DEFINE n == Newest + 1
<1>1. PICK s \in Series :
        /\ chains[s] # <<>>
        /\ jobs' = [jobs EXCEPT ![n] = NewJob(s, TRUE)]
        /\ session' = [session EXCEPT !.jobs[n] = NewJob(s, TRUE)]
  BY DEF Reforecast
<1> DEFINE job == NewJob(s, TRUE)
<1>2. /\ UNCHANGED <<news, inbox, unacked, wake, runs, chains, phase, hand, todo, simPhase,
                     simTodo, simRuns, missed, faults>>
      /\ knowledge' \in BOOLEAN
  BY DEF Reforecast, simulationWorker, TypeOK
<1>3. n \in JobIds /\ n \in Ids /\ n \notin Rows(jobs) /\ n \notin Rows(session.jobs)
  <2>1. Newest \in Nat /\ Newest < MaxJobs /\ \A j \in Rows(jobs) \cup Rows(session.jobs) : j <= Newest
    BY NewestJob DEF Reforecast
  <2>2. n \in JobIds /\ ~(n <= Newest)
    BY <2>1, Numbers DEF JobIds
  <2> QED
    BY <2>1, <2>2, Types
<1>4. chains[s] \in Seq(Versions) /\ Len(chains[s]) \in Nat \ {0}
  <2>1. chains[s] \in Seq(Versions)
    BY Types
  <2> QED
    BY <1>1, <2>1, LastVersion
<1>5. /\ job \in Jobs /\ job.series = s /\ job.base = Len(chains[s]) /\ job.manual
      /\ job.status = "PENDING"
  BY <1>4 DEF NewJob, Jobs
<1> HIDE DEF job, n
<1>6. jobs \in JobTable /\ session.jobs \in JobTable
  BY DEF TypeOK
<1>7. /\ jobs' = [jobs EXCEPT ![n] = job]
      /\ session'.jobs = [session.jobs EXCEPT ![n] = job]
      /\ session'.chains = session.chains /\ session'.counted = session.counted
      /\ session' \in [jobs : {session'.jobs}, chains : {session.chains}, counted : {session.counted}]
  BY <1>1 DEF TypeOK, job, n
<1>8. /\ jobs' \in JobTable /\ session'.jobs \in JobTable
      /\ jobs'[n] = job /\ session'.jobs[n] = job
      /\ \A j \in JobIds \ {n} : jobs'[j] = jobs[j] /\ session'.jobs[j] = session.jobs[j]
  BY <1>3, <1>5, <1>6, <1>7 DEF JobTable
<1>9. Rows(jobs)' = Rows(jobs) \cup {n} /\ Rows(session.jobs)' = Rows(session.jobs) \cup {n}
  BY <1>3, <1>5, <1>8 DEF Rows
<1>10. \A j \in JobIds : /\ Active(jobs[j]) => jobs'[j] = jobs[j]
                         /\ Active(session.jobs[j]) => session'.jobs[j] = session.jobs[j]
  BY <1>3, <1>8, Types
<1>11. TypeOK'
  <2>1. session' \in [jobs : JobTable, chains : [Series -> Seq(Versions)], counted : BOOLEAN]
    BY <1>7, <1>8 DEF TypeOK
  <2> QED
    BY <1>2, <1>8, <2>1 DEF TypeOK
<1>12. Queueing' /\ InPhase'
  BY <1>2, <1>9 DEF Queueing, InPhase
<1>13. Merged' = Merged
  BY <1>2, <1>7 DEF Merged
<1>14. Copies'
  <2>1. runs[n].status = "none"
    BY <1>3, Types DEF Queueing
  <2>2. \A j \in Rows(jobs) : jobs'[j] = jobs[j] /\ session'.jobs[j] = session.jobs[j]
    BY <1>3, <1>8, Types
  <2>3. \A j \in Rows(session.jobs) : session'.jobs[j] = session.jobs[j]
    BY <1>3, <1>8, Types
  <2>4. \A j \in Rows(jobs)' :
          /\ j \in Rows(session.jobs)'
          /\ session'.jobs[j].series = jobs'[j].series
          /\ phase # "jobs" => session'.jobs[j] = jobs'[j]
    BY <1>8, <1>9, <2>2 DEF Copies
  <2>5. \A j \in Rows(session.jobs)' :
          /\ runs[j].status # "none" => session.chains[session'.jobs[j].series] # <<>>
          /\ j \notin Rows(jobs)' => session'.jobs[j].series \in missed \/ inbox > 0
    BY <1>9, <2>1, <2>3 DEF Copies
  <2> QED
    BY <1>2, <1>7, <2>4, <2>5 DEF Copies
<1>15. Len(Merged[s]) \in Nat /\ Len(chains[s]) <= Len(Merged[s])
  <2>1. Merged[s] \in Seq(Versions)
    BY Types
  <2>2. Merged[s] = chains[s] \/ Len(chains[s]) <= Len(Merged[s])
    BY DEF Copies, Merged
  <2> QED
    BY <1>4, <2>1, <2>2
<1>16. Consistent(jobs', chains, runs)
  <2>1. \A j \in Rows(jobs) : j \in Rows(jobs') /\ jobs'[j] = jobs[j] /\ jobs[j].series \in Series
    BY <1>3, <1>8, <1>9, Types
  <2>2. \A j \in Rows(jobs') \ Rows(jobs) : j = n
    BY <1>9
  <2>3. job.base \in 1..Len(chains[s]) /\ chains \in [Series -> Seq(Versions)]
    BY <1>4, <1>5 DEF TypeOK
  <2> QED
    BY <1>5, <1>8, <2>1, <2>2, <2>3, MoreJobsConsistent
<1>17. Consistent(session'.jobs, Merged, runs)
  <2>1. \A j \in Rows(session.jobs) : /\ j \in Rows(session'.jobs)
                                      /\ session'.jobs[j] = session.jobs[j]
                                      /\ session.jobs[j].series \in Series
    BY <1>3, <1>8, <1>9, Types
  <2>2. \A j \in Rows(session'.jobs) \ Rows(session.jobs) : j = n
    BY <1>9
  <2>3. job.base \in 1..Len(Merged[s]) /\ Merged \in [Series -> Seq(Versions)]
    BY <1>4, <1>5, <1>15, Types
  <2> QED
    BY <1>5, <1>8, <2>1, <2>2, <2>3, MoreJobsConsistent
<1>18. \A j \in JobIds : UpToDate(j)' = UpToDate(j)
  BY <1>2 DEF UpToDate, Executed
<1>19. inbox' + unacked' + hand' = inbox + unacked + hand
  BY <1>2
<1>20. \A c : Stale(c)' = Stale(c)
  BY <1>2 DEF Stale
<1>21. NothingForgotten'
  BY <1>2, <1>10, <1>18, <1>19, <1>20 DEF NothingForgotten, Remembered, Stale
<1>22. SessionRemembers'
  BY <1>2, <1>10, <1>13, <1>18, <1>19, <1>20 DEF SessionRemembers, Remembered, Stale
<1> QED
  BY <1>2, <1>11, <1>12, <1>13, <1>14, <1>16, <1>17, <1>21, <1>22

-----------------------------------------------------------------------------
(* The revision worker.                                                    *)

\* A round that begins, or is given up, sees what is committed.
LEMMA FreshRound ==
    ASSUME RevisionInv, TypeOK', InPhase',
           UNCHANGED <<news, tables, simulationWorker, missed>>,
           session'.jobs = jobs, session'.chains = chains,
           inbox + unacked + hand > 0 => inbox' + unacked' + hand' > 0
    PROVE  RevisionInv'
<1> USE DEF RevisionInv
<1>1. UNCHANGED <<news, jobs, runs, chains, simTodo, simRuns, missed>>
  BY DEF tables, simulationWorker
<1>2. Queueing'
  BY <1>1 DEF Queueing
<1>3. Copies'
  <2>1. chains \in [Series -> Seq(Versions)]
    BY DEF TypeOK
  <2>2. \A j \in Rows(jobs) : chains[jobs[j].series] # <<>>
    BY <2>1, Types, JobsHaveSeries
  <2> QED
    BY <1>1, <2>2 DEF Copies
<1>4. Merged' = chains
  BY <1>1 DEF Merged, TypeOK
<1>5. Consistent(jobs, chains, runs)' /\ Consistent(session.jobs, Merged, runs)'
  BY <1>1, <1>4
<1>6. NothingForgotten'
  <2>1. \A j \in JobIds : UpToDate(j) => UpToDate(j)'
    BY <1>1 DEF UpToDate, Executed
  <2> QED
    BY <1>1, <2>1, ReasonsLast
<1>7. SessionRemembers'
  BY <1>1, <1>4, <1>6 DEF NothingForgotten, SessionRemembers, Remembered, Stale
<1> QED
  BY <1>2, <1>3, <1>5, <1>6, <1>7

\* Rounds that begin, and rounds that are given up with their process.
LEMMA FreshRoundsInv == RevisionInv /\ (Reclaim \/ Consume \/ RevisionCrash) => RevisionInv'
<1> SUFFICES ASSUME RevisionInv, Reclaim \/ Consume \/ RevisionCrash PROVE RevisionInv'
  OBVIOUS
<1> USE DEF RevisionInv
<1>1. /\ session' = [jobs |-> jobs, chains |-> chains, counted |-> FALSE]
      /\ UNCHANGED <<news, wake, tables, simulationWorker, missed>>
      /\ knowledge' \in BOOLEAN /\ faults' \in 0..MaxFaults
      /\ phase' \in {"waiting", "events"}
  <2>1. CASE Reclaim
    BY <2>1 DEF Reclaim, BeginRound, TypeOK
  <2>2. CASE Consume
    BY <2>2 DEF Consume, BeginRound, TypeOK
  <2>3. CASE RevisionCrash
    BY <2>3, Numbers DEF RevisionCrash, TypeOK
  <2> QED
    BY <2>1, <2>2, <2>3
<1>2. /\ inbox' \in Nat /\ unacked' \in Nat /\ hand' \in Nat /\ todo' = {}
      /\ inbox + unacked + hand > 0 => inbox' + unacked' + hand' > 0
      /\ phase' # "events" => hand' = 0
  <2>1. inbox \in Nat /\ unacked \in Nat /\ hand \in Nat
    BY DEF TypeOK
  <2>2. CASE Reclaim
    <3>1. hand' = unacked /\ unacked' = 0 /\ inbox' = inbox /\ todo' = todo /\ unacked > 0
          /\ phase = "waiting" /\ phase' = "events"
      BY <2>2 DEF Reclaim, BeginRound
    <3>2. todo' = {}
      BY <3>1 DEF InPhase
    <3>3. inbox' + unacked' + hand' > 0
      BY <2>1, <3>1, SumOfEvents
    <3> QED
      BY <2>1, <3>1, <3>2, <3>3
  <2>3. CASE Consume
    <3>1. hand' = inbox /\ inbox' = 0 /\ unacked' = unacked /\ todo' = todo /\ phase = "waiting"
          /\ phase' = "events"
      BY <2>3 DEF Consume, BeginRound
    <3>2. todo' = {} /\ hand = 0
      BY <3>1 DEF InPhase
    <3>3. inbox + unacked + hand > 0 => inbox' + unacked' + hand' > 0
      BY <2>1, <3>1, <3>2, SumOfEvents
    <3> QED
      BY <2>1, <3>1, <3>2, <3>3
  <2>4. CASE RevisionCrash
    <3>1. hand' = 0 /\ inbox' = inbox /\ unacked' = unacked + hand /\ todo' = {} /\ phase' = "waiting"
      BY <2>4 DEF RevisionCrash
    <3>2. unacked' > 0 <=> unacked > 0 \/ hand > 0
      BY <2>1, <3>1
    <3>3. unacked' \in Nat
      BY <2>1, <3>1
    <3>4. inbox + unacked + hand > 0 => inbox' + unacked' + hand' > 0
      BY <2>1, <3>1, <3>2, <3>3, SumOfEvents
    <3> QED
      BY <2>1, <3>1, <3>3, <3>4
  <2> QED
    BY <2>2, <2>3, <2>4
<1>3. session'.jobs = jobs /\ session'.chains = chains
      /\ session' \in [jobs : JobTable, chains : [Series -> Seq(Versions)], counted : BOOLEAN]
  BY <1>1 DEF TypeOK
<1>4. TypeOK'
  BY <1>1, <1>2, <1>3 DEF TypeOK, tables, simulationWorker
<1>5. InPhase'
  BY <1>2 DEF InPhase
<1> QED
  BY <1>1, <1>2, <1>3, <1>4, <1>5, FreshRound

\* Until it works on jobs, a round sees the committed chains.
LEMMA ChainsSeen ==
    ASSUME TypeOK, Copies, phase # "jobs"
    PROVE  Merged = chains
<1>1. \A s \in Series : session.chains[s] \in {<<>>, chains[s]}
  BY DEF Copies
<1> QED
  BY <1>1 DEF Merged, TypeOK

\* Only committed jobs have had their run.
LEMMA NewRuns ==
    ASSUME TypeOK, Queueing, NEW j \in JobIds, j \notin Rows(jobs)
    PROVE  runs[j].status = "none" /\ Executed(j).status = "none"
BY Types DEF Queueing, Executed

\* New jobs are for series without an active one.
Unserved == {s \in Concerned : ~HasActiveJob(s)}

\* Jobs for some series without an active one are added, and the others are
\* known to have missed the change, or there is another event.
LEMMA AddedJobsInv ==
    ASSUME RevisionInv, phase = "events", hand > 0, NEW S \in SUBSET Unserved,
           session' \in [jobs : {WithJobs(S)}, chains : {session.chains}, counted : BOOLEAN],
           UNCHANGED <<news, unacked, knowledge, wake, tables, phase, todo, simulationWorker>>,
           faults' \in 0..MaxFaults, hand' = hand - 1,
           missed \cup PassedBy \subseteq missed', missed' \subseteq Series,
           inbox' \in Nat, inbox > 0 => inbox' > 0,
           Unserved = {} \/ Unserved \subseteq missed' \/ inbox' > 0
    PROVE  RevisionInv'
<1> USE DEF RevisionInv
<1> DEFINE js == WithJobs(S)
           old == session.jobs
<1>1. S \subseteq Series /\ S \subseteq Concerned
  BY DEF Unserved, Concerned
<1>2. /\ js \in JobTable
      /\ \A j \in Rows(old) : j \in Rows(js) /\ js[j] = old[j]
      /\ \A j \in Rows(js) \ Rows(old) : j \notin Rows(jobs) /\ \E s \in S : js[j] = NewJob(s, FALSE)
      /\ \A i, j \in Rows(js) \ Rows(old) : js[i].series = js[j].series => i = j
  BY <1>1, AddedJobs
<1> HIDE DEF js
<1>3. UNCHANGED <<news, unacked, knowledge, wake, jobs, runs, chains, phase, todo, simPhase,
                  simTodo, simRuns>>
  BY DEF tables, simulationWorker
<1>4. session'.jobs = js /\ session'.chains = session.chains
  BY DEF js
<1>5. Merged = chains /\ Merged' = Merged /\ chains \in [Series -> Seq(Versions)]
  BY <1>3, <1>4, ChainsSeen DEF Merged, TypeOK
<1>6. \A j \in Rows(js) \ Rows(old) :
        /\ js[j].series \in S /\ js[j].base = Len(chains[js[j].series])
        /\ js[j].series \in Series /\ chains[js[j].series] # <<>>
  <2> TAKE j \in Rows(js) \ Rows(old)
  <2>1. PICK s \in S : js[j] = NewJob(s, FALSE)
    BY <1>2
  <2>2. js[j].series = s /\ js[j].base = Len(chains[s])
    BY <2>1 DEF NewJob
  <2>3. s \in Series /\ chains[s] # <<>>
    BY <1>1 DEF Concerned
  <2> QED
    BY <2>2, <2>3
<1>7. TypeOK'
  <2>1. session' \in [jobs : JobTable, chains : [Series -> Seq(Versions)], counted : BOOLEAN]
    BY <1>2 DEF js, TypeOK
  <2>2. hand - 1 \in Nat
    BY DEF TypeOK
  <2> QED
    BY <1>3, <2>1, <2>2 DEF TypeOK
<1>8. Queueing' /\ InPhase'
  BY <1>3 DEF Queueing, InPhase
<1>9. Consistent(jobs, chains, runs)'
  BY <1>3
<1>10. Consistent(session.jobs, Merged, runs)'
  <2>1. \A j \in Rows(old) : j \in Rows(js) /\ js[j] = old[j] /\ old[j].series \in Series
    BY <1>2, Types
  <2>2. ASSUME NEW j \in Rows(js) \ Rows(old)
        PROVE  /\ js[j].series \in Series /\ js[j].base \in 1..Len(chains[js[j].series])
               /\ js[j].base = Len(chains[js[j].series])
               /\ \A i \in Rows(old) : Active(old[i]) => old[i].series # js[j].series
    <3>1. js[j].series \in Series /\ js[j].base = Len(chains[js[j].series]) /\ js[j].series \in Unserved
      BY <1>6
    <3>2. chains[js[j].series] \in Seq(Versions) /\ chains[js[j].series] # <<>>
      BY <1>5, <1>6
    <3>3. Len(chains[js[j].series]) \in Nat \ {0}
      BY <3>2, LastVersion
    <3>4. \A i \in JobIds : ~(old[i].series = js[j].series /\ Active(old[i]))
      BY <3>1 DEF Unserved, HasActiveJob
    <3> QED
      BY <3>1, <3>3, <3>4, Types
  <2>3. Consistent(old, chains, runs)
    BY <1>5
  <2>4. Consistent(js, chains, runs)
    BY <1>2, <1>5, <2>1, <2>2, <2>3, MoreJobsConsistent
  <2> QED
    BY <1>3, <1>4, <1>5, <2>4
<1>11. Copies'
  <2>1. \A j \in Rows(jobs) : /\ j \in Rows(js) /\ js[j].series = jobs[j].series
                              /\ js[j] = jobs[j]
    BY <1>2 DEF Copies
  <2>2. ASSUME NEW j \in Rows(js)
        PROVE  /\ runs[j].status # "none" => session.chains[js[j].series] # <<>>
               /\ j \notin Rows(jobs) => js[j].series \in missed' \/ inbox' > 0
    <3>1. CASE j \in Rows(old)
      BY <1>2, <3>1 DEF Copies
    <3>2. CASE j \notin Rows(old)
      <4>1. j \in JobIds /\ j \notin Rows(jobs) /\ js[j].series \in Unserved
        BY <1>2, <1>6, <3>2 DEF Rows
      <4> QED
        BY <4>1, NewRuns
    <3> QED
      BY <3>1, <3>2
  <2> QED
    BY <1>3, <1>4, <2>1, <2>2 DEF Copies
<1>12. ASSUME NEW s \in Series \ missed', Stale(chains[s])', ~(inbox' + unacked' + hand' > 0)
       PROVE  \E j \in Rows(old) :
                /\ j \in Rows(jobs) /\ old[j] = jobs[j] /\ js[j] = old[j] /\ j \in JobIds
                /\ old[j].series = s /\ Active(old[j]) /\ UpToDate(j)'
  <2>1. ~(inbox' > 0) /\ ~(inbox > 0)
    BY <1>7, <1>12, SumOfEvents DEF TypeOK
  <2>2. s \in Concerned /\ s \notin Unserved /\ s \notin PassedBy
    BY <1>3, <1>12, <2>1 DEF Stale, Concerned
  <2>3. PICK j \in JobIds : old[j].series = s /\ Active(old[j]) /\ UpToDate(j)
    BY <2>2 DEF PassedBy, Unserved
  <2>4. j \in Rows(old)
    BY <2>3, Types
  <2>5. j \in Rows(jobs) /\ old[j] = jobs[j]
    BY <1>12, <2>1, <2>3, <2>4 DEF Copies
  <2>6. UpToDate(j)'
    BY <1>3, <2>3 DEF UpToDate, Executed
  <2> QED
    BY <1>2, <2>3, <2>4, <2>5, <2>6
<1>13. NothingForgotten'
  BY <1>3, <1>12 DEF NothingForgotten, Remembered, Stale
<1>14. SessionRemembers'
  BY <1>3, <1>4, <1>5, <1>12 DEF SessionRemembers, Remembered, Stale
<1> QED
  BY <1>7, <1>8, <1>9, <1>10, <1>11, <1>13, <1>14

\* An event is handled, or fails at one of the publications.
LEMMA HandleEventInv == RevisionInv /\ (HandleEvent \/ HandleEventFails) => RevisionInv'
<1> SUFFICES ASSUME RevisionInv, HandleEvent \/ HandleEventFails PROVE RevisionInv'
  OBVIOUS
<1> USE DEF RevisionInv
<1>1. inbox \in Nat /\ hand \in Nat /\ missed \cup PassedBy \cup Unserved \subseteq Series
  BY DEF TypeOK, PassedBy, Unserved, Concerned
<1>2. CASE HandleEvent
  <2>1. /\ phase = "events" /\ hand > 0
        /\ session' = [session EXCEPT !.jobs = WithJobs(Unserved), !.counted = @ \/ Unserved # {}]
        /\ inbox' = inbox + Cardinality(Unserved) /\ hand' = hand - 1
        /\ missed' = missed \cup PassedBy
        /\ UNCHANGED <<news, unacked, knowledge, wake, tables, phase, todo, simulationWorker, faults>>
    BY <1>2 DEF HandleEvent, Unserved
  <2>2. session' \in [jobs : {WithJobs(Unserved)}, chains : {session.chains}, counted : BOOLEAN]
    BY <2>1 DEF TypeOK
  <2>3. Cardinality(Unserved) \in Nat /\ (Unserved = {} <=> Cardinality(Unserved) = 0)
    BY <1>1, FewSeries
  <2>4. inbox' \in Nat /\ (inbox > 0 => inbox' > 0) /\ (Unserved = {} \/ inbox' > 0)
    BY <1>1, <2>1, <2>3
  <2>5. faults' \in 0..MaxFaults
    BY <2>1 DEF TypeOK
  <2> QED
    BY <1>1, <2>1, <2>2, <2>4, <2>5, AddedJobsInv
<1>3. CASE HandleEventFails
  <2>1. /\ phase = "events" /\ hand > 0 /\ faults < MaxFaults
        /\ hand' = hand - 1 /\ faults' = faults + 1
        /\ missed' = missed \cup Unserved \cup PassedBy
        /\ UNCHANGED <<news, unacked, knowledge, wake, tables, phase, todo, simulationWorker>>
    BY <1>3 DEF HandleEventFails, Unserved
  <2>2. PICK added \in (SUBSET Unserved) \ {{}} :
          /\ session' = [session EXCEPT !.jobs = WithJobs(added)]
          /\ inbox' = inbox + Cardinality(added) - 1
    BY <1>3 DEF HandleEventFails, Unserved
  <2>3. session' \in [jobs : {WithJobs(added)}, chains : {session.chains}, counted : BOOLEAN]
    BY <2>2 DEF TypeOK
  <2>a. added \in SUBSET Series /\ added # {}
    BY <1>1
  <2>4. Cardinality(added) \in Nat /\ Cardinality(added) # 0
    BY <2>a, FewSeries
  <2>5. inbox' \in Nat /\ (inbox > 0 => inbox' > 0)
    BY <1>1, <2>2, <2>4
  <2>6. faults' \in 0..MaxFaults
    BY <2>1, Numbers DEF TypeOK
  <2> QED
    BY <1>1, <2>1, <2>2, <2>3, <2>5, <2>6, AddedJobsInv
<1> QED
  BY <1>2, <1>3

\* The commit before the jobs: what it commits is what the round has seen.
LEMMA ClaimJobsInv == RevisionInv /\ ClaimJobs => RevisionInv'
<1> SUFFICES ASSUME RevisionInv, ClaimJobs PROVE RevisionInv'
  OBVIOUS
<1> USE DEF RevisionInv
<1>1. /\ phase = "events" /\ hand = 0 /\ phase' = "jobs"
      /\ jobs' \in {jobs, session.jobs}
      /\ todo' \subseteq JobIds
      /\ UNCHANGED <<news, inbox, unacked, knowledge, wake, runs, chains, hand, session, simPhase,
                     simTodo, simRuns, missed, faults>>
  BY DEF ClaimJobs, Claimed, bus, simulationWorker
<1>2. Merged' = Merged /\ Merged = chains
  BY <1>1, ChainsSeen DEF Merged
<1>3. /\ Rows(jobs) \subseteq Rows(session.jobs)
      /\ \A j \in Rows(jobs) : session.jobs[j] = jobs[j]
  BY <1>1 DEF Copies
<1>4. /\ Rows(jobs) \subseteq Rows(jobs') /\ Rows(jobs') \subseteq Rows(session.jobs)
      /\ \A j \in Rows(jobs') : session.jobs[j] = jobs'[j]
  BY <1>1, <1>3
<1>5. TypeOK'
  BY <1>1 DEF TypeOK
<1>6. Queueing' /\ InPhase'
  BY <1>1, <1>4 DEF Queueing, InPhase
<1>7. Copies'
  <2>1. \A s \in Series : session.chains[s] \in {<<>>, chains[s]}
    BY <1>1 DEF Copies
  <2>2. \A j \in Rows(jobs') : j \in Rows(session.jobs) /\ session.jobs[j].series = jobs'[j].series
    BY <1>4
  <2>3. \A j \in Rows(session.jobs) :
          /\ runs[j].status # "none" => session.chains[session.jobs[j].series] # <<>>
          /\ j \notin Rows(jobs') => session.jobs[j].series \in missed \/ inbox > 0
    BY <1>4 DEF Copies
  <2> QED
    BY <1>1, <2>1, <2>2, <2>3 DEF Copies
<1>8. Consistent(jobs, chains, runs)' /\ Consistent(session.jobs, Merged, runs)'
  BY <1>1, <1>2
<1>9. \A j \in JobIds : UpToDate(j)' = UpToDate(j)
  BY <1>1 DEF UpToDate, Executed
<1>10. NothingForgotten'
  <2>1. Remembered(jobs, chains) /\ Remembered(session.jobs, chains)
    BY <1>2 DEF NothingForgotten, SessionRemembers
  <2>2. CASE jobs' = jobs
    BY <1>1, <1>9, <2>1, <2>2 DEF NothingForgotten, Remembered, Stale
  <2>3. CASE jobs' = session.jobs
    BY <1>1, <1>9, <2>1, <2>3 DEF NothingForgotten, Remembered, Stale
  <2> QED
    BY <1>1, <2>2, <2>3
<1>11. SessionRemembers'
  BY <1>1, <1>9, ReasonsLast
<1> QED
  BY <1>5, <1>6, <1>7, <1>8, <1>10, <1>11

-----------------------------------------------------------------------------
(* The work on a job, and the commit of the round.                         *)

\* Tables with the same jobs, of which no more are active.
Older(js, ks) ==
    /\ SameRows(js, ks) /\ Rows(ks) = Rows(js)
    /\ \A j \in Rows(js) : Active(ks[j]) => Active(js[j])

\* A job that gets another status leaves a consistent state so.
LEMMA StatusConsistent ==
    ASSUME NEW js, NEW ks, NEW cs \in [Series -> Seq(Versions)], NEW rs, Consistent(js, cs, rs),
           Older(js, ks), \A j \in Rows(js) : js[j].series \in Series
    PROVE  Consistent(ks, cs, rs)
<1>1. \A j \in JobIds : Caused(ks[j]) => j \in Rows(js) /\ Caused(js[j]) /\ js[j].series = ks[j].series
  BY DEF Caused, Active, Rows, Older, SameRows
<1>2. OneCaused(ks)
  BY <1>1 DEF Consistent, OneCaused
<1>3. ASSUME NEW j \in Rows(ks)
      PROVE  LET chain == cs[ks[j].series] IN
             /\ ks[j].base \in 1..Len(chain)
             /\ Caused(ks[j]) => Beside(ks, chain, ks[j].base, Len(chain) + 1)
  <2> DEFINE chain == cs[ks[j].series]
  <2>1. j \in Rows(js) /\ ks[j].series = js[j].series /\ ks[j].base = js[j].base
    BY DEF Older, SameRows
  <2>2. chain \in Seq(Versions) /\ Len(chain) \in Nat /\ Linear(js, rs, chain)
    BY <2>1 DEF Consistent
  <2>3. /\ ks[j].base \in 1..Len(chain)
        /\ Caused(js[j]) => Beside(js, chain, ks[j].base, Len(chain) + 1)
    BY <2>1 DEF Consistent, Based
  <2> HIDE DEF chain
  <2>4. ks[j].base \in Nat \ {0} /\ Len(chain) + 1 \in 1..(Len(chain) + 1)
    BY <2>2, <2>3
  <2>5. ASSUME Beside(js, chain, ks[j].base, Len(chain) + 1)
        PROVE  Beside(ks, chain, ks[j].base, Len(chain) + 1)
    BY <2>2, <2>4, <2>5, BesideKept DEF Older
  <2>6. Caused(ks[j]) => Caused(js[j])
    BY <2>1 DEF Caused, Older, SameRows
  <2> QED
    BY <2>3, <2>5, <2>6 DEF chain
<1>4. \A s \in Series : Linear(ks, rs, cs[s])
  BY LinearKept DEF Consistent, Older
<1> QED
  BY <1>2, <1>3, <1>4 DEF Consistent, Based

\* A version more.
LEMMA Appended ==
    ASSUME NEW chain \in Seq(Versions), NEW version \in Versions
    PROVE  LET longer == Append(chain, version) IN
           /\ longer \in Seq(Versions) /\ longer # <<>>
           /\ Len(chain) \in Nat /\ Len(longer) = Len(chain) + 1
           /\ DOMAIN longer = DOMAIN chain \cup {Len(chain) + 1}
           /\ Len(chain) + 1 \notin DOMAIN chain /\ DOMAIN chain = 1..Len(chain)
           /\ \A k \in DOMAIN chain : longer[k] = chain[k]
           /\ longer[Len(chain) + 1] = version /\ Latest(longer) = version
BY DEF Latest

\* A job that ends appends a version to its series.
LEMMA AppendConsistent ==
    ASSUME NEW js, NEW ks, NEW cs \in [Series -> Seq(Versions)], NEW rs, Consistent(js, cs, rs),
           Older(js, ks), \A j \in Rows(js) : js[j].series \in Series,
           NEW c \in Rows(js), c \in JobIds, c # 0, Active(js[c]), ~Active(ks[c]),
           rs[c].status = "COMPLETED",
           NEW version \in Versions, version.run = c, version.parent = js[c].base
    PROVE  Consistent(ks, [cs EXCEPT ![js[c].series] = Append(@, version)], rs)
<1> DEFINE s == js[c].series
           old == cs[s]
           new == Append(old, version)
           ds == [cs EXCEPT ![s] = new]
<1>1. s \in Series /\ c \in Rows(ks) /\ ks[c].manual = js[c].manual /\ ks[c].series = s
  BY DEF Older, SameRows
<1>2. Consistent(ks, cs, rs)
  BY StatusConsistent
<1>3. /\ old \in Seq(Versions) /\ Len(old) \in Nat /\ new # <<>>
      /\ DOMAIN new = DOMAIN old \cup {Len(old) + 1} /\ Len(old) + 1 \notin DOMAIN old
      /\ DOMAIN old = 1..Len(old) /\ Len(new) = Len(old) + 1
      /\ \A k \in DOMAIN old : new[k] = old[k]
      /\ new[Len(old) + 1] = version
  BY <1>1, Appended
<1>4. ds[s] = new /\ \A t \in Series \ {s} : ds[t] = cs[t]
  BY <1>1
<1>5. version.parent \in 1..Len(old) /\ Len(old) > 0
  <2>1. version.parent \in 1..Len(old)
    BY DEF Consistent, Based
  <2> QED
    BY <1>3, <2>1
<1> HIDE DEF new, ds
<1>6. Linear(ks, rs, old) /\ Linear(js, rs, old)
  BY <1>1, <1>2 DEF Consistent
<1>7. \A k \in DOMAIN old : old[k].run # c
  <2> TAKE k \in DOMAIN old
  <2>1. k = 1 \/ k > 1
    BY <1>3
  <2>2. CASE k = 1
    BY <1>6, <2>2 DEF Linear
  <2>3. CASE k > 1
    BY <1>6, <2>3 DEF Linear, Revised
  <2> QED
    BY <2>1, <2>2, <2>3
\* What is said of the old versions holds of them in the longer chain.
<1>8. ASSUME NEW base \in Nat, NEW k \in 1..(Len(old) + 1), Beside(ks, old, base, k)
      PROVE  Beside(ks, new, base, k)
  <2> SUFFICES ASSUME NEW l \in (base + 1)..(k - 1) PROVE ks[new[l].run].manual
    BY DEF Beside
  <2>1. l \in DOMAIN old
    BY <1>3
  <2> QED
    BY <1>3, <1>8, <2>1 DEF Beside
<1>9. Caused(js[c]) => Beside(ks, new, version.parent, Len(old) + 1)
  <2> SUFFICES ASSUME Caused(js[c]) PROVE Beside(ks, new, version.parent, Len(old) + 1)
    OBVIOUS
  <2>1. Beside(js, old, version.parent, Len(old) + 1)
    BY DEF Consistent, Based
  <2>2. version.parent \in Nat \ {0} /\ Len(old) + 1 \in 1..(Len(old) + 1)
    BY <1>3, <1>5
  <2>3. Beside(ks, old, version.parent, Len(old) + 1)
    BY <1>3, <1>6, <2>1, <2>2, BesideKept DEF Older
  <2> QED
    BY <1>8, <2>2, <2>3
<1>10. Linear(ks, rs, new)
  <2> SUFFICES ASSUME NEW k \in DOMAIN new
      PROVE  /\ k = 1 => new[k].run = 0 /\ new[k].parent = 0
             /\ k > 1 => Revised(ks, rs, new, k)
             /\ \A l \in DOMAIN new : new[l].run = new[k].run => l = k
    BY DEF Linear
  <2>1. CASE k \in DOMAIN old
    <3>0. new[k] = old[k]
      BY <1>3, <2>1
    <3>1. k = 1 => new[k].run = 0 /\ new[k].parent = 0
      BY <1>6, <2>1, <3>0 DEF Linear
    <3>3. ASSUME NEW l \in DOMAIN new, new[l].run = new[k].run PROVE l = k
      <4>1. CASE l \in DOMAIN old
        <5>1. new[l] = old[l]
          BY <1>3, <4>1
        <5> QED
          BY <1>6, <2>1, <3>0, <3>3, <4>1, <5>1 DEF Linear
      <4>2. CASE l = Len(old) + 1
        BY <1>3, <1>7, <2>1, <3>0, <3>3, <4>2
      <4> QED
        BY <1>3, <4>1, <4>2
    <3>2. ASSUME k > 1 PROVE Revised(ks, rs, new, k)
      <4>0. Revised(ks, rs, old, k)
        BY <1>6, <2>1, <3>2 DEF Linear
      <4>2. old[k].parent \in Nat /\ k \in 1..(Len(old) + 1)
        BY <1>3, <2>1, <4>0 DEF Revised
      <4>3. Beside(ks, old, old[k].parent, k) => Beside(ks, new, old[k].parent, k)
        BY <1>8, <4>2
      <4> QED
        BY <3>0, <4>0, <4>3 DEF Revised
    <3> QED
      BY <3>1, <3>2, <3>3
  <2>2. CASE k = Len(old) + 1
    <3>1. new[k] = version /\ k > 1 /\ k - 1 = Len(old)
      BY <1>3, <1>5, <2>2
    <3>2. Revised(ks, rs, new, k)
      BY <1>1, <1>5, <1>9, <2>2, <3>1 DEF Revised, Caused
    <3> QED
      BY <1>3, <1>7, <2>2, <3>1, <3>2
  <2> QED
    BY <1>3, <2>1, <2>2
<1>11. ASSUME NEW j \in Rows(ks)
       PROVE  LET chain == ds[ks[j].series] IN
              /\ ks[j].base \in 1..Len(chain)
              /\ Caused(ks[j]) => Beside(ks, chain, ks[j].base, Len(chain) + 1)
  <2>1. j \in Rows(js) /\ ks[j].series = js[j].series /\ ks[j].series \in Series
    BY DEF Older, SameRows
  <2>2. LET chain == cs[ks[j].series] IN
        /\ ks[j].base \in 1..Len(chain)
        /\ Caused(ks[j]) => Beside(ks, chain, ks[j].base, Len(chain) + 1)
    BY <1>2 DEF Consistent, Based
  <2>3. CASE ks[j].series # s
    BY <1>4, <2>1, <2>2, <2>3
  <2>4. CASE ks[j].series = s
    <3>1. ks[j].base \in 1..Len(old) /\ ks[j].base \in 1..Len(new)
      BY <1>3, <2>2, <2>4
    <3>2. ASSUME Caused(ks[j]) PROVE Beside(ks, new, ks[j].base, Len(new) + 1)
      <4>1. Beside(ks, new, ks[j].base, Len(old) + 1)
        <5>1. ks[j].base \in Nat /\ Len(old) + 1 \in 1..(Len(old) + 1)
          BY <1>3, <3>1
        <5>2. Beside(ks, old, ks[j].base, Len(old) + 1)
          BY <2>2, <2>4, <3>2
        <5> QED
          BY <1>8, <5>1, <5>2
      <4>2. ks[c].manual
        <5> SUFFICES ASSUME ~ks[c].manual PROVE FALSE
          OBVIOUS
        <5>1. Caused(js[c]) /\ Caused(js[j])
          BY <1>1, <2>1, <3>2 DEF Caused, Older, SameRows
        <5>2. j \in JobIds
          BY <2>1 DEF Rows
        <5>3. j = c
          BY <2>1, <2>4, <5>1, <5>2 DEF Consistent, OneCaused
        <5> QED
          BY <3>2, <5>3 DEF Caused
      <4>3. ASSUME NEW l \in (ks[j].base + 1)..(Len(new) + 1 - 1) PROVE ks[new[l].run].manual
        <5>1. l \in (ks[j].base + 1)..(Len(old) + 1 - 1) \/ l = Len(old) + 1
          BY <1>3, <3>1
        <5> QED
          BY <1>3, <4>1, <4>2, <5>1 DEF Beside
      <4> QED
        BY <4>3 DEF Beside
    <3> QED
      BY <1>4, <2>4, <3>1, <3>2
  <2> QED
    BY <2>3, <2>4
<1>12. OneCaused(ks)
  BY <1>2 DEF Consistent
<1>13. \A t \in Series : Linear(ks, rs, ds[t]) /\ (ds[t] # <<>> => rs[0].rows)
  <2>1. rs[0].rows
    <3>1. Len(<<>>) = 0
      OBVIOUS
    <3> QED
      BY <1>1, <1>2, <1>5, <3>1 DEF Consistent
  <2> QED
    BY <1>2, <1>4, <1>10, <2>1 DEF Consistent
<1>14. Consistent(ks, ds, rs)
  BY <1>11, <1>12, <1>13 DEF Consistent, Based
<1> QED
  BY <1>14 DEF ds, new

\* A step of the work on one claimed job changes its status, and may append its
\* version.
Worked(c) ==
    /\ UNCHANGED <<news, bus, tables, phase, hand, simulationWorker>>
    /\ phase = "jobs" /\ c \in JobIds /\ Active(session.jobs[c]) /\ todo' \subseteq todo
    /\ session' \in [jobs : JobTable, chains : [Series -> Seq(Versions)], counted : BOOLEAN]
    /\ \A j \in JobIds \ {c} : session'.jobs[j] = session.jobs[j]
    /\ session'.jobs[c] \in Jobs
    /\ session'.jobs[c].series = session.jobs[c].series
    /\ session'.jobs[c].base = session.jobs[c].base
    /\ session'.jobs[c].manual = session.jobs[c].manual
    /\ missed \subseteq missed' /\ missed' \subseteq Series /\ faults' \in 0..MaxFaults

Appends(c) ==
    LET s == session.jobs[c].series
        version == [run |-> c, parent |-> session.jobs[c].base]
        superseded == Latest(session.chains[s])
    IN
    /\ runs[c].status = "COMPLETED" /\ ~Active(session'.jobs[c])
    /\ session'.chains = [session.chains EXCEPT ![s] = Append(@, version)]
    /\ runs[superseded.run].read > runs[c].read => s \in missed'

\* The table keeps its rows.
LEMMA WorkedRows ==
    ASSUME TypeOK, NEW c, Worked(c)
    PROVE  /\ c \in Rows(session.jobs)
           /\ Rows(session'.jobs) = Rows(session.jobs) /\ Older(session.jobs, session'.jobs)
           /\ \A j \in Rows(session.jobs) : session'.jobs[j].series = session.jobs[j].series
<1>1. c \in Rows(session.jobs)
  BY Types DEF Worked
<1>2. session'.jobs[c].status # "none"
  BY DEF Worked, Jobs
<1>3. Rows(session'.jobs) = Rows(session.jobs)
  BY <1>1, <1>2 DEF Rows, Worked
<1>4. \A j \in Rows(session.jobs) :
        /\ session'.jobs[j].series = session.jobs[j].series
        /\ session'.jobs[j].base = session.jobs[j].base
        /\ session'.jobs[j].manual = session.jobs[j].manual
        /\ Active(session'.jobs[j]) => Active(session.jobs[j])
  BY DEF Worked, Rows
<1> QED
  BY <1>1, <1>3, <1>4 DEF Older, SameRows

\* Work on a job changes what the round sees and nothing that is committed.
LEMMA WorkedInv ==
    ASSUME RevisionInv, NEW c, Worked(c), Consistent(session'.jobs, Merged', runs),
           \A s \in Series : /\ session.chains[s] # <<>> => session'.chains[s] # <<>>
                             /\ \/ session'.chains[s] = session.chains[s]
                                \/ Len(chains[s]) <= Len(session'.chains[s]),
           SessionRemembers'
    PROVE  RevisionInv'
<1> USE DEF RevisionInv
<1>1. UNCHANGED <<news, inbox, unacked, knowledge, wake, jobs, runs, chains, phase, hand,
                  simPhase, simTodo, simRuns>>
  BY DEF Worked, bus, tables, simulationWorker
<1>2. TypeOK'
  BY <1>1 DEF TypeOK, Worked
<1>3. Queueing' /\ InPhase' /\ Consistent(jobs, chains, runs)'
  BY <1>1 DEF Queueing, InPhase, Worked
<1>4. Copies'
  <2>1. Rows(session'.jobs) = Rows(session.jobs)
    BY WorkedRows
  <2>2. phase = "jobs" /\ missed \subseteq missed'
    BY DEF Worked
  <2>3. \A j \in Rows(jobs) : j \in Rows(session.jobs) /\ session'.jobs[j].series = jobs[j].series
    BY WorkedRows DEF Copies
  <2>4. \A s \in Series :
        \/ session'.chains[s] \in {<<>>, chains[s]}
        \/ phase = "jobs" /\ Len(chains[s]) <= Len(session'.chains[s])
    BY <2>2 DEF Copies
  <2>5. ASSUME NEW j \in Rows(session.jobs)
        PROVE  /\ runs[j].status # "none" => session'.chains[session'.jobs[j].series] # <<>>
               /\ j \notin Rows(jobs) => session'.jobs[j].series \in missed' \/ inbox > 0
    <3>1. session'.jobs[j].series = session.jobs[j].series /\ session.jobs[j].series \in Series
      BY WorkedRows, Types
    <3> QED
      BY <2>2, <3>1 DEF Copies
  <2> QED
    BY <1>1, <2>1, <2>2, <2>3, <2>4, <2>5 DEF Copies
<1>5. NothingForgotten'
  <2>1. \A j \in JobIds : UpToDate(j) => UpToDate(j)'
    BY <1>1 DEF UpToDate, Executed
  <2> QED
    BY <1>1, <2>1, ReasonsLast DEF Worked
<1> QED
  BY <1>1, <1>2, <1>3, <1>4, <1>5

\* Reasons of other jobs last.
LEMMA OtherReasons ==
    ASSUME RevisionInv, NEW c, Worked(c), NEW j \in JobIds \ {c}, UpToDate(j),
           Active(session.jobs[j])
    PROVE  /\ Active(session'.jobs[j]) /\ session'.jobs[j].series = session.jobs[j].series
           /\ UpToDate(j)'
<1>1. UNCHANGED <<news, runs, simRuns>>
  BY DEF Worked, tables, simulationWorker
<1> QED
  BY <1>1 DEF Worked, UpToDate, Executed

\* Only the status of the job changes: what ends without a version is missed.
LEMMA StatusInv ==
    ASSUME RevisionInv, NEW c, Worked(c), session'.chains = session.chains,
           Active(session'.jobs[c]) \/ session.jobs[c].series \in missed'
    PROVE  RevisionInv'
<1> USE DEF RevisionInv
<1>1. UNCHANGED <<news, inbox, unacked, hand, jobs, runs, chains, phase, simRuns>>
  BY DEF Worked, bus, tables, simulationWorker
<1>2. Merged' = Merged
  BY <1>1 DEF Merged
<1>3. Consistent(session'.jobs, Merged', runs)
  BY <1>2, Types, WorkedRows, StatusConsistent
<1>4. SessionRemembers'
  <2> SUFFICES ASSUME NEW s \in Series \ missed', Stale(Merged[s])', ~(inbox + unacked + hand > 0)
               PROVE  \E j \in JobIds :
                        session'.jobs[j].series = s /\ Active(session'.jobs[j]) /\ UpToDate(j)'
    BY <1>1 DEF SessionRemembers, Remembered
  <2>1. Stale(Merged[s]) /\ s \notin missed
    BY <1>1, <1>2 DEF Stale, Worked
  <2>2. PICK j \in JobIds : session.jobs[j].series = s /\ Active(session.jobs[j]) /\ UpToDate(j)
    BY <2>1 DEF SessionRemembers, Remembered
  <2>3. CASE j = c
    <3>1. Active(session'.jobs[c]) /\ session'.jobs[c].series = s
      BY <2>2, <2>3 DEF Worked
    <3>2. UpToDate(j)'
      BY <1>1, <2>2 DEF UpToDate, Executed
    <3> QED
      BY <2>3, <3>1, <3>2
  <2>4. CASE j # c
    BY <2>2, <2>4, OtherReasons
  <2> QED
    BY <2>3, <2>4
<1> QED
  BY <1>3, <1>4, WorkedInv

\* The job has appended its version, and what is current is not older than what the
\* series had, or the change is known to be missed.
LEMMA AppendInv ==
    ASSUME RevisionInv, NEW c, Worked(c), Appends(c)
    PROVE  RevisionInv'
<1> USE DEF RevisionInv
<1> DEFINE s == session.jobs[c].series
           version == [run |-> c, parent |-> session.jobs[c].base]
           old == session.chains[s]
           new == Append(old, version)
<1>1. UNCHANGED <<news, inbox, unacked, hand, jobs, runs, chains, phase, simRuns>>
  BY DEF Worked, bus, tables, simulationWorker
<1>2. /\ c \in Rows(session.jobs) /\ c \in JobIds /\ c \in Ids /\ c # 0
      /\ s \in Series /\ version \in Versions /\ Active(session.jobs[c])
  <2>1. c \in Rows(session.jobs) /\ Active(session.jobs[c])
    BY WorkedRows DEF Worked
  <2> QED
    BY <2>1, Types DEF Versions
<1>3. old \in Seq(Versions) /\ old # <<>>
  BY <1>2, Types DEF Copies, Appends
<1>4. /\ session'.chains[s] = new
      /\ \A t \in Series \ {s} : session'.chains[t] = session.chains[t]
  BY <1>2 DEF Appends, TypeOK
<1>5. new # <<>> /\ Latest(new) = version /\ Len(new) = Len(old) + 1 /\ Len(old) \in Nat
  BY <1>2, <1>3, Appended
<1>6. runs[Latest(old).run].read > runs[c].read => s \in missed'
  BY DEF Appends
<1>7. version.run = c /\ version.parent = session.jobs[c].base
  OBVIOUS
<1>8. session.jobs[c].series = s
  OBVIOUS
<1> HIDE DEF version, s, new, old
<1>9. Merged[s] = old /\ Merged' = [Merged EXCEPT ![s] = new] /\ Merged'[s] = new
  BY <1>1, <1>2, <1>3, <1>4, <1>5 DEF Merged, old
<1>10. Consistent(session'.jobs, Merged', runs)
  <2>1. Merged' = [Merged EXCEPT ![session.jobs[c].series] = Append(@, version)]
    BY <1>8, <1>9 DEF new
  <2>2. ~Active(session'.jobs[c]) /\ runs[c].status = "COMPLETED"
    BY DEF Appends
  <2>3. Merged \in [Series -> Seq(Versions)] /\ Older(session.jobs, session'.jobs)
        /\ \A j \in Rows(session.jobs) : session.jobs[j].series \in Series
    BY Types, WorkedRows
  <2>4. Consistent(session.jobs, Merged, runs)
    OBVIOUS
  <2>5. Consistent(session'.jobs, [Merged EXCEPT ![session.jobs[c].series] = Append(@, version)], runs)
    BY <1>2, <1>7, <2>2, <2>3, <2>4, AppendConsistent
  <2> QED
    BY <2>1, <2>5
<1>11. ASSUME NEW t \in Series
       PROVE  /\ session.chains[t] # <<>> => session'.chains[t] # <<>>
              /\ \/ session'.chains[t] = session.chains[t]
                 \/ Len(chains[t]) <= Len(session'.chains[t])
  <2>1. CASE t # s
    BY <1>4, <2>1
  <2>2. CASE t = s
    <3>1. Len(chains[s]) \in Nat
      BY <1>2, Types
    <3>2. Len(chains[s]) <= Len(old)
      <4>1. old = chains[s] \/ Len(chains[s]) <= Len(old)
        BY <1>2, <1>3 DEF Copies, old
      <4> QED
        BY <3>1, <4>1
    <3> QED
      BY <1>4, <1>5, <2>2, <3>1, <3>2
  <2> QED
    BY <2>1, <2>2
<1>12. SessionRemembers'
  <2> SUFFICES ASSUME NEW t \in Series \ missed', Stale(Merged[t])', ~(inbox + unacked + hand > 0)
               PROVE  \E j \in JobIds :
                        session'.jobs[j].series = t /\ Active(session'.jobs[j]) /\ UpToDate(j)'
    BY <1>1 DEF SessionRemembers, Remembered
  <2>1. t \notin missed
    BY DEF Worked
  <2>2. Stale(Merged[t]) => \E j \in JobIds :
            session.jobs[j].series = t /\ Active(session.jobs[j]) /\ UpToDate(j)
    BY <2>1 DEF SessionRemembers, Remembered
  <2>3. CASE t # s
    <3>1. Merged'[t] = Merged[t]
      BY <1>1, <1>4, <2>3 DEF Merged
    <3>2. Stale(Merged[t])
      BY <1>1, <3>1 DEF Stale
    <3>3. PICK j \in JobIds : session.jobs[j].series = t /\ Active(session.jobs[j]) /\ UpToDate(j)
      BY <2>2, <3>2
    <3>4. j # c
      BY <1>8, <2>3, <3>3
    <3> QED
      BY <3>3, <3>4, OtherReasons
  <2>4. CASE t = s
    <3>1. runs[c].read < news
      BY <1>1, <1>5, <1>7, <1>9, <2>4 DEF Stale
    <3>2. Executed(c) = runs[c] /\ Executed(c).status = "COMPLETED"
      BY <1>2 DEF Appends, Executed, Queueing
    <3>3. Latest(old).run \in Ids
      BY <1>3, LastVersion
    <3>4. /\ runs[c].read \in Nat /\ runs[Latest(old).run].read \in Nat /\ news \in Nat
          /\ runs[Latest(old).run].read <= news
      <4>1. \A run \in Runs : run.read \in Nat
        BY Numbers DEF Runs
      <4>2. runs[c] \in Runs /\ runs[Latest(old).run] \in Runs /\ news \in Nat
        BY <1>2, <3>3, Numbers DEF TypeOK
      <4>3. runs[Latest(old).run].read <= news
        BY <3>3 DEF Queueing
      <4> QED
        BY <4>1, <4>2, <4>3
    <3>5. ~UpToDate(c)
      BY <3>1, <3>2, <3>4 DEF UpToDate
    <3>6. ~(runs[Latest(old).run].read > runs[c].read)
      BY <1>6, <2>4
    <3>7. Stale(Merged[t])
      BY <1>3, <1>9, <2>4, <3>1, <3>4, <3>6 DEF Stale
    <3>8. PICK j \in JobIds : session.jobs[j].series = t /\ Active(session.jobs[j]) /\ UpToDate(j)
      BY <2>2, <3>7
    <3> QED
      BY <3>5, <3>8, OtherReasons
  <2> QED
    BY <2>3, <2>4
<1> QED
  BY <1>10, <1>11, <1>12, WorkedInv

\* The four outcomes of a job that is looked at.
LEMMA WorkInv ==
    RevisionInv /\ (StartRevisionSimulation \/ RunNotEnded \/ RunHasFailed \/ FinalizeRevision)
        => RevisionInv'
<1> SUFFICES ASSUME RevisionInv,
                    StartRevisionSimulation \/ RunNotEnded \/ RunHasFailed \/ FinalizeRevision
             PROVE  RevisionInv'
  OBVIOUS
<1> USE DEF RevisionInv
<1> DEFINE c == Current
           job == session.jobs[c]
           version == [run |-> c, parent |-> job.base]
<1>1. Working("PENDING") \/ Working("PROCESSING")
  BY DEF StartRevisionSimulation, RunNotEnded, RunHasFailed, FinalizeRevision
<1>2. /\ phase = "jobs" /\ todo' \subseteq todo /\ Active(job)
      /\ UNCHANGED <<news, bus, tables, phase, hand, simulationWorker>>
  BY <1>1 DEF Working, Active
<1>3. /\ c \in JobIds /\ c \in Ids
      /\ job \in Jobs /\ job.series \in Series /\ job.base \in Nat
  <2>1. todo # {} /\ todo \in SUBSET Nat
    BY <1>1, Numbers DEF Working, TypeOK, JobIds
  <2>2. c \in todo
    BY <2>1, MinOfNumbers DEF Current
  <2>3. c \in JobIds
    BY <2>2 DEF TypeOK
  <2> QED
    BY <1>2, <2>3, Types
<1> HIDE DEF c, job
<1>4. ASSUME NEW state \in {"PROCESSING", "COMPLETED", "FAILED"}
      PROVE  LET js == [session.jobs EXCEPT ![c].status = state] IN
             /\ js \in JobTable /\ js[c] \in Jobs
             /\ \A j \in JobIds \ {c} : js[j] = session.jobs[j]
             /\ js[c].series = session.jobs[c].series /\ js[c].base = session.jobs[c].base
             /\ js[c].manual = session.jobs[c].manual /\ js[c].status = state
  <2> DEFINE new == [job EXCEPT !.status = state]
  <2>1. /\ new \in Jobs /\ new.series = job.series /\ new.base = job.base
        /\ new.manual = job.manual /\ new.status = state
    BY <1>3 DEF Jobs
  <2>2. session.jobs \in JobTable
    BY DEF TypeOK
  <2> HIDE DEF new
  <2> DEFINE ks == [session.jobs EXCEPT ![c] = new]
  <2>3. /\ ks \in JobTable /\ \A j \in JobIds \ {c} : ks[j] = session.jobs[j]
        /\ ks[c] = new
    BY <1>3, <2>1, <2>2 DEF JobTable
  <2>4. ks = [session.jobs EXCEPT ![c].status = state]
    BY DEF new, job
  <2> HIDE DEF ks
  <2> QED
    BY <2>1, <2>3, <2>4 DEF job
<1>5. CASE StartRevisionSimulation
  <2>1. session' = [session EXCEPT !.jobs = [session.jobs EXCEPT ![c].status = "PROCESSING"]]
        /\ UNCHANGED <<missed, faults>>
    BY <1>5 DEF StartRevisionSimulation, c
  <2>2. Worked(c) /\ session'.chains = session.chains /\ session'.jobs[c].status = "PROCESSING"
    BY <1>2, <1>3, <1>4, <2>1 DEF Worked, TypeOK, job
  <2> QED
    BY <2>2, StatusInv DEF Active
<1>6. CASE RunNotEnded
  <2>1. UNCHANGED <<session, missed, faults>>
    BY <1>6 DEF RunNotEnded
  <2>2. Worked(c) /\ session'.chains = session.chains /\ Active(session'.jobs[c])
    BY <1>2, <1>3, <2>1 DEF Worked, TypeOK, job
  <2> QED
    BY <2>2, StatusInv
<1>7. CASE RunHasFailed
  <2>1. session' = [session EXCEPT !.jobs = [session.jobs EXCEPT ![c].status = "FAILED"]]
        /\ missed' = missed \cup {job.series} /\ UNCHANGED faults
    BY <1>7 DEF RunHasFailed, c, job
  <2>2. Worked(c) /\ session'.chains = session.chains /\ session.jobs[c].series \in missed'
    BY <1>2, <1>3, <1>4, <2>1 DEF Worked, TypeOK, job
  <2> QED
    BY <2>2, StatusInv
<1>8. CASE FinalizeRevision
  <2> DEFINE longer == [session.chains EXCEPT ![job.series] = Append(@, version)]
             superseded == Latest(session.chains[job.series])
  <2>1. PICK state \in {"COMPLETED", "FAILED"} :
          /\ session' = [session EXCEPT !.jobs = [session.jobs EXCEPT ![c].status = state],
                                        !.chains = longer]
          /\ state = "FAILED" => faults < MaxFaults
          /\ faults' = IF state = "FAILED" THEN faults + 1 ELSE faults
    BY <1>8 DEF FinalizeRevision, c, job
  <2>2. runs[c].status = "COMPLETED"
        /\ missed' = IF runs[superseded.run].read > runs[c].read
                     THEN missed \cup {job.series} ELSE missed
    BY <1>8 DEF FinalizeRevision, c, job
  <2>3. version \in Versions
    BY <1>3 DEF Versions
  <2>4. longer \in [Series -> Seq(Versions)]
    <3>1. session.chains[job.series] \in Seq(Versions)
      BY <1>3, Types
    <3>2. Append(session.chains[job.series], version) \in Seq(Versions)
      BY <2>3, <3>1, Appended
    <3> QED
      BY <3>2 DEF TypeOK
  <2> HIDE DEF longer, superseded
  <2>5. faults' \in 0..MaxFaults /\ missed \subseteq missed' /\ missed' \subseteq Series
    BY <1>3, <2>1, <2>2, Numbers DEF TypeOK
  <2>6. Worked(c)
    BY <1>2, <1>3, <1>4, <2>1, <2>4, <2>5 DEF Worked, TypeOK, job
  <2>7. session'.jobs[c].status = state /\ session'.chains = longer
    BY <1>4, <2>1 DEF TypeOK
  <2>8. runs[superseded.run].read > runs[c].read => job.series \in missed'
    BY <2>2
  <2>9. Appends(c)
    BY <2>2, <2>7, <2>8 DEF Appends, longer, superseded, job, Active
  <2> QED
    BY <2>6, <2>9, AppendInv
<1> QED
  BY <1>5, <1>6, <1>7, <1>8

\* The commit after the jobs: what the round has seen becomes what everybody sees.
LEMMA CommitRoundInv == RevisionInv /\ CommitRound => RevisionInv'
<1> SUFFICES ASSUME RevisionInv, CommitRound PROVE RevisionInv'
  OBVIOUS
<1> USE DEF RevisionInv
<1>1. /\ phase = "jobs" /\ phase' = "waiting" /\ todo = {}
      /\ jobs' = session.jobs /\ chains' = Merged
      /\ session' = [jobs |-> jobs', chains |-> chains', counted |-> FALSE]
      /\ UNCHANGED <<news, inbox, unacked, knowledge, wake, hand, todo, simPhase, simTodo, simRuns,
                     missed, faults>>
  BY DEF CommitRound, Merged, bus, simulationWorker
<1>2. /\ runs' \in [Ids -> Runs]
      /\ \A i \in Ids : \/ runs'[i] = runs[i]
                        \/ /\ runs[i].status = "none" /\ runs'[i] = Queued
                           /\ i \in Rows(session.jobs)
  BY EmptyRun DEF CommitRound, TypeOK, Rows
<1>3. /\ Rows(jobs) \subseteq Rows(session.jobs) /\ 0 \notin Rows(session.jobs) /\ hand = 0
      /\ Rows(session.jobs) \subseteq Ids
  BY <1>1, Types DEF InPhase, Copies
<1>4. session'.jobs = jobs' /\ session'.chains = chains'
  BY <1>1
<1>5. TypeOK'
  <2>1. chains' \in [Series -> Seq(Versions)] /\ jobs' \in JobTable
    BY <1>1, Types DEF TypeOK
  <2>2. session' \in [jobs : JobTable, chains : [Series -> Seq(Versions)], counted : BOOLEAN]
    BY <1>1, <2>1
  <2> QED
    BY <1>1, <1>2, <2>1, <2>2 DEF TypeOK
<1>6. Queueing'
  <2>1. \A i \in Ids : runs'[i].status # "none" => i = 0 \/ i \in Rows(jobs')
    BY <1>1, <1>2, <1>3 DEF Queueing
  <2>2. \A i \in Ids : runs[i].status = "PENDING" => runs'[i] = runs[i]
    BY <1>2
  <2>3. \A i \in Ids : /\ runs'[i].status = "PENDING" => runs'[i].attempts < MaxAttempts
                       /\ runs'[i].read <= news
    <3> TAKE i \in Ids
    <3>1. CASE runs'[i] = runs[i]
      BY <3>1 DEF Queueing
    <3>2. CASE runs'[i] = Queued
      BY <3>2, EmptyRun, Numbers DEF TypeOK
    <3> QED
      BY <1>2, <3>1, <3>2
  <2>4. simTodo \subseteq Ids
    BY DEF TypeOK
  <2> QED
    BY <1>1, <2>1, <2>2, <2>3, <2>4 DEF Queueing
<1>7. InPhase'
  BY <1>1, <1>3 DEF InPhase
<1>8. Merged' = chains'
  BY <1>4, <1>5 DEF Merged, TypeOK
<1>9. Consistent(jobs', chains', runs') /\ Consistent(session'.jobs, Merged', runs')
  <2>1. \A i \in Rows(session.jobs) : runs[i].status = "COMPLETED" => runs'[i].status = "COMPLETED"
    BY <1>2, <1>3
  <2>2. runs'[0] = runs[0]
    BY <1>2, <1>3, EmptyRun
  <2>3. Consistent(session.jobs, Merged, runs')
    BY <2>1, <2>2, StillConsistent
  <2> QED
    BY <1>1, <1>4, <1>8, <2>3
<1>10. Copies'
  <2>1. \A j \in Rows(jobs') : chains'[jobs'[j].series] # <<>>
    BY <1>1, <1>5, <1>9, Types, JobsHaveSeries DEF TypeOK
  <2> QED
    BY <1>4, <2>1 DEF Copies
\* What a version was made by is not written, and no reason is taken away.
<1>11. \A i \in Ids : /\ Settled(i) => runs'[i] = runs[i]
                      /\ Executed(i)' = Executed(i) \/ Executed(i)'.status # "COMPLETED"
  BY <1>1, <1>2, <1>3, EmptyRun DEF Settled, Executed
<1>12. \A j \in JobIds : UpToDate(j) => UpToDate(j)'
  BY <1>1, <1>11, Types DEF UpToDate
<1>13. \A s \in Series : Stale(Merged[s])' => Stale(Merged[s])
  <2> SUFFICES ASSUME NEW s \in Series, Stale(Merged[s])' PROVE Stale(Merged[s])
    OBVIOUS
  <2>1. Merged'[s] = Merged[s]
    BY <1>1, <1>8
  <2>2. Merged[s] # <<>> => runs'[Latest(Merged[s]).run] = runs[Latest(Merged[s]).run]
    BY <1>11, Types, VersionsSettled
  <2> QED
    BY <1>1, <2>1, <2>2 DEF Stale
<1>14. SessionRemembers'
  BY <1>1, <1>4, <1>12, <1>13 DEF SessionRemembers, Remembered
<1>15. NothingForgotten'
  BY <1>4, <1>8, <1>14 DEF NothingForgotten, SessionRemembers, Remembered
<1> QED
  BY <1>5, <1>6, <1>7, <1>9, <1>10, <1>14, <1>15

-----------------------------------------------------------------------------
(* The theorems.                                                           *)

\* The invariant holds in every reachable state.
LEMMA RevisionInvariance == Spec => []RevisionInv
<1>1. RevisionInv /\ UNCHANGED vars => RevisionInv'
  <2> SUFFICES ASSUME RevisionInv, UNCHANGED vars PROVE RevisionInv'
    OBVIOUS
  <2>1. UNCHANGED <<news, inbox, unacked, knowledge, wake, jobs, runs, chains, phase, hand, session,
                    todo, simPhase, simTodo, simRuns, missed, faults>>
    BY DEF vars, bus, tables, revisionWorker, simulationWorker
  <2>2. UNCHANGED <<TypeOK, Queueing, InPhase, Copies, NothingForgotten>>
    BY <2>1 DEF TypeOK, Queueing, InPhase, Copies, NothingForgotten, Remembered, Stale, UpToDate,
                Executed
  <2>3. UNCHANGED Merged
    BY <2>1 DEF Merged
  <2>4. UNCHANGED SessionRemembers
    BY <2>1, <2>3 DEF SessionRemembers, Remembered, Stale, UpToDate, Executed
  <2> QED
    BY <2>1, <2>2, <2>3, <2>4 DEF RevisionInv
<1>2. RevisionInv /\ Next => RevisionInv'
  BY OutsideInv, ReforecastInv, SimulationWorkInv, SimulationCommitsInv, FreshRoundsInv,
     HandleEventInv, ClaimJobsInv, WorkInv, CommitRoundInv
     DEF Next, SimulationStep, Round
<1> QED
  BY <1>1, <1>2, InitRevision, PTL DEF Spec

\* Every column, local variable and history has its type; jobs and runs stay
\* within the attempts and numbers the workers allow.
THEOREM TypeCorrect == Spec => []TypeOK
<1>1. RevisionInv => TypeOK
  BY DEF RevisionInv
<1> QED
  BY <1>1, RevisionInvariance, PTL

\* The versions of a prediction series that evidence caused are one line, and what it
\* leaves aside are forecasts users asked for: enqueue_revisions_for_evidence makes no
\* job for a series that has an active one, and _finalize_revision_job ends the job it
\* appends for; only the route for a new forecast asks neither.
THEOREM ForksAreRequests == Spec => []OnlyRequestsFork
<1>1. RevisionInv => OnlyRequestsFork
  <2> SUFFICES ASSUME RevisionInv, NEW s \in Series, NEW k \in DOMAIN chains[s]
      PROVE  LET version == chains[s][k]
                 Requested(l) == jobs[chains[s][l].run].manual
             IN
             /\ version.parent < k
             /\ k > 1 => version.parent > 0 /\ runs[version.run].status = "COMPLETED"
             /\ k > 1 /\ ~Requested(k) => \A l \in (version.parent + 1)..(k - 1) : Requested(l)
             /\ \A l \in DOMAIN chains[s] : chains[s][l].run = version.run => l = k
    BY DEF OnlyRequestsFork
  <2>1. Linear(jobs, runs, chains[s])
    BY DEF RevisionInv, Consistent
  <2>2. k = 1 \/ k > 1
    <3>1. chains[s] \in Seq(Versions)
      BY Types DEF RevisionInv
    <3> QED
      BY <3>1
  <2>3. CASE k = 1
    BY <2>1, <2>3 DEF Linear
  <2>4. CASE k > 1
    <3>1. Revised(jobs, runs, chains[s], k) /\ k \in Nat
      <4>1. chains[s] \in Seq(Versions)
        BY Types DEF RevisionInv
      <4> QED
        BY <2>1, <2>4, <4>1 DEF Linear
    <3>2. chains[s][k].parent > 0 /\ chains[s][k].parent < k
      BY <3>1 DEF Revised
    <3>3. \A l \in DOMAIN chains[s] : chains[s][l].run = chains[s][k].run => l = k
      BY <2>1 DEF Linear
    <3> QED
      BY <3>1, <3>2, <3>3 DEF Revised, Beside
  <2> QED
    BY <2>2, <2>3, <2>4
<1> QED
  BY <1>1, RevisionInvariance, PTL

\* Whatever crashes between the acknowledgement of an event and the commit of the
\* jobs it led to, a series with older evidence has an event or a job that will
\* bring it up to date, or is known to have missed the change.
THEOREM NothingIsForgotten == Spec => []NothingForgotten
<1>1. RevisionInv => NothingForgotten
  BY DEF RevisionInv
<1> QED
  BY <1>1, RevisionInvariance, PTL

-----------------------------------------------------------------------------
(* Debates about one simulation run.                                       *)

\* The row of the run is locked by the one debate that is completing.
LockOwner == \A d \in Debates : runLock = d <=> pc[d] = "complete"

Early == {"idle", "round", "mark", "speak"}
Late == {"announce", "announced", "finish"}

\* What the transaction of a debate has done where it is.
WorkOf(d) ==
    /\ pc[d] \in {"mark", "speak"} => spoken[d] < Rounds
    /\ pc[d] = "complete" => spoken[d] = Rounds /\ (d \in adds <=> options = 0)
    /\ pc[d] \in Early => d \notin adds
    /\ pc[d] \in Early \cup {"complete"} => d \notin verdict
    /\ pc[d] \in Late => d \in verdict
    /\ \A i \in marked[d] : About[i] = d

Work == \A d \in Debates : WorkOf(d)

\* The inductive invariant of DebateStream.
DebateInv ==
    /\ DebateTypeOK /\ LockOwner /\ Work
    /\ OneOptionPerRun /\ OutcomeIsWhole /\ AnnouncedIsCommitted

\* What the constants are.
LEMMA DebateNumbers ==
    /\ Streamed \cap Decided = {} /\ None \notin Debates
    /\ About \in [Interrupts -> Debates]
    /\ Rounds \in Nat \ {0} /\ MaxMishaps \in Nat
BY DebatesAssumption, AboutAssumption, BoundsAssumption

-----------------------------------------------------------------------------
(* The invariant of debates is inductive.                                  *)

\* It holds before any request.
LEMMA InitDebate == DebateInit => DebateInv
<1> SUFFICES ASSUME DebateInit PROVE DebateInv
  OBVIOUS
<1>1. DebateTypeOK
  BY DebateNumbers DEF DebateInit, DebateTypeOK, Terminal
<1>2. LockOwner
  BY DebateNumbers DEF DebateInit, LockOwner
<1>3. Work
  BY DEF DebateInit, Work, WorkOf, Early, Late
<1> QED
  BY <1>1, <1>2, <1>3
     DEF DebateInit, DebateInv, OneOptionPerRun, OutcomeIsWhole,
         AnnouncedIsCommitted

\* Opening a debate and its rounds touch its own transaction only.
LEMMA RoundsInv ==
    ASSUME DebateInv, NEW d \in Debates,
           \/ Open(d) \/ Assess(d)
           \/ ReadInterrupts(d) \/ MarkInjected(d) \/ Speak(d)
    PROVE  DebateInv'
<1> USE DEF DebateInv
<1>1. /\ UNCHANGED <<rounds, verdict, mail, options, runLock, adds, published>>
      /\ \A e \in Debates : e # d => pc'[e] = pc[e] /\ spoken'[e] = spoken[e]
                                     /\ marked'[e] = marked[e]
      /\ pc[d] \in Early /\ pc'[d] \in Early
  BY DEF Open, Assess, ReadInterrupts, MarkInjected,
         Speak, Goto, committed, work,
         Early, DebateTypeOK
<1>2. DebateTypeOK'
  <2>1. CASE Open(d)
    BY <2>1 DEF Open, Goto, DebateTypeOK
  <2>2. CASE Assess(d)
    BY <2>2, DebateNumbers DEF Assess, Goto, DebateTypeOK, committed
  <2>3. CASE ReadInterrupts(d)
    BY <2>3 DEF ReadInterrupts, Goto, DebateTypeOK, committed,
                Pending
  <2>4. CASE MarkInjected(d)
    BY <2>4 DEF MarkInjected, Goto, DebateTypeOK, committed,
                Pending
  <2>5. CASE Speak(d)
    <3>1. spoken[d] + 1 \in 0..Rounds
      BY <2>5, DebateNumbers DEF Speak, DebateTypeOK, Work, WorkOf
    <3> QED
      BY <2>5, <3>1 DEF Speak, Goto, DebateTypeOK, committed
  <2> QED
    BY <2>1, <2>2, <2>3, <2>4, <2>5
<1>3. LockOwner'
  BY <1>1 DEF LockOwner, Early
<1>4. Work'
  <2>1. ASSUME NEW e \in Debates, e # d PROVE WorkOf(e)'
    BY <1>1, <2>1 DEF Work, WorkOf
  <2>2. pc'[d] \in {"mark", "speak"} => spoken'[d] < Rounds
    <3>1. CASE Open(d) \/ Assess(d) \/ Speak(d)
      BY <3>1 DEF Open, Assess, Speak, Goto, DebateTypeOK
    <3>2. CASE ReadInterrupts(d)
      BY <3>2 DEF ReadInterrupts, Goto, DebateTypeOK
    <3>3. CASE MarkInjected(d)
      BY <3>3 DEF MarkInjected, Goto, DebateTypeOK, Work, WorkOf
    <3> QED
      BY <3>1, <3>2, <3>3
  <2>3. \A i \in marked'[d] : About[i] = d
    BY DEF Open, Assess, ReadInterrupts, MarkInjected,
           Speak, DebateTypeOK, Work, WorkOf, Pending
  <2>4. WorkOf(d)'
    BY <1>1, <2>2, <2>3 DEF Work, WorkOf, Early, Late
  <2> QED
    BY <2>1, <2>4 DEF Work
<1>5. OneOptionPerRun' /\ OutcomeIsWhole' /\ AnnouncedIsCommitted'
  BY <1>1 DEF OneOptionPerRun, OutcomeIsWhole, AnnouncedIsCommitted
<1> QED
  BY <1>2, <1>3, <1>4, <1>5

\* The lock is free when it is taken, so nobody else has looked for the option.
LEMMA LockRunInv ==
    ASSUME DebateInv, NEW d \in Debates, LockRun(d)
    PROVE  DebateInv'
<1> USE DEF DebateInv
<1>1. /\ UNCHANGED <<rounds, verdict, mail, options, spoken, marked, published>>
      /\ pc[d] = "round" /\ pc'[d] = "complete" /\ spoken[d] = Rounds
      /\ runLock = None /\ runLock' = d
      /\ adds' = IF options = 0 THEN adds \cup {d} ELSE adds
      /\ \A e \in Debates : e # d => pc'[e] = pc[e]
  BY DEF LockRun, Goto, committed, DebateTypeOK
<1>2. DebateTypeOK'
  BY DEF LockRun, Goto, DebateTypeOK, committed
<1>3. \A e \in Debates : pc[e] # "complete"
  BY <1>1, DebateNumbers DEF LockOwner
<1>4. LockOwner'
  BY <1>1, <1>3 DEF LockOwner
<1>5. Work'
  <2>1. WorkOf(d)'
    BY <1>1 DEF Work, WorkOf, Early, Late
  <2>2. ASSUME NEW e \in Debates, e # d PROVE WorkOf(e)'
    BY <1>1, <1>3, <2>2 DEF Work, WorkOf, Early, Late
  <2> QED
    BY <2>1, <2>2 DEF Work
<1>6. OneOptionPerRun' /\ OutcomeIsWhole' /\ AnnouncedIsCommitted'
  BY <1>1 DEF OneOptionPerRun, OutcomeIsWhole, AnnouncedIsCommitted
<1> QED
  BY <1>2, <1>4, <1>5, <1>6

\* The holder of the lock is the only debate that can add the option, and it
\* adds it exactly when the run has none.
LEMMA DebateCommitInv ==
    ASSUME DebateInv, NEW d \in Debates, Commit(d)
    PROVE  DebateInv'
<1> USE DEF DebateInv
<1>1. /\ pc[d] = "complete" /\ pc'[d] = "announce"
      /\ \A e \in Debates : e # d => pc'[e] = pc[e]
      /\ rounds' = [rounds EXCEPT ![d] = spoken[d]]
      /\ verdict' = verdict \cup {d}
      /\ mail' = [i \in Interrupts |-> IF i \in marked[d] THEN "INJECTED" ELSE mail[i]]
      /\ options' = IF d \in adds THEN options + 1 ELSE options
      /\ UNCHANGED <<spoken, marked, adds, published>>
  BY DEF Commit, Goto, work, DebateTypeOK
<1>2. runLock = d /\ runLock' = None
  BY <1>1 DEF Commit, Released, LockOwner
<1>3. \A e \in Debates : e # d => pc[e] # "complete"
  BY <1>2 DEF LockOwner
<1>4. spoken[d] = Rounds /\ (d \in adds <=> options = 0)
  BY <1>1 DEF Work, WorkOf
<1>5. DebateTypeOK'
  <2>1. /\ rounds' \in [Debates -> 0..Rounds]
        /\ verdict' \subseteq Debates /\ options' \in Nat
    BY <1>1 DEF DebateTypeOK
  <2>2. mail' \in [Interrupts -> {"none", "PENDING", "INJECTED"}]
    BY <1>1 DEF DebateTypeOK
  <2> QED
    BY <1>1, <1>2, <2>1, <2>2 DEF Commit, Goto, DebateTypeOK, work,
                                  Terminal
<1>6. LockOwner'
  BY <1>1, <1>2, <1>3, DebateNumbers DEF LockOwner
<1>7. Work'
  <2>1. WorkOf(d)'
    BY <1>1 DEF Work, WorkOf, Early, Late
  <2>2. ASSUME NEW e \in Debates, e # d PROVE WorkOf(e)'
    BY <1>1, <1>3, <2>2 DEF Work, WorkOf, Early, Late
  <2> QED
    BY <2>1, <2>2 DEF Work
<1>8. OneOptionPerRun'
  BY <1>1, <1>4 DEF OneOptionPerRun
<1>9. OutcomeIsWhole'
  <2>1. \A e \in Debates : rounds'[e] = IF e \in verdict' THEN Rounds ELSE 0
    BY <1>1, <1>4 DEF OutcomeIsWhole, DebateTypeOK
  <2>2. \A i \in Interrupts : mail'[i] = "INJECTED" => About[i] \in verdict'
    BY <1>1 DEF OutcomeIsWhole, Work, WorkOf
  <2> QED
    BY <2>1, <2>2 DEF OutcomeIsWhole
<1>10. AnnouncedIsCommitted'
  BY <1>1 DEF AnnouncedIsCommitted
<1> QED
  BY <1>5, <1>6, <1>7, <1>8, <1>9, <1>10

\* What follows the commit only reads.
LEMMA AnnounceInv ==
    ASSUME DebateInv, NEW d \in Debates,
           Announce(d) \/ Finish(d)
    PROVE  DebateInv'
<1> USE DEF DebateInv
<1>1. /\ UNCHANGED <<rounds, verdict, mail, options, runLock, spoken, marked, adds>>
      /\ pc[d] \in Late /\ pc'[d] \in Late \cup {"done"}
      /\ published' \subseteq published \cup {<<"triggered", d>>, <<"completed", d>>}
      /\ \A e \in Debates : e # d => pc'[e] = pc[e]
  BY DEF Announce, Finish, Goto, committed, work,
         DebateTypeOK, Late
<1>2. DebateTypeOK'
  <2>1. CASE Announce(d)
    BY <2>1 DEF Announce, Goto, committed, work, DebateTypeOK
  <2>2. CASE Finish(d)
    BY <2>2 DEF Finish, Goto, committed, work, DebateTypeOK
  <2> QED
    BY <2>1, <2>2
<1>3. d \in verdict
  BY <1>1 DEF Work, WorkOf
<1>4. LockOwner'
  BY <1>1 DEF LockOwner, Late
<1>5. Work'
  <2>1. WorkOf(d)'
    BY <1>1, <1>3 DEF Work, WorkOf, Early, Late
  <2>2. ASSUME NEW e \in Debates, e # d PROVE WorkOf(e)'
    BY <1>1, <2>2 DEF Work, WorkOf
  <2> QED
    BY <2>1, <2>2 DEF Work
<1>6. OneOptionPerRun' /\ OutcomeIsWhole'
  BY <1>1 DEF OneOptionPerRun, OutcomeIsWhole
<1>7. AnnouncedIsCommitted'
  BY <1>1, <1>3 DEF AnnouncedIsCommitted
<1> QED
  BY <1>2, <1>4, <1>5, <1>6, <1>7

\* A debate that breaks off commits its status and nothing else.
LEMMA AbortInv ==
    ASSUME DebateInv, NEW d \in Debates,
           Fail(d) \/ Disconnect(d) \/ Kill(d)
    PROVE  DebateInv'
<1> USE DEF DebateInv
<1>1. /\ Abort(d) /\ UNCHANGED mail
      /\ pc'[d] \in {"done", "killed"} /\ pc' = [pc EXCEPT ![d] = pc'[d]]
      /\ status' \in {status, [status EXCEPT ![d] = "FAILED"]}
  BY DEF Fail, Disconnect, Kill, Goto, DebateTypeOK
<1>2. /\ UNCHANGED <<rounds, verdict, options, spoken, marked, adds, published>>
      /\ \A e \in Debates : e # d => pc'[e] = pc[e]
      /\ runLock' = IF runLock = d THEN None ELSE runLock
  BY <1>1 DEF Abort, work, Released, DebateTypeOK
<1>3. DebateTypeOK'
  BY <1>1, <1>2, DebateNumbers DEF DebateTypeOK, Abort, work, Terminal
<1>4. LockOwner'
  BY <1>1, <1>2, DebateNumbers DEF LockOwner
<1>5. Work'
  <2>1. WorkOf(d)'
    BY <1>1, <1>2 DEF Work, WorkOf, Early, Late
  <2>2. ASSUME NEW e \in Debates, e # d PROVE WorkOf(e)'
    BY <1>1, <1>2, <2>2 DEF Work, WorkOf
  <2> QED
    BY <2>1, <2>2 DEF Work
<1>6. OneOptionPerRun' /\ OutcomeIsWhole' /\ AnnouncedIsCommitted'
  BY <1>1, <1>2 DEF OneOptionPerRun, OutcomeIsWhole,
                    AnnouncedIsCommitted
<1> QED
  BY <1>3, <1>4, <1>5, <1>6

\* An interrupting request stores nothing but its PENDING message.
LEMMA InterruptInv ==
    ASSUME DebateInv, NEW i \in Interrupts,
           CheckRunning(i) \/ Store(i)
    PROVE  DebateInv'
<1> USE DEF DebateInv
<1>1. /\ UNCHANGED <<rounds, verdict, options, pc, work, runLock, published>>
      /\ \A j \in Interrupts : mail'[j] = "INJECTED" => mail[j] = "INJECTED"
  BY DEF CheckRunning, Store, committed, DebateTypeOK
<1>2. DebateTypeOK'
  BY DEF CheckRunning, Store, committed, work, DebateTypeOK
<1>3. LockOwner' /\ Work'
  BY <1>1 DEF LockOwner, Work, WorkOf, work
<1>4. OneOptionPerRun' /\ OutcomeIsWhole' /\ AnnouncedIsCommitted'
  BY <1>1 DEF OneOptionPerRun, OutcomeIsWhole, AnnouncedIsCommitted
<1> QED
  BY <1>2, <1>3, <1>4

\* Every step keeps the invariant, and so does a step that changes nothing.
LEMMA NextDebate == DebateInv /\ [DebateNext]_debateVars => DebateInv'
<1> SUFFICES ASSUME DebateInv, [DebateNext]_debateVars PROVE DebateInv'
  OBVIOUS
<1>1. CASE UNCHANGED debateVars
  BY <1>1 DEF debateVars, committed, work, DebateInv, DebateTypeOK,
              LockOwner, Work, WorkOf,
              OneOptionPerRun, OutcomeIsWhole, AnnouncedIsCommitted
<1>2. ASSUME NEW d \in Debates,
             \/ Open(d) \/ Assess(d) \/ Step(d)
             \/ Fail(d) \/ Disconnect(d) \/ Kill(d)
      PROVE  DebateInv'
  BY <1>2, RoundsInv, LockRunInv, DebateCommitInv, AnnounceInv, AbortInv DEF Step
<1>3. CASE \E i \in Interrupts : CheckRunning(i) \/ Store(i)
  BY <1>3, InterruptInv
<1> QED
  BY <1>1, <1>2, <1>3 DEF DebateNext

\* The invariant holds in every reachable state.
LEMMA DebateInvariance == DebateSpec => []DebateInv
BY InitDebate, NextDebate, PTL DEF DebateSpec

-----------------------------------------------------------------------------
(* What users of a debate rely on.                                         *)

\* Every column and local variable has its type; no debate speaks more rounds
\* than its plan has.
THEOREM DebateTypes == DebateSpec => []DebateTypeOK
<1>1. DebateInv => DebateTypeOK
  BY DEF DebateInv
<1> QED
  BY <1>1, DebateInvariance, PTL

\* However many debates complete together, the run gets one decision option:
\* _ensure_debate_prediction looks and inserts under the lock of the run's row.
THEOREM OneOption == DebateSpec => []OneOptionPerRun
<1>1. DebateInv => OneOptionPerRun
  BY DEF DebateInv
<1> QED
  BY <1>1, DebateInvariance, PTL

\* Rounds, verdict and the status of interrupts appear together or not at all.
THEOREM WholeOutcome == DebateSpec => []OutcomeIsWhole
<1>1. DebateInv => OutcomeIsWhole
  BY DEF DebateInv
<1> QED
  BY <1>1, DebateInvariance, PTL

\* debate.completed is published after the commit it tells of.
THEOREM CommittedBeforeAnnounced == DebateSpec => []AnnouncedIsCommitted
<1>1. DebateInv => AnnouncedIsCommitted
  BY DEF DebateInv
<1> QED
  BY <1>1, DebateInvariance, PTL
================================================================================
