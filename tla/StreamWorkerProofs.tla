------------------------- MODULE StreamWorkerProofs -------------------------
(***************************************************************************)
(* Proofs about StreamWorker, for any number of events, groups, processes  *)
(* and crashes, any limits and any bounds.                                 *)
(***************************************************************************)
EXTENDS StreamWorker, FiniteSetTheorems, WellFoundedInduction, TLAPS

Working == {"running", "acking", "settling", "recorded", "settled"}

\* A process that works has an entry to settle.
HasWork == \A c \in Consumers : pc[c] \in Working => batch[c] # {}

\* Entry i has had its outcome in group g, or is published again after it.
Outcome(g, i) ==
    \/ Settled(log[i].event, g)
    \/ \E j \in DOMAIN log : j > i /\ log[j] = [log[i] EXCEPT !.attempt = @ + 1]

\* What a process is about to acknowledge has its outcome.
ProgressOf(c) ==
    /\ pc[c] = "acking" => \A i \in batch[c] : log[i].event \in done[GroupOf[c]]
    /\ pc[c] = "recorded" => Letter(c) \in rows
    /\ pc[c] = "settled" => Outcome(GroupOf[c], Current(c))

Progress == \A c \in Consumers : ProgressOf(c)

\* So has every entry that was given to a group and is not pending.
AckedHasOutcome ==
    \A g \in Groups : \A i \in 1..last[g] :
        i \in pending[g] \/ i <= trimmed \/ Outcome(g, i)

\* The inductive invariant.
Inv == TypeOK /\ HasWork /\ Progress /\ AckedHasOutcome /\ ParkedHasRow

-----------------------------------------------------------------------------
(* Lemmas about the operators the actions are built from.                  *)

\* A set of numbers has a least element, and Min is it.
LEMMA MinOfNumbers ==
    ASSUME NEW S \in SUBSET Nat, S # {}
    PROVE  Min(S) \in S /\ \A n \in S : Min(S) <= n
<1>1. \E m \in S : \A n \in S : ~ (<<n, m>> \in OpToRel(<, Nat))
  BY NatLessThanWellFounded, WFMin, Zenon
<1>2. PICK m \in S : \A n \in S : ~ (n < m)
  BY <1>1 DEF OpToRel
<1>3. \A n \in S : m <= n
  BY <1>2
<1> QED
  BY <1>3 DEF Min

\* A bounded set of numbers has a largest element, and Max is it.
LEMMA MaxOfNumbers ==
    ASSUME NEW S \in SUBSET Nat, S # {}, NEW k \in Nat, \A n \in S : n <= k
    PROVE  Max(S) \in S /\ \A n \in S : n <= Max(S)
<1> DEFINE U == {n \in Nat : \A s \in S : s <= n}
<1>1. U \in SUBSET Nat /\ U # {}
  OBVIOUS
<1>2. Min(U) \in U /\ \A n \in U : Min(U) <= n
  BY <1>1, MinOfNumbers
<1> DEFINE m == Min(U)
<1> HIDE DEF m
<1>3. m \in Nat /\ \A s \in S : s <= m
  BY <1>2 DEF m
<1>4. m \in S
  <2> SUFFICES ASSUME m \notin S PROVE FALSE
    OBVIOUS
  <2>1. \A s \in S : s <= m - 1
    BY <1>3
  <2>2. PICK s \in S : s \in Nat
    OBVIOUS
  <2>3. m - 1 \in Nat
    BY <1>3, <2>1, <2>2
  <2> QED
    BY <1>2, <1>3, <2>1, <2>3 DEF m
<1> QED
  BY <1>3, <1>4 DEF Max
\* First keeps the smaller ids, and at least one.
LEMMA FirstOfIds ==
    ASSUME NEW n \in Nat \ {0}, NEW ids \in SUBSET Nat, IsFiniteSet(ids)
    PROVE  /\ First(n, ids) \subseteq ids
           /\ ids # {} => First(n, ids) # {}
           /\ \A i \in ids, k \in First(n, ids) : i <= k => i \in First(n, ids)
<1>1. First(n, ids) \subseteq ids
  BY DEF First
<1>2. ASSUME ids # {} PROVE First(n, ids) # {}
  <2>1. Min(ids) \in ids /\ \A k \in ids : Min(ids) <= k
    BY <1>2, MinOfNumbers
  <2> DEFINE m == Min(ids)
  <2>a. m \in Nat /\ \A k \in ids : k \in Nat /\ m <= k
    BY <2>1
  <2> HIDE DEF m
  <2>b. \A k \in ids : ~ (k < m)
    BY <2>a
  <2>2. {k \in ids : k < Min(ids)} = {}
    BY <2>b, Zenon DEF m
  <2>3. Cardinality({k \in ids : k < Min(ids)}) = 0
    BY <2>2, FS_EmptySet
  <2> QED
    BY <2>1, <2>3 DEF First
<1>3. ASSUME NEW i \in ids, NEW k \in First(n, ids), i <= k
      PROVE  i \in First(n, ids)
  <2> DEFINE below(x) == {j \in ids : j < x}
  <2>0. i \in Nat /\ k \in Nat /\ \A j \in ids : j \in Nat
    BY <1>1
  <2>a. \A j \in ids : j < i => j < k
    BY <2>0, <1>3
  <2>1. below(i) \subseteq below(k) /\ below(k) \subseteq ids
    BY <2>a, Zenon
  <2>2. IsFiniteSet(below(k)) /\ IsFiniteSet(below(i))
    BY <2>1, FS_Subset
  <2>3. Cardinality(below(i)) <= Cardinality(below(k))
    BY <2>1, <2>2, FS_Subset
  <2>4. Cardinality(below(k)) < n
    BY <1>3 DEF First
  <2>5. Cardinality(below(i)) \in Nat /\ Cardinality(below(k)) \in Nat
    BY <2>2, FS_CardinalityType
  <2>6. Cardinality(below(i)) < n
    BY <2>3, <2>4, <2>5
  <2> QED
    BY <2>6 DEF First
<1> QED
  BY <1>1, <1>2, <1>3

\* A new entry changes no other one, and trimming only moves forward.
LEMMA AppendGrows ==
    ASSUME TypeOK, NEW entry \in Entries, Append1(entry)
    PROVE  /\ log' \in Seq(Entries)
           /\ Len(log') = Len(log) + 1
           /\ log'[Len(log) + 1] = entry
           /\ \A i \in DOMAIN log : i \in DOMAIN log' /\ log'[i] = log[i]
           /\ trimmed' \in 0..Len(log') /\ trimmed <= trimmed'
<1>1. log \in Seq(Entries) /\ log' = Append(log, entry) /\ Len(log) \in Nat
  BY DEF TypeOK, Append1
<1>2. /\ log' \in Seq(Entries) /\ Len(log') = Len(log) + 1
      /\ log'[Len(log) + 1] = entry
      /\ \A i \in DOMAIN log : i \in DOMAIN log' /\ log'[i] = log[i]
  BY <1>1
<1>3. trimmed \in 0..Len(log) /\ MaxLen \in Nat \ {0}
  BY LimitsAssumption DEF TypeOK
<1> DEFINE k == Len(log) + 1 - MaxLen
<1>4. k \in Int /\ k <= Len(log)
  BY <1>1, <1>3
<1>5. Max({trimmed, k}) = IF k > trimmed THEN k ELSE trimmed
  BY <1>3, <1>4 DEF Max
<1>6. trimmed' \in trimmed..Max({trimmed, k})
  BY DEF Append1
<1> QED
  BY <1>1, <1>2, <1>3, <1>4, <1>5, <1>6

\* An outcome is never taken back.
LEMMA OutcomeStable ==
    ASSUME NEW g \in Groups, NEW i \in DOMAIN log, Outcome(g, i),
           \A j \in DOMAIN log : j \in DOMAIN log' /\ log'[j] = log[j],
           done[g] \subseteq done'[g], rows \subseteq rows'
    PROVE  Outcome(g, i)'
<1>1. CASE Settled(log[i].event, g)
  BY <1>1 DEF Outcome, Settled
<1>2. CASE \E j \in DOMAIN log : j > i /\ log[j] = [log[i] EXCEPT !.attempt = @ + 1]
  BY <1>2 DEF Outcome
<1> QED
  BY <1>1, <1>2 DEF Outcome

\* What a step must leave as it is for outcomes to be kept.
Grows ==
    /\ \A i \in DOMAIN log : i \in DOMAIN log' /\ log'[i] = log[i]
    /\ \A g \in Groups : done[g] \subseteq done'[g]
    /\ rows \subseteq rows'
    /\ trimmed' \in Nat /\ trimmed <= trimmed'

\* The entry a working process is to settle next is one of its batch.
LEMMA CurrentInBatch ==
    ASSUME TypeOK, HasWork, NEW c \in Consumers, pc[c] \in Working
    PROVE  /\ Current(c) \in batch[c] /\ Current(c) \in DOMAIN log
           /\ GroupOf[c] \in Groups
<1>1. GroupOf[c] \in Groups
  BY GroupAssumption
<1>2. batch[c] \subseteq 1..Len(log) /\ DOMAIN log = 1..Len(log)
  BY DEF TypeOK
<1>3. batch[c] # {}
  BY DEF HasWork
<1>4. batch[c] \in SUBSET Nat
  BY <1>2
<1>5. Min(batch[c]) \in batch[c]
  BY <1>3, <1>4, MinOfNumbers
<1> QED
  BY <1>1, <1>2, <1>3, <1>5 DEF Current

\* A process that does nothing keeps what it has achieved.
LEMMA ProgressKept ==
    ASSUME TypeOK, HasWork, Progress, Grows, NEW c \in Consumers,
           pc'[c] = pc[c], batch'[c] = batch[c]
    PROVE  ProgressOf(c)'
<1>1. CASE pc[c] \notin Working
  BY <1>1 DEF ProgressOf, Working
<1>2. CASE pc[c] \in Working
  <2>1. /\ Current(c) \in DOMAIN log /\ GroupOf[c] \in Groups
    BY <1>2, CurrentInBatch
  <2>2. Current(c)' = Current(c)
    BY DEF Current
  <2>3. ProgressOf(c)
    BY DEF Progress
  <2>4. batch[c] \subseteq DOMAIN log
    BY DEF TypeOK
  <2>5. pc[c] = "acking" => \A i \in batch[c] : log'[i].event \in done'[GroupOf[c]]
    BY <2>1, <2>3, <2>4 DEF ProgressOf, Grows
  <2>6. pc[c] = "recorded" => <<log'[Current(c)].event, GroupOf[c]>> \in rows'
    BY <2>1, <2>3 DEF ProgressOf, Grows, Letter
  <2>7. pc[c] = "settled" => Outcome(GroupOf[c], Current(c))'
    <3>1. HAVE pc[c] = "settled"
    <3>2. Outcome(GroupOf[c], Current(c))
      BY <2>3, <3>1 DEF ProgressOf
    <3> DEFINE i == Current(c)
               g == GroupOf[c]
    <3>3. i \in DOMAIN log /\ g \in Groups /\ Outcome(g, i) /\ i' = i
      BY <2>1, <2>2, <3>2
    <3> HIDE DEF i, g
    <3>4. \A h \in Groups, k \in DOMAIN log : Outcome(h, k) => Outcome(h, k)'
      BY OutcomeStable DEF Grows
    <3> QED
      BY <2>1, <2>2, <3>2, <3>4 DEF Outcome
  <2> QED
    BY <2>2, <2>5, <2>6, <2>7 DEF ProgressOf, Letter
<1> QED
  BY <1>1, <1>2

\* While nothing is delivered or acknowledged, acknowledged entries keep theirs.
LEMMA AckedKept ==
    ASSUME TypeOK, AckedHasOutcome, Grows, UNCHANGED groupVars
    PROVE  AckedHasOutcome'
<1> SUFFICES ASSUME NEW g \in Groups, NEW i \in 1..last[g]
             PROVE  i \in pending[g] \/ i <= trimmed' \/ Outcome(g, i)'
  BY DEF AckedHasOutcome, groupVars
<1>1. i \in pending[g] \/ i <= trimmed \/ Outcome(g, i)
  BY DEF AckedHasOutcome
<1>2. i \in DOMAIN log /\ i \in Nat /\ trimmed \in Nat
  <2>1. last[g] \in 0..Len(log) /\ log \in Seq(Entries) /\ trimmed \in 0..Len(log)
    BY DEF TypeOK
  <2> QED
    BY <2>1
<1>3. Outcome(g, i) => Outcome(g, i)'
  BY <1>2, OutcomeStable DEF Grows
<1> QED
  BY <1>1, <1>2, <1>3 DEF Grows

-----------------------------------------------------------------------------
(* The invariant is inductive.                                             *)

\* It holds at first.
LEMMA InitInv == Init => Inv
<1> SUFFICES ASSUME Init PROVE Inv
  OBVIOUS
<1>1. TypeOK
  BY LimitsAssumption DEF Init, TypeOK
<1>2. HasWork
  BY DEF Init, HasWork, Working
<1>3. Progress
  BY DEF Init, Progress, ProgressOf
<1>4. AckedHasOutcome
  BY DEF Init, AckedHasOutcome
<1> QED
  BY <1>1, <1>2, <1>3, <1>4 DEF Init, Inv, ParkedHasRow

\* A new event is an entry nobody has taken yet.
LEMMA PublishInv ==
    ASSUME Inv, NEW e \in Events, Publish(e)
    PROVE  Inv'
<1> USE DEF Inv
<1>1. Append1([event |-> e, attempt |-> 1]) /\ [event |-> e, attempt |-> 1] \in Entries
  BY LimitsAssumption DEF Publish, Entries
<1>2. /\ log' \in Seq(Entries) /\ Len(log') = Len(log) + 1
      /\ trimmed' \in 0..Len(log')
      /\ Grows
  BY <1>1, AppendGrows DEF Publish, outcomes, Grows, TypeOK
<1>3. UNCHANGED <<groupVars, pc, batch, outcomes, crashes>>
  BY DEF Publish
<1>4. TypeOK'
  <2>1. last' \in [Groups -> 0..Len(log')] /\ pending' \in [Groups -> SUBSET (1..Len(log'))]
        /\ batch' \in [Consumers -> SUBSET (1..Len(log'))]
    <3>1. 0..Len(log) \subseteq 0..Len(log') /\ 1..Len(log) \subseteq 1..Len(log')
      BY <1>2 DEF TypeOK
    <3> QED
      BY <1>3, <3>1 DEF TypeOK, groupVars
  <2> QED
    BY <1>2, <1>3, <2>1 DEF TypeOK, outcomes
<1>5. HasWork'
  BY <1>3 DEF HasWork, groupVars
<1>6. Progress'
  BY <1>2, <1>3, ProgressKept DEF Progress
<1>7. AckedHasOutcome'
  BY <1>2, <1>3, AckedKept
<1> QED
  BY <1>3, <1>4, <1>5, <1>6, <1>7 DEF ParkedHasRow, outcomes

\* The copy with the next attempt number is the outcome of the entry.
LEMMA RetryInv ==
    ASSUME Inv, NEW c \in Consumers, Retry(c)
    PROVE  Inv'
<1> USE DEF Inv
<1> DEFINE i == Current(c)
           copy == [log[i] EXCEPT !.attempt = @ + 1]
<1>1. i \in DOMAIN log /\ GroupOf[c] \in Groups /\ log[i] \in Entries
  BY CurrentInBatch DEF Retry, Working, TypeOK
<1>2. Append1(copy) /\ pc[c] = "settling" /\ log[i].attempt + 1 <= MaxAttempts
  BY DEF Retry
<1>3. copy \in Entries
  BY <1>1, <1>2, LimitsAssumption DEF Entries
<1>4. /\ log' \in Seq(Entries) /\ Len(log') = Len(log) + 1
      /\ log'[Len(log) + 1] = copy
      /\ trimmed' \in 0..Len(log')
      /\ Grows
  BY <1>2, <1>3, AppendGrows DEF Retry, outcomes, Grows, TypeOK
<1>5. /\ UNCHANGED <<groupVars, batch, outcomes, crashes>>
      /\ pc' = [pc EXCEPT ![c] = "settled"]
  BY DEF Retry
<1>6. TypeOK'
  <2>1. last' \in [Groups -> 0..Len(log')] /\ pending' \in [Groups -> SUBSET (1..Len(log'))]
        /\ batch' \in [Consumers -> SUBSET (1..Len(log'))]
    <3>1. 0..Len(log) \subseteq 0..Len(log') /\ 1..Len(log) \subseteq 1..Len(log')
      BY <1>4 DEF TypeOK
    <3> QED
      BY <1>5, <3>1 DEF TypeOK, groupVars
  <2> QED
    BY <1>4, <1>5, <2>1 DEF TypeOK, outcomes
<1>7. HasWork'
  BY <1>2, <1>5 DEF HasWork, groupVars, Working, TypeOK
<1>8. Progress'
  <2>1. ProgressOf(c)'
    <3>1. Current(c)' = i
      BY <1>5 DEF Current
    <3>2. log'[i] = log[i] /\ Len(log') \in DOMAIN log' /\ Len(log') > i
      BY <1>1, <1>4 DEF Grows, TypeOK
    <3>3. log'[Len(log')] = [log'[i] EXCEPT !.attempt = @ + 1]
      BY <1>4, <3>2
    <3>4. \E j \in DOMAIN log' : j > i /\ log'[j] = [log'[i] EXCEPT !.attempt = @ + 1]
      BY <3>2, <3>3
    <3>5. Outcome(GroupOf[c], Current(c))'
      BY <3>1, <3>4 DEF Outcome
    <3> QED
      BY <1>5, <3>5 DEF ProgressOf, TypeOK
  <2>2. ASSUME NEW d \in Consumers, d # c PROVE ProgressOf(d)'
    BY <1>4, <1>5, <2>2, ProgressKept DEF TypeOK
  <2> QED
    BY <2>1, <2>2 DEF Progress
<1>9. AckedHasOutcome'
  BY <1>4, <1>5, AckedKept
<1> QED
  BY <1>5, <1>6, <1>7, <1>8, <1>9 DEF ParkedHasRow, outcomes

\* Steps that neither touch the stream nor the group's lists.
LEMMA LocalInv ==
    ASSUME Inv, NEW c \in Consumers, UNCHANGED <<stream, groupVars>>,
           StartupSweep(c) \/ RunSucceeds(c) \/ RunFails(c) \/ RecordDeadLetter(c)
              \/ PublishDeadLetter(c) \/ Crash(c) \/ Restart(c)
    PROVE  Inv'
<1> USE DEF Inv
<1>0. /\ pc[c] \in Working =>
            Current(c) \in batch[c] /\ Current(c) \in DOMAIN log /\ log[Current(c)] \in Entries
      /\ GroupOf[c] \in Groups
      /\ batch[c] \subseteq DOMAIN log /\ \A i \in batch[c] : log[i] \in Entries
  BY CurrentInBatch, GroupAssumption DEF TypeOK
<1>1. Grows
  BY <1>0 DEF stream, TypeOK, Grows, StartupSweep, RunSucceeds, RunFails, RecordDeadLetter,
              PublishDeadLetter, Crash, Restart, outcomes
<1>2. \A d \in Consumers : d # c => pc'[d] = pc[d] /\ batch'[d] = batch[d]
  BY DEF TypeOK, StartupSweep, RunSucceeds, RunFails, RecordDeadLetter,
         PublishDeadLetter, Crash, Restart
<1>3. AckedHasOutcome'
  BY <1>1, AckedKept
<1>4. \A d \in Consumers \ {c} : ProgressOf(d)'
  BY <1>1, <1>2, ProgressKept
<1>5. CASE StartupSweep(c)
  <2>1. TypeOK' /\ HasWork' /\ ParkedHasRow'
    BY <1>5 DEF StartupSweep, TypeOK, HasWork, ParkedHasRow, Working, stream, groupVars, outcomes
  <2>2. ProgressOf(c)'
    BY <1>5 DEF StartupSweep, TypeOK, ProgressOf
  <2> QED
    BY <1>3, <1>4, <2>1, <2>2 DEF Progress
<1>6. CASE RunSucceeds(c)
  <2>1. TypeOK' /\ HasWork' /\ ParkedHasRow'
    <3>1. \A i \in batch[c] : log[i].event \in Events
      BY <1>0 DEF Entries
    <3> DEFINE E == {log[i].event : i \in batch[c]}
    <3>a. E \subseteq Events
      BY <3>1
    <3>b. done' = [done EXCEPT ![GroupOf[c]] = @ \cup E]
      BY <1>6 DEF RunSucceeds
    <3> HIDE DEF E
    <3>2. done' \in [Groups -> SUBSET Events]
      BY <1>0, <3>a, <3>b DEF TypeOK
    <3> QED
      BY <1>6, <3>2 DEF RunSucceeds, TypeOK, HasWork, ParkedHasRow, Working, stream, groupVars
  <2>2. ProgressOf(c)'
    BY <1>0, <1>6 DEF RunSucceeds, TypeOK, ProgressOf, stream
  <2> QED
    BY <1>3, <1>4, <2>1, <2>2 DEF Progress
<1>7. CASE RunFails(c)
  <2>1. TypeOK' /\ HasWork' /\ ParkedHasRow'
    BY <1>7 DEF RunFails, TypeOK, HasWork, ParkedHasRow, Working, stream, groupVars, outcomes
  <2>2. ProgressOf(c)'
    BY <1>7 DEF RunFails, TypeOK, ProgressOf
  <2> QED
    BY <1>3, <1>4, <2>1, <2>2 DEF Progress
<1>8. CASE RecordDeadLetter(c)
  <2>0. pc[c] \in Working
    BY <1>8 DEF RecordDeadLetter, Working
  <2>1. TypeOK' /\ HasWork' /\ ParkedHasRow'
    <3>1. Letter(c) \in Events \X Groups
      BY <1>0, <2>0 DEF Letter, Entries
    <3> QED
      BY <1>8, <3>1 DEF RecordDeadLetter, TypeOK, HasWork, ParkedHasRow, Working, stream, groupVars
  <2>2. ProgressOf(c)'
    <3>1. Letter(c)' = Letter(c)
      BY <1>8 DEF RecordDeadLetter, Letter, Current, stream
    <3> QED
      BY <1>8, <3>1 DEF RecordDeadLetter, TypeOK, ProgressOf
  <2> QED
    BY <1>3, <1>4, <2>1, <2>2 DEF Progress
<1>9. CASE PublishDeadLetter(c)
  <2>0. pc[c] \in Working
    BY <1>9 DEF PublishDeadLetter, Working
  <2>a. Letter(c) \in rows
    BY <1>9 DEF PublishDeadLetter, Progress, ProgressOf
  <2>1. TypeOK' /\ HasWork' /\ ParkedHasRow'
    BY <1>9, <2>a DEF PublishDeadLetter, TypeOK, HasWork, ParkedHasRow, Working, stream, groupVars
  <2>2. ProgressOf(c)'
    <3>1. Current(c)' = Current(c) /\ <<log'[Current(c)].event, GroupOf[c]>> \in rows'
      BY <1>9, <2>a DEF PublishDeadLetter, Letter, Current, stream
    <3>2. Outcome(GroupOf[c], Current(c))'
      BY <3>1 DEF Outcome, Settled
    <3> QED
      BY <1>9, <3>2 DEF PublishDeadLetter, TypeOK, ProgressOf
  <2> QED
    BY <1>3, <1>4, <2>1, <2>2 DEF Progress
<1>10. CASE Crash(c) \/ Restart(c)
  <2>1. TypeOK' /\ HasWork' /\ ParkedHasRow'
    <3>1. CASE Crash(c)
      BY <3>1, LimitsAssumption
         DEF Crash, TypeOK, HasWork, ParkedHasRow, Working, stream, groupVars, outcomes
    <3>2. CASE Restart(c)
      BY <3>2 DEF Restart, TypeOK, HasWork, ParkedHasRow, Working, stream, groupVars, outcomes
    <3> QED
      BY <1>10, <3>1, <3>2
  <2>2. ProgressOf(c)'
    BY <1>10 DEF Crash, Restart, TypeOK, ProgressOf
  <2> QED
    BY <1>3, <1>4, <2>1, <2>2 DEF Progress
<1> QED
  BY <1>5, <1>6, <1>7, <1>8, <1>9, <1>10

\* Consume gives a group every entry up to the last one taken that is still there.
LEMMA ConsumeInv ==
    ASSUME Inv, NEW c \in Consumers, Consume(c)
    PROVE  Inv'
<1> USE DEF Inv
<1> DEFINE g == GroupOf[c]
           there == Present(last[g] + 1..Len(log))
           new == First(BatchSize, there)
<1>1. /\ g \in Groups /\ Len(log) \in Nat /\ DOMAIN log = 1..Len(log)
      /\ last[g] \in 0..Len(log) /\ trimmed \in 0..Len(log)
  BY GroupAssumption DEF TypeOK
<1>2. there \subseteq last[g] + 1..Len(log)
      /\ \A i \in last[g] + 1..Len(log) : i \in there \/ i <= trimmed
  BY <1>1 DEF Present
<1>3. there \in SUBSET Nat /\ IsFiniteSet(there)
  <2>1. last[g] + 1 \in Int /\ Len(log) \in Int
    BY <1>1
  <2>a. IsFiniteSet(last[g] + 1..Len(log))
    BY <2>1, FS_Interval
  <2>2. there \in SUBSET Nat
    BY <1>1, <1>2
  <2> QED
    BY <1>2, <2>a, <2>2, FS_Subset
<1>4. /\ new \subseteq there
      /\ \A i \in there, k \in new : i <= k => i \in new
  BY <1>3, FirstOfIds, LimitsAssumption
<1>5. /\ pc[c] = "idle" /\ new # {}
      /\ batch' = [batch EXCEPT ![c] = new]
      /\ pc' = [pc EXCEPT ![c] = "running"]
      /\ last' = [last EXCEPT ![g] = Max(new)]
      /\ pending' = [pending EXCEPT ![g] = @ \cup new]
      /\ UNCHANGED <<stream, outcomes, crashes>>
  BY DEF Consume, Take
<1> HIDE DEF g, there, new
<1>6. /\ Max(new) \in new /\ \A k \in new : k <= Max(new)
      /\ Max(new) \in last[g] + 1..Len(log)
  <2>1. new \in SUBSET Nat /\ new # {} /\ \A k \in new : k <= Len(log)
    BY <1>1, <1>2, <1>3, <1>4, <1>5
  <2>2. Max(new) \in new /\ \A k \in new : k <= Max(new)
    BY <1>1, <2>1, MaxOfNumbers
  <2> QED
    BY <1>2, <1>4, <2>2
<1>7. new \subseteq 1..Len(log) /\ new \subseteq 1..Max(new)
  BY <1>1, <1>2, <1>4, <1>6
<1>8. TypeOK'
  <2>1. Max(new) \in 0..Len(log)
    BY <1>1, <1>6
  <2>2. last' \in [Groups -> 0..Len(log)] /\ pending' \in [Groups -> SUBSET (1..Len(log))]
    BY <1>1, <1>5, <1>7, <2>1 DEF TypeOK
  <2>3. batch' \in [Consumers -> SUBSET (1..Len(log))]
    BY <1>5, <1>7 DEF TypeOK
  <2> QED
    BY <1>5, <2>2, <2>3 DEF TypeOK, stream, outcomes
<1>9. HasWork'
  BY <1>5 DEF HasWork, TypeOK
<1>10. Progress'
  <2>1. Grows
    BY <1>1, <1>5 DEF Grows, stream, outcomes
  <2>2. ASSUME NEW d \in Consumers, d # c PROVE ProgressOf(d)'
    BY <1>5, <2>1, <2>2, ProgressKept DEF TypeOK
  <2>3. ProgressOf(c)'
    BY <1>5 DEF ProgressOf, TypeOK
  <2> QED
    BY <2>2, <2>3 DEF Progress
<1>11. AckedHasOutcome'
  <2> SUFFICES ASSUME NEW h \in Groups, NEW i \in 1..last'[h]
               PROVE  i \in pending'[h] \/ i <= trimmed \/ Outcome(h, i)
    BY <1>5 DEF AckedHasOutcome, Outcome, Settled, stream, outcomes
  <2>1. CASE i \in 1..last[h]
    BY <1>1, <1>5, <2>1 DEF AckedHasOutcome, TypeOK
  <2>2. CASE i \notin 1..last[h]
    <3>1. h = g /\ i \in last[g] + 1..Max(new)
      BY <1>1, <1>5, <1>6, <2>2 DEF TypeOK
    <3>2. i \in last[g] + 1..Len(log) /\ i <= Max(new)
      BY <1>1, <1>6, <3>1
    <3>3. i \in new \/ i <= trimmed
      BY <1>2, <1>4, <1>6, <3>2
    <3> QED
      BY <1>1, <1>5, <3>1, <3>3 DEF TypeOK
  <2> QED
    BY <2>1, <2>2
<1> QED
  BY <1>5, <1>8, <1>9, <1>10, <1>11 DEF ParkedHasRow, outcomes

\* Reclaim drops from a group's list only what was trimmed.
LEMMA ReclaimInv ==
    ASSUME Inv, NEW c \in Consumers, Reclaim(c)
    PROVE  Inv'
<1> USE DEF Inv
<1> DEFINE g == GroupOf[c]
<1>1. /\ g \in Groups /\ Len(log) \in Nat /\ DOMAIN log = 1..Len(log)
      /\ last[g] \in 0..Len(log) /\ trimmed \in 0..Len(log)
      /\ pending[g] \subseteq 1..Len(log)
  BY GroupAssumption DEF TypeOK
<1>2. PICK idle \in SUBSET Present(pending[g]) :
        idle # {} /\ Take(c, First(BatchSize, idle))
  BY DEF Reclaim
<1>3. idle \subseteq 1..Len(log) /\ idle \subseteq pending[g]
  BY <1>1, <1>2 DEF Present
<1>4. idle \in SUBSET Nat /\ IsFiniteSet(idle)
  <2>1. IsFiniteSet(1..Len(log))
    BY <1>1, FS_Interval
  <2> QED
    BY <1>1, <1>3, <2>1, FS_Subset
<1>5. First(BatchSize, idle) \subseteq idle /\ First(BatchSize, idle) # {}
  BY <1>2, <1>4, FirstOfIds, LimitsAssumption
<1>6. /\ pc[c] = "idle"
      /\ batch' = [batch EXCEPT ![c] = First(BatchSize, idle)]
      /\ pc' = [pc EXCEPT ![c] = "running"]
      /\ pending' = [pending EXCEPT ![g] = Present(pending[g])]
      /\ UNCHANGED <<stream, last, outcomes, crashes>>
  BY <1>2 DEF Reclaim, Take
<1>7. Present(pending[g]) \subseteq pending[g]
      /\ \A i \in pending[g] : i \in Present(pending[g]) \/ i <= trimmed
  BY <1>1 DEF Present
<1> HIDE DEF g
<1>8. TypeOK'
  <2>1. First(BatchSize, idle) \subseteq 1..Len(log)
    BY <1>3, <1>5
  <2> QED
    BY <1>1, <1>6, <1>7, <2>1 DEF TypeOK, stream, outcomes
<1>9. HasWork'
  BY <1>5, <1>6 DEF HasWork, TypeOK
<1>10. Progress'
  <2>1. Grows
    BY <1>1, <1>6 DEF Grows, stream, outcomes
  <2>2. ASSUME NEW d \in Consumers, d # c PROVE ProgressOf(d)'
    BY <1>6, <2>1, <2>2, ProgressKept DEF TypeOK
  <2>3. ProgressOf(c)'
    BY <1>6 DEF ProgressOf, TypeOK
  <2> QED
    BY <2>2, <2>3 DEF Progress
<1>11. AckedHasOutcome'
  <2> SUFFICES ASSUME NEW h \in Groups, NEW i \in 1..last[h]
               PROVE  i \in pending'[h] \/ i <= trimmed \/ Outcome(h, i)
    BY <1>6 DEF AckedHasOutcome, Outcome, Settled, stream, outcomes
  <2> QED
    BY <1>1, <1>6, <1>7 DEF AckedHasOutcome, TypeOK
<1> QED
  BY <1>6, <1>8, <1>9, <1>10, <1>11 DEF ParkedHasRow, outcomes

\* What Ack takes off a group's list has its outcome.
LEMMA AckInv ==
    ASSUME Inv, NEW c \in Consumers, Ack(c)
    PROVE  Inv' /\ Outcome(GroupOf[c], Current(c))
<1> USE DEF Inv
<1> DEFINE g == GroupOf[c]
           i == Current(c)
           rest == batch[c] \ {i}
<1>1. /\ g \in Groups /\ Len(log) \in Nat /\ DOMAIN log = 1..Len(log)
      /\ pending[g] \subseteq 1..Len(log) /\ batch[c] \subseteq 1..Len(log)
  BY GroupAssumption DEF TypeOK
<1>2. /\ pc[c] \in {"acking", "settled"}
      /\ pending' = [pending EXCEPT ![g] = @ \ {i}]
      /\ batch' = [batch EXCEPT ![c] = rest]
      /\ pc' = [pc EXCEPT ![c] = IF rest = {} THEN "idle"
                                 ELSE IF @ = "acking" THEN "acking" ELSE "settling"]
      /\ UNCHANGED <<stream, last, outcomes, crashes>>
  BY DEF Ack
<1>3. i \in batch[c]
  BY <1>2, CurrentInBatch DEF Working
<1>4. Outcome(g, i)
  BY <1>2, <1>3 DEF Progress, ProgressOf, Outcome, Settled
<1> HIDE DEF g, i, rest
<1>5. rest \subseteq batch[c]
  BY DEF rest
<1>6. TypeOK'
  <2>1. pending' \in [Groups -> SUBSET (1..Len(log))]
    BY <1>1, <1>2 DEF TypeOK
  <2>2. batch' \in [Consumers -> SUBSET (1..Len(log))]
    BY <1>1, <1>2, <1>5 DEF TypeOK
  <2>3. pc' \in [Consumers -> {"boot", "idle", "running", "acking", "settling",
                               "recorded", "settled", "dead"}]
    BY <1>2 DEF TypeOK
  <2> QED
    BY <1>2, <2>1, <2>2, <2>3 DEF TypeOK, stream, outcomes
<1>7. HasWork'
  BY <1>2 DEF HasWork, TypeOK, Working
<1>8. Progress'
  <2>1. Grows
    BY <1>1, <1>2 DEF Grows, stream, outcomes, TypeOK
  <2>2. ASSUME NEW d \in Consumers, d # c PROVE ProgressOf(d)'
    BY <1>2, <2>1, <2>2, ProgressKept DEF TypeOK
  <2>3. ProgressOf(c)'
    <3>1. pc'[c] \in {"idle", "acking", "settling"} /\ batch'[c] = rest
          /\ (pc'[c] = "acking" => pc[c] = "acking")
      BY <1>2 DEF TypeOK
    <3>2. pc[c] = "acking" => \A k \in rest : log[k].event \in done[GroupOf[c]]
      BY <1>5 DEF Progress, ProgressOf
    <3> QED
      BY <1>2, <3>1, <3>2 DEF ProgressOf, stream, outcomes
  <2> QED
    BY <2>2, <2>3 DEF Progress
<1>9. AckedHasOutcome'
  <2> SUFFICES ASSUME NEW h \in Groups, NEW k \in 1..last[h]
               PROVE  k \in pending'[h] \/ k <= trimmed \/ Outcome(h, k)
    BY <1>2 DEF AckedHasOutcome, Outcome, Settled, stream, outcomes
  <2>1. k \in pending[h] \/ k <= trimmed \/ Outcome(h, k)
    BY DEF AckedHasOutcome
  <2>2. k \in pending[h] => k \in pending'[h] \/ (h = g /\ k = i)
    BY <1>1, <1>2 DEF TypeOK
  <2> QED
    BY <1>4, <2>1, <2>2
<1> QED
  BY <1>2, <1>4, <1>6, <1>7, <1>8, <1>9 DEF ParkedHasRow, outcomes, g, i

\* Every step keeps the invariant, and so does a step that changes nothing.
LEMMA NextInv == Inv /\ [Next]_vars => Inv'
<1> SUFFICES ASSUME Inv, [Next]_vars PROVE Inv'
  OBVIOUS
<1>1. CASE UNCHANGED vars
  BY <1>1 DEF vars, stream, groupVars, outcomes, Inv, TypeOK, HasWork, Progress, ProgressOf,
              AckedHasOutcome, ParkedHasRow, Outcome, Settled, Letter, Current
<1>2. CASE \E e \in Events : Publish(e)
  BY <1>2, PublishInv
<1>3. ASSUME NEW c \in Consumers, ProcessStep(c) \/ Crash(c) PROVE Inv'
  <2>1. CASE \/ StartupSweep(c) \/ RunSucceeds(c) \/ RunFails(c) \/ RecordDeadLetter(c)
             \/ PublishDeadLetter(c) \/ Crash(c) \/ Restart(c)
    <3>1. UNCHANGED <<stream, groupVars>>
      BY <2>1 DEF StartupSweep, RunSucceeds, RunFails, RecordDeadLetter,
                  PublishDeadLetter, Crash, Restart
    <3> QED
      BY <2>1, <3>1, LocalInv
  <2>2. CASE Reclaim(c)
    BY <2>2, ReclaimInv
  <2>3. CASE Consume(c)
    BY <2>3, ConsumeInv
  <2>4. CASE Retry(c)
    BY <2>4, RetryInv
  <2>5. CASE Ack(c)
    BY <2>5, AckInv
  <2> QED
    BY <1>3, <2>1, <2>2, <2>3, <2>4, <2>5 DEF ProcessStep
<1> QED
  BY <1>1, <1>2, <1>3 DEF Next

\* The invariant holds in every reachable state.
LEMMA Invariance == Spec => []Inv
  BY InitInv, NextInv, PTL DEF Spec

-----------------------------------------------------------------------------
(* What the deployment relies on.                                          *)

\* Every variable of the stream, the groups and the processes has its type.
THEOREM TypeCorrect == Spec => []TypeOK
<1>1. Inv => TypeOK
  BY DEF Inv
<1> QED
  BY <1>1, Invariance, PTL

\* A dead letter reaches its stream only after its row is committed
\* (_retry_or_dead_letter_event commits, then publishes).
THEOREM ParkedAfterRow == Spec => []ParkedHasRow
<1>1. Inv => ParkedHasRow
  BY DEF Inv
<1> QED
  BY <1>1, Invariance, PTL

\* The latest entry of an event tells what became of it: it is in flight, was
\* trimmed, or its outcome is final, because a copy would be a later entry.
LEMMA InvNothingLost == Inv => NothingLost
<1> SUFFICES ASSUME Inv, NEW i \in DOMAIN log, NEW g \in Groups,
                    ~ Settled(log[i].event, g),
                    ~ InFlight(log[i].event, g)
             PROVE  \E j \in 1..trimmed : log[j].event = log[i].event
  BY DEF NothingLost
<1> USE DEF Inv
<1> DEFINE e == log[i].event
           copies == {j \in DOMAIN log : log[j].event = e}
<1>1. /\ Len(log) \in Nat /\ DOMAIN log = 1..Len(log)
      /\ last[g] \in 0..Len(log) /\ trimmed \in 0..Len(log)
      /\ \A j \in DOMAIN log : log[j] \in Entries
  BY DEF TypeOK
<1>2. copies \in SUBSET Nat /\ copies # {} /\ \A j \in copies : j <= Len(log)
  BY <1>1
<1>3. Max(copies) \in copies /\ \A j \in copies : j <= Max(copies)
  BY <1>1, <1>2, MaxOfNumbers
<1> DEFINE m == Max(copies)
<1>4. m \in DOMAIN log /\ log[m].event = e
  BY <1>3
<1>5. \A j \in DOMAIN log : log[j].event = e => j <= m
  BY <1>3
<1> HIDE DEF m, copies
<1>6. m <= last[g] /\ m \notin pending[g]
  BY <1>1, <1>4 DEF InFlight
<1>7. m <= trimmed \/ Outcome(g, m)
  BY <1>1, <1>4, <1>6 DEF AckedHasOutcome
<1>8. ~ Outcome(g, m)
  <2>1. ~ Settled(log[m].event, g)
    BY <1>4
  <2>2. ASSUME NEW j \in DOMAIN log, j > m, log[j] = [log[m] EXCEPT !.attempt = @ + 1]
        PROVE  FALSE
    <3>1. log[j].event = e
      BY <1>1, <1>4, <2>2 DEF Entries
    <3>2. j <= m
      BY <1>5, <3>1
    <3>3. j \in Nat /\ m \in Nat
      BY <1>1, <1>4
    <3> QED
      BY <2>2, <3>2, <3>3
  <2> QED
    BY <2>1, <2>2 DEF Outcome
<1> QED
  BY <1>1, <1>4, <1>7, <1>8

\* Whatever dies and whenever, the work an event owes to a group is done,
\* parked, in flight or trimmed.
THEOREM NothingIsLost == Spec => []NothingLost
  BY InvNothingLost, Invariance, PTL

\* Only Ack and Reclaim shorten a group's list: the one after the outcome, the
\* other by what MAXLEN has trimmed.
LEMMA StepAcksAfterOutcome ==
    ASSUME Inv, Next, NEW g \in Groups, NEW i \in pending[g] \ pending'[g]
    PROVE  Outcome(g, i) \/ i <= trimmed
<1> USE DEF Inv
<1>1. pending \in [Groups -> SUBSET (1..Len(log))] /\ trimmed \in Nat /\ Len(log) \in Nat
  BY DEF TypeOK
<1>2. PICK c \in Consumers : ProcessStep(c) \/ Crash(c)
  BY DEF Next, Publish, groupVars
<1>3. GroupOf[c] \in Groups
  BY GroupAssumption
<1>4. CASE Ack(c)
  <2>1. g = GroupOf[c] /\ i = Current(c)
    BY <1>1, <1>3, <1>4 DEF Ack
  <2> QED
    BY <1>4, <2>1, AckInv
<1>5. CASE Reclaim(c)
  BY <1>1, <1>3, <1>5 DEF Reclaim, Present
<1>6. CASE Consume(c)
  BY <1>1, <1>3, <1>6 DEF Consume
<1>7. CASE ~ (Ack(c) \/ Reclaim(c) \/ Consume(c))
  <2>1. pending' = pending
    BY <1>2, <1>7 DEF ProcessStep, StartupSweep, RunSucceeds, RunFails, Retry,
                      RecordDeadLetter, PublishDeadLetter, Crash, Restart, groupVars
  <2> QED
    BY <2>1
<1> QED
  BY <1>4, <1>5, <1>6, <1>7

\* An acknowledgement never comes before the outcome it stands for.
THEOREM AckedAfterOutcome == Spec => AckAfterOutcome
<1>1. ASSUME Inv, [Next]_vars
      PROVE  [\A g \in Groups : \A i \in pending[g] \ pending'[g] :
                 \/ Settled(log[i].event, g)
                 \/ i <= trimmed
                 \/ \E j \in DOMAIN log : j > i /\ log[j] = [log[i] EXCEPT !.attempt = @ + 1]]_vars
  <2>1. CASE UNCHANGED vars
    BY <2>1
  <2>2. CASE Next
    BY <1>1, <2>2, StepAcksAfterOutcome DEF Outcome
  <2> QED
    BY <1>1, <2>1, <2>2
<1> QED
  BY <1>1, Invariance, PTL DEF Spec, AckAfterOutcome
=============================================================================
