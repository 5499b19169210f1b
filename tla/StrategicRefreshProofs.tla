------------------------ MODULE StrategicRefreshProofs ------------------------
(***************************************************************************)
(* Proofs about StrategicRefresh, for any number of workers, requests,     *)
(* sessions and faults.                                                    *)
(***************************************************************************)
EXTENDS StrategicRefresh, FiniteSetTheorems, WellFoundedInduction, TLAPS

\* Versions are numbered in the order of their commits.
Order == \A s \in Sessions : \A i \in DOMAIN rows[s] : rows[s][i] = i

\* The row of a session is locked by the run that writes its next version.
Locking ==
    \A s \in Sessions, p \in Procs :
        locked[s] = p <=> pc[p] = "write" /\ Subject(p) = s

\* The number it has read is still the next one.
Numbered ==
    \A p \in Procs : pc[p] = "write" => draft[p].number = Len(rows[Subject(p)]) + 1

\* The inductive invariant.
Inv == TypeOK /\ Order /\ Locking /\ Numbered

-----------------------------------------------------------------------------
(* Lemmas about the operators the actions are built from.                  *)

\* A set of numbers has a least element, and Min is it.
LEMMA MinOfNumbers ==
    ASSUME NEW S \in SUBSET Nat, S # {}
    PROVE  Min(S) \in S /\ \A n \in S : Min(S) <= n
<1>1. \E m \in S : \A n \in S : ~ (<<n, m>> \in OpToRel(<, Nat))
  BY NatLessThanWellFounded, WFMin, Zenon
<1>2. PICK m \in S : \A n \in S : ~ (n < m)
  BY <1>1 DEF OpToRel
<1>3. \A n \in S : m <= n
  BY <1>2
<1> QED
  BY <1>3 DEF Min

\* A process that has a subject has one of the sessions.
LEMMA SubjectType ==
    ASSUME TypeOK, NEW p \in Procs, pc[p] \notin {"idle", "claim"}
    PROVE  Subject(p) \in Sessions /\ (p \in Workers => batch[p] # <<>>)
<1>1. CASE p \in Workers
  BY <1>1 DEF TypeOK, Subject
<1>2. CASE p \notin Workers
  BY <1>2, OnAssumption DEF Subject, Procs
<1> QED
  BY <1>1, <1>2

\* The subject of a process is part of its own state.
LEMMA SubjectOwn ==
    ASSUME NEW p \in Procs, p \in Workers => batch'[p] = batch[p]
    PROVE  Subject(p)' = Subject(p)
BY DEF Subject

\* A draft keeps its type when one of its fields is set.
LEMMA DraftType ==
    ASSUME TypeOK, NEW p \in Procs
    PROVE  /\ \A n \in Nat : [draft EXCEPT ![p].number = n] \in [Procs -> Drafts]
           /\ \A b \in BOOLEAN : [draft EXCEPT ![p].rule = b] \in [Procs -> Drafts]
           /\ \A b \in BOOLEAN : [draft EXCEPT ![p].brief = b] \in [Procs -> Drafts]
           /\ \A d \in Settings : [draft EXCEPT ![p].settings = d] \in [Procs -> Drafts]
<1>1. draft[p] \in Drafts
  BY DEF TypeOK
<1>2. /\ \A n \in Nat : [draft[p] EXCEPT !.number = n] \in Drafts
      /\ \A b \in BOOLEAN : [draft[p] EXCEPT !.rule = b] \in Drafts
      /\ \A b \in BOOLEAN : [draft[p] EXCEPT !.brief = b] \in Drafts
      /\ \A d \in Settings : [draft[p] EXCEPT !.settings = d] \in Drafts
  BY <1>1 DEF Drafts
<1> QED
  BY <1>2 DEF TypeOK

\* What a payload can make of the settings.
LEMMA SettingsType ==
    /\ Kept \in Settings /\ Blank \in Drafts
    /\ \A p, s : Chosen(p, s) \subseteq Settings /\ Briefed(s) \subseteq Settings
<1>1. Kept \in Settings
  BY DEF Kept, Settings
<1>2. Blank \in Drafts
  BY <1>1 DEF Blank, Drafts
<1>3. ASSUME NEW p, NEW s PROVE Chosen(p, s) \subseteq Settings /\ Briefed(s) \subseteq Settings
  <2>1. Loaded(s) \subseteq BOOLEAN
    BY DEF Loaded
  <2> QED
    BY <2>1 DEF Chosen, Briefed, Settings
<1> QED
  BY <1>1, <1>2, <1>3

\* A worker that goes on with its batch.
LEMMA NextOfBatch ==
    ASSUME TypeOK, NEW p \in Workers, batch[p] # <<>>,
           batch' = [batch EXCEPT ![p] = Tail(@)], pc' = [pc EXCEPT ![p] = "claim"]
    PROVE  /\ batch' \in [Workers -> Seq(Sessions)]
           /\ pc' \in [Procs -> {"idle", "claim", "brief", "ensure", "insert", "lock",
                                 "write", "failing", "late", "done"}]
           /\ \A w \in Workers : pc'[w] \notin {"idle", "claim"} => batch'[w] # <<>>
<1>1. p \in Procs
  BY DEF Procs
<1>2. Tail(batch[p]) \in Seq(Sessions)
  BY DEF TypeOK
<1>3. batch' \in [Workers -> Seq(Sessions)]
  BY <1>2 DEF TypeOK
<1>4. pc' \in [Procs -> {"idle", "claim", "brief", "ensure", "insert", "lock",
                        "write", "failing", "late", "done"}]
  BY <1>1 DEF TypeOK
<1>5. ASSUME NEW w \in Workers, pc'[w] \notin {"idle", "claim"} PROVE batch'[w] # <<>>
  <2>1. w # p
    BY <1>1, <1>5 DEF TypeOK
  <2>2. w \in Procs /\ pc'[w] = pc[w]
    BY <2>1 DEF Procs, TypeOK
  <2> QED
    BY <1>5, <2>1, <2>2 DEF TypeOK
<1> QED
  BY <1>3, <1>4, <1>5

\* The locks keep their types when a transaction ends.
LEMMA ReleaseType ==
    ASSUME TypeOK, NEW p, Release(p)
    PROVE  /\ updating' \in [Sessions -> Procs \cup {None}]
           /\ locked' \in [Sessions -> Procs \cup {None}]
           /\ sharing' \in [Sessions -> SUBSET Procs]
BY DEF TypeOK, Release

\* On a timeline in order the next number is one more than its length.
LEMMA NextNumberInOrder ==
    ASSUME TypeOK, Order, NEW s \in Sessions
    PROVE  NextNumber(s) = Len(rows[s]) + 1
<1> DEFINE r == rows[s]
           S == {0} \cup Range(r)
           n == Len(r)
<1>1. r \in Seq(Nat \ {0}) /\ n \in Nat /\ DOMAIN r = 1..n /\ \A i \in DOMAIN r : r[i] = i
  BY DEF TypeOK, Order
<1>2. \A k \in S : k \in Nat /\ k <= n
  BY <1>1 DEF Range
<1>3. n \in S
  BY <1>1 DEF Range
<1>4. S \in SUBSET Nat /\ S # {} /\ n \in Nat /\ \A k \in S : k <= n
  BY <1>1, <1>2
<1> HIDE DEF S, n
<1>5. Max(S) \in S /\ \A k \in S : k <= Max(S)
  BY <1>2, <1>3 DEF Max
<1>6. Max(S) = n
  <2> DEFINE m == Max(S)
  <2>1. m \in S /\ n <= m
    BY <1>3, <1>5
  <2> HIDE DEF m
  <2>2. m \in Nat /\ m <= n
    BY <1>2, <2>1
  <2>3. m = n
    BY <1>4, <2>1, <2>2
  <2> QED
    BY <2>3 DEF m
<1> QED
  BY <1>6 DEF NextNumber, S, n

\* What a process leaves alone when it takes a step.
Others(p) ==
    \A q \in Procs \ {p} :
        /\ pc'[q] = pc[q] /\ draft'[q] = draft[q]
        /\ q \in Workers => batch'[q] = batch[q]

\* A step of p that adds no version, and after which p does not hold the lock
\* of a session, keeps the numbering.
LEMMA OrderKept ==
    ASSUME Inv, NEW p \in Procs, Others(p), UNCHANGED rows, pc'[p] # "write",
           \A s \in Sessions : locked'[s] = IF locked[s] = p THEN None ELSE locked[s]
    PROVE  Order' /\ Locking' /\ Numbered'
<1>1. \A q \in Procs \ {p} : Subject(q)' = Subject(q)
  BY SubjectOwn DEF Others
<1>2. Order'
  BY DEF Inv, Order
<1>3. Locking'
  <2> SUFFICES ASSUME NEW s \in Sessions, NEW q \in Procs
               PROVE  locked'[s] = q <=> pc'[q] = "write" /\ Subject(q)' = s
    BY DEF Locking
  <2>1. CASE q = p
    BY <2>1, ProcsAssumption
  <2>2. CASE q # p
    BY <1>1, <2>2, ProcsAssumption DEF Others, Inv, Locking
  <2> QED
    BY <2>1, <2>2
<1>4. Numbered'
  BY <1>1 DEF Others, Inv, Numbered
<1> QED
  BY <1>2, <1>3, <1>4

\* A process that is not at its write has no lock to give back.
LEMMA NoLock ==
    ASSUME Inv, NEW p \in Procs, pc[p] # "write"
    PROVE  \A s \in Sessions : locked[s] = IF locked[s] = p THEN None ELSE locked[s]
BY DEF Inv, Locking

-----------------------------------------------------------------------------
(* The invariant is inductive.                                             *)

\* It holds before the first round.
LEMMA InitInv == Init => Inv
<1> SUFFICES ASSUME Init PROVE Inv
  OBVIOUS
<1>1. TypeOK
  <2>1. /\ rows \in [Sessions -> Seq(Nat \ {0})]
        /\ batch \in [Workers -> Seq(Sessions)] /\ todo \in [Workers -> SUBSET Sessions]
    BY DEF Init
  <2>2. draft \in [Procs -> Drafts]
    BY SettingsType DEF Init
  <2>3. \A w \in Workers : pc[w] = "idle"
    BY DEF Init, Procs
  <2> QED
    BY <2>1, <2>2, <2>3, BoundsAssumption DEF Init, TypeOK
<1>2. Locking
  BY ProcsAssumption DEF Init, Locking
<1> QED
  BY <1>1, <1>2 DEF Init, Inv, Order, Numbered

\* Claims and the beginnings of runs.
LEMMA BeginningInv ==
    ASSUME Inv, NEW p \in Procs,
           \/ p \in Workers /\ (Select(p) \/ Claim(p) \/ Take(p) \/ Fail(p))
           \/ Begin(p) \/ Ensure(p) \/ InsertRule(p)
    PROVE  Inv'
<1> USE DEF Inv
<1>1. /\ UNCHANGED <<rows, locked>> /\ pc[p] # "write" /\ pc'[p] # "write"
  BY DEF Select, Claim, Take, Fail, Begin, Ensure, InsertRule, Goto, table, locks, TypeOK
<1>2. Others(p)
  BY DEF Select, Claim, Take, Fail, Begin, Ensure, InsertRule, Goto, plan, TypeOK, Others
<1>3. Order' /\ Locking' /\ Numbered'
  BY <1>1, <1>2, OrderKept, NoLock
<1>4. TypeOK'
  <2>1. CASE p \in Workers /\ Select(p)
    BY <2>1 DEF Select, Goto, TypeOK, table, locks, budgets
  <2>2. CASE p \in Workers /\ Claim(p)
    <3>1. Min(todo[p]) \in Sessions
      <4>a. todo[p] # {} /\ todo[p] \subseteq Sessions
        BY <2>2 DEF Claim, TypeOK
      <4>b. Sessions \subseteq Nat
        BY OnAssumption DEF Sessions
      <4>1. todo[p] \in SUBSET Nat /\ todo[p] # {} /\ todo[p] \subseteq Sessions
        BY <4>a, <4>b
      <4> QED
        BY <4>1, MinOfNumbers
    <3> DEFINE s == Min(todo[p])
    <3>2. s \in Sessions
      BY <3>1
    <3>3. /\ todo' = [todo EXCEPT ![p] = @ \ {s}]
          /\ \/ UNCHANGED <<updating, batch>>
             \/ /\ updating' = [updating EXCEPT ![s] = p]
                /\ batch' = [batch EXCEPT ![p] = Append(@, s)]
          /\ pc[p] = "claim"
          /\ UNCHANGED <<table, pc, draft, locked, sharing, budgets>>
      BY <2>2 DEF Claim
    <3> HIDE DEF s
    <3>4. batch' \in [Workers -> Seq(Sessions)]
      <4>1. batch[p] \in Seq(Sessions) /\ Append(batch[p], s) \in Seq(Sessions)
        BY <2>2, <3>2 DEF TypeOK
      <4> QED
        BY <2>2, <3>3, <4>1 DEF TypeOK
    <3>5. \A w \in Workers : pc[w] \notin {"idle", "claim"} => batch'[w] # <<>>
      BY <2>2, <3>3 DEF TypeOK
    <3>6. updating' \in [Sessions -> Procs \cup {None}] /\ todo' \in [Workers -> SUBSET Sessions]
      BY <2>2, <3>2, <3>3 DEF TypeOK
    <3> QED
      BY <3>3, <3>4, <3>5, <3>6 DEF TypeOK, table, budgets
  <2>3. CASE p \in Workers /\ Take(p)
    BY <2>3 DEF Take, Goto, TypeOK, table, plan, locks, budgets
  <2>4. CASE p \in Workers /\ Fail(p)
    BY <2>4, BoundsAssumption DEF Fail, Turn, Goto, TypeOK, table, plan, locks
  <2>5. CASE Begin(p)
    <3>1. p \notin Workers /\ pc[p] = "idle" /\ UNCHANGED <<table, plan, locks, budgets>>
      BY <2>5, ProcsAssumption DEF Begin
    <3>2. draft' \in [Procs -> Drafts]
      <4>1. draft' = draft \/ \E brief \in BOOLEAN : draft' = [draft EXCEPT ![p].brief = brief]
        BY <2>5 DEF Begin
      <4>2. CASE draft' = draft
        BY <4>2 DEF TypeOK
      <4>3. ASSUME NEW brief \in BOOLEAN, draft' = [draft EXCEPT ![p].brief = brief]
            PROVE  draft' \in [Procs -> Drafts]
        BY <4>3, DraftType
      <4> QED
        BY <4>1, <4>2, <4>3
    <3>3. pc' \in {[pc EXCEPT ![p] = "lock"], [pc EXCEPT ![p] = "ensure"]}
      BY <2>5 DEF Begin, Goto
    <3>4. /\ pc' \in [Procs -> {"idle", "claim", "brief", "ensure", "insert", "lock",
                                "write", "failing", "late", "done"}]
          /\ \A w \in Workers : pc'[w] = pc[w]
      BY <3>1, <3>3 DEF TypeOK, Procs
    <3> QED
      BY <3>1, <3>2, <3>4 DEF TypeOK, table, plan, locks, budgets
  <2>6. CASE Ensure(p)
    <3>1. Subject(p) \in Sessions
      BY <2>6, SubjectType DEF Ensure
    <3>2. pc' \in [Procs -> {"idle", "claim", "brief", "ensure", "insert", "lock",
                             "write", "failing", "late", "done"}]
      BY <2>6 DEF Ensure, Goto, TypeOK
    <3>3. updating' \in [Sessions -> Procs \cup {None}]
      BY <2>6, <3>1 DEF Ensure, TypeOK
    <3>4. draft' \in [Procs -> Drafts]
      <4>1. draft' = draft \/ \E d \in Settings : draft' = [draft EXCEPT ![p].settings = d]
        <5>1. {Kept} \cup Chosen(p, Subject(p)) \subseteq Settings /\ Briefed(Subject(p)) \subseteq Settings
          BY SettingsType
        <5> QED
          BY <2>6, <5>1 DEF Ensure
      <4>2. CASE draft' = draft
        BY <4>2 DEF TypeOK
      <4>3. ASSUME NEW d \in Settings, draft' = [draft EXCEPT ![p].settings = d]
            PROVE  draft' \in [Procs -> Drafts]
        BY <4>3, DraftType
      <4> QED
        BY <4>1, <4>2, <4>3
    <3>5. \A w \in Workers : pc'[w] \notin {"idle", "claim"} => batch[w] # <<>>
      BY <2>6 DEF Ensure, Goto, TypeOK
    <3> QED
      BY <2>6, <3>2, <3>3, <3>4, <3>5 DEF Ensure, TypeOK, table, plan, budgets
  <2>7. CASE InsertRule(p)
    <3>1. Subject(p) \in Sessions
      BY <2>7, SubjectType DEF InsertRule
    <3>2. draft' \in [Procs -> Drafts]
      BY <2>7, DraftType DEF InsertRule
    <3>3. sharing' \in [Sessions -> SUBSET Procs]
      BY <2>7, <3>1 DEF InsertRule, TypeOK
    <3>4. pc' = [pc EXCEPT ![p] = "lock"] /\ pc[p] = "insert"
      BY <2>7 DEF InsertRule, Goto
    <3> QED
      BY <2>7, <3>2, <3>3, <3>4 DEF InsertRule, TypeOK, table, plan, budgets
  <2> QED
    BY <2>1, <2>2, <2>3, <2>4, <2>5, <2>6, <2>7
<1> QED
  BY <1>3, <1>4

\* Ends of transactions that store no version.
LEMMA EndingInv ==
    ASSUME Inv, NEW p \in Procs,
           \/ p \in Workers /\ (Retire(p) \/ Brief(p) \/ MarkFailure(p) \/ Escape(p))
           \/ StoreFails(p) \/ Deadlock(p)
    PROVE  Inv'
<1> USE DEF Inv
<1>1. /\ UNCHANGED <<open, rules, rows>> /\ pc'[p] # "write" /\ Release(p)
      /\ pc[p] \in {"idle", "claim"} => p \in Workers /\ Escape(p)
  BY DEF Retire, Brief, MarkFailure, Escape, StoreFails, Deadlock, Swallow, Goto,
         CommitClaims, table, TypeOK, Storing, WaitsFor
<1>2. Others(p)
  BY DEF Retire, Brief, MarkFailure, Escape, StoreFails, Deadlock, Swallow, Goto,
         plan, TypeOK, Others
<1>3. \A s \in Sessions : locked'[s] = IF locked[s] = p THEN None ELSE locked[s]
  BY <1>1 DEF Release
<1>4. Order' /\ Locking' /\ Numbered'
  BY <1>1, <1>2, <1>3, OrderKept
<1>5. TypeOK'
  <2>1. /\ updating' \in [Sessions -> Procs \cup {None}]
        /\ locked' \in [Sessions -> Procs \cup {None}]
        /\ sharing' \in [Sessions -> SUBSET Procs]
    BY <1>1, ReleaseType
  <2>2. CASE p \in Workers /\ Escape(p)
    BY <1>1, <2>1, <2>2, BoundsAssumption, SettingsType DEF Escape, Turn, Goto, TypeOK, table
  <2>3. CASE p \in Workers /\ (Retire(p) \/ Brief(p) \/ MarkFailure(p))
    <3>1. Subject(p) \in Sessions /\ batch[p] # <<>>
      BY <2>3, SubjectType DEF Retire, Brief, MarkFailure
    <3>2. schedule' \in [Sessions -> {"due", "later", "off"}]
      <4>1. CASE Retire(p)
        BY <4>1, <3>1 DEF Retire, TypeOK
      <4>2. CASE Brief(p)
        BY <4>2, <3>1 DEF Brief, TypeOK
      <4>3. CASE MarkFailure(p)
        <5>1. PICK retry \in {"later", "off"} :
                schedule' = [schedule EXCEPT ![Subject(p)] = retry]
          BY <4>3 DEF MarkFailure
        <5> QED
          BY <5>1, <3>1 DEF TypeOK
      <4> QED
        BY <2>3, <4>1, <4>2, <4>3
    <3>3. lease' \in [Sessions -> {"none", "live", "expired"}]
      BY <2>3 DEF Retire, Brief, MarkFailure, CommitClaims, TypeOK
    <3>4. /\ batch' \in [Workers -> Seq(Sessions)]
          /\ pc' \in [Procs -> {"idle", "claim", "brief", "ensure", "insert", "lock",
                                "write", "failing", "late", "done"}]
          /\ \A w \in Workers : pc'[w] \notin {"idle", "claim"} => batch'[w] # <<>>
      <4>1. CASE Retire(p) \/ MarkFailure(p)
        <5>1. /\ batch' = [batch EXCEPT ![p] = Tail(@)] /\ pc' = [pc EXCEPT ![p] = "claim"]
          BY <4>1 DEF Retire, MarkFailure, Goto
        <5> QED
          BY <2>3, <3>1, <5>1, NextOfBatch
      <4>2. CASE Brief(p)
        BY <2>3, <3>1, <4>2 DEF Brief, Goto, TypeOK, plan
      <4> QED
        BY <2>3, <4>1, <4>2
    <3>5. /\ UNCHANGED <<todo, draft, turns>>
          /\ losses' \in {losses, losses + 1}
      BY <2>3 DEF Retire, Brief, MarkFailure, Lose, plan, budgets
    <3> QED
      BY <1>1, <2>1, <3>2, <3>3, <3>4, <3>5 DEF TypeOK
  <2>4. CASE StoreFails(p) \/ Deadlock(p)
    <3>1. /\ Swallow(p) /\ UNCHANGED losses
          /\ turns' \in {turns} \cup 0..MaxTurns
          /\ pc[p] \notin {"idle", "claim"}
      BY <2>4, BoundsAssumption DEF StoreFails, Deadlock, Turn, Storing, WaitsFor, budgets, TypeOK
    <3>3. /\ batch' \in [Workers -> Seq(Sessions)]
          /\ pc' \in [Procs -> {"idle", "claim", "brief", "ensure", "insert", "lock",
                                "write", "failing", "late", "done"}]
          /\ \A w \in Workers : pc'[w] \notin {"idle", "claim"} => batch'[w] # <<>>
      <4>1. CASE p \in Workers
        <5>1. /\ batch' = [batch EXCEPT ![p] = <<>>] /\ pc' = [pc EXCEPT ![p] = "idle"]
          BY <3>1, <4>1 DEF Swallow, Goto
        <5> QED
          BY <4>1, <5>1 DEF TypeOK
      <4>2. CASE p \notin Workers
        <5>1. batch' = batch /\ pc' = [pc EXCEPT ![p] = "done"]
          BY <3>1, <4>2 DEF Swallow, Goto
        <5>2. \A w \in Workers : pc'[w] = pc[w]
          BY <4>2, <5>1 DEF TypeOK, Procs
        <5> QED
          BY <5>1, <5>2 DEF TypeOK
      <4> QED
        BY <4>1, <4>2
    <3> QED
      BY <1>1, <2>1, <3>1, <3>3, SettingsType DEF Swallow, TypeOK
  <2> QED
    BY <2>2, <2>3, <2>4
<1> QED
  BY <1>4, <1>5

\* The number is read under the lock that nobody else holds.
LEMMA LockTimelineInv ==
    ASSUME Inv, NEW p \in Procs, LockTimeline(p)
    PROVE  Inv'
<1> USE DEF Inv
<1> DEFINE s == Subject(p)
<1>1. s \in Sessions
  BY SubjectType DEF LockTimeline
<1>2. /\ pc[p] = "lock" /\ pc' = [pc EXCEPT ![p] = "write"]
      /\ locked[s] \in {None, p} /\ locked' = [locked EXCEPT ![s] = p]
      /\ draft' = [draft EXCEPT ![p].number = NextNumber(s)]
      /\ UNCHANGED <<table, plan, updating, sharing, budgets>>
  BY DEF LockTimeline, Lockable, MayUpdate, Goto
<1> HIDE DEF s
<1>3. Len(rows[s]) \in Nat /\ NextNumber(s) = Len(rows[s]) + 1
  BY <1>1, NextNumberInOrder DEF TypeOK
<1>4. TypeOK'
  <2>1. draft' \in [Procs -> Drafts]
    <3>1. NextNumber(s) \in Nat
      BY <1>3
    <3> QED
      BY <1>2, <3>1, DraftType
  <2>2. locked' \in [Sessions -> Procs \cup {None}]
    BY <1>1, <1>2 DEF TypeOK
  <2>3. \A w \in Workers : pc'[w] \notin {"idle", "claim"} => batch'[w] # <<>>
    BY <1>2 DEF TypeOK, plan
  <2> QED
    BY <1>2, <2>1, <2>2, <2>3 DEF TypeOK, table, plan, budgets
<1>5. Order'
  BY <1>2 DEF Order, table
<1>6. \A q \in Procs : Subject(q)' = Subject(q)
  BY <1>2 DEF Subject, plan
<1>7. locked[s] = None
  BY <1>1, <1>2 DEF Locking
<1>8. Locking'
  <2> SUFFICES ASSUME NEW t \in Sessions, NEW q \in Procs
               PROVE  locked'[t] = q <=> pc'[q] = "write" /\ Subject(q) = t
    BY <1>6 DEF Locking
  <2>1. CASE q = p
    <3>1. pc'[p] = "write" /\ Subject(p) = s /\ locked[t] # p
      BY <1>2 DEF TypeOK, s, Locking
    <3> QED
      BY <1>1, <1>2, <2>1, <3>1 DEF TypeOK
  <2>2. CASE q # p
    <3>1. pc'[q] = pc[q] /\ (locked[t] = q <=> pc[q] = "write" /\ Subject(q) = t)
      BY <1>2, <2>2 DEF TypeOK, Locking
    <3>2. locked'[t] = q <=> locked[t] = q
      BY <1>1, <1>2, <1>7, <2>2, ProcsAssumption DEF TypeOK
    <3> QED
      BY <3>1, <3>2
  <2> QED
    BY <2>1, <2>2
<1>9. Numbered'
  <2> SUFFICES ASSUME NEW q \in Procs, pc'[q] = "write"
               PROVE  draft'[q].number = Len(rows[Subject(q)]) + 1
    BY <1>2, <1>6 DEF Numbered, table
  <2>1. CASE q = p
    BY <1>2, <1>3, <2>1 DEF TypeOK, s
  <2>2. CASE q # p
    BY <1>2, <2>2 DEF TypeOK, Numbered
  <2> QED
    BY <2>1, <2>2
<1> QED
  BY <1>4, <1>5, <1>8, <1>9

\* Settings are stored in the columns of one session.
LEMMA StoreType ==
    ASSUME TypeOK, NEW d \in Settings, NEW s \in Sessions, NEW p, Store(d, s, p)
    PROVE  /\ schedule' \in [Sessions -> {"due", "later", "off"}]
           /\ lease' \in [Sessions -> {"none", "live", "expired"}]
           /\ losses' \in Nat
           /\ \/ UNCHANGED <<lease, losses>>
              \/ lease' = [lease EXCEPT ![s] = "none"] /\ Lose(s, p)
<1>1. /\ d.refresh \in {"keep", "off", "due", "later"}
      /\ schedule' = [schedule EXCEPT ![s] = IF d.refresh = "keep" THEN @ ELSE d.refresh]
      /\ \/ UNCHANGED <<lease, losses>>
         \/ lease' = [lease EXCEPT ![s] = "none"] /\ Lose(s, p)
  BY DEF Store, Settings
<1>2. schedule' \in [Sessions -> {"due", "later", "off"}]
  BY <1>1 DEF TypeOK
<1>3. lease' \in [Sessions -> {"none", "live", "expired"}]
  BY <1>1 DEF TypeOK
<1>4. losses' \in Nat
  BY <1>1 DEF Lose, TypeOK
<1> QED
  BY <1>1, <1>2, <1>3, <1>4

\* A version is appended with the number of its place.
LEMMA WriteAppends ==
    ASSUME Inv, NEW p \in Procs, Write(p)
    PROVE  /\ Subject(p) \in Sessions /\ (p \in Workers => batch[p] # <<>>)
           /\ rows' = [rows EXCEPT ![Subject(p)] = Append(@, Len(@) + 1)]
<1> USE DEF Inv
<1>1. pc[p] = "write"
  BY DEF Write
<1>2. Subject(p) \in Sessions /\ (p \in Workers => batch[p] # <<>>)
  BY <1>1, SubjectType
<1>3. draft[p].number = Len(rows[Subject(p)]) + 1
  BY <1>1 DEF Numbered
<1> QED
  BY <1>2, <1>3 DEF Write, TypeOK

\* The writer was the only one with a number for this session.
LEMMA WriteInv ==
    ASSUME Inv, NEW p \in Procs, Write(p)
    PROVE  Inv'
<1> USE DEF Inv
<1> DEFINE s == Subject(p)
<1>1. /\ s \in Sessions /\ (p \in Workers => batch[p] # <<>>)
      /\ rows' = [rows EXCEPT ![s] = Append(@, Len(@) + 1)]
  BY WriteAppends
<1>2. /\ pc[p] = "write" /\ Release(p)
      /\ draft' = [draft EXCEPT ![p] = Blank]
      /\ rules' = [rules EXCEPT ![s] = IF draft[p].rule THEN @ + 1 ELSE @]
      /\ Store(draft[p].settings, s, p)
      /\ UNCHANGED <<open, todo, turns>>
  BY DEF Write
<1>3. IF p \in Workers THEN batch' = [batch EXCEPT ![p] = Tail(@)] /\ pc' = [pc EXCEPT ![p] = "claim"]
                       ELSE batch' = batch /\ pc' = [pc EXCEPT ![p] = "done"]
  BY DEF Write, Proceed, Goto
<1> HIDE DEF s
<1>4. TypeOK'
  <2>1. rows' \in [Sessions -> Seq(Nat \ {0})]
    <3>1. rows[s] \in Seq(Nat \ {0}) /\ Len(rows[s]) + 1 \in Nat \ {0}
      BY <1>1 DEF TypeOK
    <3> QED
      BY <1>1, <3>1 DEF TypeOK
  <2>2. /\ rules' \in [Sessions -> Nat] /\ schedule' \in [Sessions -> {"due", "later", "off"}]
        /\ lease' \in [Sessions -> {"none", "live", "expired"}]
        /\ losses' \in Nat /\ draft' \in [Procs -> Drafts]
    <3>1. rules' \in [Sessions -> Nat]
      BY <1>1, <1>2 DEF TypeOK
    <3>2. /\ schedule' \in [Sessions -> {"due", "later", "off"}]
          /\ lease' \in [Sessions -> {"none", "live", "expired"}]
          /\ losses' \in Nat
      <4>1. draft[p].settings \in Settings
        BY DEF TypeOK, Drafts
      <4> QED
        BY <1>1, <1>2, <4>1, StoreType
    <3>3. draft' \in [Procs -> Drafts]
      BY <1>2, SettingsType DEF TypeOK
    <3> QED
      BY <3>1, <3>2, <3>3
  <2>3. /\ batch' \in [Workers -> Seq(Sessions)]
        /\ pc' \in [Procs -> {"idle", "claim", "brief", "ensure", "insert", "lock",
                              "write", "failing", "late", "done"}]
        /\ \A w \in Workers : pc'[w] \notin {"idle", "claim"} => batch'[w] # <<>>
    <3>1. CASE p \in Workers
      BY <1>1, <1>3, <3>1, NextOfBatch
    <3>2. CASE p \notin Workers
      <4>1. \A w \in Workers : pc'[w] = pc[w]
        BY <1>3, <3>2 DEF TypeOK, Procs
      <4> QED
        BY <1>3, <3>2, <4>1 DEF TypeOK
    <3> QED
      BY <3>1, <3>2
  <2>4. /\ updating' \in [Sessions -> Procs \cup {None}]
        /\ locked' \in [Sessions -> Procs \cup {None}]
        /\ sharing' \in [Sessions -> SUBSET Procs]
    BY <1>2, ReleaseType
  <2> QED
    BY <1>2, <2>1, <2>2, <2>3, <2>4 DEF TypeOK
<1>5. Order'
  <2> SUFFICES ASSUME NEW t \in Sessions, NEW i \in DOMAIN rows'[t]
               PROVE  rows'[t][i] = i
    BY DEF Order
  <2>1. CASE t = s
    <3>1. rows[s] \in Seq(Nat \ {0}) /\ Len(rows[s]) \in Nat
          /\ \A k \in 1..Len(rows[s]) : rows[s][k] = k
      BY <1>1 DEF TypeOK, Order
    <3>2. rows'[s] = Append(rows[s], Len(rows[s]) + 1)
      BY <1>1 DEF TypeOK
    <3>3. i \in 1..Len(rows[s]) + 1
      BY <2>1, <3>1, <3>2
    <3> QED
      BY <2>1, <3>1, <3>2, <3>3
  <2>2. CASE t # s
    BY <1>1, <2>2 DEF TypeOK, Order
  <2> QED
    BY <2>1, <2>2
<1>6. \A q \in Procs \ {p} : /\ pc'[q] = pc[q] /\ draft'[q] = draft[q]
                             /\ Subject(q)' = Subject(q)
  BY <1>2, <1>3 DEF TypeOK, Subject
<1>7. pc'[p] # "write"
  BY <1>3 DEF TypeOK
<1>8. Locking'
  <2> SUFFICES ASSUME NEW t \in Sessions, NEW q \in Procs
               PROVE  locked'[t] = q <=> pc'[q] = "write" /\ Subject(q)' = t
    BY DEF Locking
  <2>1. locked'[t] = IF locked[t] = p THEN None ELSE locked[t]
    BY <1>2 DEF Release
  <2> QED
    BY <1>6, <1>7, <2>1, ProcsAssumption DEF Locking
<1>9. Numbered'
  <2> SUFFICES ASSUME NEW q \in Procs, pc'[q] = "write"
               PROVE  draft'[q].number = Len(rows'[Subject(q)']) + 1
    BY DEF Numbered
  <2>1. q # p /\ pc[q] = "write"
    BY <1>6, <1>7
  <2>2. Subject(q) # s /\ Subject(q) \in Sessions
    BY <1>1, <1>2, <2>1, SubjectType DEF Locking, s
  <2>3. rows'[Subject(q)] = rows[Subject(q)]
    BY <1>1, <2>2 DEF TypeOK
  <2> QED
    BY <1>6, <2>1, <2>3 DEF Numbered
<1> QED
  BY <1>4, <1>5, <1>8, <1>9

\* A request for new settings touches no timeline and no lock.
LEMMA SaveInv ==
    ASSUME Inv, NEW r \in Requests, Save(r)
    PROVE  Inv'
<1> USE DEF Inv
<1>1. r \in Procs /\ r \notin Workers
  BY ProcsAssumption DEF Procs
<1>2. /\ pc[r] = "idle" /\ pc' = [pc EXCEPT ![r] = "done"]
      /\ UNCHANGED <<open, rules, rows, plan, draft, locks, turns>>
  BY DEF Save, Goto
<1>3. Others(r) /\ pc'[r] # "write"
  BY <1>1, <1>2 DEF Others, TypeOK, plan
<1>4. Order' /\ Locking' /\ Numbered'
  BY <1>1, <1>2, <1>3, OrderKept, NoLock DEF locks
<1>5. TypeOK'
  <2>1. PICK d \in Chosen(r, On[r]) : Store(d, On[r], r)
    BY DEF Save
  <2>2. d \in Settings /\ On[r] \in Sessions
    BY SettingsType, OnAssumption
  <2>3. /\ schedule' \in [Sessions -> {"due", "later", "off"}]
        /\ lease' \in [Sessions -> {"none", "live", "expired"}]
        /\ losses' \in Nat
    BY <2>1, <2>2, StoreType
  <2>4. \A w \in Workers : pc'[w] = pc[w]
    BY <1>1, <1>2 DEF TypeOK, Procs
  <2> QED
    BY <1>2, <2>3, <2>4 DEF TypeOK, plan, locks
<1> QED
  BY <1>4, <1>5

\* Time touches schedules, windows and leases only.
LEMMA TimeInv ==
    ASSUME Inv, NEW s \in Sessions, Expire(s) \/ ComeDue(s) \/ CloseWindow(s)
    PROVE  Inv'
<1> USE DEF Inv
<1>1. UNCHANGED <<rules, rows, pc, plan, draft, locks>>
  BY DEF Expire, ComeDue, CloseWindow
<1>2. TypeOK'
  <2>1. turns' \in 0..MaxTurns /\ losses' \in Nat
    BY BoundsAssumption DEF Expire, ComeDue, CloseWindow, Turn, TypeOK, budgets
  <2>2. /\ schedule' \in [Sessions -> {"due", "later", "off"}]
        /\ open' \in [Sessions -> BOOLEAN]
        /\ lease' \in [Sessions -> {"none", "live", "expired"}]
    BY DEF Expire, ComeDue, CloseWindow, TypeOK
  <2> QED
    BY <1>1, <2>1, <2>2 DEF TypeOK, plan, locks
<1>3. Order' /\ Locking' /\ Numbered'
  BY <1>1 DEF Order, Locking, Numbered, Subject, plan, locks
<1> QED
  BY <1>2, <1>3

\* Every step keeps the invariant, and so does a step that changes nothing.
LEMMA NextInv == Inv /\ [Next]_vars => Inv'
<1> SUFFICES ASSUME Inv, [Next]_vars PROVE Inv'
  OBVIOUS
<1>1. CASE UNCHANGED vars
  BY <1>1 DEF vars, table, plan, locks, budgets, Inv, TypeOK, Order, Locking, Numbered, Subject
<1>2. ASSUME NEW w \in Workers, WorkerStep(w) \/ Fail(w) \/ Escape(w) PROVE Inv'
  <2>1. w \in Procs
    BY DEF Procs
  <2> QED
    BY <1>2, <2>1, BeginningInv, EndingInv DEF WorkerStep
<1>3. ASSUME NEW r \in Requests, Begin(r) \/ Save(r) PROVE Inv'
  BY <1>3, BeginningInv, SaveInv DEF Procs
<1>4. ASSUME NEW p \in Procs, RunStep(p) \/ StoreFails(p) PROVE Inv'
  BY <1>4, BeginningInv, LockTimelineInv, WriteInv, EndingInv DEF RunStep
<1>5. ASSUME NEW s \in Sessions, Expire(s) \/ ComeDue(s) \/ CloseWindow(s) PROVE Inv'
  BY <1>5, TimeInv
<1> QED
  BY <1>1, <1>2, <1>3, <1>4, <1>5 DEF Next

\* The invariant holds in every reachable state.
LEMMA Invariance == Spec => []Inv
  BY InitInv, NextInv, PTL DEF Spec

-----------------------------------------------------------------------------
(* What readers of a session rely on.                                      *)

\* Every column and local variable has its type.
THEOREM TypeCorrect == Spec => []TypeOK
<1>1. Inv => TypeOK
  BY DEF Inv
<1> QED
  BY <1>1, Invariance, PTL

\* Only a write adds to a timeline.
LEMMA StepRefines == Inv /\ [Next]_vars => [Abstract!Next]_rows
<1> SUFFICES ASSUME Inv, [Next]_vars, rows' # rows PROVE Abstract!Next
  OBVIOUS
<1>1. \E p \in Procs : Write(p)
  <2>1. ~ UNCHANGED vars
    BY DEF vars, table
  <2>2. ASSUME NEW w \in Workers, WorkerStep(w) \/ Fail(w) \/ Escape(w) PROVE FALSE
    BY <2>2 DEF WorkerStep, Fail, Escape, Select, Claim, Take, Retire, Brief, MarkFailure, table
  <2>3. ASSUME NEW r \in Requests, Begin(r) \/ Save(r) PROVE FALSE
    BY <2>3 DEF Begin, Save, table
  <2>4. ASSUME NEW p \in Procs, RunStep(p) \/ StoreFails(p), ~ Write(p) PROVE FALSE
    BY <2>4 DEF RunStep, Ensure, InsertRule, LockTimeline, Deadlock, StoreFails, Swallow, table
  <2>5. ASSUME NEW s \in Sessions, Expire(s) \/ ComeDue(s) \/ CloseWindow(s) PROVE FALSE
    BY <2>5 DEF Expire, ComeDue, CloseWindow
  <2> QED
    BY <2>1, <2>2, <2>3, <2>4, <2>5 DEF Next
<1>2. PICK p \in Procs : Write(p)
  BY <1>1
<1>3. /\ Subject(p) \in Sessions
      /\ rows' = [rows EXCEPT ![Subject(p)] = Append(@, Len(@) + 1)]
  BY <1>2, WriteAppends
<1> QED
  BY <1>3 DEF Abstract!Next, Abstract!Grow

\* However workers, requests and polls interleave, the versions of a session
\* form one gapless timeline: the lock of create_version makes the maximum
\* that it reads the latest committed version.
THEOREM TimelineRefined == Spec => ImplementsTimeline
<1>1. Init => Abstract!Init
  BY DEF Init, Abstract!Init
<1> QED
  BY <1>1, Invariance, StepRefines, PTL DEF Spec, ImplementsTimeline, Abstract!Spec

-----------------------------------------------------------------------------
(* Overlapping claims.  The workers that have claimed a session, and what   *)
(* keeps others from claiming it: a live lease, or the row lock of a claim  *)
(* that is not committed yet.                                              *)

Claimants(s) == {w \in Workers : s \in Claimed(w)}

Covered(s) == lease[s] = "live" \/ \E w \in Claimants(s) : updating[s] = w

\* A covered session has one claimant more than it lost leases.
Accounted(s) ==
    /\ IsFiniteSet(Claimants(s))
    /\ Cardinality(Claimants(s)) <= losses + (IF Covered(s) THEN 1 ELSE 0)

\* A worker has a session once in its batch and never again among its
\* candidates; while it stores results it locks no row that it has only claimed.
Orderly(w) ==
    /\ pc[w] = "idle" => batch[w] = <<>>
    /\ pc[w] \notin {"idle", "claim"} => todo[w] = {}
    /\ todo[w] \cap Sought(w) = {}
    /\ \A i, j \in DOMAIN batch[w] : batch[w][i] = batch[w][j] => i = j
    /\ Storing(w) => \A s \in Sessions : updating[s] = w => s = Subject(w)

ClaimInv ==
    /\ \A w \in Workers : Orderly(w)
    /\ \A s \in Sessions : Accounted(s)

\* How the claimants D and the cover b of a session may differ from the C and a
\* before a step that counts n instead of m losses.
LEMMA Counting ==
    ASSUME NEW C, NEW D, NEW m \in Nat, NEW n \in {m, m + 1}, NEW a \in BOOLEAN, NEW b \in BOOLEAN,
           IsFiniteSet(C), Cardinality(C) <= m + (IF a THEN 1 ELSE 0),
           \/ D \subseteq C /\ (a => b)
           \/ \E x \in C : D \subseteq C \ {x}
           \/ D \subseteq C /\ n = m + 1
           \/ ~a /\ b /\ \E x : D \subseteq C \cup {x}
           \/ D = {}
    PROVE  IsFiniteSet(D) /\ Cardinality(D) <= n + (IF b THEN 1 ELSE 0)
<1>1. Cardinality(C) \in Nat
  BY FS_CardinalityType
<1>2. CASE D \subseteq C
  <2>1. IsFiniteSet(D) /\ Cardinality(D) \in Nat /\ Cardinality(D) <= Cardinality(C)
    BY <1>2, FS_Subset, FS_CardinalityType
  <2>2. CASE (a => b) \/ n = m + 1
    BY <1>1, <2>1, <2>2
  <2>3. ASSUME NEW x \in C, D \subseteq C \ {x}
        PROVE  IsFiniteSet(D) /\ Cardinality(D) <= n + (IF b THEN 1 ELSE 0)
    <3>1. IsFiniteSet(C \ {x}) /\ Cardinality(C \ {x}) = Cardinality(C) - 1
      BY <2>3, FS_RemoveElement
    <3>2. Cardinality(D) <= Cardinality(C) - 1
      BY <2>3, <3>1, FS_Subset
    <3> QED
      BY <1>1, <2>1, <3>2
  <2>4. CASE D = {}
    BY <2>4, FS_EmptySet
  <2>5. CASE ~a /\ b
    BY <1>1, <2>1, <2>5
  <2> QED
    BY <2>2, <2>3, <2>4, <2>5
<1>3. ASSUME NEW x, D \subseteq C \cup {x}, ~a, b
      PROVE  IsFiniteSet(D) /\ Cardinality(D) <= n + (IF b THEN 1 ELSE 0)
  <2>1. IsFiniteSet(C \cup {x}) /\ Cardinality(C \cup {x}) <= Cardinality(C) + 1
        /\ Cardinality(C \cup {x}) \in Nat
    BY <1>1, FS_AddElement
  <2>2. IsFiniteSet(D) /\ Cardinality(D) \in Nat /\ Cardinality(D) <= Cardinality(C \cup {x})
    BY <1>3, <2>1, FS_Subset, FS_CardinalityType
  <2> QED
    BY <1>1, <1>3, <2>1, <2>2
<1>4. CASE D = {}
  BY <1>4, FS_EmptySet
<1> QED
  BY <1>2, <1>3, <1>4

\* What a batch without repetitions loses with its first session ...
LEMMA TailOfBatch ==
    ASSUME NEW q \in Seq(Sessions), q # <<>>, \A i, j \in DOMAIN q : q[i] = q[j] => i = j
    PROVE  /\ {Tail(q)[i] : i \in DOMAIN Tail(q)} = {q[i] : i \in DOMAIN q} \ {Head(q)}
           /\ \A i, j \in DOMAIN Tail(q) : Tail(q)[i] = Tail(q)[j] => i = j
<1> DEFINE r == Tail(q)
           h == Head(q)
<1>1. /\ Len(q) \in Nat /\ Len(q) >= 1 /\ DOMAIN q = 1..Len(q) /\ h = q[1]
      /\ DOMAIN r = 1..Len(q) - 1 /\ \A i \in 1..Len(q) - 1 : r[i] = q[i + 1]
  OBVIOUS
<1> HIDE DEF r, h
<1>2. ASSUME NEW i \in DOMAIN r
      PROVE  i + 1 \in DOMAIN q /\ r[i] = q[i + 1] /\ q[i + 1] # h
  BY <1>1, <1>2
<1>3. ASSUME NEW i \in DOMAIN q, q[i] # h
      PROVE  i - 1 \in DOMAIN r /\ r[i - 1] = q[i]
  <2>1. i # 1 /\ i - 1 \in 1..Len(q) - 1
    BY <1>1, <1>3
  <2> QED
    BY <1>1, <2>1
<1>4. \A i, j \in DOMAIN r : r[i] = r[j] => i = j
  BY <1>1, <1>2
<1>5. {r[i] : i \in DOMAIN r} \subseteq {q[i] : i \in DOMAIN q} \ {h}
  BY <1>2
<1>6. {q[i] : i \in DOMAIN q} \ {h} \subseteq {r[i] : i \in DOMAIN r}
  <2> SUFFICES ASSUME NEW i \in DOMAIN q, q[i] # h PROVE q[i] \in {r[k] : k \in DOMAIN r}
    OBVIOUS
  <2> QED
    BY <1>3
<1> QED
  BY <1>4, <1>5, <1>6 DEF r, h

\* ... and gains with one that is appended.
LEMMA AppendToBatch ==
    ASSUME NEW q \in Seq(Sessions), NEW s \in Sessions, s \notin {q[i] : i \in DOMAIN q},
           \A i, j \in DOMAIN q : q[i] = q[j] => i = j
    PROVE  /\ {Append(q, s)[i] : i \in DOMAIN Append(q, s)} = {q[i] : i \in DOMAIN q} \cup {s}
           /\ \A i, j \in DOMAIN Append(q, s) : Append(q, s)[i] = Append(q, s)[j] => i = j
<1> DEFINE r == Append(q, s)
<1>1. /\ Len(q) \in Nat /\ DOMAIN q = 1..Len(q) /\ DOMAIN r = 1..Len(q) + 1
      /\ r[Len(q) + 1] = s /\ \A i \in 1..Len(q) : r[i] = q[i]
  OBVIOUS
<1>2. \A i \in DOMAIN q : i \in DOMAIN r /\ r[i] = q[i] /\ q[i] # s
  BY <1>1
<1>3. Len(q) + 1 \in DOMAIN r /\ \A i \in DOMAIN r : i \in DOMAIN q \/ i = Len(q) + 1
  BY <1>1
<1> HIDE DEF r
<1>4. {r[i] : i \in DOMAIN r} = {q[i] : i \in DOMAIN q} \cup {s}
  BY <1>1, <1>2, <1>3
<1>5. \A i, j \in DOMAIN r : r[i] = r[j] => i = j
  BY <1>1, <1>2, <1>3
<1> QED
  BY <1>4, <1>5 DEF r

\* The claims of the processes that do not take the step.
LEMMA OthersClaims ==
    ASSUME NEW p \in Procs, Others(p)
    PROVE  \A v \in Workers \ {p} : Sought(v)' = Sought(v) /\ Claimed(v)' = Claimed(v)
<1> SUFFICES ASSUME NEW v \in Workers \ {p}
             PROVE  Sought(v)' = Sought(v) /\ Claimed(v)' = Claimed(v)
  OBVIOUS
<1>1. v \in Procs \ {p}
  BY DEF Procs
<1>2. pc'[v] = pc[v] /\ batch'[v] = batch[v] /\ Subject(v)' = Subject(v)
  BY <1>1, SubjectOwn DEF Others
<1> QED
  BY <1>2 DEF Sought, Claimed

\* The other batches stay orderly when a step locks rows for p only.
LEMMA OthersOrderly ==
    ASSUME NEW p \in Procs, Others(p), \A w \in Workers \ {p} : todo'[w] = todo[w],
           \A s \in Sessions : updating'[s] \in {updating[s], p, None},
           \A w \in Workers : Orderly(w)
    PROVE  \A w \in Workers \ {p} : Orderly(w)'
<1> SUFFICES ASSUME NEW w \in Workers \ {p} PROVE Orderly(w)'
  OBVIOUS
<1>1. w \in Procs \ {p} /\ w # None
  BY ProcsAssumption DEF Procs
<1>2. pc'[w] = pc[w] /\ batch'[w] = batch[w] /\ Subject(w)' = Subject(w) /\ Sought(w)' = Sought(w)
  BY <1>1, SubjectOwn, OthersClaims DEF Others
<1> QED
  BY <1>1, <1>2 DEF Orderly, Storing

\* The account of a session after a step that changes it in one of five ways:
\* nobody has claimed it anew and its cover stays, one of those who had claimed
\* it has not any more, a loss is counted, it was free and is claimed under
\* cover, or nobody has claimed it.
LEMMA Accounting ==
    ASSUME TypeOK, NEW s \in Sessions, Accounted(s), losses' \in {losses, losses + 1},
           \/ Claimants(s)' \subseteq Claimants(s) /\ (Covered(s) => Covered(s)')
           \/ \E x \in Claimants(s) : Claimants(s)' \subseteq Claimants(s) \ {x}
           \/ Claimants(s)' \subseteq Claimants(s) /\ losses' = losses + 1
           \/ ~Covered(s) /\ Covered(s)' /\ \E x : Claimants(s)' \subseteq Claimants(s) \cup {x}
           \/ Claimants(s)' = {}
    PROVE  Accounted(s)'
<1> DEFINE C == Claimants(s)
           D == Claimants(s)'
           a == Covered(s)
           b == Covered(s)'
<1>1. losses \in Nat /\ a \in BOOLEAN /\ b \in BOOLEAN
  BY DEF TypeOK, Covered
<1>2. IsFiniteSet(C) /\ Cardinality(C) <= losses + (IF a THEN 1 ELSE 0)
  BY DEF Accounted
<1>3. \/ D \subseteq C /\ (a => b)
      \/ \E x \in C : D \subseteq C \ {x}
      \/ D \subseteq C /\ losses' = losses + 1
      \/ ~a /\ b /\ \E x : D \subseteq C \cup {x}
      \/ D = {}
  OBVIOUS
<1> HIDE DEF C, D, a, b
<1>4. IsFiniteSet(D) /\ Cardinality(D) <= losses' + (IF b THEN 1 ELSE 0)
  BY <1>1, <1>2, <1>3, Counting
<1> QED
  BY <1>4 DEF Accounted, D, b

\* Steps that claim nothing and finish nothing: selecting and taking sessions,
\* exceptions, and a run up to its version number.
LEMMA GoingOnClaims ==
    ASSUME Inv, Inv', ClaimInv, NEW p \in Procs,
           \/ p \in Workers /\ (Select(p) \/ Take(p) \/ Fail(p))
           \/ Begin(p) \/ Ensure(p) \/ InsertRule(p) \/ LockTimeline(p)
    PROVE  ClaimInv'
<1> DEFINE Before == {"idle", "claim", "brief", "failing"}
<1>1. /\ UNCHANGED <<lease, batch, losses>> /\ \A w \in Workers \ {p} : todo'[w] = todo[w]
      /\ UNCHANGED todo \/ (pc'[p] = "claim" /\ pc[p] = "idle")
      /\ \A q \in Procs \ {p} : pc'[q] = pc[q] /\ draft'[q] = draft[q]
      /\ UNCHANGED updating \/ Ensure(p)
      /\ p \in Workers =>
            /\ Storing(p)' => Storing(p)
            /\ pc[p] \in Before <=> pc'[p] \in Before
            /\ pc'[p] \notin {"idle", "claim"} => todo[p] = {} \/ pc[p] \notin {"idle", "claim"}
            /\ pc'[p] = "idle" => batch[p] = <<>>
  <2>a. /\ pc = [q \in Procs |-> pc[q]] /\ todo = [w \in Workers |-> todo[w]]
        /\ draft = [q \in Procs |-> draft[q]]
    BY DEF Inv, TypeOK
  <2> USE DEF Goto, Storing
  <2>1. CASE p \in Workers /\ Select(p)
    BY <2>a, <2>1 DEF Select, table, locks, budgets
  <2>2. CASE p \in Workers /\ Take(p)
    BY <2>a, <2>2 DEF Take, table, plan, locks, budgets
  <2>3. CASE p \in Workers /\ Fail(p)
    BY <2>a, <2>3 DEF Fail, table, plan, locks
  <2>4. CASE Begin(p)
    <3>1. p \notin Workers
      BY <2>4, ProcsAssumption DEF Begin
    <3>2. draft' = draft \/ \E brief \in BOOLEAN : draft' = [draft EXCEPT ![p].brief = brief]
      BY <2>4 DEF Begin
    <3>3. \A q \in Procs \ {p} : draft'[q] = draft[q]
      BY <2>a, <3>2
    <3> QED
      BY <2>a, <2>4, <3>1, <3>3 DEF Begin, table, plan, locks, budgets
  <2>5. CASE Ensure(p)
    <3>1. /\ UNCHANGED <<table, plan, budgets>> /\ pc[p] = "ensure"
          /\ pc' \in {[pc EXCEPT ![p] = "insert"], [pc EXCEPT ![p] = "lock"]}
      BY <2>5 DEF Ensure
    <3>2. draft' = draft \/ \E d : draft' = [draft EXCEPT ![p].settings = d]
      BY <2>5 DEF Ensure
    <3>3. \A q \in Procs \ {p} : draft'[q] = draft[q]
      BY <2>a, <3>2
    <3> QED
      BY <2>a, <2>5, <3>1, <3>3 DEF table, plan, budgets
  <2>6. CASE InsertRule(p)
    BY <2>a, <2>6 DEF InsertRule, table, plan, budgets
  <2>7. CASE LockTimeline(p)
    BY <2>a, <2>7 DEF LockTimeline, table, plan, budgets
  <2> QED
    BY <2>1, <2>2, <2>3, <2>4, <2>5, <2>6, <2>7
<1>2. Others(p)
  BY <1>1 DEF Others
<1>3. \/ UNCHANGED updating
      \/ /\ Ensure(p) /\ updating' = [updating EXCEPT ![Subject(p)] = p]
         /\ updating[Subject(p)] \in {None, p}
  <2> SUFFICES ASSUME Ensure(p), updating' # updating
               PROVE  updating' = [updating EXCEPT ![Subject(p)] = p] /\ updating[Subject(p)] \in {None, p}
    BY <1>1
  <2> QED
    BY DEF Ensure, MayUpdate
<1>4. Subject(p)' = Subject(p) /\ Sought(p)' = Sought(p)
  BY <1>1, SubjectOwn DEF Sought
<1>5. Ensure(p) => Subject(p) \in Sessions
  BY SubjectType DEF Ensure, Inv
<1>6. ASSUME p \in Workers PROVE Orderly(p)'
  <2>1. Orderly(p)
    BY <1>6 DEF ClaimInv
  <2>2. pc'[p] \notin {"idle", "claim"} => todo'[p] = {}
    BY <1>1, <1>6, <2>1 DEF Orderly
  <2>3. pc'[p] = "idle" => batch[p] = <<>>
    BY <1>1, <1>6
  <2>4. todo'[p] \cap Sought(p) = {}
    <3>1. CASE UNCHANGED todo
      BY <2>1, <3>1 DEF Orderly
    <3>2. CASE pc[p] = "idle"
      BY <2>1, <3>2 DEF Orderly, Sought
    <3> QED
      BY <1>1, <3>1, <3>2
  <2>5. ASSUME Storing(p)', NEW s \in Sessions, updating'[s] = p PROVE s = Subject(p)
    BY <1>1, <1>3, <1>5, <1>6, <2>1, <2>5 DEF Orderly, Inv, TypeOK
  <2> QED
    BY <1>1, <1>4, <2>1, <2>2, <2>3, <2>4, <2>5 DEF Orderly
<1>7. \A w \in Workers : Orderly(w)'
  <2>1. \A s \in Sessions : updating'[s] \in {updating[s], p, None}
    BY <1>3, <1>5 DEF Inv, TypeOK
  <2> QED
    BY <1>1, <1>2, <1>6, <2>1, OthersOrderly DEF ClaimInv
<1>8. \A v \in Workers : Claimed(v)' = Claimed(v)
  <2>1. p \in Workers => Claimed(p)' = Claimed(p)
    BY <1>1, <1>4 DEF Claimed
  <2> QED
    BY <1>2, <2>1, OthersClaims
<1>9. ASSUME NEW s \in Sessions PROVE Accounted(s)'
  <2>1. Claimants(s)' = Claimants(s)
    BY <1>8 DEF Claimants
  <2>2. ASSUME NEW w \in Claimants(s), updating[s] = w PROVE updating'[s] = w
    <3>1. CASE UNCHANGED updating
      BY <2>2, <3>1
    <3>2. CASE s # Subject(p)
      BY <1>3, <1>5, <2>2, <3>2 DEF Inv, TypeOK
    <3>3. CASE Ensure(p) /\ s = Subject(p) /\ updating[s] \in {None, p}
      BY <2>2, <3>3, ProcsAssumption DEF Claimants, Claimed, Ensure, Procs
    <3> QED
      BY <1>3, <3>1, <3>2, <3>3
  <2>3. Covered(s) => Covered(s)'
    BY <1>1, <2>1, <2>2 DEF Covered
  <2> QED
    BY <1>1, <2>1, <2>3, Accounting DEF Inv, ClaimInv
<1> QED
  BY <1>7, <1>9 DEF ClaimInv

\* A claim takes a session that is not covered, and covers it.
LEMMA ClaimClaims ==
    ASSUME Inv, Inv', ClaimInv, NEW p \in Workers, Claim(p)
    PROVE  ClaimInv'
<1> DEFINE s0 == Min(todo[p])
<1>1. p \in Procs /\ Orderly(p)
  BY DEF Procs, ClaimInv
<1>2. s0 \in todo[p] /\ s0 \in Sessions
  <2>a. todo[p] # {} /\ todo[p] \subseteq Sessions
    BY DEF Claim, Inv, TypeOK
  <2>b. Sessions \subseteq Nat
    BY OnAssumption DEF Sessions
  <2>1. todo[p] \in SUBSET Nat /\ todo[p] # {} /\ todo[p] \subseteq Sessions
    BY <2>a, <2>b
  <2> QED
    BY <2>1, MinOfNumbers
<1>3. /\ todo' = [todo EXCEPT ![p] = @ \ {s0}] /\ pc[p] = "claim" /\ MayUpdate(p, s0)
      /\ \/ UNCHANGED <<updating, batch>>
         \/ /\ LeaseFree(s0)
            /\ updating' = [updating EXCEPT ![s0] = p]
            /\ batch' = [batch EXCEPT ![p] = Append(@, s0)]
      /\ UNCHANGED <<table, pc, draft, losses>>
  BY DEF Claim, Claimable, budgets
<1> HIDE DEF s0
<1>4. Others(p)
  BY <1>3 DEF Inv, TypeOK, Others
<1>5. s0 \notin Sought(p) /\ Claimed(p) = Sought(p) /\ Claimed(p)' = Sought(p)'
  BY <1>1, <1>2, <1>3 DEF Orderly, Claimed
<1>6. /\ Sought(p)' \subseteq Sought(p) \cup {s0}
      /\ \A i, j \in DOMAIN batch'[p] : batch'[p][i] = batch'[p][j] => i = j
      /\ UNCHANGED batch \/ s0 \in Sought(p)'
  <2>1. CASE UNCHANGED batch
    BY <1>1, <2>1 DEF Sought, Orderly
  <2>2. CASE batch' = [batch EXCEPT ![p] = Append(@, s0)]
    <3>1. batch[p] \in Seq(Sessions) /\ batch'[p] = Append(batch[p], s0)
      BY <2>2 DEF Inv, TypeOK
    <3>2. s0 \notin {batch[p][i] : i \in DOMAIN batch[p]}
      BY <1>5 DEF Sought
    <3> QED
      BY <1>1, <1>2, <3>1, <3>2, AppendToBatch DEF Sought, Orderly
  <2> QED
    BY <1>3, <2>1, <2>2
<1>7. Orderly(p)'
  <2>1. todo'[p] = todo[p] \ {s0} /\ pc'[p] = "claim"
    BY <1>3 DEF Inv, TypeOK
  <2> QED
    BY <1>1, <1>6, <2>1 DEF Orderly, Storing
<1>8. \A w \in Workers : Orderly(w)'
  <2>1. \A s \in Sessions : updating'[s] \in {updating[s], p, None}
    BY <1>2, <1>3 DEF Inv, TypeOK
  <2>2. \A w \in Workers \ {p} : todo'[w] = todo[w]
    BY <1>3 DEF Inv, TypeOK
  <2> QED
    BY <1>1, <1>4, <1>7, <2>1, <2>2, OthersOrderly DEF ClaimInv
<1>9. ASSUME NEW s \in Sessions PROVE Accounted(s)'
  <2>1. \A v \in Workers \ {p} : Claimed(v)' = Claimed(v)
    BY <1>1, <1>4, OthersClaims
  <2>2. losses' = losses /\ lease' = lease
    BY <1>3 DEF table
  <2>3. CASE UNCHANGED <<updating, batch>>
    <3>1. Claimants(s)' = Claimants(s)
      BY <1>3, <2>1, <2>3 DEF Claimants, Claimed, Sought, Subject
    <3>2. Covered(s) => Covered(s)'
      BY <2>2, <2>3, <3>1 DEF Covered
    <3> QED
      BY <2>2, <3>1, <3>2, Accounting DEF Inv, ClaimInv
  <2>4. CASE s # s0
    <3>1. Claimants(s)' \subseteq Claimants(s) /\ Claimants(s) \subseteq Claimants(s)'
      <4>1. s \in Sought(p) <=> s \in Sought(p)'
        <5>1. CASE UNCHANGED <<updating, batch>>
          BY <5>1 DEF Sought
        <5>2. CASE batch' = [batch EXCEPT ![p] = Append(@, s0)]
          <6>1. batch[p] \in Seq(Sessions) /\ batch'[p] = Append(batch[p], s0)
            BY <5>2 DEF Inv, TypeOK
          <6> QED
            BY <1>1, <1>2, <1>5, <2>4, <6>1, AppendToBatch DEF Sought, Orderly
        <5> QED
          BY <1>3, <5>1, <5>2
      <4> QED
        BY <1>5, <2>1, <4>1 DEF Claimants
    <3>2. updating'[s] = updating[s]
      BY <1>2, <1>3, <2>4 DEF Inv, TypeOK
    <3>3. Covered(s) => Covered(s)'
      BY <2>2, <3>1, <3>2 DEF Covered
    <3> QED
      BY <2>2, <3>1, <3>3, Accounting DEF Inv, ClaimInv
  <2>5. CASE s = s0 /\ ~ UNCHANGED <<updating, batch>>
    <3>1. LeaseFree(s) /\ updating'[s] = p /\ s \in Sought(p)'
      BY <1>2, <1>3, <1>6, <2>5 DEF Inv, TypeOK
    <3>2. updating[s] \in {None, p}
      BY <1>3, <2>5 DEF MayUpdate
    <3>3. ~Covered(s)
      BY <1>5, <2>5, <3>1, <3>2, ProcsAssumption DEF Covered, LeaseFree, Claimants, Procs
    <3>4. Covered(s)'
      BY <1>5, <3>1 DEF Covered, Claimants
    <3>5. Claimants(s)' \subseteq Claimants(s) \cup {p}
      BY <2>1 DEF Claimants
    <3> QED
      BY <2>2, <3>3, <3>4, <3>5, Accounting DEF Inv, ClaimInv
  <2> QED
    BY <2>3, <2>4, <2>5
<1> QED
  BY <1>8, <1>9 DEF ClaimInv

\* A commit of the worker gives its other claims a lease; with its subject it
\* gives up the claim, or, after a late failure, the lease of another one.
LEMMA CommitClaimsClaims ==
    ASSUME Inv, Inv', ClaimInv, NEW p \in Workers, Retire(p) \/ Brief(p) \/ MarkFailure(p)
    PROVE  ClaimInv'
<1> DEFINE s0 == Subject(p)
<1>1. /\ p \in Procs /\ Orderly(p) /\ pc[p] \in {"brief", "failing", "late"}
      /\ s0 \in Sessions /\ batch[p] # <<>> /\ batch[p] \in Seq(Sessions) /\ s0 = Head(batch[p])
  <2>1. p \in Procs /\ pc[p] \in {"brief", "failing", "late"}
    BY DEF Procs, Retire, Brief, MarkFailure
  <2> QED
    BY <2>1, SubjectType DEF Inv, TypeOK, ClaimInv, Subject
<1>2. /\ MayUpdate(p, s0) /\ UNCHANGED todo
      /\ \A s \in Sessions : lease'[s] = CASE s = s0 -> "none"
                                           [] updating[s] = p -> "live"
                                           [] OTHER -> lease[s]
      /\ \A s \in Sessions : updating'[s] = IF updating[s] = p THEN None ELSE updating[s]
      /\ \/ UNCHANGED losses /\ pc[p] # "late"
         \/ Lose(s0, p)
  BY DEF Retire, Brief, MarkFailure, CommitClaims, Release, budgets, plan
<1>3. \/ batch' = [batch EXCEPT ![p] = Tail(@)] /\ pc' = [pc EXCEPT ![p] = "claim"]
      \/ batch' = batch /\ pc' = [pc EXCEPT ![p] = "ensure"]
  BY DEF Retire, Brief, MarkFailure, Goto, plan
<1>4. draft' = draft
  BY DEF Retire, Brief, MarkFailure
<1>5. Others(p)
  BY <1>1, <1>3, <1>4 DEF Inv, TypeOK, Others
<1>6. /\ Claimed(p)' = Sought(p) \ {s0} /\ Sought(p)' \subseteq Sought(p)
      /\ \A i, j \in DOMAIN batch'[p] : batch'[p][i] = batch'[p][j] => i = j
      /\ pc'[p] \in {"claim", "ensure"}
  <2>1. CASE batch' = [batch EXCEPT ![p] = Tail(@)] /\ pc' = [pc EXCEPT ![p] = "claim"]
    <3>1. batch'[p] = Tail(batch[p]) /\ pc'[p] = "claim"
      BY <1>1, <2>1 DEF Inv, TypeOK
    <3>2. \A i, j \in DOMAIN batch[p] : batch[p][i] = batch[p][j] => i = j
      BY <1>1 DEF Orderly
    <3>3. Sought(p)' = Sought(p) \ {s0}
      <4>1. {Tail(batch[p])[i] : i \in DOMAIN Tail(batch[p])}
                = {batch[p][i] : i \in DOMAIN batch[p]} \ {Head(batch[p])}
        BY <1>1, <3>2, TailOfBatch
      <4> QED
        BY <1>1, <3>1, <4>1, Zenon DEF Sought
    <3>4. \A i, j \in DOMAIN batch'[p] : batch'[p][i] = batch'[p][j] => i = j
      BY <1>1, <3>1, <3>2, TailOfBatch
    <3> QED
      BY <3>1, <3>3, <3>4 DEF Claimed
  <2>2. CASE batch' = batch /\ pc' = [pc EXCEPT ![p] = "ensure"]
    <3>1. pc'[p] = "ensure"
      BY <1>1, <2>2 DEF Inv, TypeOK
    <3> QED
      BY <1>1, <2>2, <3>1 DEF Claimed, Sought, Subject, Orderly
  <2> QED
    BY <1>3, <2>1, <2>2
<1>7. Claimed(p) = IF pc[p] = "late" THEN Sought(p) \ {s0} ELSE Sought(p)
  BY <1>1 DEF Claimed
<1>8. s0 \in Sought(p)
  BY <1>1 DEF Sought
<1> HIDE DEF s0
<1>9. \A w \in Workers : Orderly(w)'
  <2>1. Orderly(p)'
    <3>1. todo'[p] = {}
      BY <1>1, <1>2 DEF Orderly
    <3>2. \A s \in Sessions : updating'[s] # p
      BY <1>1, <1>2, ProcsAssumption
    <3> QED
      BY <1>6, <3>1, <3>2 DEF Orderly
  <2>2. \A s \in Sessions : updating'[s] \in {updating[s], p, None}
    BY <1>2
  <2> QED
    BY <1>1, <1>2, <1>5, <2>1, <2>2, OthersOrderly DEF ClaimInv
<1>10. losses' \in {losses, losses + 1}
  BY <1>2 DEF Lose
<1>11. \A v \in Workers \ {p} : Claimed(v)' = Claimed(v)
  BY <1>1, <1>5, OthersClaims
<1>12. ASSUME NEW s \in Sessions PROVE Accounted(s)'
  <2>1. CASE s # s0
    <3>1. Claimants(s)' = Claimants(s)
      BY <1>6, <1>7, <1>11, <2>1 DEF Claimants
    <3>2. CASE updating[s] = p
      <4>1. Covered(s)'
        BY <1>2, <2>1, <3>2 DEF Covered
      <4> QED
        BY <1>10, <3>1, <4>1, Accounting DEF Inv, ClaimInv
    <3>3. CASE updating[s] # p
      <4>1. updating'[s] = updating[s] /\ lease'[s] = lease[s]
        BY <1>2, <2>1, <3>3
      <4>2. Covered(s) => Covered(s)'
        BY <3>1, <4>1 DEF Covered
      <4> QED
        BY <1>10, <3>1, <4>2, Accounting DEF Inv, ClaimInv
    <3> QED
      BY <3>2, <3>3
  <2>2. CASE s = s0 /\ pc[p] # "late"
    <3>1. p \in Claimants(s) /\ Claimants(s)' \subseteq Claimants(s) \ {p}
      BY <1>6, <1>7, <1>8, <1>11, <2>2 DEF Claimants
    <3> QED
      BY <1>10, <3>1, Accounting DEF Inv, ClaimInv
  <2>3. CASE s = s0 /\ pc[p] = "late"
    <3>1. Claimants(s)' = Claimants(s) /\ p \notin Claimants(s)
      BY <1>6, <1>7, <1>11, <2>3 DEF Claimants
    <3>2. CASE Claimants(s) = {}
      BY <1>10, <3>1, <3>2, Accounting DEF Inv, ClaimInv
    <3>3. CASE lease[s] = "live" /\ Claimants(s) # {}
      <4>1. losses' = losses + 1
        BY <1>2, <2>3, <3>1, <3>3 DEF Lose, Claimants
      <4> QED
        BY <3>1, <4>1, Accounting DEF Inv, ClaimInv
    <3>4. CASE lease[s] # "live"
      <4>1. updating[s] \in {None, p}
        BY <1>2, <2>3 DEF MayUpdate
      <4>2. ~Covered(s)
        BY <3>1, <3>4, <4>1, ProcsAssumption DEF Covered, Claimants, Procs
      <4> QED
        BY <1>10, <3>1, <4>2, Accounting DEF Inv, ClaimInv
    <3> QED
      BY <3>2, <3>3, <3>4
  <2> QED
    BY <2>1, <2>2, <2>3
<1> QED
  BY <1>9, <1>12 DEF ClaimInv

\* A stored run or daily brief.  The locks it gives back are on the session that
\* its worker is about and no claim any more; a user may clear the lease of a
\* worker.
LEMMA WriteClaims ==
    ASSUME Inv, Inv', ClaimInv, NEW p \in Procs, Write(p)
    PROVE  ClaimInv'
<1> DEFINE s0 == Subject(p)
<1>1. /\ Storing(p) /\ s0 \in Sessions
      /\ p \in Workers => Orderly(p) /\ batch[p] # <<>> /\ batch[p] \in Seq(Sessions) /\ s0 = Head(batch[p])
  <2>1. Storing(p)
    BY DEF Write, Storing
  <2> QED
    BY <2>1, SubjectType DEF Inv, TypeOK, ClaimInv, Subject, Storing
<1>2. /\ UNCHANGED todo
      /\ \A s \in Sessions : updating'[s] = IF updating[s] = p THEN None ELSE updating[s]
      /\ \/ UNCHANGED <<lease, losses>>
         \/ lease' = [lease EXCEPT ![s0] = "none"] /\ Lose(s0, p)
  BY DEF Write, Store, Release
<1>3. /\ draft' = [draft EXCEPT ![p] = Blank]
      /\ IF p \in Workers
         THEN batch' = [batch EXCEPT ![p] = Tail(@)] /\ pc' = [pc EXCEPT ![p] = "claim"]
         ELSE batch' = batch /\ pc' = [pc EXCEPT ![p] = "done"]
  BY DEF Write, Proceed, Goto
<1>4. Others(p)
  BY <1>3 DEF Inv, TypeOK, Others
<1>5. ASSUME p \in Workers
      PROVE  /\ Claimed(p)' = Claimed(p) /\ s0 \notin Claimed(p) /\ Sought(p)' \subseteq Sought(p)
             /\ \A i, j \in DOMAIN batch'[p] : batch'[p][i] = batch'[p][j] => i = j
             /\ pc'[p] = "claim"
  <2>1. batch'[p] = Tail(batch[p]) /\ pc'[p] = "claim"
    BY <1>3, <1>5 DEF Inv, TypeOK
  <2>2. \A i, j \in DOMAIN batch[p] : batch[p][i] = batch[p][j] => i = j
    BY <1>1, <1>5 DEF Orderly
  <2>3. Claimed(p) = Sought(p) \ {s0}
    BY <1>1 DEF Claimed, Storing
  <2>4. Sought(p)' = Sought(p) \ {s0}
    <3>1. {Tail(batch[p])[i] : i \in DOMAIN Tail(batch[p])}
              = {batch[p][i] : i \in DOMAIN batch[p]} \ {Head(batch[p])}
      BY <1>1, <1>5, <2>2, TailOfBatch
    <3> QED
      BY <1>1, <1>5, <2>1, <3>1, Zenon DEF Sought
  <2>5. \A i, j \in DOMAIN batch'[p] : batch'[p][i] = batch'[p][j] => i = j
    BY <1>1, <1>5, <2>1, <2>2, TailOfBatch
  <2> QED
    BY <2>1, <2>3, <2>4, <2>5 DEF Claimed
<1> HIDE DEF s0
<1>6. \A w \in Workers : Orderly(w)'
  <2>1. ASSUME p \in Workers PROVE Orderly(p)'
    <3>1. todo'[p] = todo[p] /\ pc'[p] = "claim" /\ todo[p] \cap Sought(p) = {}
      BY <1>1, <1>2, <1>5, <2>1 DEF Orderly
    <3> QED
      BY <1>5, <2>1, <3>1 DEF Orderly, Storing
  <2>2. \A s \in Sessions : updating'[s] \in {updating[s], p, None}
    BY <1>2
  <2> QED
    BY <1>2, <1>4, <2>1, <2>2, OthersOrderly DEF ClaimInv
<1>7. \A v \in Workers : Claimed(v)' = Claimed(v)
  BY <1>4, <1>5, OthersClaims
<1>8. losses' \in {losses, losses + 1}
  BY <1>2 DEF Lose
<1>9. ASSUME NEW s \in Sessions PROVE Accounted(s)'
  <2>1. Claimants(s)' = Claimants(s)
    BY <1>7 DEF Claimants
  <2>2. ASSUME NEW w \in Claimants(s), updating[s] = w PROVE updating'[s] = w
    <3>1. w # p
      <4> SUFFICES ASSUME w = p PROVE FALSE
        OBVIOUS
      <4>1. s = Subject(p) /\ p \in Workers
        BY <1>1, <2>2 DEF Orderly, Claimants
      <4> QED
        BY <1>5, <2>2, <4>1 DEF Claimants, s0
    <3> QED
      BY <1>2, <2>2, <3>1
  <2>3. CASE lease'[s] = lease[s] \/ lease[s] # "live"
    <3>1. Covered(s) => Covered(s)'
      BY <2>1, <2>2, <2>3 DEF Covered
    <3> QED
      BY <1>8, <2>1, <3>1, Accounting DEF Inv, ClaimInv
  <2>4. CASE lease'[s] # lease[s] /\ lease[s] = "live"
    <3>1. s = s0 /\ Lose(s0, p)
      BY <1>1, <1>2, <2>4 DEF Inv, TypeOK
    <3>2. CASE \E v \in Workers \ {p} : s \in Claimed(v)
      <4>1. losses' = losses + 1
        BY <2>4, <3>1, <3>2 DEF Lose
      <4> QED
        BY <2>1, <4>1, Accounting DEF Inv, ClaimInv
    <3>3. CASE \A v \in Workers \ {p} : s \notin Claimed(v)
      <4>1. Claimants(s)' = {}
        BY <1>5, <2>1, <3>1, <3>3 DEF Claimants
      <4> QED
        BY <1>8, <4>1, Accounting DEF Inv, ClaimInv
    <3> QED
      BY <3>2, <3>3
  <2> QED
    BY <2>3, <2>4
<1> QED
  BY <1>6, <1>9 DEF ClaimInv

\* The end of a run of a request that stores nothing.
LEMMA SwallowClaims ==
    ASSUME Inv, Inv', ClaimInv, NEW p \in Procs \ Workers, StoreFails(p) \/ Deadlock(p)
    PROVE  ClaimInv'
<1>1. /\ draft' = [draft EXCEPT ![p] = Blank] /\ pc' = [pc EXCEPT ![p] = "done"]
      /\ UNCHANGED <<todo, batch, lease, losses>>
      /\ \A s \in Sessions : updating'[s] = IF updating[s] = p THEN None ELSE updating[s]
  BY DEF StoreFails, Deadlock, Swallow, Release, Goto, budgets
<1>2. Others(p)
  BY <1>1 DEF Inv, TypeOK, Others
<1>3. \A w \in Workers : Orderly(w)' /\ Claimed(w)' = Claimed(w)
  <2>1. \A s \in Sessions : updating'[s] \in {updating[s], p, None}
    BY <1>1
  <2> QED
    BY <1>1, <1>2, <2>1, OthersOrderly, OthersClaims DEF ClaimInv
<1>4. ASSUME NEW s \in Sessions PROVE Accounted(s)'
  <2>1. Claimants(s)' = Claimants(s)
    BY <1>3 DEF Claimants
  <2>2. Covered(s) => Covered(s)'
    BY <1>1, <2>1 DEF Covered, Claimants
  <2> QED
    BY <1>1, <2>1, <2>2, Accounting DEF Inv, ClaimInv
<1> QED
  BY <1>3, <1>4 DEF ClaimInv

\* New settings may clear the lease of a worker.
LEMMA SaveClaims ==
    ASSUME Inv, Inv', ClaimInv, NEW r \in Requests, Save(r)
    PROVE  ClaimInv'
<1> DEFINE s0 == On[r]
<1>1. r \in Procs /\ r \notin Workers /\ s0 \in Sessions
  BY ProcsAssumption, OnAssumption DEF Procs
<1>2. /\ pc' = [pc EXCEPT ![r] = "done"] /\ UNCHANGED <<todo, batch, draft, updating>>
      /\ \/ UNCHANGED <<lease, losses>>
         \/ lease' = [lease EXCEPT ![s0] = "none"] /\ Lose(s0, r)
  BY DEF Save, Store, Goto, plan, locks
<1> HIDE DEF s0
<1>3. \A w \in Workers : pc'[w] = pc[w]
  BY <1>1, <1>2 DEF Inv, TypeOK, Procs
<1>4. \A w \in Workers : Orderly(w)' /\ Claimed(w)' = Claimed(w)
  BY <1>2, <1>3 DEF ClaimInv, Orderly, Sought, Storing, Subject, Claimed
<1>5. losses' \in {losses, losses + 1}
  BY <1>2 DEF Lose
<1>6. ASSUME NEW s \in Sessions PROVE Accounted(s)'
  <2>1. Claimants(s)' = Claimants(s)
    BY <1>4 DEF Claimants
  <2>2. CASE lease'[s] = lease[s] \/ lease[s] # "live"
    <3>1. Covered(s) => Covered(s)'
      BY <1>2, <2>1, <2>2 DEF Covered
    <3> QED
      BY <1>5, <2>1, <3>1, Accounting DEF Inv, ClaimInv
  <2>3. CASE lease'[s] # lease[s] /\ lease[s] = "live"
    <3>1. s = s0 /\ Lose(s0, r)
      BY <1>1, <1>2, <2>3 DEF Inv, TypeOK
    <3>2. CASE Claimants(s) = {}
      BY <1>5, <2>1, <3>2, Accounting DEF Inv, ClaimInv
    <3>3. CASE Claimants(s) # {}
      <4>1. losses' = losses + 1
        BY <1>1, <2>3, <3>1, <3>3 DEF Lose, Claimants
      <4> QED
        BY <2>1, <4>1, Accounting DEF Inv, ClaimInv
    <3> QED
      BY <3>2, <3>3
  <2> QED
    BY <2>2, <2>3
<1> QED
  BY <1>4, <1>6 DEF ClaimInv

\* A worker that gives its round up gives up all its claims.
LEMMA EscapeClaims ==
    ASSUME Inv, Inv', ClaimInv, NEW p \in Workers, Escape(p) \/ StoreFails(p) \/ Deadlock(p)
    PROVE  ClaimInv'
<1>1. /\ p \in Procs
      /\ todo' = [todo EXCEPT ![p] = {}] /\ batch' = [batch EXCEPT ![p] = <<>>]
      /\ pc' = [pc EXCEPT ![p] = "idle"] /\ draft' = [draft EXCEPT ![p] = Blank]
      /\ \A s \in Sessions : updating'[s] = IF updating[s] = p THEN None ELSE updating[s]
      /\ UNCHANGED <<lease, losses>>
  <2>1. CASE Escape(p)
    BY <2>1 DEF Procs, Escape, Goto, Release, table
  <2>2. CASE StoreFails(p) \/ Deadlock(p)
    <3>1. Swallow(p) /\ UNCHANGED losses /\ pc[p] \notin {"idle", "claim"}
      BY <2>2 DEF StoreFails, Deadlock, Storing, WaitsFor, budgets
    <3>2. todo[p] = {}
      BY <3>1 DEF ClaimInv, Orderly
    <3>3. todo' = [todo EXCEPT ![p] = {}]
      BY <3>1, <3>2 DEF Swallow, Inv, TypeOK
    <3> QED
      BY <3>1, <3>3 DEF Procs, Swallow, Release, Goto
  <2> QED
    BY <2>1, <2>2
<1>2. Others(p)
  BY <1>1 DEF Inv, TypeOK, Others
<1>3. pc'[p] = "idle" /\ batch'[p] = <<>> /\ todo'[p] = {} /\ \A w \in Workers \ {p} : todo'[w] = todo[w]
  BY <1>1 DEF Inv, TypeOK
<1>4. Sought(p)' = {} /\ Claimed(p)' = {}
  BY <1>3 DEF Sought, Claimed
<1>5. \A w \in Workers : Orderly(w)'
  <2>1. Orderly(p)'
    BY <1>3, <1>4 DEF Orderly, Storing
  <2>2. \A s \in Sessions : updating'[s] \in {updating[s], p, None}
    BY <1>1
  <2> QED
    BY <1>1, <1>2, <1>3, <2>1, <2>2, OthersOrderly DEF ClaimInv
<1>6. \A v \in Workers \ {p} : Claimed(v)' = Claimed(v)
  BY <1>1, <1>2, OthersClaims
<1>7. ASSUME NEW s \in Sessions PROVE Accounted(s)'
  <2>1. CASE s \in Claimed(p)
    <3>1. p \in Claimants(s) /\ Claimants(s)' \subseteq Claimants(s) \ {p}
      BY <1>4, <1>6, <2>1 DEF Claimants
    <3> QED
      BY <1>1, <3>1, Accounting DEF Inv, ClaimInv
  <2>2. CASE s \notin Claimed(p)
    <3>1. Claimants(s)' = Claimants(s) /\ p \notin Claimants(s)
      BY <1>4, <1>6, <2>2 DEF Claimants
    <3>2. Covered(s) => Covered(s)'
      BY <1>1, <3>1 DEF Covered
    <3> QED
      BY <1>1, <3>1, <3>2, Accounting DEF Inv, ClaimInv
  <2> QED
    BY <2>1, <2>2
<1> QED
  BY <1>5, <1>7 DEF ClaimInv

\* A lease that runs out under a claimant is counted.
LEMMA TimeClaims ==
    ASSUME Inv, Inv', ClaimInv, NEW t \in Sessions, Expire(t) \/ ComeDue(t) \/ CloseWindow(t)
    PROVE  ClaimInv'
<1>1. UNCHANGED <<pc, todo, batch, updating>>
  BY DEF Expire, ComeDue, CloseWindow, plan, locks
<1>2. \A w \in Workers : Orderly(w)' /\ Claimed(w)' = Claimed(w)
  BY <1>1 DEF ClaimInv, Orderly, Sought, Storing, Subject, Claimed
<1>3. losses' \in {losses, losses + 1}
  BY DEF Expire, ComeDue, CloseWindow, budgets
<1>4. ASSUME NEW s \in Sessions PROVE Accounted(s)'
  <2>1. Claimants(s)' = Claimants(s)
    BY <1>2 DEF Claimants
  <2>2. CASE lease'[s] = lease[s]
    <3>1. Covered(s) => Covered(s)'
      BY <1>1, <2>1, <2>2 DEF Covered
    <3> QED
      BY <1>3, <2>1, <3>1, Accounting DEF Inv, ClaimInv
  <2>3. CASE lease'[s] # lease[s]
    <3>1. s = t /\ Expire(t)
      BY <2>3 DEF Expire, ComeDue, CloseWindow, Inv, TypeOK
    <3>2. CASE Claimants(s) = {}
      BY <1>3, <2>1, <3>2, Accounting DEF Inv, ClaimInv
    <3>3. CASE Claimants(s) # {}
      <4>1. losses' = losses + 1
        BY <3>1, <3>3 DEF Expire, Claimants
      <4> QED
        BY <2>1, <4>1, Accounting DEF Inv, ClaimInv
    <3> QED
      BY <3>2, <3>3
  <2> QED
    BY <2>2, <2>3
<1> QED
  BY <1>2, <1>4 DEF ClaimInv

\* Every step keeps the accounts.
LEMMA NextClaims == Inv /\ ClaimInv /\ [Next]_vars => ClaimInv'
<1> SUFFICES ASSUME Inv, ClaimInv, [Next]_vars PROVE ClaimInv'
  OBVIOUS
<1>a. Inv'
  BY NextInv
<1>1. CASE UNCHANGED vars
  <2>1. UNCHANGED <<pc, todo, batch, updating, lease, losses>>
    BY <1>1 DEF vars, table, plan, locks, budgets
  <2>2. \A w \in Workers : Orderly(w)' /\ Claimed(w)' = Claimed(w)
    BY <2>1 DEF ClaimInv, Orderly, Sought, Storing, Subject, Claimed
  <2>3. ASSUME NEW s \in Sessions PROVE Accounted(s)'
    <3>1. Claimants(s)' = Claimants(s)
      BY <2>2 DEF Claimants
    <3>2. Covered(s) => Covered(s)'
      BY <2>1, <3>1 DEF Covered
    <3> QED
      BY <2>1, <3>1, <3>2, Accounting DEF Inv, ClaimInv
  <2> QED
    BY <2>2, <2>3 DEF ClaimInv
<1>2. ASSUME NEW w \in Workers, WorkerStep(w) \/ Fail(w) \/ Escape(w) PROVE ClaimInv'
  <2>1. w \in Procs
    BY DEF Procs
  <2> QED
    BY <1>a, <1>2, <2>1, GoingOnClaims, ClaimClaims, CommitClaimsClaims, EscapeClaims DEF WorkerStep
<1>3. ASSUME NEW r \in Requests, Begin(r) \/ Save(r) PROVE ClaimInv'
  BY <1>a, <1>3, GoingOnClaims, SaveClaims DEF Procs
<1>4. ASSUME NEW p \in Procs, RunStep(p) \/ StoreFails(p) PROVE ClaimInv'
  <2>1. CASE p \in Workers /\ (StoreFails(p) \/ Deadlock(p))
    BY <1>a, <2>1, EscapeClaims
  <2>2. CASE p \notin Workers /\ (StoreFails(p) \/ Deadlock(p))
    BY <1>a, <2>2, SwallowClaims
  <2> QED
    BY <1>a, <1>4, <2>1, <2>2, GoingOnClaims, WriteClaims DEF RunStep
<1>5. ASSUME NEW s \in Sessions, Expire(s) \/ ComeDue(s) \/ CloseWindow(s) PROVE ClaimInv'
  BY <1>a, <1>5, TimeClaims
<1> QED
  BY <1>1, <1>2, <1>3, <1>4, <1>5 DEF Next

\* Nothing is claimed in the beginning.
LEMMA InitClaims == Init => ClaimInv
<1> SUFFICES ASSUME Init PROVE ClaimInv
  OBVIOUS
<1>1. \A w \in Workers : pc[w] = "idle" /\ batch[w] = <<>> /\ todo[w] = {}
  BY DEF Init, Procs
<1>2. \A w \in Workers : Sought(w) = {} /\ Claimed(w) = {}
  BY <1>1 DEF Sought, Claimed
<1>3. \A w \in Workers : Orderly(w)
  BY <1>1, <1>2 DEF Orderly, Storing
<1>4. \A s \in Sessions : Accounted(s)
  <2>1. \A s \in Sessions : Claimants(s) = {} /\ lease[s] = "none"
    BY <1>2 DEF Claimants, Init
  <2> QED
    <3> SUFFICES ASSUME NEW s \in Sessions PROVE Accounted(s)
      OBVIOUS
    <3>1. Claimants(s) = {} /\ IsFiniteSet({}) /\ Cardinality({}) = 0 /\ losses = 0
      BY <2>1, FS_EmptySet DEF Init
    <3> QED
      BY <3>1 DEF Accounted
<1> QED
  BY <1>3, <1>4 DEF ClaimInv

\* However many workers, sessions, faults and requests there are, a session has
\* at most one claimant more than leases have ended under their claimants: up to
\* the commit of the brief the row locks, and then the leases, keep the second
\* claimant out.
THEOREM OverlapsAreLosses == Spec => []EachOverlapIsALoss
<1>1. Inv /\ ClaimInv => EachOverlapIsALoss
  <2> SUFFICES ASSUME Inv, ClaimInv, NEW s \in Sessions
               PROVE  Cardinality({w \in Workers : s \in Claimed(w)}) <= 1 + losses
    BY DEF EachOverlapIsALoss
  <2>1. IsFiniteSet(Claimants(s)) /\ Cardinality(Claimants(s)) <= losses + (IF Covered(s) THEN 1 ELSE 0)
    BY DEF ClaimInv, Accounted
  <2>2. losses \in Nat /\ Cardinality(Claimants(s)) \in Nat
    BY <2>1, FS_CardinalityType DEF Inv, TypeOK
  <2>3. Cardinality(Claimants(s)) <= 1 + losses
    BY <2>1, <2>2
  <2> QED
    BY <2>3 DEF Claimants
<1>2. Init => Inv /\ ClaimInv
  BY InitInv, InitClaims
<1>3. (Inv /\ ClaimInv) /\ [Next]_vars => (Inv /\ ClaimInv)'
  BY NextInv, NextClaims
<1> QED
  BY <1>1, <1>2, <1>3, PTL DEF Spec
=============================================================================
