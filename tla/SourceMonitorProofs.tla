-------------------------- MODULE SourceMonitorProofs --------------------------
(***************************************************************************)
(* Proofs about SourceMonitor, for any pollers, requests and bounds.       *)
(***************************************************************************)
EXTENDS SourceMonitor, FiniteSetTheorems, TLAPS

\* What a poll knows at each place: no change record of its own before the
\* first commit, no version before the reaction, content once it has searched
\* and while it has a change to write, and neither record nor version while it
\* has the cursor row locked.
Polls ==
    \A p \in Owners :
        /\ pc[p] \notin {"react", "settle"} => copy[p].change = 0
        /\ pc[p] # "settle" => ~copy[p].cited
        /\ pc[p] = "detect" \/ copy[p].found = "change" => copy[p].content \in Versions
        /\ rowLock = p => /\ pc[p] \in {"ingest", "settle"}
                          /\ copy[p].change = 0 /\ ~copy[p].cited
        /\ copy[p].change <= Len(changes)

\* The inductive invariant about rows and polls.
Inv == TypeOK /\ Polls /\ SeenIsRecorded

\* The polls that work on without the lease, and those of them that may still
\* write to the cursor row.
Late == {p \in Owners : Working(p) /\ p # holder}
Unwritten(p) == pc[p] \in {"analyze", "detect", "write"} \/ rowLock = p
Writing == {p \in Late : Unwritten(p)}

\* A change is found and not yet committed, and since then another one has
\* been; such a poll breaks a link.
Pending(p) == (pc[p] = "write" \/ rowLock = p) /\ copy[p].found = "change"
Outdated(p) ==
    Pending(p) /\ changes # <<>> /\ copy[p].before \notin {None, changes[Len(changes)].after}
Stale == \E p \in Owners : p = holder /\ Outdated(p)

\* A lost lease is good for two broken links: one by the late poll, and one by
\* the owner of the lease if the late poll commits while the owner writes.
LinksCounted ==
    Cardinality(BrokenLinks) + 2 * Cardinality(Writing) + (IF Stale THEN 1 ELSE 0) <= 2 * lapses

\* The polls that took an older version for the one they had asked for.
Untold == {p \in Owners : pc[p] = "settle" /\ copy[p].cited /\ copy[p].change \notin Told \cup {0}}

\* A change is forgotten, or its poll is about to forget it, by a lost lease or
\* a failure.
ChangesCounted ==
    Cardinality(Forgotten) + Cardinality(Late) + Cardinality(Untold) <= lapses + faults

\* The inductive invariant about what the lost leases and the failures cost.
Accounts == IsFiniteSet(Late) /\ IsFiniteSet(Untold) /\ LinksCounted /\ ChangesCounted

-----------------------------------------------------------------------------
(* Rows and polls.                                                         *)

\* A step of one poll leaves the others where they are.
Others(p) ==
    \A q \in Owners \ {p} :
        pc'[q] = pc[q] /\ copy'[q] = copy[q] /\ (rowLock' = q <=> rowLock = q)

\* A poll that leaves, has its transaction ended.
LEMMA Left ==
    ASSUME Inv, NEW p \in Owners, UNCHANGED changes,
           copy' = [copy EXCEPT ![p] = Blank], rowLock' = Unlocked(p),
           NEW x \in {"idle", "done", "dead"}, Goto(p, x)
    PROVE  /\ Polls'
           /\ pc' \in [Owners -> {"idle", "analyze", "detect", "write", "ingest",
                                  "react", "settle", "done", "dead"}]
           /\ copy' \in [Owners -> Copies] /\ rowLock' \in Owners \cup {None}
<1> USE DEF Inv, TypeOK
<1>1. Blank \in Copies
  BY BoundsAssumption DEF Blank, Copies, Versions
<1>2. copy'[p] = Blank /\ pc'[p] = x /\ rowLock' # p
  BY OwnersAssumption DEF Unlocked, Goto
<1>3. \A q \in Owners \ {p} :
        pc'[q] = pc[q] /\ copy'[q] = copy[q] /\ (rowLock' = q <=> rowLock = q)
  BY OwnersAssumption DEF Unlocked, Goto
<1>4. Polls'
  BY <1>2, <1>3 DEF Polls, Blank, Versions
<1> QED
  BY <1>1, <1>4 DEF Unlocked, Goto

\* What a commit does with the cursor row and the change records.
LEMMA Flushing ==
    ASSUME Inv, NEW p \in Owners, Flushed(p)
    PROVE  /\ seen' \in Versions \cup {None} /\ age' \in 0..Refresh \cup {None}
           /\ changes' \in Seq(Change) /\ Len(changes) <= Len(changes')
           /\ SeenIsRecorded'
           /\ Recorded(p) \in Nat /\ Recorded(p) <= Len(changes')
           /\ rowLock # p \/ copy[p].found # "change" =>
                changes' = changes /\ Recorded(p) = copy[p].change
           /\ rowLock = p /\ copy[p].found = "change" =>
                /\ Len(changes') = Len(changes) + 1 /\ Recorded(p) = Len(changes) + 1
                /\ changes'[Len(changes) + 1].before = copy[p].before
                /\ changes'[Len(changes) + 1].after = copy[p].content
                /\ \A i \in 1..Len(changes) : changes'[i] = changes[i]
<1> USE DEF Inv, TypeOK
<1>0. copy[p] \in Copies /\ copy[p].change <= Len(changes)
  BY DEF Polls
<1>1. CASE rowLock = p /\ copy[p].found = "change"
  <2> DEFINE r == [before |-> copy[p].before, after |-> copy[p].content]
  <2>1. copy[p].content \in Versions
    BY <1>1 DEF Polls
  <2>2. r \in Change
    BY <1>0, <2>1 DEF Copies, Change
  <2>3. age' = 0 /\ seen' = copy[p].content /\ changes' = Append(changes, r)
    BY <1>1 DEF Flushed
  <2>4. r.before = copy[p].before /\ r.after = copy[p].content
    OBVIOUS
  <2> HIDE DEF r
  <2>5. /\ changes' \in Seq(Change) /\ Len(changes') = Len(changes) + 1
        /\ changes'[Len(changes) + 1] = r
        /\ \A i \in 1..Len(changes) : changes'[i] = changes[i]
    BY <2>2, <2>3
  <2>6. SeenIsRecorded'
    BY <2>3, <2>4, <2>5 DEF SeenIsRecorded
  <2>7. Recorded(p) = Len(changes) + 1
    BY <1>1 DEF Recorded
  <2> QED
    BY <1>1, <2>1, <2>3, <2>4, <2>5, <2>6, <2>7, BoundsAssumption
<1>2. CASE ~(rowLock = p /\ copy[p].found = "change")
  <2>1. UNCHANGED <<seen, changes>> /\ age' \in {0, age}
    BY <1>2 DEF Flushed, cursor
  <2>2. Recorded(p) = copy[p].change
    BY <1>2 DEF Recorded
  <2> QED
    BY <1>0, <1>2, <2>1, <2>2, BoundsAssumption DEF SeenIsRecorded, Copies
<1> QED
  BY <1>1, <1>2

\* What holds of one poll after its own step holds of all.
LEMMA OthersPolls ==
    ASSUME Inv, NEW p \in Owners, Others(p), changes' \in Seq(Change),
           Len(changes) <= Len(changes'),
           pc'[p] \notin {"detect", "write"}, rowLock' # p, copy'[p].change <= Len(changes'),
           copy'[p].cited => pc'[p] = "settle",
           copy'[p].change = 0 \/ pc'[p] \in {"react", "settle"},
           copy'[p].found # "change"
    PROVE  Polls'
<1> SUFFICES ASSUME NEW q \in Owners, q # p
             PROVE  copy'[q].change <= Len(changes')
  BY DEF Polls, Inv, Others
<1>1. copy[q].change \in Nat /\ copy[q].change <= Len(changes)
  BY DEF Polls, Inv, TypeOK, Copies
<1>2. copy'[q] = copy[q] /\ Len(changes) \in Nat /\ Len(changes') \in Nat
  BY DEF Others, Inv, TypeOK
<1> QED
  BY <1>1, <1>2

\* The copy of a poll that has committed its change record.
LEMMA RecordedType ==
    ASSUME NEW c \in Copies, NEW n \in Nat
    PROVE  LET d == [c EXCEPT !.change = n]
           IN  d \in Copies /\ d.change = n /\ d.cited = c.cited /\ d.found = c.found
  BY DEF Copies

\* The content of a poll's copy can be any version.
LEMMA ContentType ==
    ASSUME NEW c \in Copies, NEW x \in 0..MaxNews
    PROVE  [c EXCEPT !.content = x] \in Copies
  BY DEF Copies

LEMMA InitInv == Init => Inv
<1> SUFFICES ASSUME Init PROVE Inv
  OBVIOUS
<1>1. Blank \in Copies
  BY BoundsAssumption DEF Blank, Copies, Versions
<1>2. TypeOK
  BY <1>1, BoundsAssumption DEF Init, TypeOK, Versions, Mishaps, Told
<1>3. Polls
  BY OwnersAssumption DEF Init, Polls, Blank
<1> QED
  BY <1>2, <1>3 DEF Init, Inv, SeenIsRecorded

\* A poll comes to its first commit.
LEMMA ReadingInv ==
    ASSUME Inv, NEW p \in Owners, Begin(p) \/ Analyze(p) \/ Detect(p) \/ WriteCursor(p)
    PROVE  Inv'
<1> USE DEF Inv, TypeOK
<1>0. copy[p] \in Copies /\ Blank \in Copies
  BY BoundsAssumption DEF Blank, Copies, Versions
<1>1. CASE Begin(p)
  <2> USE <1>1 DEF Begin, Goto, records, advice, cursor, budgets
  <2>1. TypeOK'
    BY <1>0 DEF Mishaps, Told
  <2>2. Polls'
    BY DEF Polls, Blank
  <2> QED
    BY <2>1, <2>2 DEF SeenIsRecorded
<1>2. CASE Analyze(p)
  <2> USE <1>2 DEF Analyze, records, advice, cursor, budgets
  <2> DEFINE c == [copy[p] EXCEPT !.content = world]
  <2>0. c \in Copies /\ c.content = world /\ c.change = copy[p].change /\ c.cited = copy[p].cited
    BY <1>0, ContentType DEF Versions, Copies
  <2>a. \/ UNCHANGED copy /\ pc' = [pc EXCEPT ![p] = "ingest"]
        \/ copy' = [copy EXCEPT ![p] = c] /\ pc' = [pc EXCEPT ![p] = "detect"]
    BY DEF Goto
  <2> HIDE DEF c
  <2>1. copy' \in [Owners -> Copies]
    BY <2>0, <2>a
  <2>2. TypeOK'
    BY <2>1, <2>a DEF Mishaps, Told
  <2>3. Polls'
    BY <1>0, <2>0, <2>a DEF Polls
  <2> QED
    BY <2>2, <2>3 DEF SeenIsRecorded
<1>3. CASE Detect(p)
  <2> USE <1>3 DEF Detect, Goto, Judged, records, advice, cursor, budgets
  <2>0. Compared(p) \in {"nothing", "same", "change"}
    BY DEF Compared
  <2>1. copy' \in [Owners -> Copies]
    BY <1>0, <2>0 DEF Copies
  <2>a. copy[p].change = 0 /\ ~copy[p].cited
    BY DEF Polls
  <2>b. /\ copy'[p].change = 0 /\ ~copy'[p].cited
        /\ copy'[p].found = "change" => copy'[p].content = copy[p].content
    BY <1>0, <2>0, <2>a DEF Copies, Blank
  <2>2. pc' = [pc EXCEPT ![p] = pc'[p]] /\ pc'[p] \in {"write", "ingest", "settle"}
    OBVIOUS
  <2>3. TypeOK'
    BY <2>1, <2>2 DEF Mishaps, Told
  <2>4. Polls'
    <3>1. Len(changes) \in Nat /\ rowLock' = rowLock /\ rowLock # p /\ changes' = changes
      BY DEF Polls
    <3> QED
      BY <2>2, <2>a, <2>b, <3>1 DEF Polls
  <2> QED
    BY <2>3, <2>4 DEF SeenIsRecorded
<1>4. CASE WriteCursor(p)
  <2> USE <1>4 DEF WriteCursor, Goto, Judged, records, advice, cursor, budgets
  <2>1. pc' = [pc EXCEPT ![p] = pc'[p]] /\ pc'[p] \in {"ingest", "settle"}
    OBVIOUS
  <2>2. TypeOK'
    BY <2>1 DEF Mishaps, Told
  <2>3. Polls'
    BY <2>1, OwnersAssumption DEF Polls
  <2> QED
    BY <2>2, <2>3 DEF SeenIsRecorded
<1> QED
  BY <1>1, <1>2, <1>3, <1>4

\* A poll commits its ingest run and reacts.
LEMMA ReactingInv ==
    ASSUME Inv, NEW p \in Owners,
           Ingest(p) \/ RunActions(p) \/ RefreshSession(p) \/ RefreshUnstored(p)
    PROVE  Inv'
<1> USE DEF Inv, TypeOK
<1>0. /\ copy[p] \in Copies /\ copy[p].change <= Len(changes) /\ None \notin Owners
      /\ Blank \in Copies
  BY OwnersAssumption, BoundsAssumption DEF Polls, Blank, Copies, Versions
<1>1. CASE Ingest(p)
  <2> USE <1>1 DEF Ingest, Goto, Unlocked, budgets
  <2> DEFINE c == [Blank EXCEPT !.change = Recorded(p)]
  <2>1. /\ seen' \in Versions \cup {None} /\ age' \in 0..Refresh \cup {None}
        /\ changes' \in Seq(Change) /\ Len(changes) <= Len(changes') /\ SeenIsRecorded'
        /\ Recorded(p) \in Nat /\ Recorded(p) <= Len(changes')
    BY Flushing
  <2>2. c \in Copies /\ c.change = Recorded(p) /\ ~c.cited /\ c.found # "change"
    BY <1>0, <2>1, RecordedType DEF Blank
  <2>3. copy' = [copy EXCEPT ![p] = c]
    OBVIOUS
  <2> HIDE DEF c
  <2>4. Told' \subseteq DOMAIN changes'
    BY <2>1 DEF Told, advice
  <2>5. TypeOK'
    BY <2>1, <2>2, <2>3, <2>4 DEF Mishaps, advice
  <2>6. /\ Others(p) /\ copy'[p] = c /\ pc'[p] = "react" /\ rowLock' # p
    BY <1>0, <2>3 DEF Others
  <2>7. Polls'
    BY <2>1, <2>2, <2>6, OthersPolls
  <2> QED
    BY <2>1, <2>5, <2>7
<1>2. CASE RunActions(p)
  <2> USE <1>2 DEF RunActions, Goto, records, advice, cursor, budgets
  <2>1. TypeOK'
    BY DEF Mishaps, Told
  <2>2. Polls'
    BY DEF Polls
  <2> QED
    BY <2>1, <2>2 DEF SeenIsRecorded
<1>3. CASE RefreshSession(p) \/ RefreshUnstored(p)
  <2>1. PICK b \in BOOLEAN : copy' = [copy EXCEPT ![p].cited = b]
    BY <1>3 DEF RefreshSession, RefreshUnstored
  <2>2. /\ pc[p] = "react" /\ pc' = [pc EXCEPT ![p] = "settle"]
        /\ UNCHANGED <<world, seen, age, changes, holder, rowLock>>
    BY <1>3 DEF RefreshSession, RefreshUnstored, Goto, records, advice, cursor, budgets
  <2>3. /\ {lapses', edits', faults'} \subseteq Nat /\ Mishaps' <= MaxMishaps
    BY <1>3, BoundsAssumption DEF RefreshSession, RefreshUnstored, Mishaps, budgets
  <2>4. UNCHANGED <<linked, note>>
    BY <1>3 DEF RefreshSession, RefreshUnstored, records, advice
  <2>8. Told' \subseteq DOMAIN changes'
    BY <1>0, <1>3 DEF RefreshSession, RefreshUnstored, Told, records, advice, cursor, Copies
  <2>5. copy' \in [Owners -> Copies]
    BY <1>0, <2>1 DEF Copies
  <2>6. TypeOK'
    BY <2>2, <2>3, <2>4, <2>5, <2>8
  <2>7. Polls'
    BY <1>0, <2>1, <2>2 DEF Polls, Copies
  <2> QED
    BY <2>2, <2>6, <2>7 DEF SeenIsRecorded
<1> QED
  BY <1>1, <1>2, <1>3

\* A poll ends, in one way or another, or is started again.
LEMMA EndingInv ==
    ASSUME Inv, NEW p \in Owners,
           \/ Settle(p) \/ SettleLost(p) \/ Fail(p) \/ Kill(p) \/ Restart(p)
           \/ IngestRollsBack(p) \/ RefreshRollsBack(p)
    PROVE  Inv'
<1> USE DEF Inv, TypeOK
<1>0. copy[p] \in Copies /\ copy[p].change <= Len(changes) /\ Blank \in Copies
  BY BoundsAssumption DEF Polls, Blank, Copies, Versions
<1>1. CASE Settle(p)
  <2> USE <1>1 DEF Settle, budgets
  <2>1. /\ seen' \in Versions \cup {None} /\ age' \in 0..Refresh \cup {None}
        /\ changes' \in Seq(Change) /\ Len(changes) <= Len(changes') /\ SeenIsRecorded'
        /\ Recorded(p) \in Nat /\ Recorded(p) <= Len(changes')
    BY Flushing
  <2>2. Told' \subseteq DOMAIN changes'
    BY <2>1 DEF Cited, Told
  <2>3. copy' = [copy EXCEPT ![p] = Blank] /\ rowLock' = Unlocked(p)
    BY DEF Leave
  <2>4. PICK x \in {"idle", "done", "dead"} : pc' = [pc EXCEPT ![p] = x]
    BY DEF Leave, Goto
  <2>5. TypeOK'
    BY <1>0, <2>1, <2>2, <2>3, <2>4 DEF Mishaps, Unlocked
  <2>6. /\ Others(p) /\ copy'[p] = Blank /\ pc'[p] = x /\ rowLock' # p
    BY <1>0, <2>3, <2>4, OwnersAssumption DEF Others, Unlocked
  <2>7. Polls'
    BY <2>1, <2>6, OthersPolls DEF Blank
  <2> QED
    BY <2>1, <2>5, <2>7
<1>2. CASE SettleLost(p) \/ Fail(p) \/ Kill(p) \/ IngestRollsBack(p) \/ RefreshRollsBack(p)
  <2>1. /\ copy' = [copy EXCEPT ![p] = Blank] /\ rowLock' = Unlocked(p)
        /\ UNCHANGED <<world, seen, age, changes, linked, note>>
        /\ holder' \in {holder, None}
    BY <1>2 DEF SettleLost, Fail, Kill, IngestRollsBack, RefreshRollsBack, Abandon, Leave,
                records, advice, cursor
  <2>a. Told' \subseteq DOMAIN changes
    BY <1>0, <1>2 DEF SettleLost, Fail, Kill, IngestRollsBack, RefreshRollsBack, Told,
                      records, advice, cursor, Copies
  <2>2. PICK x \in {"idle", "done", "dead"} : Goto(p, x)
    BY <1>2 DEF SettleLost, Fail, Kill, IngestRollsBack, RefreshRollsBack, Abandon, Leave
  <2>3. {lapses', edits', faults'} \subseteq Nat /\ Mishaps' <= MaxMishaps
    BY <1>2, BoundsAssumption DEF SettleLost, Fail, Kill, IngestRollsBack, RefreshRollsBack,
                                  Mishaps, budgets
  <2> QED
    BY <2>1, <2>a, <2>2, <2>3, Left DEF SeenIsRecorded
<1>3. CASE Restart(p)
  <2> USE <1>3 DEF Restart, Goto, records, advice, cursor, budgets
  <2>1. TypeOK'
    BY DEF Mishaps, Told
  <2>2. Polls'
    BY DEF Polls
  <2> QED
    BY <2>1, <2>2 DEF SeenIsRecorded
<1> QED
  BY <1>1, <1>2, <1>3

\* Leases, users, the source and time.
LEMMA TimeInv == Inv /\ (Lapse \/ Reset \/ Relink \/ News \/ Tick) => Inv'
<1> SUFFICES ASSUME Inv, Lapse \/ Reset \/ Relink \/ News \/ Tick PROVE Inv'
  OBVIOUS
<1> USE DEF Inv, TypeOK
<1>1. UNCHANGED <<changes, Told, pc, copy, rowLock>>
  BY DEF Told, Lapse, Reset, Relink, News, Tick, records, advice, cursor, budgets
<1>2. {lapses', edits', faults'} \subseteq Nat /\ Mishaps' <= MaxMishaps
  BY BoundsAssumption DEF Lapse, Reset, Relink, News, Tick, records, advice, cursor, budgets, Mishaps
<1>3. /\ holder' \in {holder, None} /\ seen' \in {seen, None}
      /\ world' \in Versions /\ age' \in 0..Refresh \cup {None}
  BY BoundsAssumption DEF Lapse, Reset, Relink, News, Tick, records, advice, cursor, budgets,
                          Versions
<1>a. linked' \in BOOLEAN /\ note' \in {"harmless", "new", "known"}
  BY DEF Lapse, Reset, Relink, News, Tick, records, advice
<1>4. TypeOK'
  BY <1>1, <1>2, <1>3, <1>a
<1> QED
  BY <1>1, <1>3, <1>4 DEF Polls, SeenIsRecorded

\* The rest of the state does not change with a stuttering step.
LEMMA NextInv == Inv /\ [Next]_vars => Inv'
<1> SUFFICES ASSUME Inv, [Next]_vars PROVE Inv'
  OBVIOUS
<1>1. CASE Next
  BY <1>1, ReadingInv, ReactingInv, EndingInv, TimeInv DEF Next, Advance, Owners
<1>2. CASE UNCHANGED vars
  BY <1>2 DEF vars, records, advice, cursor, budgets, Inv, TypeOK, Mishaps, Told, Polls,
              SeenIsRecorded
<1> QED
  BY <1>1, <1>2

LEMMA Invariance == Spec => []Inv
  BY InitInv, NextInv, PTL DEF Spec

\* The rows and the polls' variables have the values the columns and the code
\* allow; what the strategic session's versions cite are change records.
THEOREM TypeCorrect == Spec => []TypeOK
<1>1. Inv => TypeOK
  BY DEF Inv
<1> QED
  BY Invariance, <1>1, PTL

\* The cursor row and the change records are committed together by every poll,
\* so the remembered hash is that of the last change, or forgotten by a reset.
THEOREM SeenHasRecord == Spec => []SeenIsRecorded
<1>1. Inv => SeenIsRecorded
  BY DEF Inv
<1> QED
  BY Invariance, <1>1, PTL

-----------------------------------------------------------------------------
(* What lost leases and failures cost.                                     *)

\* The size of a set that has shrunk, lost an element or gained one.
LEMMA Sizes ==
    ASSUME NEW A, IsFiniteSet(A), NEW B
    PROVE  /\ Cardinality(A) \in Nat
           /\ B \subseteq A => IsFiniteSet(B) /\ Cardinality(B) \in Nat
                               /\ Cardinality(B) <= Cardinality(A)
           /\ \A x : B \subseteq A \cup {x} =>
                IsFiniteSet(B) /\ Cardinality(B) \in Nat /\ Cardinality(B) <= Cardinality(A) + 1
           /\ \A x \in A : B \subseteq A \ {x} =>
                IsFiniteSet(B) /\ Cardinality(B) \in Nat /\ Cardinality(B) <= Cardinality(A) - 1
<1>1. Cardinality(A) \in Nat
  BY FS_CardinalityType
<1>2. ASSUME NEW C, IsFiniteSet(C), B \subseteq C
      PROVE  IsFiniteSet(B) /\ Cardinality(B) \in Nat /\ Cardinality(B) <= Cardinality(C)
  BY <1>2, FS_Subset, FS_CardinalityType
<1>3. ASSUME NEW x, B \subseteq A \cup {x}
      PROVE  IsFiniteSet(B) /\ Cardinality(B) \in Nat /\ Cardinality(B) <= Cardinality(A) + 1
  <2>1. /\ IsFiniteSet(A \cup {x}) /\ Cardinality(A \cup {x}) \in Nat
        /\ Cardinality(A \cup {x}) <= Cardinality(A) + 1
    BY <1>1, FS_AddElement, FS_CardinalityType
  <2> QED
    BY <1>1, <1>2, <1>3, <2>1
<1>4. ASSUME NEW x \in A, B \subseteq A \ {x}
      PROVE  IsFiniteSet(B) /\ Cardinality(B) \in Nat /\ Cardinality(B) <= Cardinality(A) - 1
  <2>1. IsFiniteSet(A \ {x}) /\ Cardinality(A \ {x}) = Cardinality(A) - 1
    BY FS_RemoveElement
  <2> QED
    BY <1>1, <1>2, <1>4, <2>1
<1> QED
  BY <1>1, <1>2, <1>3, <1>4

\* There are not more broken links and forgotten changes than changes.
LEMMA FewChanges == Inv => IsFiniteSet(BrokenLinks) /\ IsFiniteSet(Forgotten)
<1> SUFFICES ASSUME Inv PROVE IsFiniteSet(BrokenLinks) /\ IsFiniteSet(Forgotten)
  OBVIOUS
<1>1. Len(changes) \in Nat /\ DOMAIN changes = 1..Len(changes)
  BY DEF Inv, TypeOK
<1>2. BrokenLinks \subseteq 1..Len(changes) /\ Forgotten \subseteq 1..Len(changes)
  BY <1>1 DEF BrokenLinks, Forgotten
<1>3. IsFiniteSet(1..Len(changes))
  BY <1>1, FS_Interval
<1> QED
  BY <1>2, <1>3, FS_Subset

\* What the holder of the lease may do in a step of p.
LeaseOf(p) == holder' = holder \/ {holder, holder'} \subseteq {None, p}

\* In a step of one poll no other one becomes late.
LEMMA OthersLate ==
    ASSUME NEW p \in Owners, Others(p), LeaseOf(p), Told \subseteq Told',
           NEW q \in Owners \ {p}
    PROVE  /\ q \in Late' => q \in Late
           /\ q \in Writing' => q \in Writing
           /\ q \in Untold' => q \in Untold
           /\ q = holder' => q = holder
<1>1. q # None
  BY OwnersAssumption
<1>2. q = holder <=> q = holder'
  BY <1>1 DEF LeaseOf
<1> QED
  BY <1>2 DEF Others, Late, Writing, Unwritten, Working, Untold

\* A step of a poll that writes no change record breaks no link.
LEMMA NoLinkBroken ==
    ASSUME Inv, Accounts, NEW p \in Owners, Others(p), LeaseOf(p), Told \subseteq Told',
           changes' = changes, lapses' = lapses,
           p \in Writing' => p \in Writing,
           p = holder' /\ Pending(p)' =>
                \/ p = holder /\ Pending(p) /\ copy'[p].before = copy[p].before
                \/ copy'[p].before \in {None, seen}
    PROVE  LinksCounted'
<1>1. Writing' \subseteq Writing /\ BrokenLinks' = BrokenLinks
  BY OthersLate DEF Writing, Late, BrokenLinks
<1>2. Stale' => Stale
  <2> SUFFICES ASSUME NEW q \in Owners, q = holder', Outdated(q)'
               PROVE  q = holder /\ Outdated(q)
    BY DEF Stale
  <2>1. CASE q = p
    <3>1. copy'[p].before \notin {None, seen}
      BY <2>1 DEF Outdated, Inv, SeenIsRecorded
    <3> QED
      BY <2>1, <3>1 DEF Outdated
  <2>2. CASE q # p
    BY <2>2, OthersLate DEF Others, Outdated, Pending
  <2> QED
    BY <2>1, <2>2
<1>3. /\ IsFiniteSet(Writing) /\ Cardinality(Writing) \in Nat
      /\ Cardinality(BrokenLinks) \in Nat
  BY Sizes, FewChanges, FS_CardinalityType DEF Accounts, Writing
<1>4. Cardinality(Writing') \in Nat /\ Cardinality(Writing') <= Cardinality(Writing)
  BY <1>1, <1>3, Sizes
<1> QED
  BY <1>1, <1>2, <1>3, <1>4 DEF Accounts, LinksCounted, Inv, TypeOK

\* A poll that commits a change record.
Appends(p) == Flushed(p) /\ rowLock = p /\ copy[p].found = "change"

\* A committed change record breaks a link only if it comes late, or after a
\* late one.
LEMMA LinkBroken ==
    ASSUME Inv, Accounts, NEW p \in Owners, Appends(p), Others(p), LeaseOf(p),
           Told \subseteq Told', lapses' = lapses,
           rowLock' # p, pc'[p] \notin {"analyze", "detect", "write"}
    PROVE  LinksCounted'
<1> DEFINE n == Len(changes)
<1>1. /\ changes' \in Seq(Change) /\ Len(changes') = n + 1 /\ n \in Nat
      /\ changes'[n + 1].before = copy[p].before
      /\ \A i \in 1..n : changes'[i] = changes[i]
  BY Flushing DEF Appends, Inv, TypeOK
<1>2. BrokenLinks' \subseteq BrokenLinks \cup {n}
  BY <1>1 DEF BrokenLinks
<1>3. p \notin Writing' /\ ~Pending(p)'
  BY DEF Writing, Unwritten, Pending
<1>4. Writing' \subseteq Writing \ {p}
  BY <1>3, OthersLate DEF Writing, Late
<1>5. /\ IsFiniteSet(Writing) /\ Cardinality(Writing) \in Nat
      /\ IsFiniteSet(BrokenLinks) /\ Cardinality(BrokenLinks) \in Nat
  BY Sizes, FewChanges, FS_CardinalityType DEF Accounts, Writing
<1>6. /\ Cardinality(BrokenLinks') \in Nat
      /\ Cardinality(BrokenLinks') <= Cardinality(BrokenLinks) + 1
  BY <1>2, <1>5, Sizes
<1>7. lapses \in Nat /\ lapses' \in Nat
  BY DEF Inv, TypeOK
<1>8. CASE p = holder
  <2>1. ~Stale'
    <3> SUFFICES ASSUME NEW q \in Owners, q = holder', Outdated(q)' PROVE FALSE
      BY DEF Stale
    <3> QED
      BY <1>3, <1>8, OthersLate DEF Outdated
  <2>2. Cardinality(Writing') \in Nat /\ Cardinality(Writing') <= Cardinality(Writing)
    BY <1>4, <1>5, Sizes
  <2>3. CASE Stale
    BY <1>5, <1>6, <1>7, <2>1, <2>2, <2>3 DEF Accounts, LinksCounted
  <2>4. CASE ~Stale
    <3>1. n = 0 \/ copy[p].before \in {None, changes[n].after}
      BY <1>1, <1>8, <2>4 DEF Stale, Outdated, Pending, Appends
    <3>2. n \notin BrokenLinks'
      BY <1>1, <3>1 DEF BrokenLinks
    <3>3. BrokenLinks' \subseteq BrokenLinks
      BY <1>2, <3>2
    <3>4. /\ Cardinality(BrokenLinks') \in Nat
          /\ Cardinality(BrokenLinks') <= Cardinality(BrokenLinks)
      BY <1>5, <3>3, Sizes
    <3> QED
      BY <1>5, <1>7, <2>1, <2>2, <2>4, <3>4 DEF Accounts, LinksCounted
  <2> QED
    BY <2>3, <2>4
<1>9. CASE p # holder
  <2>1. p \in Writing
    BY <1>9 DEF Writing, Late, Unwritten, Working, Appends, Inv, Polls
  <2>2. Cardinality(Writing') \in Nat /\ Cardinality(Writing') <= Cardinality(Writing) - 1
    BY <1>4, <1>5, <2>1, Sizes
  <2> QED
    BY <1>5, <1>6, <1>7, <2>2 DEF Accounts, LinksCounted
<1> QED
  BY <1>8, <1>9

\* Which change a step of a poll can let go: its own, unless it keeps it, or a
\* version cites it.
LEMMA Forgetting ==
    ASSUME Inv, NEW p \in Owners, Others(p), Told \subseteq Told',
           changes' \in Seq(Change),
           \/ changes' = changes
           \/ /\ Len(changes') = Len(changes) + 1
              /\ copy'[p].change = Len(changes) + 1 \/ Len(changes) + 1 \in Told'
    PROVE  /\ Forgotten' \subseteq Forgotten \cup {copy[p].change}
           /\ copy[p].change \in {0, copy'[p].change} \cup Told' => Forgotten' \subseteq Forgotten
<1>1. ASSUME NEW i \in Forgotten'
      PROVE  i \in Forgotten \/ (i = copy[p].change /\ i \notin {0, copy'[p].change} \cup Told')
  <2>1. /\ i \in DOMAIN changes' /\ i \notin Told'
        /\ \A q \in Owners : copy'[q].change # i
    BY DEF Forgotten
  <2>2. i \in DOMAIN changes /\ i # 0
    BY <2>1 DEF Inv, TypeOK
  <2>3. i \notin Told
    BY <2>1
  <2>4. \A q \in Owners \ {p} : copy[q].change # i
    BY <2>1 DEF Others
  <2> QED
    BY <2>1, <2>2, <2>3, <2>4 DEF Forgotten
<1> QED
  BY <1>1

\* A step in which no poll becomes late, and no change is forgotten nor any
\* poll deceived without a failure.
LEMMA NothingLost ==
    ASSUME Inv, Accounts, NEW p \in Owners, Late' \subseteq Late, lapses' = lapses,
           \/ Forgotten' \subseteq Forgotten /\ Untold' \subseteq Untold /\ faults' = faults
           \/ /\ Forgotten' \subseteq Forgotten /\ Untold' \subseteq Untold \cup {p}
              /\ faults' = faults + 1
           \/ \E c : /\ Forgotten' \subseteq Forgotten \cup {c} /\ Untold' \subseteq Untold
                     /\ faults' = faults + 1
    PROVE  IsFiniteSet(Late') /\ IsFiniteSet(Untold') /\ ChangesCounted'
<1>1. /\ IsFiniteSet(Late) /\ IsFiniteSet(Untold) /\ IsFiniteSet(Forgotten)
      /\ lapses \in Nat /\ faults \in Nat
  BY FewChanges DEF Accounts, Inv, TypeOK
<1>2. /\ Cardinality(Late) \in Nat /\ Cardinality(Untold) \in Nat /\ Cardinality(Forgotten) \in Nat
  BY <1>1, FS_CardinalityType
<1>3. /\ IsFiniteSet(Late') /\ Cardinality(Late') \in Nat
      /\ Cardinality(Late') <= Cardinality(Late)
  BY <1>1, Sizes
<1>4. CASE Forgotten' \subseteq Forgotten /\ Untold' \subseteq Untold /\ faults' = faults
  <2>1. /\ Cardinality(Forgotten') \in Nat /\ Cardinality(Forgotten') <= Cardinality(Forgotten)
    BY <1>1, <1>4, Sizes
  <2>2. /\ IsFiniteSet(Untold') /\ Cardinality(Untold') \in Nat
        /\ Cardinality(Untold') <= Cardinality(Untold)
    BY <1>1, <1>4, Sizes
  <2> QED
    BY <1>1, <1>2, <1>3, <1>4, <2>1, <2>2 DEF Accounts, ChangesCounted
<1>5. CASE /\ Forgotten' \subseteq Forgotten /\ Untold' \subseteq Untold \cup {p}
           /\ faults' = faults + 1
  <2>1. /\ Cardinality(Forgotten') \in Nat /\ Cardinality(Forgotten') <= Cardinality(Forgotten)
    BY <1>1, <1>5, Sizes
  <2>2. /\ IsFiniteSet(Untold') /\ Cardinality(Untold') \in Nat
        /\ Cardinality(Untold') <= Cardinality(Untold) + 1
    BY <1>1, <1>5, Sizes
  <2> QED
    BY <1>1, <1>2, <1>3, <1>5, <2>1, <2>2 DEF Accounts, ChangesCounted
<1>6. CASE \E c : /\ Forgotten' \subseteq Forgotten \cup {c} /\ Untold' \subseteq Untold
                  /\ faults' = faults + 1
  <2>1. /\ Cardinality(Forgotten') \in Nat
        /\ Cardinality(Forgotten') <= Cardinality(Forgotten) + 1
    BY <1>1, <1>6, Sizes
  <2>2. /\ IsFiniteSet(Untold') /\ Cardinality(Untold') \in Nat
        /\ Cardinality(Untold') <= Cardinality(Untold)
    BY <1>1, <1>6, Sizes
  <2> QED
    BY <1>1, <1>2, <1>3, <1>6, <2>1, <2>2 DEF Accounts, ChangesCounted
<1> QED
  BY <1>4, <1>5, <1>6

\* A poll that forgets its change and gives up a debt: it is late no more, or
\* deceived no more.
LEMMA DebtPaid ==
    ASSUME Inv, Accounts, NEW p \in Owners, NEW c, lapses' = lapses, faults' = faults,
           Forgotten' \subseteq Forgotten \cup {c},
           \/ p \in Late /\ Late' \subseteq Late \ {p} /\ Untold' \subseteq Untold
           \/ p \in Untold /\ Late' \subseteq Late /\ Untold' \subseteq Untold \ {p}
    PROVE  IsFiniteSet(Late') /\ IsFiniteSet(Untold') /\ ChangesCounted'
<1>1. /\ IsFiniteSet(Late) /\ IsFiniteSet(Untold) /\ IsFiniteSet(Forgotten)
      /\ lapses \in Nat /\ faults \in Nat
  BY FewChanges DEF Accounts, Inv, TypeOK
<1>2. /\ Cardinality(Late) \in Nat /\ Cardinality(Untold) \in Nat /\ Cardinality(Forgotten) \in Nat
  BY <1>1, FS_CardinalityType
<1>3. /\ Cardinality(Forgotten') \in Nat
      /\ Cardinality(Forgotten') <= Cardinality(Forgotten) + 1
  BY <1>1, Sizes
<1>4. CASE p \in Late /\ Late' \subseteq Late \ {p} /\ Untold' \subseteq Untold
  <2>1. /\ IsFiniteSet(Late') /\ Cardinality(Late') \in Nat
        /\ Cardinality(Late') <= Cardinality(Late) - 1
    BY <1>1, <1>4, Sizes
  <2>2. /\ IsFiniteSet(Untold') /\ Cardinality(Untold') \in Nat
        /\ Cardinality(Untold') <= Cardinality(Untold)
    BY <1>1, <1>4, Sizes
  <2> QED
    BY <1>1, <1>2, <1>3, <2>1, <2>2 DEF Accounts, ChangesCounted
<1>5. CASE p \in Untold /\ Late' \subseteq Late /\ Untold' \subseteq Untold \ {p}
  <2>1. /\ IsFiniteSet(Late') /\ Cardinality(Late') \in Nat
        /\ Cardinality(Late') <= Cardinality(Late)
    BY <1>1, <1>5, Sizes
  <2>2. /\ IsFiniteSet(Untold') /\ Cardinality(Untold') \in Nat
        /\ Cardinality(Untold') <= Cardinality(Untold) - 1
    BY <1>1, <1>5, Sizes
  <2> QED
    BY <1>1, <1>2, <1>3, <2>1, <2>2 DEF Accounts, ChangesCounted
<1> QED
  BY <1>4, <1>5

\* A poll that neither commits nor ends.
LEMMA QuietAccounts ==
    ASSUME Inv, Accounts, NEW p \in Owners,
           Begin(p) \/ Analyze(p) \/ Detect(p) \/ WriteCursor(p) \/ RunActions(p) \/ Restart(p)
    PROVE  Accounts'
<1> USE DEF Inv, TypeOK
<1>0. copy[p] \in Copies /\ pc[p] # "settle" => ~copy[p].cited
  BY DEF Polls
<1>1. /\ UNCHANGED <<changes, Told, seen, lapses, faults>>
      /\ pc' = [pc EXCEPT ![p] = pc'[p]] /\ copy' = [copy EXCEPT ![p] = copy'[p]]
      /\ rowLock' = rowLock \/ (rowLock = None /\ rowLock' = p)
  BY DEF Begin, Analyze, Detect, WriteCursor, RunActions, Restart, Goto, Told,
         records, advice, cursor, budgets
<1>2. Others(p)
  BY <1>1, OwnersAssumption DEF Others
<1>3. LeaseOf(p)
  BY DEF Begin, Free, Analyze, Detect, WriteCursor, RunActions, Restart, LeaseOf
<1>4. copy[p].change \in {0, copy'[p].change}
  BY DEF Begin, Analyze, Detect, WriteCursor, RunActions, Restart, Polls
<1>5. ~copy'[p].cited \/ pc'[p] # "settle"
  <2>1. CASE Begin(p) \/ Analyze(p) \/ Restart(p)
    BY <2>1 DEF Begin, Analyze, Restart, Goto
  <2>2. CASE Detect(p) \/ WriteCursor(p) \/ RunActions(p)
    <3>1. pc[p] # "settle"
      BY <2>2 DEF Detect, WriteCursor, RunActions
    <3>2. copy'[p].cited = copy[p].cited
      <4>1. \/ copy'[p] = copy[p]
            \/ copy'[p] = [copy[p] EXCEPT !.before = seen, !.found = "change"]
            \/ copy'[p] = [Blank EXCEPT !.found = Compared(p)] /\ pc[p] = "detect"
        BY <2>2 DEF Detect, WriteCursor, RunActions
      <4> QED
        BY <1>0, <3>1, <4>1 DEF Copies, Blank
    <3> QED
      BY <1>0, <3>1, <3>2
  <2> QED
    BY <2>1, <2>2
<1>6. (p \in Late' => p \in Late) /\ (p \in Writing' => p \in Writing)
  BY DEF Begin, Analyze, Detect, WriteCursor, RunActions, Restart, Goto, Polls,
         Late, Writing, Unwritten, Working
<1>7. p = holder' /\ Pending(p)' =>
        \/ p = holder /\ Pending(p) /\ copy'[p].before = copy[p].before
        \/ copy'[p].before \in {None, seen}
  <2>1. CASE Begin(p) \/ Analyze(p) \/ RunActions(p) \/ Restart(p)
    BY <2>1 DEF Begin, Analyze, RunActions, Restart, Goto, Polls, Pending
  <2>2. CASE Detect(p)
    BY <1>0, <2>2 DEF Detect, Copies, Blank
  <2>3. CASE WriteCursor(p)
    BY <2>3 DEF WriteCursor, Pending
  <2> QED
    BY <2>1, <2>2, <2>3
<1>8. LinksCounted'
  BY <1>1, <1>2, <1>3, <1>6, <1>7, NoLinkBroken
<1>9. Forgotten' \subseteq Forgotten
  BY <1>1, <1>2, <1>4, Forgetting
<1>10. Late' \subseteq Late /\ Untold' \subseteq Untold
  BY <1>1, <1>2, <1>3, <1>5, <1>6, OthersLate DEF Late, Untold
<1> QED
  BY <1>1, <1>8, <1>9, <1>10, NothingLost DEF Accounts

\* A strategic session is refreshed, or its workflow stores nothing.
LEMMA RefreshAccounts ==
    ASSUME Inv, Accounts, NEW p \in Owners, RefreshSession(p) \/ RefreshUnstored(p)
    PROVE  Accounts'
<1> USE DEF Inv, TypeOK
<1> PICK b \in BOOLEAN : copy' = [copy EXCEPT ![p].cited = b]
  BY DEF RefreshSession, RefreshUnstored
<1>0. copy' = [copy EXCEPT ![p] = copy'[p]] /\ copy'[p].change = copy[p].change
  BY DEF Copies
<1>1. /\ UNCHANGED <<changes, seen, lapses, holder, rowLock>>
      /\ pc[p] = "react" /\ pc' = [pc EXCEPT ![p] = "settle"]
      /\ Told \subseteq Told'
  BY DEF RefreshSession, RefreshUnstored, Goto, Told, records, advice, cursor, budgets
<1>2. Others(p) /\ LeaseOf(p)
  BY <1>0, <1>1, OwnersAssumption DEF Others, LeaseOf
<1>3. rowLock' # p
  BY <1>1 DEF Polls
<1>4. (p \in Late' => p \in Late) /\ p \notin Writing' /\ ~Pending(p)'
  BY <1>1, <1>3 DEF Late, Writing, Unwritten, Working, Pending
<1>5. LinksCounted'
  BY <1>1, <1>2, <1>4, NoLinkBroken
<1>6. Forgotten' \subseteq Forgotten
  BY <1>0, <1>1, <1>2, Forgetting
<1>7. Late' \subseteq Late /\ Untold' \subseteq Untold \cup {p}
  BY <1>1, <1>2, <1>4, OthersLate DEF Late, Untold
<1>8. CASE RefreshSession(p)
  <2>1. p \notin Untold'
    BY <1>1, <1>8 DEF RefreshSession, Untold, Told
  <2>2. Untold' \subseteq Untold /\ faults' = faults
    BY <1>7, <1>8, <2>1 DEF RefreshSession, budgets
  <2> QED
    BY <1>1, <1>5, <1>6, <1>7, <2>2, NothingLost DEF Accounts
<1>9. CASE RefreshUnstored(p)
  <2>1. faults' = faults + 1
    BY <1>9 DEF RefreshUnstored
  <2> QED
    BY <1>1, <1>5, <1>6, <1>7, <2>1, NothingLost DEF Accounts
<1> QED
  BY <1>8, <1>9

\* A poll that commits, with or without a change record, after which it does
\* not write any more.
LEMMA LinksWritten ==
    ASSUME Inv, Accounts, NEW p \in Owners, Flushed(p), Others(p), LeaseOf(p),
           Told \subseteq Told', lapses' = lapses,
           rowLock' # p, pc'[p] \notin {"analyze", "detect", "write"}
    PROVE  LinksCounted'
<1>1. p \notin Writing' /\ ~Pending(p)'
  BY DEF Writing, Unwritten, Pending
<1>2. CASE rowLock = p /\ copy[p].found = "change"
  BY <1>2, LinkBroken DEF Appends
<1>3. CASE ~(rowLock = p /\ copy[p].found = "change")
  <2>1. changes' = changes
    BY <1>3 DEF Flushed, cursor
  <2> QED
    BY <1>1, <2>1, NoLinkBroken
<1> QED
  BY <1>2, <1>3

\* A poll stores its ingest run and commits.
LEMMA IngestAccounts ==
    ASSUME Inv, Accounts, NEW p \in Owners, Ingest(p)
    PROVE  Accounts'
<1> USE DEF Inv, TypeOK, Ingest, Goto, Told, advice, budgets
<1>0. Blank \in Copies
  BY BoundsAssumption DEF Blank, Copies, Versions
<1>1. /\ Others(p) /\ LeaseOf(p) /\ rowLock' # p /\ pc'[p] = "react"
      /\ copy'[p] = [Blank EXCEPT !.change = Recorded(p)]
  BY OwnersAssumption DEF Others, LeaseOf, Unlocked
<1>2. copy'[p].change = Recorded(p) /\ copy[p].change = 0
  BY <1>0, <1>1, RecordedType, Flushing DEF Polls
<1>3. LinksCounted'
  BY <1>1, LinksWritten
<1>4. /\ changes' \in Seq(Change)
      /\ \/ changes' = changes
         \/ Len(changes') = Len(changes) + 1 /\ copy'[p].change = Len(changes) + 1
  BY <1>2, Flushing
<1>5. Forgotten' \subseteq Forgotten
  BY <1>1, <1>2, <1>4, Forgetting
<1>6. Late' \subseteq Late /\ Untold' \subseteq Untold
  BY <1>1, OthersLate DEF Late, Working, Untold
<1> QED
  BY <1>3, <1>5, <1>6, NothingLost DEF Accounts

\* A poll stores its version and gives the lease back.
LEMMA SettleAccounts ==
    ASSUME Inv, Accounts, NEW p \in Owners, Settle(p)
    PROVE  Accounts'
<1> USE DEF Inv, TypeOK, Settle, Goto, Told, budgets
<1>1. /\ Others(p) /\ LeaseOf(p) /\ rowLock' # p /\ pc'[p] \in {"idle", "done"}
      /\ pc[p] = "settle" /\ copy'[p] = Blank
  BY OwnersAssumption DEF Leave, Others, LeaseOf, Unlocked
<1>2. LinksCounted'
  BY <1>1, LinksWritten
<1>3. /\ changes' \in Seq(Change)
      /\ \/ changes' = changes /\ Recorded(p) = copy[p].change
         \/ /\ Len(changes') = Len(changes) + 1 /\ Recorded(p) = Len(changes) + 1
            /\ rowLock = p
  BY Flushing
<1>4. rowLock = p => copy[p].change = 0 /\ ~copy[p].cited
  BY DEF Polls
<1>5. Len(changes') = Len(changes) + 1 => Len(changes) + 1 \in Told'
  BY <1>3, <1>4 DEF Cited
<1>6. /\ Forgotten' \subseteq Forgotten \cup {copy[p].change}
      /\ copy[p].change \in {0} \cup Told' => Forgotten' \subseteq Forgotten
  <2>1. Told \subseteq Told'
    OBVIOUS
  <2> QED
    BY <1>1, <1>3, <1>5, <2>1, Forgetting
<1>7. Late' \subseteq Late /\ Untold' \subseteq Untold \ {p}
  BY <1>1, OthersLate DEF Late, Working, Untold
<1>8. CASE copy[p].change \in {0} \cup Told'
  BY <1>2, <1>6, <1>7, <1>8, NothingLost DEF Accounts
<1>9. CASE copy[p].change \notin {0} \cup Told'
  <2>1. copy[p].cited
    BY <1>3, <1>4, <1>9 DEF Cited
  <2>2. p \in Untold
    BY <1>1, <1>9, <2>1 DEF Untold
  <2> QED
    BY <1>2, <1>6, <1>7, <2>2, DebtPaid DEF Accounts
<1> QED
  BY <1>8, <1>9

\* A poll whose work is rolled back.
LEMMA LosingAccounts ==
    ASSUME Inv, Accounts, NEW p \in Owners,
           \/ SettleLost(p) \/ Fail(p) \/ Kill(p)
           \/ IngestRollsBack(p) \/ RefreshRollsBack(p)
    PROVE  Accounts'
<1> USE DEF Inv, TypeOK
<1>1. /\ UNCHANGED <<seen, changes, lapses>> /\ Told \subseteq Told'
      /\ pc'[p] \in {"idle", "done", "dead"} /\ pc' = [pc EXCEPT ![p] = pc'[p]]
      /\ copy' = [copy EXCEPT ![p] = Blank] /\ rowLock' = Unlocked(p)
  BY DEF SettleLost, Fail, Kill, IngestRollsBack, RefreshRollsBack, Abandon, Leave, Goto, Told,
         records, advice, cursor, budgets
<1>2. Others(p) /\ LeaseOf(p) /\ rowLock' # p
  BY <1>1, OwnersAssumption DEF SettleLost, Fail, Kill, IngestRollsBack, RefreshRollsBack,
                                Abandon, Others, LeaseOf, Unlocked
<1>3. p \notin Late' /\ p \notin Writing' /\ ~Pending(p)' /\ p \notin Untold'
  BY <1>1, <1>2 DEF Late, Writing, Unwritten, Working, Pending, Untold
<1>4. LinksCounted'
  BY <1>1, <1>2, <1>3, NoLinkBroken
<1>5. Forgotten' \subseteq Forgotten \cup {copy[p].change}
  BY <1>1, <1>2, Forgetting
<1>6. Late' \subseteq Late \ {p} /\ Untold' \subseteq Untold
  BY <1>1, <1>2, <1>3, OthersLate DEF Late, Untold
<1>7. CASE SettleLost(p)
  <2>1. p \in Late /\ faults' = faults
    BY <1>7 DEF SettleLost, Late, Working, budgets
  <2> QED
    BY <1>1, <1>4, <1>5, <1>6, <2>1, DebtPaid DEF Accounts
<1>8. CASE Fail(p) \/ Kill(p)
  <2>1. faults' = faults + 1
    BY <1>8 DEF Fail, Kill
  <2> QED
    BY <1>1, <1>4, <1>5, <1>6, <2>1, NothingLost DEF Accounts
<1>9. CASE IngestRollsBack(p) \/ RefreshRollsBack(p)
  <2>1. copy[p].change \in {0} \cup Told'
    BY <1>9 DEF IngestRollsBack, RefreshRollsBack, Told, Polls
  <2>2. Forgotten' \subseteq Forgotten
    BY <1>1, <1>2, <2>1, Forgetting
  <2>3. faults' = faults
    BY <1>9 DEF IngestRollsBack, RefreshRollsBack, budgets
  <2> QED
    BY <1>1, <1>4, <1>6, <2>2, <2>3, NothingLost DEF Accounts
<1> QED
  BY <1>7, <1>8, <1>9

\* A lease that runs out: the owner, if it works on, is one more late poll.
LEMMA LapseAccounts == Inv /\ Accounts /\ Lapse => Accounts'
<1> SUFFICES ASSUME Inv, Accounts, Lapse PROVE Accounts'
  OBVIOUS
<1> USE DEF Inv, TypeOK
<1>1. /\ UNCHANGED <<changes, Told, pc, copy, rowLock, faults>>
      /\ holder' = None /\ holder \in Owners
  BY DEF Lapse, Told, records, advice, cursor
<1>2. BrokenLinks' = BrokenLinks /\ Forgotten' = Forgotten /\ Untold' = Untold
  BY <1>1 DEF BrokenLinks, Forgotten, Untold
<1>3. ~Stale'
  BY <1>1, OwnersAssumption DEF Stale
<1>4. /\ IsFiniteSet(Late) /\ Cardinality(Late) \in Nat
      /\ IsFiniteSet(Writing) /\ Cardinality(Writing) \in Nat
      /\ Cardinality(BrokenLinks) \in Nat
      /\ Cardinality(Forgotten) \in Nat /\ Cardinality(Untold) \in Nat
      /\ lapses \in Nat /\ faults \in Nat
  BY Sizes, FewChanges, FS_CardinalityType DEF Accounts, Writing
<1>5. CASE Working(holder)
  <2>1. Late' \subseteq Late \cup {holder} /\ Writing' \subseteq Writing \cup {holder}
    BY <1>1 DEF Late, Writing, Unwritten, Working
  <2>2. /\ IsFiniteSet(Late') /\ Cardinality(Late') \in Nat
        /\ Cardinality(Late') <= Cardinality(Late) + 1
    BY <1>4, <2>1, Sizes
  <2>3. /\ Cardinality(Writing') \in Nat /\ Cardinality(Writing') <= Cardinality(Writing) + 1
    BY <1>4, <2>1, Sizes
  <2>4. lapses' = lapses + 1
    BY <1>5 DEF Lapse
  <2>5. LinksCounted'
    BY <1>2, <1>3, <1>4, <2>3, <2>4 DEF Accounts, LinksCounted
  <2>6. ChangesCounted'
    BY <1>1, <1>2, <1>4, <2>2, <2>4 DEF Accounts, ChangesCounted
  <2> QED
    BY <1>2, <2>2, <2>5, <2>6 DEF Accounts
<1>6. CASE ~Working(holder)
  <2>1. Late' = Late /\ Writing' = Writing
    BY <1>1, <1>6, OwnersAssumption DEF Late, Writing, Unwritten, Working
  <2>2. lapses' = lapses
    BY <1>6 DEF Lapse
  <2>3. LinksCounted'
    BY <1>2, <1>3, <1>4, <2>1, <2>2 DEF Accounts, LinksCounted
  <2> QED
    BY <1>1, <1>2, <2>1, <2>2, <2>3 DEF Accounts, ChangesCounted
<1> QED
  BY <1>5, <1>6

\* Users, the source and time touch neither polls nor change records.
LEMMA RestAccounts ==
    Inv /\ Accounts /\ (Reset \/ Relink \/ News \/ Tick \/ UNCHANGED vars) => Accounts'
<1> SUFFICES ASSUME Inv, Accounts, Reset \/ Relink \/ News \/ Tick \/ UNCHANGED vars PROVE Accounts'
  OBVIOUS
<1>1. UNCHANGED <<changes, Told, holder, pc, copy, rowLock, lapses, faults>>
  BY DEF Told, Reset, Relink, News, Tick, vars, records, advice, cursor, budgets
<1>2. /\ BrokenLinks' = BrokenLinks /\ Forgotten' = Forgotten /\ Untold' = Untold
      /\ Late' = Late /\ Writing' = Writing /\ Stale' = Stale
  BY <1>1 DEF BrokenLinks, Forgotten, Untold, Late, Writing, Unwritten, Working,
              Stale, Outdated, Pending
<1> QED
  BY <1>1, <1>2 DEF Accounts, LinksCounted, ChangesCounted

LEMMA NextAccounts == Inv /\ Accounts /\ [Next]_vars => Accounts'
<1> SUFFICES ASSUME Inv, Accounts, [Next]_vars PROVE Accounts'
  OBVIOUS
<1>1. ASSUME NEW p \in Owners,
             \/ Begin(p) \/ Advance(p) \/ RefreshUnstored(p) \/ Fail(p) \/ Kill(p) \/ Restart(p)
             \/ IngestRollsBack(p) \/ RefreshRollsBack(p)
      PROVE  Accounts'
  BY <1>1, QuietAccounts, RefreshAccounts, IngestAccounts, SettleAccounts, LosingAccounts
     DEF Advance
<1> QED
  BY <1>1, LapseAccounts, RestAccounts DEF Next, Owners

LEMMA InitAccounts == Init => Accounts
<1> SUFFICES ASSUME Init PROVE Accounts
  OBVIOUS
<1>1. Late = {} /\ Writing = {} /\ Untold = {} /\ BrokenLinks = {} /\ Forgotten = {} /\ ~Stale
  BY DEF Init, Late, Writing, Working, Untold, BrokenLinks, Forgotten, Stale, Outdated
<1> QED
  BY <1>1, FS_EmptySet DEF Accounts, LinksCounted, ChangesCounted, Init

LEMMA AccountsHold == Spec => []Accounts
  BY InitAccounts, NextAccounts, Invariance, PTL DEF Spec

\* However polls interleave, fail and are reset, a link of the chain of change
\* records breaks only where a lease ran out under a working owner, and at most
\* two break for each.
THEOREM LinksBreakByLapses == Spec => []EachBreakIsALapse
<1>1. Inv /\ Accounts => EachBreakIsALapse
  <2> SUFFICES ASSUME Inv, Accounts PROVE EachBreakIsALapse
    OBVIOUS
  <2>1. /\ IsFiniteSet(Writing) /\ Cardinality(Writing) \in Nat
        /\ Cardinality(BrokenLinks) \in Nat /\ lapses \in Nat
    BY Sizes, FewChanges, FS_CardinalityType DEF Accounts, Writing, Inv, TypeOK
  <2> QED
    BY <2>1 DEF Accounts, LinksCounted, EachBreakIsALapse
<1> QED
  BY Invariance, AccountsHold, <1>1, PTL

\* A committed change stays without a version that cites it only by a failure
\* or a lost lease, and each accounts for one change at most.
THEOREM ForgottenByMishap == Spec => []EachForgottenHasCause
<1>1. Inv /\ Accounts => EachForgottenHasCause
  <2> SUFFICES ASSUME Inv, Accounts PROVE EachForgottenHasCause
    OBVIOUS
  <2>1. /\ Cardinality(Late) \in Nat /\ Cardinality(Untold) \in Nat
        /\ Cardinality(Forgotten) \in Nat /\ lapses \in Nat /\ faults \in Nat
    BY FewChanges, FS_CardinalityType DEF Accounts, Inv, TypeOK
  <2> QED
    BY <2>1 DEF Accounts, ChangesCounted, EachForgottenHasCause
<1> QED
  BY Invariance, AccountsHold, <1>1, PTL

================================================================================
