-------------------------- MODULE WatchLeaseProofs --------------------------
(***************************************************************************)
(* Proofs about WatchLease, for any number of rules, workers and requests  *)
(* and any window, session ages, lease, interval and retry delay.          *)
(***************************************************************************)
EXTENDS WatchLease, FiniteSetTheorems, SequenceTheorems, TLAPS

\* A schedule of rule r that ScheduleWithinWindow allows.
Planned(n, r) ==
    n # None => n < Window /\ (r \in late \/ n < created[r] + Window)

\* A loaded created_at of rule r: never earlier than the row's, and the row's
\* unless the start was moved since.
Known(from, r) ==
    from \in Int /\ created[r] <= from /\ from <= 0 /\ (r \in late \/ from = created[r])

\* A trigger request acts on a row it has read, and on a claim of its own.
RequestsRead ==
    \A q \in Requests : stage[q] \in {"read", "working"} =>
        /\ seen[q] \in Sightings
        /\ seen[q].at <= now
        /\ Planned(seen[q].nextPoll, seen[q].rule)
        /\ Known(seen[q].start, seen[q].rule)
        /\ stage[q] = "working" => claim[q][seen[q].rule] # None

\* A request has no claim before it made one.
NoEarlyClaims ==
    \A q \in Requests : stage[q] \in {"new", "read"} => \A r \in Rules : claim[q][r] = None

\* A worker that polls has a rule to poll.
PollHasRule == \A w \in Workers : phase[w] = "polling" => todo[w] # <<>>

\* The rules of a batch are different, claimed, and loaded when claimed.
BatchKnown ==
    \A w \in Workers : \A i \in DOMAIN todo[w] :
        /\ Known(loaded[w][todo[w][i]], todo[w][i])
        /\ claim[w][todo[w][i]] # None
        /\ \A j \in DOMAIN todo[w] : i # j => todo[w][i] # todo[w][j]

\* Starts are moved back only.
StartsMovedBack == \A r \in Rules : created[r] <= 0

\* The two lease columns are set and cleared together.
LeaseHasExpiry == \A r \in Rules : owner[r] = None <=> expires[r] = None

\* The lease columns are those the live claim was granted: a claim of the same
\* owner that was taken over meanwhile could otherwise be mistaken for it.
ClaimIsLease ==
    \A p \in Owners, r \in Rules :
        Live(p, r) /\ WindowOpen(r) => owner[r] = p /\ expires[r] = claim[p][r]

\* The inductive invariant.
Inv == /\ TypeOK /\ RequestsRead /\ NoEarlyClaims /\ PollHasRule /\ BatchKnown /\ StartsMovedBack
       /\ LeaseHasExpiry /\ ClaimIsLease /\ ScheduleWithinWindow

-----------------------------------------------------------------------------
(* Lemmas about the operators the actions are built from.                  *)

\* The claimed batch is a sequence of different rules that were due.
LEMMA BatchType ==
    ASSUME NEW t, NEW b \in Batches(t)
    PROVE  /\ b \in Seq(Rules)
           /\ \A i \in DOMAIN b : b[i] \in Rules /\ LeaseFree(b[i], t)
           /\ \A i, j \in DOMAIN b : i # j => b[i] # b[j]
<1> DEFINE due == {r \in Rules : Due(r, t)}
           size == IF Cardinality(due) < BatchLimit THEN Cardinality(due) ELSE BatchLimit
<1>1. IsFiniteSet(due)
  BY RulesAssumption, FS_Subset
<1>2. size \in Nat
  BY <1>1, FS_CardinalityType, TimesAssumption
<1>3. b \in [1..size -> due] /\ \A i, j \in 1..size : i < j => b[i] # b[j]
  BY DEF Batches
<1> HIDE DEF due, size
<1>4. due \subseteq Rules /\ \A r \in due : LeaseFree(r, t)
  BY DEF due, Due
<1>5. b \in [1..size -> Rules]
  BY <1>3, <1>4
<1>6. b \in Seq(Rules)
  BY <1>2, <1>5, SeqDef
<1>7. \A i, j \in DOMAIN b : i # j => b[i] # b[j]
  <2> SUFFICES ASSUME NEW i \in 1..size, NEW j \in 1..size, i # j PROVE b[i] # b[j]
    BY <1>3
  <2>1. i < j \/ j < i
    BY <1>2
  <2> QED
    BY <1>3, <2>1
<1> QED
  BY <1>3, <1>4, <1>6, <1>7

\* A claim leaves the lease columns and the claims well typed.
LEMMA TakeType ==
    ASSUME TypeOK, LeaseHasExpiry, NEW p \in Owners, NEW S, NEW t \in Nat, Take(p, S, t)
    PROVE  /\ owner' \in [Rules -> Owners \cup {None}]
           /\ expires' \in [Rules -> Times]
           /\ claim' \in [Owners -> [Rules -> Times]]
           /\ \A o \in Owners : o # p => claim'[o] = claim[o]
           /\ \A r \in Rules : r \in S => claim'[p][r] # None
           /\ LeaseHasExpiry'
<1>1. t + LeaseTicks \in Times /\ t + LeaseTicks # None
  BY TimesAssumption, NoneAssumption DEF Times
<1>2. claim[p] \in [Rules -> Times]
  BY DEF TypeOK
<1>3. \A r \in Rules : r \in S => claim'[p][r] # None
  BY <1>1, <1>2 DEF TypeOK, Take
<1>4. LeaseHasExpiry'
  BY <1>1, OwnersAssumption DEF TypeOK, Take, LeaseHasExpiry
<1> QED
  BY <1>1, <1>2, <1>3, <1>4 DEF TypeOK, Take

\* A claim of free rules leaves every live claim its lease.
LEMMA TakeKeepsClaims ==
    ASSUME TypeOK, ClaimIsLease, LeaseHasExpiry, NEW p \in Owners, NEW S, NEW t \in 0..now,
           \A r \in S \cap Rules : LeaseFree(r, t),
           Take(p, S, t), now' = now, UNCHANGED start
    PROVE  ClaimIsLease'
<1> SUFFICES ASSUME NEW q \in Owners, NEW r \in Rules, Live(q, r)', WindowOpen(r)
             PROVE  owner'[r] = q /\ expires'[r] = claim'[q][r]
  BY DEF ClaimIsLease, WindowOpen, WindowExpired, start
<1>1. claim'[q][r] = IF q = p /\ r \in S THEN t + LeaseTicks ELSE claim[q][r]
  BY DEF Take, TypeOK
<1>2. CASE q = p /\ r \in S
  BY <1>1, <1>2 DEF Take
<1>3. CASE ~(q = p /\ r \in S)
  <2>1. Live(q, r)
    BY <1>1, <1>3 DEF Live
  <2>2. owner[r] = q /\ expires[r] = claim[q][r]
    BY <2>1 DEF ClaimIsLease
  <2>3. q # None /\ claim[q][r] \in Nat /\ t \in Int /\ now \in Int /\ t <= now
    BY <2>1, OwnersAssumption DEF Live, TypeOK, Times
  <2>4. r \notin S
    <3>1. now <= claim[q][r]
      BY <2>1 DEF Live
    <3> QED
      BY <2>2, <2>3, <3>1 DEF LeaseFree
  <2> QED
    BY <1>1, <1>3, <2>2, <2>4 DEF Take
<1> QED
  BY <1>2, <1>3

\* Releasing a lease, for a rule or not, leaves the lease columns well typed.
LEMMA ReleaseType ==
    ASSUME TypeOK, LeaseHasExpiry, NEW r, ReleaseLease(r)
    PROVE  /\ owner' \in [Rules -> Owners \cup {None}] /\ expires' \in [Rules -> Times]
           /\ LeaseHasExpiry'
BY DEF TypeOK, ReleaseLease, Times, LeaseHasExpiry

\* A process that ends its claim on a rule, with the lease released only if it
\* holds it, leaves every other live claim its lease.
LEMMA SettleKeepsClaims ==
    ASSUME TypeOK, ClaimIsLease, NEW p \in Owners, NEW r \in Rules,
           \/ owner[r] = p /\ ReleaseLease(r)
           \/ UNCHANGED lease,
           \A q \in Owners : q # p => claim'[q] = claim[q],
           \A s \in Rules : claim'[p][s] \in {None, claim[p][s]},
           claim'[p][r] = None,
           now' = now, UNCHANGED start
    PROVE  ClaimIsLease'
<1> SUFFICES ASSUME NEW q \in Owners, NEW s \in Rules, Live(q, s)', WindowOpen(s)
             PROVE  owner'[s] = q /\ expires'[s] = claim'[q][s]
  BY DEF ClaimIsLease, WindowOpen, WindowExpired, start
<1>1. claim'[q][s] = claim[q][s]
  BY DEF Live
<1>2. owner[s] = q /\ expires[s] = claim[q][s]
  BY <1>1 DEF Live, ClaimIsLease
<1>3. ~(q = p /\ s = r)
  BY DEF Live
<1> QED
  BY <1>1, <1>2, <1>3 DEF ReleaseLease, lease, TypeOK

\* When the window of a rule is over, its lease may be cleared by anyone.
LEMMA CloseKeepsClaims ==
    ASSUME TypeOK, ClaimIsLease, NEW r \in Rules, ~WindowOpen(r),
           ReleaseLease(r) \/ UNCHANGED lease,
           \A q \in Owners, s \in Rules : claim'[q][s] \in {None, claim[q][s]},
           now' = now, UNCHANGED start
    PROVE  ClaimIsLease'
<1> SUFFICES ASSUME NEW q \in Owners, NEW s \in Rules, Live(q, s)', WindowOpen(s)
             PROVE  owner'[s] = q /\ expires'[s] = claim'[q][s]
  BY DEF ClaimIsLease, WindowOpen, WindowExpired, start
<1>1. claim'[q][s] = claim[q][s] /\ s # r
  BY DEF Live
<1>2. owner[s] = q /\ expires[s] = claim[q][s]
  BY <1>1 DEF Live, ClaimIsLease
<1> QED
  BY <1>1, <1>2 DEF ReleaseLease, lease, TypeOK

\* A schedule counted from a loaded start is NULL or a time that
\* ScheduleWithinWindow allows.
LEMMA NextScheduleType ==
    ASSUME TypeOK, NEW r \in Rules, NEW from, Known(from, r), NEW t \in Nat, NEW d \in Nat
    PROVE  /\ NextSchedule(from, t, d) \in Times
           /\ Planned(NextSchedule(from, t, d), r)
BY TimesAssumption DEF NextSchedule, Times, Planned, Known, TypeOK

\* A window that a loaded start shows over is over.
LEMMA ExpiredIsClosed ==
    ASSUME TypeOK, NEW r \in Rules, NEW from, Known(from, r), NEW t \in 0..now,
           WindowExpired(from, t)
    PROVE  ~WindowOpen(r)
BY TimesAssumption DEF WindowExpired, WindowOpen, Known, TypeOK

\* Steps of others leave what a request read and claimed.
LEMMA RequestsKeep ==
    ASSUME TypeOK, RequestsRead, NoEarlyClaims, UNCHANGED <<now, start, requestVars>>,
           \A q \in Requests : claim'[q] = claim[q]
    PROVE  RequestsRead' /\ NoEarlyClaims'
BY DEF RequestsRead, NoEarlyClaims, start, requestVars, Planned, Known

\* Steps of others leave the batches of the workers.
LEMMA BatchesKeep ==
    ASSUME TypeOK, PollHasRule, BatchKnown, UNCHANGED <<start, workerVars>>,
           \A w \in Workers : claim'[w] = claim[w]
    PROVE  PollHasRule' /\ BatchKnown'
BY DEF PollHasRule, BatchKnown, Known, start, workerVars

\* The head of a batch is a rule that the worker claimed and loaded.
LEMMA HeadKnown ==
    ASSUME TypeOK, BatchKnown, NEW w \in Workers, todo[w] # <<>>
    PROVE  /\ Head(todo[w]) \in Rules
           /\ Known(loaded[w][Head(todo[w])], Head(todo[w]))
           /\ claim[w][Head(todo[w])] # None
<1>1. todo[w] \in Seq(Rules)
  BY DEF TypeOK
<1>2. 1 \in DOMAIN todo[w] /\ Head(todo[w]) = todo[w][1] /\ Head(todo[w]) \in Rules
  BY <1>1, HeadTailProperties, EmptySeq, LenProperties
<1> QED
  BY <1>2 DEF BatchKnown

\* Leaving a rule leaves the worker and its claims well typed, and ends the
\* claim on that rule.
LEMMA LeaveType ==
    ASSUME TypeOK, PollHasRule, BatchKnown, NEW w \in Workers, NEW raises \in BOOLEAN,
           todo[w] # <<>>, LeaveRule(w, raises), UNCHANGED start
    PROVE  /\ todo' \in [Workers -> Seq(Rules)]
           /\ phase' \in [Workers -> {"next", "polling", "dead"}]
           /\ loaded' = loaded
           /\ claim' \in [Owners -> [Rules -> Times]]
           /\ PollHasRule' /\ BatchKnown'
           /\ \A q \in Owners : q # w => claim'[q] = claim[q]
           /\ \A s \in Rules : claim'[w][s] \in {None, claim[w][s]}
           /\ claim'[w][Head(todo[w])] = None
           /\ claim'[w] = IF raises THEN NoClaims ELSE [claim[w] EXCEPT ![Head(todo[w])] = None]
<1>1. /\ w \in Owners
      /\ todo[w] \in Seq(Rules)
      /\ claim[w] \in [Rules -> Times]
  BY DEF TypeOK, Owners
<1>2. /\ Head(todo[w]) \in Rules /\ Tail(todo[w]) \in Seq(Rules)
      /\ Head(todo[w]) = todo[w][1]
      /\ DOMAIN Tail(todo[w]) = 1..(Len(todo[w]) - 1)
      /\ \A i \in DOMAIN Tail(todo[w]) : Tail(todo[w])[i] = todo[w][i + 1]
  BY <1>1, HeadTailProperties, LenProperties
<1>3. NoClaims \in [Rules -> Times]
  BY DEF NoClaims, Times
<1>4. [claim[w] EXCEPT ![Head(todo[w])] = None] \in [Rules -> Times]
  BY <1>1 DEF Times
<1>5. /\ todo' \in [Workers -> Seq(Rules)]
      /\ phase' \in [Workers -> {"next", "polling", "dead"}]
      /\ loaded' = loaded
  <2>1. <<>> \in Seq(Rules)
    OBVIOUS
  <2> QED
    BY <1>2, <2>1 DEF LeaveRule, TypeOK
<1>6. claim'[w] = IF raises THEN NoClaims ELSE [claim[w] EXCEPT ![Head(todo[w])] = None]
  BY <1>1 DEF LeaveRule, TypeOK
<1>7. claim' \in [Owners -> [Rules -> Times]]
  BY <1>1, <1>3, <1>4 DEF LeaveRule, TypeOK
<1>8. PollHasRule'
  BY DEF PollHasRule, LeaveRule, TypeOK
<1>9. \A q \in Owners : q # w => claim'[q] = claim[q]
  BY DEF LeaveRule, TypeOK
<1>10. /\ \A s \in Rules : claim'[w][s] \in {None, claim[w][s]}
       /\ claim'[w][Head(todo[w])] = None
  BY <1>1, <1>2, <1>6 DEF NoClaims
<1>11. BatchKnown'
  <2> SUFFICES ASSUME NEW v \in Workers, NEW i \in DOMAIN todo'[v]
               PROVE  /\ Known(loaded[v][todo'[v][i]], todo'[v][i])
                      /\ claim'[v][todo'[v][i]] # None
                      /\ \A j \in DOMAIN todo'[v] : i # j => todo'[v][i] # todo'[v][j]
    BY <1>5 DEF BatchKnown, Known, start
  <2>1. CASE v # w
    <3>1. todo'[v] = todo[v] /\ claim'[v] = claim[v]
      BY <1>9, <2>1 DEF LeaveRule, TypeOK, Owners
    <3> QED
      BY <3>1 DEF BatchKnown
  <2>2. CASE v = w /\ raises
    <3>1. todo'[v] = <<>>
      BY <2>2 DEF LeaveRule, TypeOK
    <3> QED
      BY <3>1
  <2>3. CASE v = w /\ ~raises
    <3>1. todo'[v] = Tail(todo[w])
      BY <2>3 DEF LeaveRule, TypeOK
    <3>2. Len(todo[w]) \in Nat /\ DOMAIN todo[w] = 1..Len(todo[w])
      BY <1>1, LenProperties
    <3>3. \A j \in DOMAIN todo'[v] : j + 1 \in DOMAIN todo[w] /\ todo'[v][j] = todo[w][j + 1]
      BY <1>2, <3>1, <3>2
    <3>4. i \in Int /\ i + 1 # 1 /\ 1 \in DOMAIN todo[w] /\ \A j \in DOMAIN todo'[v] : j \in Int
      BY <1>2, <3>1, <3>2
    <3>5. todo[w][i + 1] # todo[w][1] /\ todo[w][i + 1] \in Rules
      BY <1>1, <3>3, <3>4, ElementOfSeq, <3>2 DEF BatchKnown
    <3>6. claim'[v][todo'[v][i]] = claim[w][todo[w][i + 1]]
      BY <1>1, <1>2, <1>6, <2>3, <3>3, <3>5
    <3>7. \A j \in DOMAIN todo'[v] : i # j => i + 1 # j + 1
      BY <3>4
    <3> QED
      BY <2>3, <3>3, <3>6, <3>7 DEF BatchKnown
  <2> QED
    BY <2>1, <2>2, <2>3
<1> QED
  BY <1>5, <1>6, <1>7, <1>8, <1>9, <1>10, <1>11

\* A completed execution leaves the row well typed.
LEMMA CompleteType ==
    ASSUME TypeOK, NEW p \in Owners, NEW r, NEW m \in Nat, NEW n \in Times,
           Planned(n, r), ScheduleWithinWindow, UNCHANGED start,
           Complete(p, r, m, n)
    PROVE  /\ r \in Rules /\ owner[r] = p /\ ReleaseLease(r)
           /\ exists' \subseteq Rules /\ enabled' \in [Rules -> BOOLEAN]
           /\ nextPoll' \in [Rules -> Times] /\ lastPoll' \in [Rules -> Times]
           /\ ScheduleWithinWindow'
<1>1. r \in Rules /\ owner[r] = p /\ ReleaseLease(r) /\ UNCHANGED exists
  BY DEF Complete, Fenced, TypeOK
<1>2. /\ enabled' \in [Rules -> BOOLEAN]
      /\ nextPoll' \in [Rules -> Times] /\ lastPoll' \in [Rules -> Times]
  BY DEF Complete, TypeOK, Times
<1>3. ScheduleWithinWindow'
  BY <1>1 DEF Complete, TypeOK, ScheduleWithinWindow, Planned, start
<1> QED
  BY <1>1, <1>2, <1>3 DEF TypeOK

\* A failed execution leaves the row well typed.
LEMMA FailType ==
    ASSUME TypeOK, LeaseHasExpiry, NEW p \in Owners, NEW r \in Rules, NEW on \in BOOLEAN,
           NEW n \in Times, Planned(n, r), ScheduleWithinWindow, UNCHANGED start,
           Fail(p, r, on, n)
    PROVE  /\ \/ owner[r] = p /\ ReleaseLease(r)
              \/ UNCHANGED lease
           /\ owner' \in [Rules -> Owners \cup {None}] /\ expires' \in [Rules -> Times]
           /\ LeaseHasExpiry'
           /\ exists' \subseteq Rules /\ enabled' \in [Rules -> BOOLEAN]
           /\ nextPoll' \in [Rules -> Times] /\ lastPoll' \in [Rules -> Times]
           /\ ScheduleWithinWindow'
<1>1. CASE Fenced(p, r)
  <2>1. owner[r] = p /\ ReleaseLease(r) /\ UNCHANGED <<exists, lastPoll>>
    BY <1>1 DEF Fail, Fenced, TypeOK
  <2>2. enabled' \in [Rules -> BOOLEAN] /\ nextPoll' \in [Rules -> Times]
    BY <1>1 DEF Fail, TypeOK
  <2>3. ScheduleWithinWindow'
    <3>1. nextPoll' = [nextPoll EXCEPT ![r] = n] /\ created' = created /\ late' = late
      BY <1>1 DEF Fail, start
    <3>2. nextPoll \in [Rules -> Times]
      BY DEF TypeOK
    <3> QED
      BY <3>1, <3>2 DEF ScheduleWithinWindow, Planned
  <2> QED
    BY <2>1, <2>2, <2>3, ReleaseType DEF TypeOK
<1>2. CASE ~Fenced(p, r)
  BY <1>2 DEF Fail, columns, lease, TypeOK, ScheduleWithinWindow, LeaseHasExpiry, start
<1> QED
  BY <1>1, <1>2

-----------------------------------------------------------------------------
(* The invariant.                                                          *)

\* The invariant holds when all rules have just been created.
LEMMA InitInv == Init => Inv
<1> SUFFICES ASSUME Init PROVE Inv
  OBVIOUS
<1>1. TypeOK
  <2>1. \A w \in Workers : todo[w] = <<>>
    BY DEF Init
  <2> QED
    BY <2>1, TimesAssumption DEF Init, TypeOK, Times, NoClaims
<1>2. RequestsRead /\ NoEarlyClaims
  BY DEF Init, RequestsRead, NoEarlyClaims, NoClaims, Owners
<1>3. PollHasRule /\ BatchKnown
  BY DEF Init, PollHasRule, BatchKnown
<1>4. StartsMovedBack /\ LeaseHasExpiry
  BY DEF Init, StartsMovedBack, LeaseHasExpiry
<1>5. ClaimIsLease
  BY DEF Init, ClaimIsLease, Live, NoClaims
<1>6. ScheduleWithinWindow
  BY TimesAssumption DEF Init, ScheduleWithinWindow
<1> QED
  BY <1>1, <1>2, <1>3, <1>4, <1>5, <1>6 DEF Inv

\* Every step of a worker, its deaths included, preserves the invariant.
LEMMA WorkerInv ==
    ASSUME Inv, NEW w \in Workers, WorkerStep(w) \/ Crash(w) \/ Restart(w)
    PROVE  Inv'
<1> USE DEF Inv
<1> DEFINE r == Head(todo[w])
<1>0. w \in Owners /\ now \in Nat /\ now \in 0..now /\ \A q \in Requests : q \in Owners /\ q # w
  BY OwnersAssumption DEF Owners, TypeOK
<1>1. todo[w] # <<>> => r \in Rules /\ Known(loaded[w][r], r)
  BY HeadKnown
<1>2. CASE ClaimDue(w)
  <2> PICK b \in Batches(now) :
           /\ Take(w, {b[i] : i \in DOMAIN b}, now)
           /\ todo' = [todo EXCEPT ![w] = b]
           /\ loaded' = [loaded EXCEPT ![w] =
                [s \in Rules |-> IF \E i \in DOMAIN b : b[i] = s THEN created[s] ELSE @[s]]]
    BY <1>2 DEF ClaimDue
  <2>1. UNCHANGED <<now, columns, start, phase, requestVars, budgets>> /\ phase[w] = "next"
    BY <1>2 DEF ClaimDue
  <2>2. /\ b \in Seq(Rules)
        /\ \A i \in DOMAIN b : b[i] \in Rules /\ LeaseFree(b[i], now)
        /\ \A i, j \in DOMAIN b : i # j => b[i] # b[j]
    BY BatchType
  <2>3. /\ owner' \in [Rules -> Owners \cup {None}] /\ expires' \in [Rules -> Times]
        /\ claim' \in [Owners -> [Rules -> Times]]
        /\ \A o \in Owners : o # w => claim'[o] = claim[o]
        /\ \A s \in Rules : s \in {b[i] : i \in DOMAIN b} => claim'[w][s] # None
        /\ LeaseHasExpiry'
    BY <1>0, TakeType
  <2>4. loaded' \in [Workers -> [Rules -> Int]]
    BY DEF TypeOK
  <2>5. TypeOK'
    BY <2>1, <2>2, <2>3, <2>4 DEF TypeOK, columns, start, requestVars, budgets
  <2>6. RequestsRead' /\ NoEarlyClaims'
    BY <1>0, <2>1, <2>3, RequestsKeep
  <2>7. PollHasRule'
    BY <2>1 DEF PollHasRule, TypeOK
  <2>8. BatchKnown'
    <3> SUFFICES ASSUME NEW v \in Workers, NEW i \in DOMAIN todo'[v]
                 PROVE  /\ Known(loaded[v][todo[v][i]], todo[v][i])'
                        /\ claim'[v][todo'[v][i]] # None
                        /\ \A j \in DOMAIN todo'[v] : i # j => todo'[v][i] # todo'[v][j]
      BY DEF BatchKnown
    <3>0. created' = created /\ late' = late
      BY <2>1 DEF start
    <3>1. CASE v # w
      <4>1. todo'[v] = todo[v] /\ loaded'[v] = loaded[v] /\ claim'[v] = claim[v]
        BY <2>3, <3>1 DEF TypeOK, Owners
      <4> QED
        BY <3>0, <4>1 DEF BatchKnown, Known
    <3>2. CASE v = w
      <4>1. todo'[v] = b
        BY <3>2 DEF TypeOK
      <4>2. b[i] \in Rules /\ claim'[v][b[i]] # None
        BY <2>2, <2>3, <3>2, <4>1
      <4>3. loaded'[v][b[i]] = created[b[i]]
        BY <3>2, <4>1, <4>2 DEF TypeOK
      <4>4. Known(created[b[i]], b[i])
        BY <4>2 DEF Known, StartsMovedBack, TypeOK
      <4> QED
        BY <2>2, <3>0, <4>1, <4>2, <4>3, <4>4 DEF Known
    <3> QED
      BY <3>1, <3>2
  <2>9. StartsMovedBack' /\ ScheduleWithinWindow'
    BY <2>1 DEF StartsMovedBack, ScheduleWithinWindow, columns, start
  <2>10. ClaimIsLease'
    <3> DEFINE S == {b[i] : i \in DOMAIN b}
    <3>1. \A s \in S \cap Rules : LeaseFree(s, now)
      BY <2>2
    <3> HIDE DEF S
    <3> QED
      BY <1>0, <2>1, <3>1, TakeKeepsClaims DEF S
  <2> QED
    BY <2>3, <2>5, <2>6, <2>7, <2>8, <2>9, <2>10
<1>3. CASE StartPoll(w)
  <2>1. /\ todo[w] # <<>> /\ phase' = [phase EXCEPT ![w] = "polling"]
        /\ UNCHANGED <<now, columns, start, lease, todo, loaded, requestVars, claim, budgets>>
    BY <1>3 DEF StartPoll
  <2>2. TypeOK' /\ PollHasRule'
    BY <2>1 DEF TypeOK, PollHasRule, columns, start, lease, requestVars, budgets
  <2>3. RequestsRead' /\ NoEarlyClaims'
    BY <2>1, RequestsKeep
  <2>4. /\ BatchKnown' /\ StartsMovedBack' /\ LeaseHasExpiry'
        /\ ClaimIsLease' /\ ScheduleWithinWindow'
    BY <2>1 DEF BatchKnown, Known, StartsMovedBack, LeaseHasExpiry, ClaimIsLease, Live,
                WindowOpen, WindowExpired, ScheduleWithinWindow, columns, start, lease
  <2> QED
    BY <2>2, <2>3, <2>4
<1>4. ASSUME NEW raises \in BOOLEAN, todo[w] # <<>>, LeaveRule(w, raises),
             UNCHANGED <<now, start, requestVars, budgets>>,
             exists' \subseteq Rules, enabled' \in [Rules -> BOOLEAN],
             nextPoll' \in [Rules -> Times], lastPoll' \in [Rules -> Times],
             owner' \in [Rules -> Owners \cup {None}], expires' \in [Rules -> Times]
      PROVE  TypeOK' /\ RequestsRead' /\ NoEarlyClaims' /\ PollHasRule' /\ BatchKnown' /\ StartsMovedBack'
  <2>1. /\ todo' \in [Workers -> Seq(Rules)]
        /\ phase' \in [Workers -> {"next", "polling", "dead"}]
        /\ loaded' = loaded
        /\ claim' \in [Owners -> [Rules -> Times]]
        /\ PollHasRule' /\ BatchKnown'
        /\ \A q \in Owners : q # w => claim'[q] = claim[q]
    BY <1>4, LeaveType
  <2>2. TypeOK'
    BY <1>4, <2>1 DEF TypeOK, start, requestVars, budgets
  <2>3. RequestsRead' /\ NoEarlyClaims'
    BY <1>0, <1>4, <2>1, RequestsKeep
  <2>4. StartsMovedBack'
    BY <1>4 DEF StartsMovedBack, start
  <2> QED
    BY <2>1, <2>2, <2>3, <2>4
<1>5. ASSUME NEW raises \in BOOLEAN, todo[w] # <<>>, LeaveRule(w, raises), UNCHANGED start
      PROVE  /\ \A q \in Owners : q # w => claim'[q] = claim[q]
             /\ \A s \in Rules : claim'[w][s] \in {None, claim[w][s]}
             /\ claim'[w][r] = None
  BY <1>5, LeaveType
<1>6. CASE CloseWindow(w)
  <2>1. /\ todo[w] # <<>> /\ RuleExpired(w)
        /\ ReleaseLease(r) /\ LeaveRule(w, FALSE)
        /\ enabled' = [enabled EXCEPT ![r] = FALSE]
        /\ nextPoll' = [nextPoll EXCEPT ![r] = None]
        /\ UNCHANGED <<now, exists, lastPoll, start, requestVars, budgets>>
    BY <1>6 DEF CloseWindow
  <2>2. /\ owner' \in [Rules -> Owners \cup {None}] /\ expires' \in [Rules -> Times]
        /\ LeaseHasExpiry'
    BY <2>1, ReleaseType
  <2>3. /\ exists' \subseteq Rules /\ enabled' \in [Rules -> BOOLEAN]
        /\ nextPoll' \in [Rules -> Times] /\ lastPoll' \in [Rules -> Times]
    BY <2>1 DEF TypeOK, Times
  <2>4. ScheduleWithinWindow'
    BY <2>1 DEF ScheduleWithinWindow, TypeOK, start
  <2>5. ~WindowOpen(r)
    BY <1>0, <1>1, <2>1, ExpiredIsClosed DEF RuleExpired
  <2>6. \A q \in Owners, s \in Rules : claim'[q][s] \in {None, claim[q][s]}
    BY <1>5, <2>1
  <2>7. ClaimIsLease'
    BY <1>1, <2>1, <2>5, <2>6, CloseKeepsClaims
  <2> QED
    BY <1>4, <2>1, <2>2, <2>3, <2>4, <2>7
<1>7. CASE PollSucceeds(w)
  <2>0. PICK d \in Intervals : Complete(w, r, now, NextSchedule(loaded[w][r], now, d))
    BY <1>7 DEF PollSucceeds
  <2>1. todo[w] # <<>> /\ LeaveRule(w, FALSE) /\ UNCHANGED <<now, start, requestVars, budgets>>
    BY <1>7 DEF PollSucceeds, PollHasRule
  <2> DEFINE n == NextSchedule(loaded[w][r], now, d)
  <2>2. d \in Nat /\ n \in Times /\ Planned(n, r)
    BY <1>0, <1>1, <2>1, TimesAssumption, NextScheduleType
  <2> HIDE DEF n
  <2>3. /\ owner[r] = w /\ ReleaseLease(r)
        /\ exists' \subseteq Rules /\ enabled' \in [Rules -> BOOLEAN]
        /\ nextPoll' \in [Rules -> Times] /\ lastPoll' \in [Rules -> Times]
        /\ ScheduleWithinWindow'
    <3>1. Complete(w, r, now, n) /\ UNCHANGED start
      BY <2>0, <2>1 DEF n
    <3> HIDE DEF r
    <3> QED
      BY <1>0, <2>2, <3>1, CompleteType
  <2>4. /\ owner' \in [Rules -> Owners \cup {None}] /\ expires' \in [Rules -> Times]
        /\ LeaseHasExpiry'
    BY <2>3, ReleaseType
  <2>5. ClaimIsLease'
    <3>1. now' = now /\ UNCHANGED start
      BY <2>1
    <3> QED
      BY <1>0, <1>1, <1>5, <2>1, <2>3, <3>1, SettleKeepsClaims
  <2> QED
    BY <1>4, <2>1, <2>3, <2>4, <2>5
<1>8. CASE PollFails(w)
  <2>1. todo[w] # <<>> /\ UNCHANGED <<now, start, requestVars, budgets>>
    BY <1>8 DEF PollFails
  <2>2. PICK open \in BOOLEAN :
          LET n == NextSchedule(IF open THEN created[r] ELSE loaded[w][r], now, RetryDelay)
          IN  /\ Fail(w, r, n # None, n)
              /\ LeaveRule(w, open /\ Tail(todo[w]) # <<>>)
    BY <1>8 DEF PollFails
  <2> DEFINE from == IF open THEN created[r] ELSE loaded[w][r]
             n == NextSchedule(from, now, RetryDelay)
             raises == open /\ Tail(todo[w]) # <<>>
  <2>3. Known(from, r)
    <3>1. Known(created[r], r)
      BY <1>1, <2>1 DEF Known, StartsMovedBack, TypeOK
    <3> QED
      BY <1>1, <2>1, <3>1
  <2> HIDE DEF from
  <2>4. n \in Times /\ Planned(n, r)
    BY <1>0, <1>1, <2>1, <2>3, TimesAssumption, NextScheduleType
  <2>5. Fail(w, r, n # None, n) /\ LeaveRule(w, raises) /\ raises \in BOOLEAN
    BY <2>2 DEF from
  <2> HIDE DEF n, raises
  <2>6. /\ \/ owner[r] = w /\ ReleaseLease(r)
           \/ UNCHANGED lease
        /\ owner' \in [Rules -> Owners \cup {None}] /\ expires' \in [Rules -> Times]
        /\ LeaseHasExpiry'
        /\ exists' \subseteq Rules /\ enabled' \in [Rules -> BOOLEAN]
        /\ nextPoll' \in [Rules -> Times] /\ lastPoll' \in [Rules -> Times]
        /\ ScheduleWithinWindow'
    <3>1. UNCHANGED start /\ r \in Rules /\ (n # None) \in BOOLEAN
      BY <1>1, <2>1
    <3> HIDE DEF r
    <3> QED
      BY <1>0, <2>4, <2>5, <3>1, FailType
  <2>7. ClaimIsLease'
    <3>1. now' = now /\ UNCHANGED start
      BY <2>1
    <3> QED
      BY <1>0, <1>1, <1>5, <2>1, <2>5, <2>6, <3>1, SettleKeepsClaims
  <2> QED
    BY <1>4, <2>1, <2>5, <2>6, <2>7
<1>9. CASE Crash(w)
  <2>1. /\ crashes' = crashes + 1 /\ phase' = [phase EXCEPT ![w] = "dead"]
        /\ todo' = [todo EXCEPT ![w] = <<>>]
        /\ claim' = [claim EXCEPT ![w] = NoClaims]
        /\ UNCHANGED <<now, columns, start, lease, loaded, requestVars, patches>>
    BY <1>9 DEF Crash
  <2>2. TypeOK'
    <3>1. NoClaims \in [Rules -> Times] /\ <<>> \in Seq(Rules)
      BY DEF NoClaims, Times
    <3> QED
      BY <1>0, <2>1, <3>1 DEF TypeOK, columns, start, lease, requestVars
  <2>3. RequestsRead' /\ NoEarlyClaims'
    <3>1. \A q \in Requests : claim'[q] = claim[q]
      BY <1>0, <2>1 DEF TypeOK
    <3> QED
      BY <2>1, <3>1, RequestsKeep
  <2>4. PollHasRule' /\ BatchKnown'
    <3>1. \A v \in Workers : v # w =>
            phase'[v] = phase[v] /\ todo'[v] = todo[v] /\ claim'[v] = claim[v]
      BY <2>1 DEF TypeOK, Owners
    <3>2. phase'[w] = "dead" /\ todo'[w] = <<>>
      BY <2>1 DEF TypeOK
    <3> QED
      BY <2>1, <3>1, <3>2 DEF PollHasRule, BatchKnown, Known, start
  <2>5. StartsMovedBack' /\ LeaseHasExpiry' /\ ScheduleWithinWindow'
    BY <2>1 DEF StartsMovedBack, LeaseHasExpiry, ScheduleWithinWindow, columns, start, lease
  <2>6. ClaimIsLease'
    BY <1>0, <2>1 DEF ClaimIsLease, Live, NoClaims, WindowOpen, WindowExpired, start, lease, TypeOK
  <2> QED
    BY <2>2, <2>3, <2>4, <2>5, <2>6
<1>10. CASE Restart(w)
  <2>1. /\ phase[w] = "dead" /\ phase' = [phase EXCEPT ![w] = "next"]
        /\ UNCHANGED <<now, columns, start, lease, todo, loaded, requestVars, claim, budgets>>
    BY <1>10 DEF Restart
  <2>2. TypeOK' /\ PollHasRule'
    BY <2>1 DEF TypeOK, PollHasRule, columns, start, lease, requestVars, budgets
  <2>3. RequestsRead' /\ NoEarlyClaims'
    BY <2>1, RequestsKeep
  <2>4. /\ BatchKnown' /\ StartsMovedBack' /\ LeaseHasExpiry'
        /\ ClaimIsLease' /\ ScheduleWithinWindow'
    BY <2>1 DEF BatchKnown, Known, StartsMovedBack, LeaseHasExpiry, ClaimIsLease, Live,
                WindowOpen, WindowExpired, ScheduleWithinWindow, columns, start, lease
  <2> QED
    BY <2>2, <2>3, <2>4
<1> QED
  BY <1>2, <1>3, <1>6, <1>7, <1>8, <1>9, <1>10 DEF WorkerStep

\* Every step of a trigger request preserves the invariant.
LEMMA RequestInv ==
    ASSUME Inv, NEW q \in Requests, RequestStep(q) \/ TriggerRead(q) \/ TriggerAbandoned(q)
    PROVE  Inv'
<1> USE DEF Inv
<1> DEFINE s == seen[q]
           r == seen[q].rule
<1>0. q \in Owners /\ now \in 0..MaxTime /\ \A w \in Workers : w \in Owners /\ w # q
  BY OwnersAssumption DEF Owners, TypeOK
<1>1. stage[q] \in {"read", "working"} =>
        /\ s \in Sightings /\ r \in Rules /\ s.enabled \in BOOLEAN
        /\ s.nextPoll \in Times /\ s.at \in 0..MaxTime /\ s.at \in 0..now /\ s.at \in Nat
        /\ Planned(s.nextPoll, r) /\ Known(s.start, r)
        /\ stage[q] = "working" => claim[q][r] # None
  BY <1>0 DEF RequestsRead, Sightings
<1>2. ASSUME stage' = [stage EXCEPT ![q] = "done"], seen' = seen,
             \A p \in Requests : p # q => claim'[p] = claim[p],
             \A w \in Workers : claim'[w] = claim[w],
             UNCHANGED <<now, start, workerVars>>
      PROVE  RequestsRead' /\ NoEarlyClaims' /\ PollHasRule' /\ BatchKnown' /\ StartsMovedBack'
  <2>1. RequestsRead' /\ NoEarlyClaims'
    <3>1. \A p \in Requests : p # q => stage'[p] = stage[p]
      BY <1>2 DEF TypeOK
    <3>2. stage'[q] = "done"
      BY <1>2 DEF TypeOK
    <3>3. created' = created /\ late' = late /\ now' = now
      BY <1>2 DEF start
    <3>4. RequestsRead'
      BY <1>2, <3>1, <3>2, <3>3 DEF RequestsRead, Planned, Known
    <3>5. NoEarlyClaims'
      BY <1>2, <3>1, <3>2 DEF NoEarlyClaims
    <3> QED
      BY <3>4, <3>5
  <2> QED
    BY <1>2, <2>1, BatchesKeep DEF StartsMovedBack, start
<1>3. CASE TriggerRead(q)
  <2>1. UNCHANGED <<now, columns, start, lease, workerVars, claim, budgets>>
    BY <1>3 DEF TriggerRead
  <2>2. PICK x \in exists : seen' = [seen EXCEPT ![q] =
                    [rule |-> x, enabled |-> enabled[x], nextPoll |-> nextPoll[x],
                     start |-> created[x], held |-> owner[x] # None, at |-> now]]
    BY <1>3 DEF TriggerRead
  <2>3. /\ seen'[q] \in Sightings
        /\ seen'[q].at = now
        /\ seen'[q].rule = x /\ seen'[q].nextPoll = nextPoll[x] /\ seen'[q].start = created[x]
    BY <1>0, <2>2 DEF TypeOK, Sightings
  <2>4. seen' = [seen EXCEPT ![q] = seen'[q]] /\ stage' = [stage EXCEPT ![q] = "read"]
    BY <1>3, <2>2 DEF TriggerRead, TypeOK
  <2>5. TypeOK'
    BY <2>1, <2>3, <2>4 DEF TypeOK, columns, start, lease, workerVars, budgets
  <2>6. x \in Rules /\ Planned(nextPoll[x], x) /\ Known(created[x], x)
    BY DEF Planned, Known, ScheduleWithinWindow, StartsMovedBack, TypeOK
  <2>7. RequestsRead'
    <3> SUFFICES ASSUME NEW p \in Requests, stage'[p] \in {"read", "working"}
                 PROVE  /\ seen'[p] \in Sightings /\ seen'[p].at <= now
                        /\ Planned(seen'[p].nextPoll, seen'[p].rule)
                        /\ Known(seen'[p].start, seen'[p].rule)
                        /\ stage'[p] = "working" => claim[p][seen'[p].rule] # None
      BY <2>1 DEF RequestsRead, Planned, Known, start
    <3>1. CASE p = q
      BY <1>0, <2>3, <2>4, <2>6, <3>1 DEF TypeOK
    <3>2. CASE p # q
      BY <2>4, <3>2 DEF RequestsRead, TypeOK
    <3> QED
      BY <3>1, <3>2
  <2>8. PollHasRule' /\ BatchKnown'
    BY <2>1, BatchesKeep
  <2>9. StartsMovedBack' /\ LeaseHasExpiry' /\ ClaimIsLease' /\ ScheduleWithinWindow'
    BY <2>1 DEF StartsMovedBack, LeaseHasExpiry, ClaimIsLease, Live, WindowOpen,
                WindowExpired, ScheduleWithinWindow, columns, start, lease
  <2>10. NoEarlyClaims'
    BY <1>3, <2>1, <2>4 DEF NoEarlyClaims, TriggerRead, TypeOK
  <2> QED
    BY <2>5, <2>7, <2>8, <2>9, <2>10
<1>4. CASE TriggerExpired(q)
  <2>1. /\ stage[q] = "read" /\ WindowExpired(s.start, s.at)
        /\ stage' = [stage EXCEPT ![q] = "done"]
        /\ UNCHANGED <<now, start, workerVars, seen, claim, budgets>>
        /\ ReleaseLease(r) \/ UNCHANGED lease
    BY <1>4 DEF TriggerExpired
  <2>2. /\ exists' \subseteq Rules
        /\ enabled' \in [Rules -> BOOLEAN] /\ nextPoll' \in [Rules -> Times]
        /\ lastPoll' \in [Rules -> Times]
    BY <1>1, <1>4, <2>1 DEF TriggerExpired, TypeOK, Times, columns
  <2>3. ScheduleWithinWindow'
    <3>1. \A x \in Rules : nextPoll'[x] \in {None, nextPoll[x]}
      BY <1>1, <1>4, <2>1 DEF TriggerExpired, TypeOK, columns
    <3> QED
      BY <2>1, <3>1 DEF ScheduleWithinWindow, start
  <2>4. /\ owner' \in [Rules -> Owners \cup {None}] /\ expires' \in [Rules -> Times]
        /\ LeaseHasExpiry'
    BY <2>1, ReleaseType DEF lease, TypeOK, LeaseHasExpiry
  <2>5. TypeOK'
    BY <2>1, <2>2, <2>4 DEF TypeOK, start, workerVars, budgets
  <2>6. ClaimIsLease'
    <3>1. ~WindowOpen(r) /\ r \in Rules
      BY <1>1, <2>1, ExpiredIsClosed
    <3>2. \A p \in Owners, x \in Rules : claim'[p][x] \in {None, claim[p][x]}
      BY <2>1
    <3>3. now' = now /\ UNCHANGED start /\ (ReleaseLease(r) \/ UNCHANGED lease)
      BY <2>1
    <3> HIDE DEF r
    <3> QED
      BY <3>1, <3>2, <3>3, CloseKeepsClaims
  <2> QED
    BY <1>2, <2>1, <2>3, <2>4, <2>5, <2>6
<1>5. CASE TriggerClaim(q)
  <2>1. /\ stage[q] = "read" /\ LeaseFree(r, s.at)
        /\ Take(q, {r}, s.at)
        /\ stage' = [stage EXCEPT ![q] = "working"]
        /\ seen' = [seen EXCEPT ![q].start = created[r]]
        /\ UNCHANGED <<now, columns, start, workerVars, budgets>>
    BY <1>5 DEF TriggerClaim
  <2>2. /\ owner' \in [Rules -> Owners \cup {None}] /\ expires' \in [Rules -> Times]
        /\ claim' \in [Owners -> [Rules -> Times]]
        /\ \A o \in Owners : o # q => claim'[o] = claim[o]
        /\ claim'[q][r] # None
        /\ LeaseHasExpiry'
    BY <1>0, <1>1, <2>1, TakeType
  <2>3. /\ seen'[q] \in Sightings /\ seen'[q].rule = r /\ seen'[q].at = s.at
        /\ seen'[q].nextPoll = s.nextPoll /\ seen'[q].start = created[r]
        /\ \A p \in Requests : p # q => seen'[p] = seen[p]
        /\ seen' \in [Requests -> Sightings \cup {None}]
    <3>1. created[r] \in Int /\ seen[q] \in Sightings
      BY <1>1, <2>1 DEF TypeOK
    <3>2. seen' = [seen EXCEPT ![q] = [seen[q] EXCEPT !.start = created[r]]]
      BY <2>1
    <3>3. [seen[q] EXCEPT !.start = created[r]] \in Sightings
      BY <3>1 DEF Sightings
    <3>4. seen'[q] = [seen[q] EXCEPT !.start = created[r]]
      BY <3>2 DEF TypeOK
    <3> QED
      BY <3>1, <3>2, <3>3, <3>4 DEF Sightings, TypeOK
  <2>4. TypeOK'
    BY <2>1, <2>2, <2>3 DEF TypeOK, columns, start, workerVars, budgets
  <2>5. RequestsRead'
    <3> SUFFICES ASSUME NEW p \in Requests, stage'[p] \in {"read", "working"}
                 PROVE  /\ seen'[p] \in Sightings /\ seen'[p].at <= now
                        /\ Planned(seen'[p].nextPoll, seen'[p].rule)
                        /\ Known(seen'[p].start, seen'[p].rule)
                        /\ stage'[p] = "working" => claim'[p][seen'[p].rule] # None
      BY <2>1 DEF RequestsRead, Planned, Known, start
    <3>1. Known(created[r], r)
      BY <1>1, <2>1 DEF Known, StartsMovedBack, TypeOK
    <3>2. CASE p = q
      BY <1>1, <2>1, <2>2, <2>3, <3>1, <3>2
    <3>3. CASE p # q
      <4>1. seen'[p] = seen[p] /\ stage'[p] = stage[p] /\ claim'[p] = claim[p]
        BY <2>1, <2>2, <2>3, <3>3 DEF TypeOK, Owners
      <4> QED
        BY <4>1 DEF RequestsRead
    <3> QED
      BY <3>2, <3>3
  <2>6. PollHasRule' /\ BatchKnown' /\ NoEarlyClaims'
    BY <1>0, <2>1, <2>2, BatchesKeep DEF NoEarlyClaims, TypeOK, Owners
  <2>7. StartsMovedBack' /\ ScheduleWithinWindow'
    BY <2>1 DEF StartsMovedBack, ScheduleWithinWindow, columns, start
  <2>8. ClaimIsLease'
    <3>1. \A x \in {r} \cap Rules : LeaseFree(x, s.at)
      BY <2>1
    <3>2. now' = now /\ UNCHANGED start /\ s.at \in 0..now
      BY <1>1, <2>1
    <3> QED
      BY <1>0, <2>1, <3>1, <3>2, TakeKeepsClaims
  <2> QED
    BY <2>2, <2>4, <2>5, <2>6, <2>7, <2>8
<1>6. CASE TriggerRejected(q)
  <2>1. /\ stage' = [stage EXCEPT ![q] = "done"]
        /\ UNCHANGED <<now, columns, start, lease, workerVars, seen, claim, budgets>>
    BY <1>6 DEF TriggerRejected
  <2>2. TypeOK'
    BY <2>1 DEF TypeOK, columns, start, lease, workerVars, budgets
  <2>3. LeaseHasExpiry' /\ ClaimIsLease' /\ ScheduleWithinWindow'
    BY <2>1 DEF LeaseHasExpiry, ClaimIsLease, Live, WindowOpen, WindowExpired,
                ScheduleWithinWindow, columns, start, lease
  <2> QED
    BY <1>2, <2>1, <2>2, <2>3
<1>7. ASSUME stage[q] \in {"read", "working"}, EndClaim(q, r)
      PROVE  /\ claim' \in [Owners -> [Rules -> Times]]
             /\ \A p \in Owners : p # q => claim'[p] = claim[p]
             /\ \A x \in Rules : claim'[q][x] \in {None, claim[q][x]}
             /\ claim'[q][r] = None
  <2>1. claim[q] \in [Rules -> Times] /\ r \in Rules
    BY <1>0, <1>1, <1>7 DEF TypeOK
  <2>2. claim'[q] = [claim[q] EXCEPT ![r] = None]
    BY <1>0, <1>7 DEF EndClaim, TypeOK
  <2>3. [claim[q] EXCEPT ![r] = None] \in [Rules -> Times]
    BY <2>1 DEF Times
  <2> QED
    BY <1>0, <1>7, <2>1, <2>2, <2>3 DEF EndClaim, TypeOK
<1>8. ASSUME stage[q] = "working", EndClaim(q, r),
             stage' = [stage EXCEPT ![q] = "done"],
             UNCHANGED <<now, start, workerVars, seen, budgets>>,
             \/ owner[r] = q /\ ReleaseLease(r)
             \/ UNCHANGED lease,
             exists' \subseteq Rules, enabled' \in [Rules -> BOOLEAN],
             nextPoll' \in [Rules -> Times], lastPoll' \in [Rules -> Times],
             ScheduleWithinWindow'
      PROVE  Inv'
  <2>1. /\ owner' \in [Rules -> Owners \cup {None}] /\ expires' \in [Rules -> Times]
        /\ LeaseHasExpiry'
    BY <1>8, ReleaseType DEF lease, TypeOK, LeaseHasExpiry
  <2>2. TypeOK'
    BY <1>7, <1>8, <2>1 DEF TypeOK, start, workerVars, budgets
  <2>3. ClaimIsLease'
    <3>1. now' = now /\ UNCHANGED start /\ r \in Rules
      BY <1>1, <1>8
    <3>2. /\ \A p \in Owners : p # q => claim'[p] = claim[p]
          /\ \A x \in Rules : claim'[q][x] \in {None, claim[q][x]}
          /\ claim'[q][r] = None
      BY <1>7, <1>8
    <3>3. (owner[r] = q /\ ReleaseLease(r)) \/ UNCHANGED lease
      BY <1>8
    <3> HIDE DEF r
    <3> QED
      BY <1>0, <3>1, <3>2, <3>3, SettleKeepsClaims
  <2>4. RequestsRead' /\ NoEarlyClaims' /\ PollHasRule' /\ BatchKnown' /\ StartsMovedBack'
    <3>1. /\ \A p \in Requests : p # q => claim'[p] = claim[p]
          /\ \A w \in Workers : claim'[w] = claim[w]
      BY <1>0, <1>7, <1>8 DEF Owners
    <3> QED
      BY <1>2, <1>8, <3>1
  <2> QED
    BY <1>8, <2>1, <2>2, <2>3, <2>4
<1>9. CASE TriggerSucceeds(q)
  <2>0. PICK d \in Intervals : Complete(q, r, s.at, NextSchedule(s.start, s.at, d))
    BY <1>9 DEF TriggerSucceeds
  <2>1. /\ stage[q] = "working" /\ EndClaim(q, r)
        /\ stage' = [stage EXCEPT ![q] = "done"]
        /\ UNCHANGED <<now, start, workerVars, seen, budgets>>
    BY <1>9 DEF TriggerSucceeds
  <2> DEFINE n == NextSchedule(s.start, s.at, d)
  <2>2. n \in Times /\ Planned(n, r) /\ s.at \in Nat
    BY <1>1, <2>1, TimesAssumption, NextScheduleType
  <2> HIDE DEF n
  <2>3. Complete(q, r, s.at, n) /\ UNCHANGED start
    BY <2>0, <2>1 DEF n
  <2>4. /\ owner[r] = q /\ ReleaseLease(r)
        /\ exists' \subseteq Rules /\ enabled' \in [Rules -> BOOLEAN]
        /\ nextPoll' \in [Rules -> Times] /\ lastPoll' \in [Rules -> Times]
        /\ ScheduleWithinWindow'
    BY <1>0, <2>2, <2>3, CompleteType
  <2> QED
    BY <1>8, <2>1, <2>4
<1>10. CASE TriggerFails(q)
  <2>1. /\ stage[q] = "working" /\ EndClaim(q, r)
        /\ Fail(q, r, s.enabled, s.nextPoll)
        /\ stage' = [stage EXCEPT ![q] = "done"]
        /\ UNCHANGED <<now, start, workerVars, seen, budgets>>
    BY <1>10 DEF TriggerFails
  <2>2. /\ \/ owner[r] = q /\ ReleaseLease(r)
           \/ UNCHANGED lease
        /\ exists' \subseteq Rules /\ enabled' \in [Rules -> BOOLEAN]
        /\ nextPoll' \in [Rules -> Times] /\ lastPoll' \in [Rules -> Times]
        /\ ScheduleWithinWindow'
    BY <1>0, <1>1, <2>1, FailType
  <2> QED
    BY <1>8, <2>1, <2>2
<1>11. CASE TriggerAbandoned(q)
  <2>1. /\ stage[q] \in {"read", "working"} /\ EndClaim(q, r)
        /\ stage' = [stage EXCEPT ![q] = "done"]
        /\ UNCHANGED <<now, columns, start, lease, workerVars, seen, budgets>>
    BY <1>11 DEF TriggerAbandoned
  <2>2. TypeOK'
    BY <1>7, <2>1 DEF TypeOK, columns, start, lease, workerVars, budgets
  <2>3. /\ \A p \in Requests : p # q => claim'[p] = claim[p]
        /\ \A w \in Workers : claim'[w] = claim[w]
    BY <1>0, <1>7, <2>1 DEF Owners
  <2>4. RequestsRead' /\ NoEarlyClaims' /\ PollHasRule' /\ BatchKnown' /\ StartsMovedBack'
    BY <1>2, <2>1, <2>3
  <2>5. LeaseHasExpiry' /\ ScheduleWithinWindow'
    BY <2>1 DEF LeaseHasExpiry, ScheduleWithinWindow, columns, start, lease
  <2>6. ClaimIsLease'
    <3>1. now' = now /\ UNCHANGED start /\ r \in Rules /\ UNCHANGED lease
      BY <1>1, <2>1
    <3>2. /\ \A p \in Owners : p # q => claim'[p] = claim[p]
          /\ \A x \in Rules : claim'[q][x] \in {None, claim[q][x]}
          /\ claim'[q][r] = None
      BY <1>7, <2>1
    <3> HIDE DEF r
    <3> QED
      BY <1>0, <3>1, <3>2, SettleKeepsClaims
  <2> QED
    BY <2>2, <2>4, <2>5, <2>6
<1> QED
  BY <1>3, <1>4, <1>5, <1>6, <1>9, <1>10, <1>11 DEF RequestStep

\* An assistant run that moves the start of a rule preserves the invariant:
\* what was loaded or planned with the old start is counted in late.
LEMMA MonitoringStartInv ==
    ASSUME Inv, NEW r \in Rules, NEW lead \in Leads, MonitoringStart(r, lead)
    PROVE  Inv'
<1> USE DEF Inv
<1> DEFINE from == IF 0 - lead < created[r] THEN 0 - lead ELSE created[r]
           over == WindowExpired(from, now)
<1>1. /\ created' = [created EXCEPT ![r] = from]
      /\ enabled' = [enabled EXCEPT ![r] = @ /\ ~over]
      /\ nextPoll' = [nextPoll EXCEPT ![r] = IF over THEN None ELSE @]
      /\ late' = IF from # created[r] /\ (Busy(r) \/ nextPoll'[r] # None)
                 THEN late \cup {r} ELSE late
      /\ UNCHANGED <<now, exists, lastPoll, lease, workerVars, requestVars, claim, budgets>>
  BY DEF MonitoringStart
<1>2. /\ lead \in Nat /\ created[r] \in Int /\ from \in Int
      /\ from <= created[r] /\ created[r] <= 0
  BY TimesAssumption DEF StartsMovedBack, TypeOK
<1> HIDE DEF from, over
<1>3. /\ \A x \in Rules : created'[x] \in Int /\ created'[x] <= created[x] /\ created'[x] <= 0
      /\ \A x \in Rules : x # r => created'[x] = created[x]
      /\ late \subseteq late' /\ late' \subseteq Rules
      /\ Busy(r) => (r \in late' \/ created'[r] = created[r])
      /\ nextPoll'[r] # None => (r \in late' \/ created'[r] = created[r])
  BY <1>1, <1>2 DEF StartsMovedBack, TypeOK
<1>4. /\ \A x \in Rules : nextPoll'[x] \in {None, nextPoll[x]}
      /\ nextPoll' \in [Rules -> Times]
  BY <1>1 DEF TypeOK, Times
<1>5. TypeOK'
  <2>1. created' \in [Rules -> Int] /\ enabled' \in [Rules -> BOOLEAN]
    BY <1>1, <1>2 DEF TypeOK
  <2> QED
    BY <1>1, <1>3, <1>4, <2>1 DEF TypeOK, lease, workerVars, requestVars, budgets
<1>6. ASSUME NEW x \in Rules, NEW f, Known(f, x), x = r => Busy(r)
      PROVE  Known(f, x)'
  <2>1. created[x] \in Int /\ created'[x] <= created[x] /\ f \in Int /\ created'[x] \in Int
    BY <1>3, <1>6 DEF TypeOK, Known
  <2>2. x \in late' \/ created'[x] = created[x]
    BY <1>3, <1>6
  <2> QED
    BY <1>3, <1>6, <2>1, <2>2 DEF Known
<1>7. NoEarlyClaims'
  BY <1>1 DEF NoEarlyClaims, requestVars
<1>12. RequestsRead'
  <2> SUFFICES ASSUME NEW q \in Requests, stage[q] \in {"read", "working"}
               PROVE  /\ Planned(seen[q].nextPoll, seen[q].rule)'
                      /\ Known(seen[q].start, seen[q].rule)'
    BY <1>1 DEF RequestsRead, requestVars
  <2>1. /\ Planned(seen[q].nextPoll, seen[q].rule)
        /\ Known(seen[q].start, seen[q].rule) /\ seen[q].rule \in Rules
    BY DEF RequestsRead, Sightings
  <2>2. seen[q].rule = r => Busy(r)
    BY DEF Busy
  <2>3. seen' = seen
    BY <1>1 DEF requestVars
  <2>4. Known(seen[q].start, seen[q].rule)'
    BY <1>6, <2>1, <2>2, <2>3 DEF Known
  <2>5. Planned(seen[q].nextPoll, seen[q].rule)'
    <3>1. seen[q].rule \in late' \/ created'[seen[q].rule] = created[seen[q].rule]
      BY <1>3, <2>1, <2>2
    <3> QED
      BY <1>3, <2>1, <2>3, <3>1 DEF Planned
  <2> QED
    BY <2>4, <2>5
<1>8. PollHasRule' /\ BatchKnown'
  <2>1. phase' = phase /\ todo' = todo /\ loaded' = loaded /\ claim' = claim
    BY <1>1 DEF workerVars
  <2>2. ASSUME NEW w \in Workers, NEW i \in DOMAIN todo[w]
        PROVE  Known(loaded[w][todo[w][i]], todo[w][i])'
    <3>1. todo[w][i] \in Rules
      BY ElementOfSeq, LenProperties DEF TypeOK
    <3>2. Known(loaded[w][todo[w][i]], todo[w][i])
      BY DEF BatchKnown
    <3>3. todo[w][i] = r => Busy(r)
      BY DEF Busy
    <3> QED
      BY <1>6, <2>1, <3>1, <3>2, <3>3 DEF Known
  <2> QED
    BY <2>1, <2>2 DEF PollHasRule, BatchKnown
<1>9. StartsMovedBack' /\ LeaseHasExpiry'
  BY <1>1, <1>3 DEF StartsMovedBack, LeaseHasExpiry, lease
<1>10. ClaimIsLease'
  <2>1. ASSUME NEW x \in Rules, WindowOpen(x)' PROVE WindowOpen(x)
    <3>1. now' = now /\ now \in Int /\ created[x] \in Int /\ created'[x] \in Int
          /\ created'[x] <= created[x]
      BY <1>1, <1>3 DEF TypeOK
    <3> QED
      BY <2>1, <3>1, TimesAssumption DEF WindowOpen, WindowExpired
  <2> QED
    BY <1>1, <2>1 DEF ClaimIsLease, Live, lease
<1>11. ScheduleWithinWindow'
  <2> SUFFICES ASSUME NEW x \in Rules, nextPoll'[x] # None
               PROVE  nextPoll'[x] < Window /\ (x \in late' \/ nextPoll'[x] < created'[x] + Window)
    BY DEF ScheduleWithinWindow
  <2>1. nextPoll'[x] = nextPoll[x] /\ nextPoll[x] # None
    BY <1>4
  <2>2. x \in late' \/ created'[x] = created[x]
    BY <1>3
  <2> QED
    BY <1>3, <2>1, <2>2 DEF ScheduleWithinWindow
<1> QED
  BY <1>5, <1>7, <1>8, <1>9, <1>10, <1>11, <1>12

\* Other requests of users and the clock preserve the invariant.
LEMMA OtherInv ==
    ASSUME Inv,
           \/ Tick \/ UNCHANGED vars
           \/ \E r \in Rules : DeleteRule(r) \/ \E on \in BOOLEAN : SetEnabled(r, on)
    PROVE  Inv'
<1> USE DEF Inv
<1>1. CASE Tick
  <2>1. now < MaxTime /\ now' = now + 1 /\ now \in 0..MaxTime
        /\ UNCHANGED <<columns, start, lease, workerVars, requestVars, claim, budgets>>
    BY <1>1 DEF Tick, TypeOK
  <2>2. TypeOK'
    BY <2>1, TimesAssumption
       DEF TypeOK, columns, start, lease, workerVars, requestVars, budgets
  <2>3. RequestsRead' /\ NoEarlyClaims'
    BY <2>1 DEF RequestsRead, NoEarlyClaims, Sightings, Planned, Known, start, requestVars
  <2>4. PollHasRule' /\ BatchKnown'
    BY <2>1, BatchesKeep
  <2>5. StartsMovedBack' /\ LeaseHasExpiry' /\ ScheduleWithinWindow'
    BY <2>1 DEF StartsMovedBack, LeaseHasExpiry, ScheduleWithinWindow, columns, start, lease
  <2>6. ClaimIsLease'
    <3> SUFFICES ASSUME NEW p \in Owners, NEW r \in Rules, Live(p, r)', WindowOpen(r)'
                 PROVE  owner[r] = p /\ expires[r] = claim[p][r]
      BY <2>1 DEF ClaimIsLease, lease
    <3>1. claim[p][r] \in Nat /\ now + 1 <= claim[p][r] /\ claim[p][r] # None
      BY <2>1 DEF Live, TypeOK, Times
    <3>2. created[r] \in Int /\ created' = created
      BY <2>1 DEF TypeOK, start
    <3>3. Live(p, r) /\ WindowOpen(r)
      BY <2>1, <3>1, <3>2, TimesAssumption DEF Live, WindowOpen, WindowExpired
    <3> QED
      BY <3>3 DEF ClaimIsLease
  <2> QED
    BY <2>2, <2>3, <2>4, <2>5, <2>6
<1>2. ASSUME UNCHANGED <<now, nextPoll, lastPoll, start, lease, workerVars, requestVars, claim>>,
             TypeOK'
      PROVE  Inv'
  <2>1. RequestsRead' /\ NoEarlyClaims' /\ PollHasRule' /\ BatchKnown'
    BY <1>2, RequestsKeep, BatchesKeep
  <2> QED
    BY <1>2, <2>1 DEF StartsMovedBack, LeaseHasExpiry, ClaimIsLease, Live, WindowOpen,
                WindowExpired, ScheduleWithinWindow, start, lease
<1>3. CASE UNCHANGED vars
  <2>1. TypeOK'
    BY <1>3 DEF vars, TypeOK, columns, start, lease, workerVars, requestVars, budgets
  <2> QED
    BY <1>2, <1>3, <2>1 DEF vars, columns
<1>4. ASSUME NEW r \in Rules, DeleteRule(r) PROVE Inv'
  <2>1. TypeOK'
    BY <1>4 DEF DeleteRule, TypeOK, start, lease, workerVars, requestVars, budgets
  <2> QED
    BY <1>2, <1>4, <2>1 DEF DeleteRule
<1>5. ASSUME NEW r \in Rules, NEW on \in BOOLEAN, SetEnabled(r, on) PROVE Inv'
  <2>1. TypeOK'
    BY <1>5 DEF SetEnabled, TypeOK, start, lease, workerVars, requestVars
  <2> QED
    BY <1>2, <1>5, <2>1 DEF SetEnabled
<1> QED
  BY <1>1, <1>3, <1>4, <1>5

\* The invariant holds throughout every behaviour.
LEMMA InvHolds == Spec => []Inv
<1>1. Inv /\ [Next]_vars => Inv'
  BY WorkerInv, RequestInv, MonitoringStartInv, OtherInv DEF Next
<1> QED
  BY InitInv, <1>1, PTL DEF Spec

-----------------------------------------------------------------------------
(* Theorems.                                                               *)

\* Every variable keeps its type.
THEOREM TypeCorrect == Spec => []TypeOK
BY InvHolds, PTL DEF Inv

\* A process whose claim has not run out owns the row, as long as the
\* monitoring window is open: no claim, settlement or stale read of another
\* process and no move of its start takes an unexpired lease away.
THEOREM LeaseSafety == Spec => []LiveClaimIsHeld
<1>1. Inv => LiveClaimIsHeld
  BY DEF Inv, ClaimIsLease, LiveClaimIsHeld
<1> QED
  BY <1>1, InvHolds, PTL

\* No two processes hold live claims on one rule.
THEOREM LeaseExclusion == Spec => []MutualExclusion
<1>1. LiveClaimIsHeld => MutualExclusion
  BY DEF LiveClaimIsHeld, MutualExclusion
<1> QED
  BY <1>1, LeaseSafety, PTL

\* No settlement, however stale its schedule, plans a poll past the window the
\* rule was created with, and past the window of a moved start only if what it
\* planned from was outstanding when the start moved.
THEOREM ScheduleBounded == Spec => []ScheduleWithinWindow
BY InvHolds, PTL DEF Inv

-----------------------------------------------------------------------------
(* The refinement.                                                         *)

\* The mapping of the claims, the overdue slots and the closed slots.
Claimed == [p \in Owners |-> {r \in Rules : claim[p][r] # None}]
Overdue == {r \in Rules : expires[r] # None /\ expires[r] < now}
Closed == {r \in Rules : ~WindowOpen(r)}

\* A process that ends its claims on some rules drops their slots.
LEMMA ClaimsDrop ==
    ASSUME NEW p \in Owners, NEW S \in SUBSET Rules,
           \A q \in Owners : q # p => claim'[q] = claim[q],
           \A s \in Rules : claim'[p][s] = IF s \in S THEN None ELSE claim[p][s]
    PROVE  Claimed' = [Claimed EXCEPT ![p] = @ \ S]
<1> DEFINE Dropped == [Claimed EXCEPT ![p] = @ \ S]
<1>1. Dropped = [q \in Owners |-> IF q = p THEN Claimed[p] \ S ELSE Claimed[q]]
  BY DEF Claimed
<1>2. \A q \in Owners :
        {r \in Rules : claim'[q][r] # None} = IF q = p THEN Claimed[p] \ S ELSE Claimed[q]
  BY DEF Claimed
<1> HIDE DEF Dropped
<1>3. Claimed' = Dropped
  BY <1>1, <1>2 DEF Claimed
<1> QED
  BY <1>3 DEF Dropped

\* A claim of free rules grants their slots.
LEMMA TakeGrants ==
    ASSUME Inv, NEW p \in Owners, NEW S \in SUBSET Rules, NEW t \in 0..now,
           \A r \in S : LeaseFree(r, t), Take(p, S, t), UNCHANGED <<now, lastPoll, start>>
    PROVE  Slot!SlotNext
<1> USE DEF Inv
<1>1. \A s \in S : owner[s] = None \/ s \in Overdue
  <2> SUFFICES ASSUME NEW s \in S, owner[s] # None PROVE s \in Overdue
    OBVIOUS
  <2>1. expires[s] # None /\ expires[s] < t /\ expires[s] \in Nat /\ now \in Int
    BY DEF LeaseFree, LeaseHasExpiry, TypeOK, Times
  <2> QED
    BY <2>1 DEF Overdue
<1>2. owner' = [s \in Rules |-> IF s \in S THEN p ELSE owner[s]]
  BY DEF Take
<1>3. \A q \in Owners :
        {r \in Rules : claim'[q][r] # None} = IF q = p THEN Claimed[p] \cup S ELSE Claimed[q]
  <2>1. t + LeaseTicks # None
    BY TimesAssumption, NoneAssumption
  <2>2. \A q \in Owners, r \in Rules :
          claim'[q][r] = IF q = p /\ r \in S THEN t + LeaseTicks ELSE claim[q][r]
    BY DEF Take, TypeOK
  <2>3. \A q \in Owners : Claimed[q] = {r \in Rules : claim[q][r] # None}
    BY DEF Claimed
  <2> QED
    BY <2>1, <2>2, <2>3
<1>4. Claimed' = [Claimed EXCEPT ![p] = @ \cup S]
  <2>1. [Claimed EXCEPT ![p] = @ \cup S]
           = [q \in Owners |-> IF q = p THEN Claimed[p] \cup S ELSE Claimed[q]]
    BY DEF Claimed
  <2>2. Claimed' = [q \in Owners |-> IF q = p THEN Claimed[p] \cup S ELSE Claimed[q]]
    BY <1>3 DEF Claimed
  <2> QED
    BY <2>1, <2>2
<1>5. \A r \in Rules : r \notin S => expires'[r] = expires[r]
  BY DEF Take
<1>6. Overdue \ S \subseteq Overdue' /\ Overdue' \subseteq Overdue \cup S
  BY <1>5 DEF Overdue
<1>7. Closed' = Closed /\ lastPoll' = lastPoll
  BY DEF Closed, WindowOpen, WindowExpired, start
<1>8. Slot!Grant(p, S)
  BY <1>1, <1>2, <1>4, <1>6, <1>7 DEF Slot!Grant, Claimed, Overdue, Closed
<1> QED
  BY <1>8 DEF Slot!SlotNext

\* A lease that is released vacates the slot.
LEMMA ReleaseVacates ==
    ASSUME TypeOK, NEW r \in Rules, ReleaseLease(r), UNCHANGED <<now, start>>
    PROVE  Slot!Vacate(r)
<1>1. \A s \in Rules : expires'[s] = IF s = r THEN None ELSE expires[s]
  BY DEF ReleaseLease, TypeOK
<1>2. Overdue' = Overdue \ {r}
  BY <1>1 DEF Overdue
<1>3. Closed' = Closed
  BY DEF Closed, WindowOpen, WindowExpired, start
<1>4. owner' = [owner EXCEPT ![r] = None]
  BY DEF ReleaseLease
<1> QED
  BY <1>2, <1>3, <1>4 DEF Slot!Vacate, Overdue, Closed

\* A process that drops claims and writes nothing leaves their slots.
LEMMA DropLeaves ==
    ASSUME NEW p \in Owners, NEW S \in SUBSET Rules,
           Claimed' = [Claimed EXCEPT ![p] = @ \ S], UNCHANGED <<now, lastPoll, start, lease>>
    PROVE  Slot!SlotNext
<1>1. Overdue' = Overdue /\ Closed' = Closed /\ owner' = owner
  BY DEF Overdue, Closed, WindowOpen, WindowExpired, start, lease
<1>2. Slot!Leave(p, S)
  BY <1>1 DEF Slot!Leave, Claimed, Overdue, Closed
<1> QED
  BY <1>2 DEF Slot!SlotNext

\* A failed execution releases the slot of a claim or leaves it.
LEMMA FailReleases ==
    ASSUME Inv, NEW p \in Owners, NEW r \in Rules, NEW on, NEW n, Fail(p, r, on, n),
           NEW S \in SUBSET Claimed[p], r \in S,
           Claimed' = [Claimed EXCEPT ![p] = @ \ S], UNCHANGED <<now, start>>
    PROVE  Slot!SlotNext
<1> USE DEF Inv
<1>0. S \in SUBSET Rules
  BY DEF Claimed
<1>1. CASE Fenced(p, r)
  <2>1. owner[r] = p /\ ReleaseLease(r) /\ UNCHANGED lastPoll
    BY <1>1 DEF Fail, Fenced
  <2>2. Slot!Vacate(r)
    BY <2>1, ReleaseVacates
  <2>3. Slot!Release(p, r, S)
    BY <2>1, <2>2 DEF Slot!Release, Claimed
  <2> QED
    BY <1>0, <2>3 DEF Slot!SlotNext
<1>2. CASE ~Fenced(p, r)
  BY <1>0, <1>2, DropLeaves DEF Fail, columns
<1> QED
  BY <1>1, <1>2

\* A completed execution settles the slot of the claim it completes.
LEMMA CompleteSettles ==
    ASSUME Inv, NEW p \in Owners, NEW r \in Rules, NEW m \in 0..MaxTime, NEW n,
           Complete(p, r, m, n), claim[p][r] # None,
           Claimed' = [Claimed EXCEPT ![p] = @ \ {r}], UNCHANGED <<now, start>>
    PROVE  Slot!SlotNext
<1> USE DEF Inv
<1>1. owner[r] = p /\ ReleaseLease(r) /\ lastPoll' = [lastPoll EXCEPT ![r] = m]
  BY DEF Complete, Fenced
<1>2. Slot!Vacate(r)
  BY <1>1, ReleaseVacates
<1>3. Slot!Settle(p, r, m)
  BY <1>1, <1>2 DEF Slot!Settle, Claimed
<1> QED
  BY <1>3 DEF Slot!SlotNext

\* Whoever finds the window over closes the slot.
LEMMA ExpiryCloses ==
    ASSUME Inv, NEW p \in Owners, NEW r \in Rules, ~WindowOpen(r), ReleaseLease(r),
           Claimed' = [Claimed EXCEPT ![p] = @ \ {r}], UNCHANGED <<now, start, lastPoll>>
    PROVE  Slot!SlotNext
<1>1. Slot!Vacate(r)
  BY ReleaseVacates DEF Inv
<1>2. Slot!Close(p, r)
  BY <1>1 DEF Slot!Close, Claimed, Closed
<1> QED
  BY <1>2 DEF Slot!SlotNext

\* The clock and moved starts only let time pass for the slots.
LEMMA TimePasses ==
    ASSUME Inv, UNCHANGED <<lastPoll, lease, claim>>, now' \in Int, now <= now',
           \A r \in Rules : created'[r] \in Int /\ created'[r] <= created[r]
    PROVE  Slot!SlotNext
<1> USE DEF Inv
<1>1. Overdue \subseteq Overdue' /\ Overdue' \subseteq {r \in Rules : owner[r] # None}
  <2>1. \A r \in Rules : expires[r] # None => owner[r] # None /\ expires[r] \in Int
    BY DEF LeaseHasExpiry, TypeOK, Times
  <2>2. expires' = expires /\ now \in Int
    BY DEF lease, TypeOK
  <2> QED
    BY <2>1, <2>2 DEF Overdue
<1>2. Closed \subseteq Closed' /\ Closed' \subseteq Rules
  <2>1. \A r \in Rules : created[r] \in Int /\ now \in Int
    BY DEF TypeOK
  <2> QED
    BY <2>1, TimesAssumption DEF Closed, WindowOpen, WindowExpired
<1>3. owner' = owner /\ lastPoll' = lastPoll /\ Claimed' = Claimed
  BY DEF lease, Claimed
<1>4. Slot!Pass
  BY <1>1, <1>2, <1>3 DEF Slot!Pass, Overdue, Closed, Claimed
<1> QED
  BY <1>4 DEF Slot!SlotNext

\* Steps that write neither leases, claims, starts nor executions leave the
\* slots alone.
LEMMA NothingHeld ==
    ASSUME UNCHANGED <<now, lastPoll, start, lease, claim>>
    PROVE  UNCHANGED Slot!slotVars
BY DEF Slot!slotVars, WindowOpen, WindowExpired, start, lease

\* Every step is a step of the fenced slot or leaves it alone.
LEMMA StepRefines == Inv /\ [Next]_vars => [Slot!SlotNext]_(Slot!slotVars)
<1> SUFFICES ASSUME Inv, [Next]_vars
             PROVE  Slot!SlotNext \/ UNCHANGED Slot!slotVars
  OBVIOUS
<1> USE DEF Inv
<1>1. ASSUME NEW w \in Workers, WorkerStep(w) \/ Crash(w) \/ Restart(w)
      PROVE  Slot!SlotNext \/ UNCHANGED Slot!slotVars
  <2> DEFINE r == Head(todo[w])
  <2>0. /\ w \in Owners /\ now \in 0..MaxTime /\ now \in 0..now
        /\ todo[w] # <<>> =>
             r \in Rules /\ Known(loaded[w][r], r) /\ claim[w][r] # None
    BY HeadKnown DEF Owners, TypeOK
  <2>1. CASE ClaimDue(w)
    <3>1. PICK b \in Batches(now) : Take(w, {b[i] : i \in DOMAIN b}, now)
      BY <2>1 DEF ClaimDue
    <3>2. /\ UNCHANGED <<now, lastPoll, start>>
          /\ {b[i] : i \in DOMAIN b} \in SUBSET Rules
          /\ \A s \in {b[i] : i \in DOMAIN b} : LeaseFree(s, now)
      BY <2>1, BatchType DEF ClaimDue, columns
    <3> QED
      BY <2>0, <3>1, <3>2, TakeGrants
  <2>2. ASSUME NEW raises \in BOOLEAN, todo[w] # <<>>, LeaveRule(w, raises), UNCHANGED start
        PROVE  LET S == IF raises THEN Claimed[w] ELSE {r}
               IN  /\ S \in SUBSET Claimed[w] /\ r \in S
                   /\ Claimed' = [Claimed EXCEPT ![w] = @ \ S]
    <3> DEFINE S == IF raises THEN Claimed[w] ELSE {r}
    <3>1. S \in SUBSET Claimed[w] /\ r \in S
      BY <2>0, <2>2 DEF Claimed
    <3>2. /\ \A q \in Owners : q # w => claim'[q] = claim[q]
          /\ claim'[w] = IF raises THEN NoClaims ELSE [claim[w] EXCEPT ![r] = None]
      BY <2>2, LeaveType
    <3>3. \A s \in Rules : claim'[w][s] = IF s \in S THEN None ELSE claim[w][s]
      BY <2>0, <3>2 DEF NoClaims, Claimed, TypeOK
    <3>4. S \in SUBSET Rules
      BY <2>0, <3>1 DEF Claimed
    <3> HIDE DEF S
    <3>5. Claimed' = [Claimed EXCEPT ![w] = @ \ S]
      BY <2>0, <3>2, <3>3, <3>4, ClaimsDrop
    <3> QED
      BY <3>1, <3>5 DEF S
  <2>3. CASE CloseWindow(w)
    <3>1. /\ todo[w] # <<>> /\ RuleExpired(w) /\ ReleaseLease(r) /\ LeaveRule(w, FALSE)
          /\ UNCHANGED <<now, start, lastPoll>>
      BY <2>3 DEF CloseWindow
    <3>2. ~WindowOpen(r)
      BY <2>0, <3>1, ExpiredIsClosed DEF RuleExpired
    <3>3. Claimed' = [Claimed EXCEPT ![w] = @ \ {r}]
      BY <2>2, <3>1
    <3> QED
      BY <2>0, <3>1, <3>2, <3>3, ExpiryCloses
  <2>4. CASE PollSucceeds(w)
    <3>1. PICK d \in Intervals : Complete(w, r, now, NextSchedule(loaded[w][r], now, d))
      BY <2>4 DEF PollSucceeds
    <3>2. todo[w] # <<>> /\ LeaveRule(w, FALSE) /\ UNCHANGED <<now, start>>
      BY <2>4 DEF PollSucceeds, PollHasRule
    <3>3. Claimed' = [Claimed EXCEPT ![w] = @ \ {r}]
      BY <2>2, <3>2
    <3> QED
      BY <2>0, <3>1, <3>2, <3>3, CompleteSettles
  <2>5. CASE PollFails(w)
    <3>1. PICK open \in BOOLEAN :
            LET n == NextSchedule(IF open THEN created[r] ELSE loaded[w][r], now, RetryDelay)
            IN  /\ Fail(w, r, n # None, n)
                /\ LeaveRule(w, open /\ Tail(todo[w]) # <<>>)
      BY <2>5 DEF PollFails
    <3>2. todo[w] # <<>> /\ UNCHANGED <<now, start>>
      BY <2>5 DEF PollFails
    <3>3. PICK S \in SUBSET Claimed[w] :
            r \in S /\ Claimed' = [Claimed EXCEPT ![w] = @ \ S]
      BY <2>2, <3>1, <3>2
    <3>4. \E on, n : Fail(w, r, on, n)
      BY <3>1
    <3>5. r \in Rules
      BY <2>0, <3>2
    <3> HIDE DEF r
    <3> QED
      BY <2>0, <3>2, <3>3, <3>4, <3>5, FailReleases
  <2>6. CASE Crash(w)
    <3>1. claim' = [claim EXCEPT ![w] = NoClaims] /\ UNCHANGED <<now, lastPoll, start, lease>>
      BY <2>6 DEF Crash, columns
    <3>2. /\ \A q \in Owners : q # w => claim'[q] = claim[q]
          /\ \A s \in Rules : claim'[w][s] = IF s \in Rules THEN None ELSE claim[w][s]
      BY <2>0, <3>1 DEF NoClaims, TypeOK
    <3>3. Claimed' = [Claimed EXCEPT ![w] = @ \ Rules]
      BY <2>0, <3>2, ClaimsDrop
    <3> QED
      BY <2>0, <3>1, <3>3, DropLeaves
  <2>7. CASE StartPoll(w) \/ Restart(w)
    BY <2>7, NothingHeld DEF StartPoll, Restart, columns
  <2> QED
    BY <1>1, <2>1, <2>3, <2>4, <2>5, <2>6, <2>7 DEF WorkerStep
<1>2. ASSUME NEW q \in Requests, RequestStep(q) \/ TriggerRead(q) \/ TriggerAbandoned(q)
      PROVE  Slot!SlotNext \/ UNCHANGED Slot!slotVars
  <2> DEFINE s == seen[q]
             r == seen[q].rule
  <2>0. q \in Owners
    BY DEF Owners
  <2>1. stage[q] \in {"read", "working"} =>
          /\ r \in Rules /\ s.at \in 0..MaxTime /\ s.at \in 0..now /\ Known(s.start, r)
          /\ stage[q] = "working" => claim[q][r] # None
    BY DEF RequestsRead, Sightings, TypeOK
  <2>2. ASSUME stage[q] \in {"read", "working"}, EndClaim(q, r)
        PROVE  Claimed' = [Claimed EXCEPT ![q] = @ \ {r}]
    <3>1. /\ \A p \in Owners : p # q => claim'[p] = claim[p]
          /\ \A x \in Rules : claim'[q][x] = IF x \in {r} THEN None ELSE claim[q][x]
      BY <2>0, <2>1, <2>2 DEF EndClaim, TypeOK
    <3>2. {r} \in SUBSET Rules
      BY <2>1, <2>2
    <3> QED
      BY <2>0, <3>1, <3>2, ClaimsDrop
  <2>3. CASE TriggerExpired(q)
    <3>1. /\ stage[q] = "read" /\ WindowExpired(s.start, s.at)
          /\ UNCHANGED <<now, start, claim, lastPoll>>
      BY <2>3 DEF TriggerExpired, columns
    <3>2. CASE UNCHANGED lease
      BY <3>1, <3>2, NothingHeld
    <3>3. CASE ReleaseLease(r)
      \* The request closes the slot without having claimed it.
      <4>1. ~WindowOpen(r) /\ r \in Rules
        BY <2>1, <3>1, ExpiredIsClosed
      <4>2. /\ \A p \in Owners : p # q => claim'[p] = claim[p]
            /\ \A x \in Rules : claim'[q][x] = IF x \in {r} THEN None ELSE claim[q][x]
        BY <3>1 DEF NoEarlyClaims
      <4>3. Claimed' = [Claimed EXCEPT ![q] = @ \ {r}]
        BY <2>0, <4>1, <4>2, ClaimsDrop
      <4> QED
        BY <2>0, <3>1, <3>3, <4>1, <4>3, ExpiryCloses
    <3> QED
      BY <2>3, <3>2, <3>3 DEF TriggerExpired
  <2>4. CASE TriggerClaim(q)
    <3>1. /\ stage[q] = "read" /\ LeaseFree(r, s.at) /\ Take(q, {r}, s.at)
          /\ UNCHANGED <<now, lastPoll, start>>
      BY <2>4 DEF TriggerClaim, columns
    <3> QED
      BY <2>0, <2>1, <3>1, TakeGrants
  <2>5. CASE TriggerSucceeds(q)
    <3>1. PICK d \in Intervals : Complete(q, r, s.at, NextSchedule(s.start, s.at, d))
      BY <2>5 DEF TriggerSucceeds
    <3>2. stage[q] = "working" /\ EndClaim(q, r) /\ UNCHANGED <<now, start>>
      BY <2>5 DEF TriggerSucceeds
    <3> QED
      BY <2>0, <2>1, <2>2, <3>1, <3>2, CompleteSettles
  <2>6. CASE TriggerFails(q)
    <3>1. /\ stage[q] = "working" /\ EndClaim(q, r) /\ UNCHANGED <<now, start>>
          /\ Fail(q, r, s.enabled, s.nextPoll)
      BY <2>6 DEF TriggerFails
    <3>2. {r} \in SUBSET Claimed[q] /\ r \in {r}
      BY <2>0, <2>1, <3>1 DEF Claimed
    <3>3. Claimed' = [Claimed EXCEPT ![q] = @ \ {r}] /\ r \in Rules
      BY <2>1, <2>2, <3>1
    <3>4. \E on, n : Fail(q, r, on, n)
      BY <3>1
    <3>5. \E S \in SUBSET Claimed[q] : r \in S /\ Claimed' = [Claimed EXCEPT ![q] = @ \ S]
      BY <3>2, <3>3
    <3>6. UNCHANGED <<now, start>>
      BY <3>1
    <3> HIDE DEF r
    <3> QED
      BY <2>0, <3>3, <3>4, <3>5, <3>6, FailReleases
  <2>7. CASE TriggerAbandoned(q)
    <3>1. /\ stage[q] \in {"read", "working"} /\ EndClaim(q, r)
          /\ UNCHANGED <<now, lastPoll, start, lease>>
      BY <2>7 DEF TriggerAbandoned, columns
    <3>2. Claimed' = [Claimed EXCEPT ![q] = @ \ {r}] /\ {r} \in SUBSET Rules
      BY <2>1, <2>2, <3>1
    <3> HIDE DEF r
    <3> QED
      BY <2>0, <3>1, <3>2, DropLeaves
  <2>8. CASE TriggerRejected(q) \/ TriggerRead(q)
    BY <2>8, NothingHeld DEF TriggerRejected, TriggerRead, columns
  <2> QED
    BY <1>2, <2>3, <2>4, <2>5, <2>6, <2>7, <2>8 DEF RequestStep
<1>3. ASSUME NEW r \in Rules, NEW lead \in Leads, MonitoringStart(r, lead)
      PROVE  Slot!SlotNext
  <2>1. \A x \in Rules : created'[x] \in Int /\ created'[x] <= created[x]
    BY <1>3, TimesAssumption DEF MonitoringStart, TypeOK
  <2>2. UNCHANGED <<lastPoll, lease, claim>> /\ now' = now /\ now \in Int
    BY <1>3 DEF MonitoringStart, TypeOK
  <2> QED
    BY <2>1, <2>2, TimePasses
<1>4. CASE Tick
  <2>1. UNCHANGED <<lastPoll, lease, claim>> /\ now' = now + 1 /\ now \in Int
        /\ \A x \in Rules : created'[x] \in Int /\ created'[x] <= created[x]
    BY <1>4 DEF Tick, columns, start, TypeOK
  <2> QED
    BY <2>1, TimePasses
<1>5. CASE \/ UNCHANGED vars
           \/ \E r \in Rules : DeleteRule(r) \/ \E on \in BOOLEAN : SetEnabled(r, on)
  BY <1>5, NothingHeld DEF vars, DeleteRule, SetEnabled, columns
<1> QED
  BY <1>1, <1>2, <1>3, <1>4, <1>5 DEF Next

\* The lease columns implement the fenced slot: a rule is granted only when it
\* is free or its lease has run out, settled and freed only by the process that
\* holds it, and closed by others only after its window.
THEOREM LeaseRefinesSlot == Spec => ImplementsFencedSlot
<1>1. Init => Slot!SlotInit
  <2> SUFFICES ASSUME Init PROVE Slot!SlotInit
    OBVIOUS
  <2>1. Claimed = [p \in Owners |-> {}]
    BY DEF Init, NoClaims, Claimed
  <2>2. Overdue = {}
    BY DEF Init, Overdue
  <2>3. Closed = {}
    BY TimesAssumption DEF Init, Closed, WindowOpen, WindowExpired
  <2> QED
    BY <2>1, <2>2, <2>3 DEF Init, Slot!SlotInit, Claimed, Overdue, Closed
<1> QED
  BY <1>1, InvHolds, StepRefines, PTL DEF Spec, ImplementsFencedSlot, Slot!SlotSpec
=============================================================================
