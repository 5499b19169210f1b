------------------------- MODULE ReviewAndReportProofs -------------------------
(***************************************************************************)
(* Proofs about the two queues whose items a worker claims, works on for   *)
(* long and settles: reviews and reports.                                  *)
(*                                                                         *)
(* The first part is about ReviewQueue, for any number of items, workers,  *)
(* attempts and events.  The second is about ReportQueue, for any number   *)
(* of runs and report workers, any limits and any bounds.                  *)
(***************************************************************************)
EXTENDS ReviewQueue, ReportQueue, FiniteSetTheorems, TLAPS

\* The phases in which a worker has an item in hand, whose row it has loaded.
Phases == Verdicts \cup {"debate", "release"}

\* That item is one the worker has claimed.
InHand ==
    \A w \in Workers : pc[w] \in Phases => copy[w] \in Copies /\ copy[w].item \in todo[w]

\* The worker's lease is what keeps others from an item, while the item is
\* pending: it has not run out, and no release or exception of another worker
\* has taken it away.
Guarded ==
    \A w \in Workers : \A i \in todo[w] \ lapsed :
        i \in live[w] /\ (status[i] = "PENDING" => lease[i] = w)

\* The loaded number of attempts is not too large, and a verdict in hand is
\* one of the committed ones.
Founded ==
    \A w \in Workers : pc[w] \in Phases =>
        /\ copy[w].attempts <= attempts[copy[w].item]
        /\ pc[w] \in Verdicts => pc[w] \in ToSet(verdicts[copy[w].item])

\* The inductive invariant.
Inv ==
    /\ TypeOK /\ InHand /\ Guarded /\ Founded
    /\ LeaseSeparatesWorkers /\ WorkerDecisionHasGround

-----------------------------------------------------------------------------
(* What several actions have in common.                                    *)

\* One more verdict about a claim.
LEMMA VerdictAppended ==
    ASSUME NEW s \in Seq(Verdicts), NEW x \in Verdicts
    PROVE  /\ Append(s, x) \in Seq(Verdicts)
           /\ ToSet(s) \subseteq ToSet(Append(s, x)) /\ x \in ToSet(Append(s, x))
<1>1. /\ Append(s, x) \in Seq(Verdicts) /\ DOMAIN Append(s, x) = 1..Len(s) + 1
      /\ Append(s, x)[Len(s) + 1] = x /\ \A i \in 1..Len(s) : Append(s, x)[i] = s[i]
  OBVIOUS
<1>2. \A i \in DOMAIN s : i \in DOMAIN Append(s, x) /\ Append(s, x)[i] = s[i]
  BY <1>1
<1>3. Len(s) + 1 \in DOMAIN Append(s, x)
  BY <1>1
<1> QED
  BY <1>1, <1>2, <1>3 DEF ToSet

\* A worker that leaves the item in hand keeps the others, whatever it writes
\* to the row of that item.
LEMMA Leaving ==
    ASSUME Inv, NEW w \in Workers, pc[w] \in Phases, Leave(w), UNCHANGED <<timers, verdicts, attempts>>,
           \A i \in Items \ {copy[w].item} : status'[i] = status[i] /\ lease'[i] = lease[i]
    PROVE  InHand' /\ Guarded' /\ Founded' /\ LeaseSeparatesWorkers'
<1> DEFINE i0 == copy[w].item
<1>1. i0 \in Items /\ i0 \in todo[w]
  BY DEF Inv, InHand, Copies
<1>2. /\ pc'[w] = "next" /\ todo'[w] = todo[w] \ {i0}
      /\ \A v \in Workers \ {w} : pc'[v] = pc[v] /\ todo'[v] = todo[v] /\ copy'[v] = copy[v]
  BY DEF Inv, TypeOK, Leave
<1>3. InHand'
  BY <1>2 DEF Inv, InHand, Phases, Verdicts
<1>4. LeaseSeparatesWorkers'
  BY <1>2 DEF Inv, LeaseSeparatesWorkers, Held, timers
<1>5. ASSUME NEW v \in Workers, NEW i \in todo'[v] \ lapsed'
      PROVE  i \in live'[v] /\ (status'[i] = "PENDING" => lease'[i] = v)
  <2>1. i \in todo[v] \ lapsed /\ i \in Items
    BY <1>2, <1>5 DEF timers, Inv, TypeOK
  <2>2. i # i0
    BY <1>1, <1>2, <1>5, <2>1 DEF Inv, LeaseSeparatesWorkers, Held
  <2> QED
    BY <2>1, <2>2 DEF Inv, Guarded, timers
<1>6. Guarded'
  BY <1>5 DEF Guarded
<1>7. Founded'
  BY <1>2 DEF Inv, Founded, Phases, Verdicts
<1> QED
  BY <1>3, <1>4, <1>6, <1>7

\* The types of the worker's own variables when it leaves an item.
LEMMA LeavingTypes ==
    ASSUME TypeOK, NEW w \in Workers, Leave(w)
    PROVE  /\ pc' \in [Workers -> Verdicts \cup {"idle", "due", "next", "debate", "release", "dead"}]
           /\ todo' \in [Workers -> SUBSET Items]
           /\ copy' \in [Workers -> Copies \cup {None}]
BY DEF TypeOK, Leave

\* Clearing the lease of the item in hand.
LEMMA Clearing ==
    ASSUME Inv, NEW w \in Workers, pc[w] \in Phases, ClearLease(w)
    PROVE  /\ lease' \in [Items -> Workers \cup {None}]
           /\ \A i \in Items \ {copy[w].item} : lease'[i] = lease[i]
<1>1. copy[w].item \in Items
  BY DEF Inv, InHand, Copies
<1> QED
  BY <1>1 DEF ClearLease, Inv, TypeOK

\* A decision is settled on a verdict that was committed, or on all attempts.
LEMMA SettleInv ==
    ASSUME Inv, NEW w \in Workers, pc[w] \in Phases, NEW s \in {"ACCEPTED", "REJECTED"}, Settle(w, s),
           \/ s \in ToSet(verdicts[copy[w].item])
           \/ "CONDITIONAL" \in ToSet(verdicts[copy[w].item]) /\ attempts[copy[w].item] >= MaxAttempts
    PROVE  Inv'
<1> DEFINE i0 == copy[w].item
<1>1. i0 \in Items
  BY DEF Inv, InHand, Copies
<1>2. /\ status' = [status EXCEPT ![i0] = s] /\ decidedBy' = [decidedBy EXCEPT ![i0] = "worker"]
      /\ claimStatus' = IF copy[w].claim # s THEN [claimStatus EXCEPT ![i0] = s] ELSE claimStatus
      /\ artifacts' = IF s = "ACCEPTED" THEN [artifacts EXCEPT ![i0] = @ + 1] ELSE artifacts
      /\ ClearLease(w) /\ Leave(w)
      /\ UNCHANGED <<attempts, band, verdicts, timers, sweep, events>>
  BY DEF Settle
<1>3. TypeOK'
  <2>1. /\ status' \in [Items -> ItemStates] /\ decidedBy' \in [Items -> {"worker", "user", None}]
        /\ claimStatus' \in [Items -> ClaimStates] /\ artifacts' \in [Items -> Nat]
    BY <1>1, <1>2 DEF Inv, TypeOK, ItemStates, ClaimStates
  <2> QED
    BY <1>2, <2>1, LeavingTypes, Clearing DEF Inv, TypeOK, timers
<1>4. InHand' /\ Guarded' /\ Founded' /\ LeaseSeparatesWorkers'
  <2>1. \A i \in Items \ {i0} : status'[i] = status[i] /\ lease'[i] = lease[i]
    BY <1>1, <1>2, Clearing DEF Inv, TypeOK
  <2> QED
    BY <1>2, <2>1, Leaving
<1>5. WorkerDecisionHasGround'
  <2> SUFFICES ASSUME NEW i \in Items, decidedBy'[i] = "worker"
               PROVE  \/ status'[i] \in ToSet(verdicts[i])
                      \/ "CONDITIONAL" \in ToSet(verdicts[i]) /\ attempts[i] >= MaxAttempts
    BY <1>2 DEF WorkerDecisionHasGround
  <2>1. CASE i = i0
    BY <1>1, <1>2, <2>1 DEF Inv, TypeOK
  <2>2. CASE i # i0
    BY <1>1, <1>2, <2>2 DEF Inv, TypeOK, WorkerDecisionHasGround
  <2> QED
    BY <2>1, <2>2
<1> QED
  BY <1>3, <1>4, <1>5 DEF Inv

-----------------------------------------------------------------------------
(* Each action preserves the invariant.                                    *)

\* Nothing is claimed, loaded or decided at the beginning.
LEMMA InitInv ==
    ASSUME Init PROVE Inv
<1>1. TypeOK
  BY DEF Init, TypeOK, Bands, Floor, AutoProcess, ItemStates, ClaimStates
<1>2. \A w \in Workers : pc[w] \notin Phases /\ todo[w] = {}
  BY DEF Init, Phases, Verdicts
<1>3. WorkerDecisionHasGround
  BY NoneAssumption DEF Init, WorkerDecisionHasGround
<1> QED
  BY <1>1, <1>2, <1>3 DEF Inv, InHand, Guarded, Founded, LeaseSeparatesWorkers, Held

\* A claim takes pending items whose lease is free; whoever has such an item
\* in its batch has lost the lease on it.
LEMMA ClaimInv ==
    ASSUME Inv, NEW w \in Workers, ClaimItems(w)
    PROVE  Inv'
<1>1. TypeOK'
  BY DEF Inv, TypeOK, ClaimItems, Claimable, claimVars
<1>2. /\ pc[w] = "due" /\ pc'[w] = "next" /\ todo'[w] = Claimable /\ live'[w] = live[w] \cup Claimable
      /\ \A v \in Workers \ {w} : pc'[v] = pc[v] /\ todo'[v] = todo[v] /\ live'[v] = live[v]
      /\ \A i \in Items : lease'[i] = IF i \in Claimable THEN w ELSE lease[i]
      /\ \A i \in Items : attempts'[i] >= attempts[i]
      /\ UNCHANGED <<status, decidedBy, verdicts, lapsed, copy>>
  BY DEF Inv, TypeOK, ClaimItems
<1>3. InHand'
  BY <1>2 DEF Inv, InHand, Phases, Verdicts
<1>4. Founded'
  <2> SUFFICES ASSUME NEW v \in Workers, pc'[v] \in Phases
               PROVE  /\ copy'[v].attempts <= attempts'[copy'[v].item]
                      /\ pc'[v] \in Verdicts => pc'[v] \in ToSet(verdicts'[copy'[v].item])
    BY DEF Founded
  <2>1. v # w /\ pc[v] \in Phases
    BY <1>2 DEF Phases, Verdicts
  <2>2. copy[v] \in Copies /\ copy[v].item \in Items /\ copy[v].attempts \in Nat
    BY <2>1 DEF Inv, InHand, Copies
  <2>3. attempts'[copy[v].item] \in Nat /\ attempts[copy[v].item] \in Nat
    BY <1>1, <2>2 DEF Inv, TypeOK
  <2> QED
    BY <1>2, <2>1, <2>2, <2>3 DEF Inv, Founded
<1>5. ASSUME NEW v \in Workers \ {w}, NEW i \in todo[v], i \in Claimable
      PROVE  i \in lapsed
  <2> SUFFICES ASSUME i \notin lapsed PROVE FALSE
    OBVIOUS
  <2>1. i \in live[v] /\ lease[i] = v
    BY <1>5 DEF Inv, Guarded, Claimable
  <2> QED
    BY <1>5, <2>1, NoneAssumption DEF Claimable, LeaseFree
<1>6. Guarded'
  <2> SUFFICES ASSUME NEW v \in Workers, NEW i \in todo'[v] \ lapsed'
               PROVE  i \in live'[v] /\ (status'[i] = "PENDING" => lease'[i] = v)
    BY DEF Guarded
  <2>1. CASE v = w
    BY <1>2, <2>1 DEF Claimable
  <2>2. CASE v # w
    BY <1>1, <1>2, <1>5, <2>2 DEF Inv, Guarded, TypeOK
  <2> QED
    BY <2>1, <2>2
<1>7. LeaseSeparatesWorkers'
  BY <1>2, <1>5 DEF Inv, LeaseSeparatesWorkers, Held
<1>8. WorkerDecisionHasGround'
  <2> SUFFICES ASSUME NEW i \in Items, decidedBy[i] = "worker"
               PROVE  \/ status[i] \in ToSet(verdicts[i])
                      \/ "CONDITIONAL" \in ToSet(verdicts[i]) /\ attempts'[i] >= MaxAttempts
    BY <1>2 DEF WorkerDecisionHasGround
  <2> QED
    BY <1>1, <1>2, LimitsAssumption DEF Inv, TypeOK, WorkerDecisionHasGround
<1> QED
  BY <1>1, <1>3, <1>4, <1>6, <1>7, <1>8 DEF Inv

\* A lease that runs out under its holder is recorded as lapsed.
LEMMA LeaseRunsOutInv ==
    ASSUME Inv, NEW w \in Workers, NEW i \in Items, LeaseRunsOut(w, i)
    PROVE  Inv'
<1>1. TypeOK'
  BY DEF Inv, TypeOK, LeaseRunsOut, rows, itemVars, claimVars, workerVars
<1>2. /\ live' = [live EXCEPT ![w] = @ \ {i}]
      /\ lapsed \subseteq lapsed' /\ (i \in todo[w] => i \in lapsed')
      /\ UNCHANGED <<status, lease, attempts, decidedBy, verdicts, pc, todo, copy>>
  BY DEF LeaseRunsOut, rows, itemVars, workerVars, Held
<1>3. Guarded'
  BY <1>2 DEF Inv, TypeOK, Guarded
<1>4. InHand' /\ Founded' /\ LeaseSeparatesWorkers' /\ WorkerDecisionHasGround'
  BY <1>2 DEF Inv, InHand, Founded, LeaseSeparatesWorkers, WorkerDecisionHasGround, Held
<1> QED
  BY <1>1, <1>3, <1>4 DEF Inv

\* Steps that only drop claimed items, or none, of a worker with nothing in
\* hand: an item found decided, the end of a batch, an event, a round that
\* finds nothing, a crash and a restart.
LEMMA DropInv ==
    ASSUME Inv, NEW w \in Workers, Skip(w) \/ BatchDone(w) \/ Event(w) \/ ClaimNothing(w) \/ Crash(w) \/ Restart(w)
    PROVE  Inv'
<1>1. TypeOK'
  <2>1. CASE Skip(w)
    BY <2>1 DEF Inv, TypeOK, Skip, rows, itemVars, claimVars, timers
  <2>2. CASE BatchDone(w)
    BY <2>2 DEF Inv, TypeOK, BatchDone, rows, itemVars, claimVars, timers
  <2>3. CASE Crash(w)
    BY <2>3 DEF Inv, TypeOK, Crash, CountEvent, rows, itemVars, claimVars, timers
  <2>4. CASE Restart(w)
    BY <2>4 DEF Inv, TypeOK, Restart, rows, itemVars, claimVars, timers
  <2>5. CASE Event(w) \/ ClaimNothing(w)
    BY <2>5 DEF Inv, TypeOK, Event, ClaimNothing, rows, itemVars, claimVars, timers
  <2> QED
    BY <2>1, <2>2, <2>3, <2>4, <2>5
<1>2. /\ pc'[w] \in {"idle", "due", "next", "dead"} /\ todo'[w] \subseteq todo[w]
      /\ \A v \in Workers \ {w} : pc'[v] = pc[v] /\ todo'[v] = todo[v] /\ copy'[v] = copy[v]
      /\ UNCHANGED <<status, lease, attempts, decidedBy, verdicts, live, lapsed>>
  <2>1. CASE Skip(w)
    BY <2>1 DEF Inv, TypeOK, Skip, rows, itemVars, timers
  <2>2. CASE BatchDone(w)
    BY <2>2 DEF Inv, TypeOK, BatchDone, rows, itemVars, timers
  <2>3. CASE Crash(w)
    BY <2>3 DEF Inv, TypeOK, Crash, rows, itemVars, timers
  <2>4. CASE Restart(w)
    BY <2>4 DEF Inv, TypeOK, Restart, rows, itemVars, timers
  <2>5. CASE Event(w) \/ ClaimNothing(w)
    BY <2>5 DEF Inv, TypeOK, Event, ClaimNothing, rows, itemVars, timers
  <2> QED
    BY <2>1, <2>2, <2>3, <2>4, <2>5
<1>3. InHand' /\ Founded'
  BY <1>2 DEF Inv, InHand, Founded, Phases, Verdicts
<1>4. Guarded' /\ LeaseSeparatesWorkers'
  BY <1>2 DEF Inv, Guarded, LeaseSeparatesWorkers, Held
<1>5. WorkerDecisionHasGround'
  BY <1>2 DEF Inv, WorkerDecisionHasGround
<1> QED
  BY <1>1, <1>3, <1>4, <1>5 DEF Inv

\* A loaded row is one of an item in the batch, with a verdict only if a
\* debate about it has ended.
LEMMA LoadInv ==
    ASSUME Inv, NEW w \in Workers, Load(w)
    PROVE  Inv'
<1>1. PICK i \in todo[w], related \in BOOLEAN :
         /\ status[i] = "PENDING"
         /\ copy' = [copy EXCEPT ![w] = [item |-> i, leased |-> lease[i] # None,
                        attempts |-> attempts[i], claim |-> claimStatus[i], band |-> band[i]]]
         /\ pc' = [pc EXCEPT ![w] = AfterLoad(i, related)]
  BY DEF Load
<1>2. UNCHANGED <<rows, timers, todo, sweep, events>>
  BY DEF Load
<1>3. i \in Items
  BY DEF Inv, TypeOK
<1>4. AfterLoad(i, related) \in Phases
      /\ (AfterLoad(i, related) \in Verdicts => AfterLoad(i, related) \in ToSet(verdicts[i]))
  <2>1. verdicts[i] \in Seq(Verdicts)
    BY <1>3 DEF Inv, TypeOK
  <2>2. verdicts[i] # <<>> => Last(verdicts[i]) \in ToSet(verdicts[i]) /\ Last(verdicts[i]) \in Verdicts
    BY <2>1 DEF Last, ToSet
  <2> QED
    BY <2>2 DEF AfterLoad, Phases, Verdicts
<1>5. copy'[w] \in Copies /\ copy'[w].item = i /\ copy'[w].attempts = attempts[i]
  BY <1>1, <1>3 DEF Inv, TypeOK, Copies
<1>6. \A v \in Workers \ {w} : pc'[v] = pc[v] /\ copy'[v] = copy[v]
  BY <1>1 DEF Inv, TypeOK
<1>7. TypeOK'
  <2>1. pc' \in [Workers -> Verdicts \cup {"idle", "due", "next", "debate", "release", "dead"}]
    BY <1>1, <1>4 DEF Inv, TypeOK, Phases
  <2>2. copy' \in [Workers -> Copies \cup {None}]
    BY <1>1, <1>5 DEF Inv, TypeOK
  <2> QED
    BY <1>2, <2>1, <2>2 DEF Inv, TypeOK, rows, itemVars, claimVars, timers
<1>8. InHand'
  BY <1>2, <1>5, <1>6 DEF Inv, InHand
<1>9. Founded'
  <2>1. pc'[w] = AfterLoad(i, related)
    BY <1>1 DEF Inv, TypeOK
  <2>2. attempts[i] <= attempts[i]
    BY <1>3 DEF Inv, TypeOK
  <2> QED
    BY <1>2, <1>4, <1>5, <1>6, <2>1, <2>2 DEF Inv, Founded, rows, itemVars
<1>10. Guarded' /\ LeaseSeparatesWorkers' /\ WorkerDecisionHasGround'
  BY <1>2 DEF Inv, Guarded, LeaseSeparatesWorkers, WorkerDecisionHasGround, Held, rows, itemVars, timers
<1> QED
  BY <1>7, <1>8, <1>9, <1>10 DEF Inv

\* A verdict is committed before the worker acts on it.
LEMMA DebateStepInv ==
    ASSUME Inv, NEW w \in Workers, Debate(w)
    PROVE  Inv'
<1> DEFINE i0 == copy[w].item
<1>1. PICK x \in Verdicts :
         verdicts' = [verdicts EXCEPT ![i0] = Append(@, x)] /\ pc' = [pc EXCEPT ![w] = x]
  BY DEF Debate, Verdicts
<1>2. UNCHANGED <<itemVars, claimVars, timers, todo, copy, sweep, events>>
  BY DEF Debate
<1>3. pc[w] \in Phases /\ i0 \in Items
  BY DEF Debate, Phases, Inv, InHand, Copies
<1>4. /\ verdicts' \in [Items -> Seq(Verdicts)]
      /\ \A i \in Items : ToSet(verdicts[i]) \subseteq ToSet(verdicts'[i])
      /\ x \in ToSet(verdicts'[i0])
  <2>1. verdicts[i0] \in Seq(Verdicts)
    BY <1>3 DEF Inv, TypeOK
  <2>2. /\ Append(verdicts[i0], x) \in Seq(Verdicts)
        /\ ToSet(verdicts[i0]) \subseteq ToSet(Append(verdicts[i0], x))
        /\ x \in ToSet(Append(verdicts[i0], x))
    BY <2>1, VerdictAppended
  <2> QED
    BY <1>1, <1>3, <2>2 DEF Inv, TypeOK
<1>5. TypeOK'
  <2>1. pc' \in [Workers -> Verdicts \cup {"idle", "due", "next", "debate", "release", "dead"}]
    BY <1>1 DEF Inv, TypeOK
  <2> QED
    BY <1>2, <1>4, <2>1 DEF Inv, TypeOK, itemVars, claimVars, timers
<1>6. InHand' /\ Founded'
  <2>1. \A v \in Workers : pc'[v] \in Phases => pc[v] \in Phases
    BY <1>1, <1>3 DEF Inv, TypeOK
  <2>2. InHand'
    BY <1>2, <2>1 DEF Inv, InHand
  <2>3. ASSUME NEW v \in Workers, pc'[v] \in Verdicts
        PROVE  pc'[v] \in ToSet(verdicts'[copy[v].item])
    <3>1. CASE v = w
      BY <1>1, <1>4, <3>1 DEF Inv, TypeOK
    <3>2. CASE v # w
      <4>1. pc'[v] = pc[v] /\ pc[v] \in Phases
        BY <1>1, <2>3, <3>2 DEF Inv, TypeOK, Phases
      <4>2. copy[v].item \in Items
        BY <4>1 DEF Inv, InHand, Copies
      <4> QED
        BY <1>4, <2>3, <4>1, <4>2 DEF Inv, Founded
    <3> QED
      BY <3>1, <3>2
  <2> QED
    BY <1>2, <2>1, <2>2, <2>3 DEF Inv, Founded, itemVars
<1>7. Guarded' /\ LeaseSeparatesWorkers'
  BY <1>2 DEF Inv, Guarded, LeaseSeparatesWorkers, Held, itemVars, timers
<1>8. WorkerDecisionHasGround'
  BY <1>2, <1>4 DEF Inv, WorkerDecisionHasGround, itemVars
<1> QED
  BY <1>5, <1>6, <1>7, <1>8 DEF Inv

\* The three ways to settle an item by its verdict.
LEMMA VerdictInv ==
    ASSUME Inv, NEW w \in Workers, AutoAccept(w) \/ AutoReject(w) \/ ResolveConditional(w)
    PROVE  Inv'
<1>1. pc[w] \in Verdicts /\ pc[w] \in Phases
  BY DEF AutoAccept, AutoReject, ResolveConditional, Verdicts, Phases
<1>2. pc[w] \in ToSet(verdicts[copy[w].item])
  BY <1>1 DEF Inv, Founded
<1>3. CASE AutoAccept(w)
  BY <1>1, <1>2, <1>3, SettleInv DEF AutoAccept
<1>4. CASE AutoReject(w)
  BY <1>1, <1>2, <1>4, SettleInv DEF AutoReject
<1>5. CASE ResolveConditional(w)
  <2>1. copy[w].attempts \in Nat /\ attempts[copy[w].item] \in Nat
    BY <1>1 DEF Inv, InHand, Copies, TypeOK
  <2>2. attempts[copy[w].item] >= MaxAttempts
    BY <1>1, <1>5, <2>1, LimitsAssumption DEF ResolveConditional, Inv, Founded
  <2> QED
    BY <1>1, <1>2, <1>5, <2>2, SettleInv DEF ResolveConditional
<1> QED
  BY <1>3, <1>4, <1>5

\* An item is given back, by the worker or after an exception.
LEMMA ReleaseInv ==
    ASSUME Inv, NEW w \in Workers, Release(w) \/ Raises(w)
    PROVE  Inv'
<1>1. pc[w] \in Phases /\ copy[w].item \in Items
  <2>1. pc[w] \in Phases
    BY DEF Release, Raises, Phases, Verdicts, Inv, TypeOK
  <2> QED
    BY <2>1 DEF Inv, InHand, Copies
<1>2. /\ Leave(w) /\ UNCHANGED <<status, attempts, decidedBy, claimVars, verdicts, timers, sweep>>
      /\ lease' \in [Items -> Workers \cup {None}] /\ events' \in Nat
      /\ \A i \in Items \ {copy[w].item} : lease'[i] = lease[i]
  <2>1. CASE Release(w)
    BY <1>1, <2>1, Clearing DEF Release, Inv, TypeOK
  <2>2. CASE Raises(w)
    BY <1>1, <2>2 DEF Raises, CountEvent, Inv, TypeOK
  <2> QED
    BY <2>1, <2>2
<1>3. TypeOK'
  BY <1>2, LeavingTypes DEF Inv, TypeOK, claimVars, timers
<1>4. InHand' /\ Guarded' /\ Founded' /\ LeaseSeparatesWorkers'
  BY <1>1, <1>2, Leaving
<1>5. WorkerDecisionHasGround'
  BY <1>2 DEF Inv, WorkerDecisionHasGround
<1> QED
  BY <1>3, <1>4, <1>5 DEF Inv

\* Users decide whoever has the item in hand.
LEMMA UserInv ==
    ASSUME Inv, NEW i \in Items, NEW s \in {"ACCEPTED", "REJECTED"}, UserDecides(i, s)
    PROVE  Inv'
<1>1. TypeOK'
  BY DEF Inv, TypeOK, UserDecides, CountEvent, ItemStates, ClaimStates, timers, workerVars
<1>2. /\ status' = [status EXCEPT ![i] = s] /\ decidedBy' = [decidedBy EXCEPT ![i] = "user"]
      /\ lease' = [lease EXCEPT ![i] = None]
      /\ UNCHANGED <<attempts, verdicts, live, lapsed, pc, todo, copy>>
  BY DEF UserDecides, timers, workerVars
<1>3. InHand' /\ Founded' /\ LeaseSeparatesWorkers'
  BY <1>2 DEF Inv, InHand, Founded, LeaseSeparatesWorkers, Held
<1>4. Guarded'
  BY <1>2 DEF Inv, TypeOK, Guarded
<1>5. WorkerDecisionHasGround'
  BY <1>2 DEF Inv, TypeOK, WorkerDecisionHasGround
<1> QED
  BY <1>1, <1>3, <1>4, <1>5 DEF Inv

\* The re-evaluation writes claims only.
LEMMA ReevaluationInv ==
    ASSUME Inv, ReevaluationLoads \/ ReevaluationCommits
    PROVE  Inv'
<1>1. UNCHANGED <<itemVars, verdicts, timers, workerVars>>
  BY DEF ReevaluationLoads, ReevaluationCommits, rows
<1>2. TypeOK'
  <2>1. CASE ReevaluationLoads
    BY <1>1, <2>1 DEF Inv, TypeOK, ReevaluationLoads, CountEvent, rows, itemVars, claimVars, timers, workerVars
  <2>2. CASE ReevaluationCommits
    <3> PICK changed \in SUBSET DOMAIN sweep : \E new \in [changed -> Bands] :
             LET Changes(i) == i \in changed /\ NewStatus(sweep[i], new[i]) # sweep[i] IN
             /\ band' = [i \in Items |-> IF i \in changed THEN new[i] ELSE band[i]]
             /\ claimStatus' = [i \in Items |-> IF Changes(i) THEN NewStatus(sweep[i], new[i])
                                                ELSE claimStatus[i]]
      BY <2>2 DEF ReevaluationCommits
    <3>1. PICK new \in [changed -> Bands] :
             LET Changes(i) == i \in changed /\ NewStatus(sweep[i], new[i]) # sweep[i] IN
             /\ band' = [i \in Items |-> IF i \in changed THEN new[i] ELSE band[i]]
             /\ claimStatus' = [i \in Items |-> IF Changes(i) THEN NewStatus(sweep[i], new[i])
                                                ELSE claimStatus[i]]
      OBVIOUS
    <3>2. \A old \in ClaimStates, b \in Bands : NewStatus(old, b) \in ClaimStates
      BY DEF NewStatus, ClaimStates
    <3>3. band' \in [Items -> Bands]
      BY <3>1 DEF Inv, TypeOK
    <3>4. \A i \in changed : sweep[i] \in ClaimStates /\ new[i] \in Bands
      BY <2>2, <3>1 DEF Inv, TypeOK, ReevaluationCommits
    <3>5. claimStatus' \in [Items -> ClaimStates]
      BY <3>1, <3>2, <3>4 DEF Inv, TypeOK
    <3> QED
      BY <1>1, <2>2, <3>3, <3>5 DEF Inv, TypeOK, ReevaluationCommits, itemVars, timers, workerVars
  <2> QED
    BY <2>1, <2>2
<1>3. InHand' /\ Guarded' /\ Founded' /\ LeaseSeparatesWorkers' /\ WorkerDecisionHasGround'
  BY <1>1 DEF Inv, InHand, Guarded, Founded, LeaseSeparatesWorkers, WorkerDecisionHasGround, Held,
              itemVars, timers, workerVars
<1> QED
  BY <1>2, <1>3 DEF Inv

\* So does every step.
LEMMA NextInv ==
    ASSUME Inv, [Next]_vars
    PROVE  Inv'
<1>1. ASSUME NEW w \in Workers, WorkerStep(w) \/ Event(w) \/ Raises(w) \/ Crash(w) PROVE Inv'
  BY <1>1, ClaimInv, DropInv, LoadInv, DebateStepInv, VerdictInv, ReleaseInv DEF WorkerStep
<1>2. ASSUME NEW w \in Workers, NEW i \in Items, LeaseRunsOut(w, i) PROVE Inv'
  BY <1>2, LeaseRunsOutInv
<1>3. ASSUME NEW i \in Items, UserDecides(i, "ACCEPTED") \/ UserDecides(i, "REJECTED") PROVE Inv'
  BY <1>3, UserInv
<1>4. CASE UNCHANGED vars
  BY <1>4 DEF Inv, TypeOK, InHand, Guarded, Founded, LeaseSeparatesWorkers, WorkerDecisionHasGround,
              Held, vars, rows, itemVars, claimVars, timers, workerVars
<1> QED
  BY <1>1, <1>2, <1>3, <1>4, ReevaluationInv DEF Next

-----------------------------------------------------------------------------
(* Theorems.                                                               *)

LEMMA Invariance == Spec => []Inv
<1>1. Init => Inv
  BY InitInv
<1>2. Inv /\ [Next]_vars => Inv'
  BY NextInv
<1> QED
  BY <1>1, <1>2, PTL DEF Spec

\* Every variable keeps its type.
THEOREM TypeCorrect == Spec => []TypeOK
<1>1. Inv => TypeOK
  BY DEF Inv
<1> QED
  BY <1>1, Invariance, PTL

\* Whatever the workers, users and exceptions do between the claim of an item
\* and its decision, only a lease that ran out puts it into two hands.
THEOREM LeaseSeparates == Spec => []LeaseSeparatesWorkers
<1>1. Inv => LeaseSeparatesWorkers
  BY DEF Inv
<1> QED
  BY <1>1, Invariance, PTL

\* Every decision of a worker rests on a committed verdict, and one against an
\* open verdict on all attempts, even after its lease has run out.
THEOREM DecisionGrounded == Spec => []WorkerDecisionHasGround
<1>1. Inv => WorkerDecisionHasGround
  BY DEF Inv
<1> QED
  BY <1>1, Invariance, PTL

\* No release, exception, crash or late decision makes a decided item pending.
THEOREM DecidedStays == Spec => DecidedStaysDecided
<1>1. ASSUME Inv, [Next]_vars
      PROVE  [\A i \in Items : status[i] # "PENDING" => status'[i] # "PENDING"]_vars
  <2> SUFFICES ASSUME Next, NEW i \in Items, status[i] # "PENDING" PROVE status'[i] # "PENDING"
    BY <1>1
  <2>1. status \in [Items -> ItemStates]
    BY <1>1 DEF Inv, TypeOK
  <2>2. ASSUME NEW w \in Workers, NEW s \in {"ACCEPTED", "REJECTED"}, Settle(w, s)
        PROVE  status'[i] # "PENDING"
    BY <2>1, <2>2 DEF Settle
  <2>3. ASSUME NEW w \in Workers, WorkerStep(w) PROVE status'[i] # "PENDING"
    BY <2>2, <2>3 DEF WorkerStep, ClaimItems, ClaimNothing, Skip, BatchDone, Load, Debate, AutoAccept, AutoReject,
                      ResolveConditional, Release, Restart, rows, itemVars
  <2>4. ASSUME NEW w \in Workers, Event(w) \/ Raises(w) \/ Crash(w) PROVE status'[i] # "PENDING"
    BY <2>4 DEF Event, Raises, Crash, rows, itemVars
  <2>5. ASSUME NEW j \in Items, UserDecides(j, "ACCEPTED") \/ UserDecides(j, "REJECTED")
        PROVE  status'[i] # "PENDING"
    BY <2>1, <2>5 DEF UserDecides
  <2> QED
    BY <2>3, <2>4, <2>5 DEF Next, LeaseRunsOut, ReevaluationLoads, ReevaluationCommits, rows, itemVars
<1> QED
  BY <1>1, Invariance, PTL DEF Spec, DecidedStaysDecided

-----------------------------------------------------------------------------
(* Reports of the runs.                                                    *)

\* The report workers that may still write a report of run r.
Holders(r) == {w \in Reporters : r \in candidates[w] \cup claimed[w]}

\* A report is written for a claimed run.  A worker that reads a run as a
\* candidate does so before there is a report, and writes one report at most.
ReportsLeft ==
    /\ \A w \in Reporters : written[w] \subseteq claimed[w]
    /\ \A r \in Queued : reports[r] + Cardinality(Holders(r)) <= Cardinality(Reporters)

\* The inductive invariant of ReportQueue.
ReportInv == ReportTypeOK /\ ReportsLeft /\ UnreportedHasReason

\* What the constants are.
LEMMA ReportNumbers ==
    /\ Queued \cap Inline = {} /\ Runs = Queued \cup Inline
    /\ IsFiniteSet(Reporters) /\ Cardinality(Reporters) \in Nat
    /\ MaxFaults \in Nat
BY RunsAssumption, ReportersAssumption, BoundsAssumption, FS_CardinalityType DEF Runs

\* Some workers are no more than all of them.
LEMMA FewWorkers ==
    ASSUME NEW S \in SUBSET Reporters, NEW T \in SUBSET S
    PROVE  /\ IsFiniteSet(S) /\ Cardinality(S) \in Nat
           /\ Cardinality(T) \in Nat /\ Cardinality(T) <= Cardinality(S)
           /\ Cardinality(S) <= Cardinality(Reporters)
           /\ \A w \in S : Cardinality(S \ {w}) + 1 = Cardinality(S)
<1>1. /\ IsFiniteSet(S) /\ Cardinality(S) \in Nat
      /\ Cardinality(T) \in Nat /\ Cardinality(T) <= Cardinality(S)
      /\ Cardinality(S) <= Cardinality(Reporters)
  BY ReportNumbers, FS_Subset, FS_CardinalityType
<1>2. \A w \in S : Cardinality(S \ {w}) = Cardinality(S) - 1
  BY <1>1, FS_RemoveElement
<1> QED
  BY <1>1, <1>2

\* It holds before any run is executed.
LEMMA InitReport == ReportInit => ReportInv
<1> SUFFICES ASSUME ReportInit PROVE ReportInv
  OBVIOUS
<1>0. Done = {}
  BY DEF ReportInit, Done
<1>1. ReportTypeOK
  BY <1>0, FS_EmptySet, ReportNumbers DEF ReportInit, ReportTypeOK
<1>2. ReportsLeft
  <2>1. \A r \in Queued : Holders(r) = {}
    BY DEF ReportInit, Holders
  <2>2. Cardinality({}) = 0 /\ Cardinality(Reporters) \in Nat /\ Cardinality(Reporters) >= 0
    BY FS_EmptySet, ReportNumbers
  <2>3. \A r \in Queued : reports[r] = 0 /\ r \in Runs
    BY ReportNumbers DEF ReportInit
  <2>4. \A w \in Reporters : written[w] \subseteq claimed[w]
    BY DEF ReportInit
  <2> QED
    BY <2>1, <2>2, <2>3, <2>4 DEF ReportsLeft
<1>3. UnreportedHasReason
  BY <1>0 DEF UnreportedHasReason, Unreported
<1> QED
  BY <1>1, <1>2, <1>3 DEF ReportInv

\* A commit adds its runs to the completed ones.
LEMMA CompletesRuns ==
    ASSUME ReportTypeOK, NEW rs \in SUBSET executed, Complete(rs)
    PROVE  /\ completed' \in [Runs -> Nat] /\ reports' \in [Runs -> Nat]
           /\ Done' = Done \cup rs
           /\ IsFiniteSet(Done')
           /\ \A r \in Runs \ (rs \cap Inline) : reports'[r] = reports[r]
           /\ \A r \in rs \cap Inline : reports'[r] = 1
<1>1. Cardinality(Done) \in Nat
  BY FS_CardinalityType DEF ReportTypeOK
<1>2. rs \subseteq Runs /\ IsFiniteSet(rs)
  BY FS_Subset DEF ReportTypeOK
<1>3. Done' = Done \cup rs
  BY <1>1, <1>2 DEF Complete, Done, ReportTypeOK
<1>4. IsFiniteSet(Done \cup rs)
  BY <1>2, FS_Union DEF ReportTypeOK
<1> QED
  BY <1>1, <1>2, <1>3, <1>4 DEF Complete, ReportTypeOK

\* What a commit of the simulation worker or of a request is.
LEMMA CommitOfRuns ==
    ASSUME Commit
    PROVE  \E rs \in SUBSET executed :
             /\ Complete(rs)
             /\ executed' = executed \ rs
             /\ excused' = IF Wakes THEN excused ELSE excused \cup (rs \cap Queued)
             /\ UNCHANGED <<inbox, faults, hand, at, candidates, claimed, written>>
BY DEF Commit, reporting

\* Every action keeps the types.
LEMMA ReportTypes ==
    ASSUME ReportInv, [ReportNext]_reportVars
    PROVE  ReportTypeOK'
<1> USE ReportNumbers DEF ReportInv
<1> DEFINE Same == Done' = Done
<1>0. completed' = completed => Same
  BY DEF Done
<1>1. ASSUME UNCHANGED reportVars PROVE ReportTypeOK'
  BY <1>0, <1>1 DEF ReportTypeOK, reportVars, tables, reporting
<1>2. ASSUME NEW r \in Runs, Execute(r) PROVE ReportTypeOK'
  <2>1. IsFiniteSet(executed \cup {r})
    BY FS_AddElement DEF ReportTypeOK
  <2> QED
    BY <1>0, <1>2, <2>1
       DEF ReportTypeOK, Execute, tables, reporting
<1>3. ASSUME Commit PROVE ReportTypeOK'
  <2>1. PICK rs \in SUBSET executed :
             /\ Complete(rs)
             /\ executed' = executed \ rs
             /\ excused' = IF Wakes THEN excused ELSE excused \cup (rs \cap Queued)
             /\ UNCHANGED <<inbox, faults, hand, at, candidates, claimed, written>>
    BY <1>3, CommitOfRuns
  <2>2. /\ completed' \in [Runs -> Nat] /\ reports' \in [Runs -> Nat]
        /\ Done' = Done \cup rs
        /\ IsFiniteSet(Done')
    BY <2>1, CompletesRuns
  <2>3. IsFiniteSet(executed \ rs)
    BY FS_Subset DEF ReportTypeOK
  <2> QED
    BY <2>1, <2>2, <2>3 DEF ReportTypeOK
<1>4. ASSUME Rollback PROVE ReportTypeOK'
  <2>1. executed' \subseteq executed
    BY <1>4 DEF Rollback
  <2>2. IsFiniteSet(executed')
    BY <2>1, FS_Subset DEF ReportTypeOK
  <2> QED
    BY <1>0, <1>4, <2>1, <2>2
       DEF ReportTypeOK, Rollback, tables, reporting
<1>5. ASSUME OtherEvent PROVE ReportTypeOK'
  BY <1>0, <1>5 DEF ReportTypeOK, OtherEvent, tables, reporting
<1>6. ASSUME NEW w \in Reporters, Consume(w) PROVE ReportTypeOK'
  <2>1. PICK n \in 1..Batch : n <= inbox /\ inbox' = inbox - n /\ hand' = [hand EXCEPT ![w] = n]
    BY <1>6 DEF Consume
  <2>2. n \in Nat /\ inbox - n \in Nat
    BY <2>1, BoundsAssumption DEF ReportTypeOK
  <2> QED
    BY <1>0, <1>6, <2>1, <2>2 DEF ReportTypeOK, Consume, Goto, tables
<1>7. ASSUME NEW w \in Reporters, Select(w) PROVE ReportTypeOK'
  <2>1. PICK rs \in SUBSET Unreported :
             /\ candidates' = [candidates EXCEPT ![w] = rs]
             /\ excused' = excused \cup (Unreported \ rs)
    BY <1>7 DEF Select, Firsts
  <2>2. Unreported \subseteq Done
    BY DEF Unreported
  <2> QED
    BY <1>0, <1>7, <2>1, <2>2 DEF ReportTypeOK, Select, Goto, tables
<1>8. ASSUME NEW w \in Reporters, Claim(w) PROVE ReportTypeOK'
  <2>1. PICK r \in candidates[w] :
             /\ claimed' = [claimed EXCEPT ![w] = @ \cup {r}]
             /\ candidates' = [candidates EXCEPT ![w] = @ \ {r}]
    BY <1>8 DEF Claim, Firsts
  <2> QED
    BY <1>0, <1>8, <2>1 DEF ReportTypeOK, Claim, tables
<1>9. ASSUME NEW w \in Reporters, Generate(w) PROVE ReportTypeOK'
  <2>1. PICK bad \in SUBSET claimed[w] :
             /\ faults + Cardinality(bad) <= MaxFaults
             /\ faults' = faults + Cardinality(bad)
             /\ written' = [written EXCEPT ![w] = claimed[w] \ bad]
    BY <1>9 DEF Generate
  <2>2. Cardinality(bad) \in Nat
    BY FS_Subset, FS_CardinalityType DEF ReportTypeOK
  <2> QED
    BY <1>0, <1>9, <2>1, <2>2 DEF ReportTypeOK, Generate, Goto, tables
<1>10. ASSUME NEW w \in Reporters, CommitReports(w) PROVE ReportTypeOK'
  BY <1>0, <1>10 DEF ReportTypeOK, CommitReports, Rest, Goto
<1>11. ASSUME NEW w \in Reporters, Ack(w) PROVE ReportTypeOK'
  BY <1>0, <1>11 DEF ReportTypeOK, Ack, Goto, tables
<1>12. ASSUME NEW w \in Reporters, NEW where \in {"boot", "wait"},
              Fails(w), Goto(w, where)
       PROVE  ReportTypeOK'
  BY <1>0, <1>12 DEF Goto, ReportTypeOK, Fails, Rest, tables
<1>13. ASSUME NEW w \in Reporters, RoundFails(w) \/ Kill(w) PROVE ReportTypeOK'
  BY <1>12, <1>13 DEF RoundFails, Kill, Goto, ReportTypeOK
<1> QED
  BY <1>1, <1>2, <1>3, <1>4, <1>5, <1>6, <1>7, <1>8, <1>9, <1>10, <1>11, <1>13
     DEF ReportNext, Reporter

\* Every action keeps the number of reports that may still be written.
LEMMA ReportsLeftKept ==
    ASSUME ReportInv, [ReportNext]_reportVars
    PROVE  ReportsLeft'
<1> USE DEF ReportInv
<1>0. Queued \subseteq Runs /\ Queued \cap Inline = {}
  BY ReportNumbers
<1>a. \A r \in Queued : Holders(r) \in SUBSET Reporters /\ Holders(r)' \in SUBSET Reporters
  BY DEF Holders
<1>b. \A r \in Queued : reports[r] \in Nat
  BY <1>0 DEF ReportTypeOK
<1>c. ASSUME \A r \in Queued : reports'[r] = reports[r] /\ Holders(r)' \subseteq Holders(r),
             \A v \in Reporters : written'[v] \subseteq claimed'[v]
      PROVE  ReportsLeft'
  <2>1. \A r \in Queued : /\ Cardinality(Holders(r)') <= Cardinality(Holders(r))
                          /\ Cardinality(Holders(r)') \in Nat /\ Cardinality(Holders(r)) \in Nat
    BY <1>a, <1>c, FewWorkers
  <2> QED
    BY <1>b, <1>c, <2>1, ReportNumbers DEF ReportsLeft
<1>1. CASE UNCHANGED <<reports, candidates, claimed, written>>
  BY <1>1, <1>c DEF ReportsLeft, Holders
<1>2. ASSUME Commit PROVE ReportsLeft'
  <2>1. PICK rs \in SUBSET executed :
             /\ Complete(rs)
             /\ UNCHANGED <<inbox, faults, hand, at, candidates, claimed, written>>
    BY <1>2, CommitOfRuns
  <2>2. \A r \in Queued : reports'[r] = reports[r]
    BY <1>0, <2>1, CompletesRuns
  <2> QED
    BY <1>c, <2>1, <2>2 DEF ReportsLeft, Holders
<1>3. ASSUME NEW w \in Reporters, Select(w) PROVE ReportsLeft'
  <2>1. PICK rs \in SUBSET Unreported : candidates' = [candidates EXCEPT ![w] = rs]
    BY <1>3 DEF Select, Firsts
  <2>2. UNCHANGED <<reports, claimed, written>>
    BY <1>3 DEF Select, tables
  <2>3. \A v \in Reporters : candidates'[v] = IF v = w THEN rs ELSE candidates[v]
    BY <2>1 DEF ReportTypeOK
  <2>4. ASSUME NEW r \in Queued
        PROVE  reports'[r] + Cardinality(Holders(r)') <= Cardinality(Reporters)
    <3>1. CASE r \in rs
      <4>1. reports'[r] = 0
        BY <2>2, <3>1 DEF Unreported
      <4> QED
        BY <4>1, <1>a, FewWorkers, ReportNumbers
    <3>2. CASE r \notin rs
      <4>1. Holders(r)' \subseteq Holders(r)
        BY <2>2, <2>3, <3>2 DEF Holders
      <4>2. /\ Cardinality(Holders(r)') <= Cardinality(Holders(r))
            /\ Cardinality(Holders(r)') \in Nat /\ Cardinality(Holders(r)) \in Nat
        BY <1>a, <4>1, FewWorkers
      <4> QED
        BY <1>b, <2>2, <4>2, ReportNumbers DEF ReportsLeft
    <3> QED
      BY <3>1, <3>2
  <2> QED
    BY <2>2, <2>4 DEF ReportsLeft
<1>4. ASSUME NEW w \in Reporters, Claim(w) PROVE ReportsLeft'
  <2>1. PICK r \in candidates[w] :
             /\ claimed' = [claimed EXCEPT ![w] = @ \cup {r}]
             /\ candidates' = [candidates EXCEPT ![w] = @ \ {r}]
    BY <1>4 DEF Claim, Firsts
  <2>2. UNCHANGED <<reports, written>>
    BY <1>4 DEF Claim, tables
  <2>3. \A v \in Reporters : /\ candidates'[v] \cup claimed'[v] = candidates[v] \cup claimed[v]
                             /\ claimed[v] \subseteq claimed'[v]
    BY <2>1 DEF ReportTypeOK
  <2> QED
    BY <1>c, <2>2, <2>3 DEF ReportsLeft, Holders
<1>5. ASSUME NEW w \in Reporters, Generate(w) PROVE ReportsLeft'
  <2>1. /\ \E bad \in SUBSET claimed[w] : written' = [written EXCEPT ![w] = claimed[w] \ bad]
        /\ UNCHANGED <<reports, candidates, claimed>>
    BY <1>5 DEF Generate, tables
  <2> QED
    BY <1>c, <2>1 DEF ReportsLeft, Holders, ReportTypeOK
<1>6. ASSUME NEW w \in Reporters, Rest(w)
      PROVE  /\ \A r \in Queued : Holders(r)' = Holders(r) \ {w}
             /\ \A v \in Reporters : written'[v] \subseteq claimed'[v]
  BY <1>6 DEF Rest, ReportTypeOK, Holders, ReportsLeft
<1>7. ASSUME NEW w \in Reporters, CommitReports(w) PROVE ReportsLeft'
  <2>1. Rest(w)
    BY <1>7 DEF CommitReports
  <2>2. ASSUME NEW r \in Queued
        PROVE  reports'[r] + Cardinality(Holders(r)') <= Cardinality(Reporters)
    <3>1. /\ Cardinality(Holders(r)') <= Cardinality(Holders(r))
          /\ Cardinality(Holders(r)') \in Nat /\ Cardinality(Holders(r)) \in Nat
      BY <1>6, <1>a, <2>1, FewWorkers
    <3>2. reports'[r] = IF r \in written[w] THEN reports[r] + 1 ELSE reports[r]
      BY <1>7, <1>0 DEF CommitReports
    <3>3. r \in written[w] => Cardinality(Holders(r)') + 1 = Cardinality(Holders(r))
      <4>1. r \in written[w] => w \in Holders(r)
        BY DEF ReportsLeft, Holders
      <4>2. Holders(r)' = Holders(r) \ {w}
        BY <1>6, <2>1
      <4> QED
        BY <1>a, <4>1, <4>2, FewWorkers
    <3> QED
      BY <1>b, <3>1, <3>2, <3>3, ReportNumbers DEF ReportsLeft
  <2> QED
    BY <1>6, <2>1, <2>2 DEF ReportsLeft
<1>8. ASSUME NEW w \in Reporters, Fails(w) PROVE ReportsLeft'
  <2>1. Rest(w) /\ reports' = reports
    BY <1>8 DEF Fails, tables
  <2> QED
    BY <1>6, <1>c, <2>1
<1> QED
  BY <1>1, <1>2, <1>3, <1>4, <1>5, <1>7, <1>8
     DEF ReportNext, Reporter, reportVars, tables, reporting,
         Execute, Rollback, OtherEvent, Consume, Ack,
         RoundFails, Kill

\* Every action keeps the reason a completed run has no report.
LEMMA ReasonKept ==
    ASSUME ReportInv, [ReportNext]_reportVars
    PROVE  UnreportedHasReason'
<1> USE DEF ReportInv
<1>0. /\ inbox \in Nat
      /\ at \in [Reporters -> {"boot", "wait", "select", "claim", "commit", "ack"}]
      /\ hand \in [Reporters -> Nat]
      /\ reports \in [Runs -> Nat]
      /\ candidates \in [Reporters -> SUBSET Done]
      /\ claimed \in [Reporters -> SUBSET Done]
  BY DEF ReportTypeOK
<1>a. ASSUME Wakes' PROVE UnreportedHasReason'
  BY <1>a DEF UnreportedHasReason
<1>b. ASSUME UNCHANGED <<completed, reports>> PROVE Unreported' = Unreported
  BY <1>b DEF Unreported, Done
<1>1. CASE UNCHANGED reportVars
  BY <1>1, <1>b DEF UnreportedHasReason, Wakes, reportVars, tables,
                    reporting
<1>2. ASSUME NEW r \in Runs, Execute(r) PROVE UnreportedHasReason'
  BY <1>0, <1>2, <1>a DEF Execute, Wakes
<1>3. ASSUME Commit PROVE UnreportedHasReason'
  <2>1. PICK rs \in SUBSET executed :
             /\ Complete(rs)
             /\ executed' = executed \ rs
             /\ excused' = IF Wakes THEN excused ELSE excused \cup (rs \cap Queued)
             /\ UNCHANGED <<inbox, faults, hand, at, candidates, claimed, written>>
    BY <1>3, CommitOfRuns
  <2>2. Wakes' = Wakes
    BY <2>1 DEF Wakes
  <2>3. \A r \in Unreported' : r \in Unreported \/ r \in rs \cap Queued
    <3>1. Done' = Done \cup rs
      BY <2>1, CompletesRuns
    <3>2. \A r \in rs \cap Inline : reports'[r] = 1
      BY <2>1, CompletesRuns
    <3>3. \A r \in Runs \ (rs \cap Inline) : reports'[r] = reports[r]
      BY <2>1, CompletesRuns
    <3>4. Done \subseteq Runs /\ rs \subseteq Queued \cup Inline
      BY ReportNumbers DEF Done, ReportTypeOK
    <3> QED
      BY <3>1, <3>2, <3>3, <3>4 DEF Unreported
  <2> QED
    BY <2>1, <2>2, <2>3 DEF UnreportedHasReason
<1>4. ASSUME Rollback PROVE UnreportedHasReason'
  BY <1>4, <1>b DEF UnreportedHasReason, Wakes, Rollback, tables,
                    reporting
<1>5. ASSUME OtherEvent PROVE UnreportedHasReason'
  BY <1>5, <1>a DEF OtherEvent, Wakes
<1>6. ASSUME NEW w \in Reporters, Consume(w) PROVE UnreportedHasReason'
  BY <1>0, <1>6, <1>a DEF Consume, Goto, Wakes
<1>7. ASSUME NEW w \in Reporters, Select(w) PROVE UnreportedHasReason'
  <2>1. PICK rs \in SUBSET Unreported :
             /\ candidates' = [candidates EXCEPT ![w] = rs]
             /\ excused' = excused \cup (Unreported \ rs)
    BY <1>7 DEF Select, Firsts
  <2>2. Unreported' = Unreported
    BY <1>7, <1>b DEF Select, tables
  <2>3. candidates'[w] = rs
    BY <1>0, <2>1
  <2> QED
    BY <2>1, <2>2, <2>3 DEF UnreportedHasReason
<1>8. ASSUME NEW w \in Reporters, Claim(w) PROVE UnreportedHasReason'
  <2>1. PICK r \in candidates[w] :
             /\ claimed' = [claimed EXCEPT ![w] = @ \cup {r}]
             /\ candidates' = [candidates EXCEPT ![w] = @ \ {r}]
    BY <1>8 DEF Claim, Firsts
  <2>2. \A v \in Reporters : candidates'[v] \cup claimed'[v] = candidates[v] \cup claimed[v]
    BY <1>0, <2>1
  <2> QED
    BY <1>8, <1>b, <2>2 DEF UnreportedHasReason, Claim, Wakes, tables
<1>9. ASSUME NEW w \in Reporters, Generate(w) PROVE UnreportedHasReason'
  <2>1. Wakes => Wakes'
    BY <1>0, <1>9 DEF Generate, Goto, Wakes
  <2> QED
    BY <1>9, <1>b, <2>1 DEF UnreportedHasReason, Generate, tables
<1>10. ASSUME NEW w \in Reporters, CommitReports(w) PROVE UnreportedHasReason'
  <2>1. Wakes => Wakes'
    BY <1>0, <1>10 DEF CommitReports, Goto, Wakes
  <2>2. \A r \in Unreported' : r \in Unreported \ written[w]
    BY <1>0, <1>10 DEF CommitReports, Unreported, Done
  <2>3. \A v \in Reporters \ {w} : UNCHANGED <<candidates[v], claimed[v]>>
    BY <1>0, <1>10 DEF CommitReports, Rest
  <2>4. excused' = excused \cup candidates[w] \cup (claimed[w] \ written[w])
    BY <1>10 DEF CommitReports
  <2> QED
    BY <2>1, <2>2, <2>3, <2>4 DEF UnreportedHasReason
<1>11. ASSUME NEW w \in Reporters, Ack(w) PROVE UnreportedHasReason'
  <2>1. Wakes => Wakes'
    BY <1>0, <1>11 DEF Ack, Goto, Wakes
  <2> QED
    BY <1>11, <1>b, <2>1 DEF UnreportedHasReason, Ack, tables
<1>12. ASSUME NEW w \in Reporters, RoundFails(w) PROVE UnreportedHasReason'
  <2>1. Wakes'
    BY <1>0, <1>12 DEF RoundFails, Fails, Goto, Wakes
  <2> QED
    BY <2>1, <1>a
<1>13. ASSUME NEW w \in Reporters, Kill(w) PROVE UnreportedHasReason'
  BY <1>0, <1>13, <1>a DEF Kill, Goto, Wakes
<1> QED
  BY <1>1, <1>2, <1>3, <1>4, <1>5, <1>6, <1>7, <1>8, <1>9, <1>10, <1>11, <1>12, <1>13
     DEF ReportNext, Reporter

\* The invariant holds in every reachable state.
LEMMA ReportInvariance == ReportSpec => []ReportInv
<1>1. ReportInv /\ [ReportNext]_reportVars => ReportInv'
  BY ReportTypes, ReportsLeftKept, ReasonKept DEF ReportInv
<1> QED
  BY <1>1, InitReport, PTL DEF ReportSpec

-----------------------------------------------------------------------------
(* What readers of reports rely on.                                        *)

\* Every column, local variable and history has its type, and the completed runs
\* are finitely many.
THEOREM ReportTypesCorrect == ReportSpec => []ReportTypeOK
<1>1. ReportInv => ReportTypeOK
  BY DEF ReportInv
<1> QED
  BY <1>1, ReportInvariance, PTL

\* A run gets at most one report from each report worker: a worker that looks for
\* runs without a report after it wrote one finds it, so only those that had read
\* the run as a candidate before can write another.
THEOREM OneReport == ReportSpec => []OneReportPerWorker
<1>1. ReportInv => OneReportPerWorker
  <2> SUFFICES ASSUME ReportInv, NEW r \in Queued PROVE reports[r] <= Cardinality(Reporters)
    BY DEF OneReportPerWorker
  <2>1. reports[r] \in Nat /\ Cardinality(Holders(r)) \in Nat
    BY ReportNumbers, FewWorkers DEF ReportInv, ReportTypeOK, Holders
  <2> QED
    BY <2>1, ReportNumbers DEF ReportInv, ReportsLeft
<1> QED
  BY <1>1, ReportInvariance, PTL

\* A completed run without a report is in the hands of a worker, there is an event
\* or a start that will make one look, or it waits for one of the known reasons.
THEOREM ReasonKnown == ReportSpec => []UnreportedHasReason
<1>1. ReportInv => UnreportedHasReason
  BY DEF ReportInv
<1> QED
  BY <1>1, ReportInvariance, PTL
================================================================================
