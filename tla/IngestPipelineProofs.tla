------------------------- MODULE IngestPipelineProofs -------------------------
(***************************************************************************)
(* Proofs about IngestPipeline, for any runs, items, requests and limits.  *)
(***************************************************************************)
EXTENDS IngestPipeline, FiniteSetTheorems, WellFoundedInduction, TLAPS

\* The items of run r in the rows D.
Own(D, r) == {i \in Items : D.owner[i] = r}

\* The runs that exist are in the order of creation.
Listed(D) == \A r \in Runs : D.status[r] # None => \E k \in DOMAIN D.order : D.order[k] = r

\* Finitely many items have a row, and the others are untouched.
Fresh(D) ==
    /\ IsFiniteSet({i \in Items : D.owner[i] # None})
    /\ \A i \in Items : D.owner[i] = None => D.item[i] = "PENDING" /\ D.known[i] = "none"

\* Half a materialization is a failed try, and is taken for a whole by a later one.
Tried(D) ==
    \A i \in Items :
        /\ D.known[i] = "partial" => D.tries[i] > 0
        /\ D.item[i] = "COMPLETED" /\ D.known[i] # "full" => D.tries[i] > 1

\* Runs that are closed early have counted their own items as duplicates.
Early(D) ==
    \A r \in Runs \ InlineRuns :
        D.status[r] = "COMPLETED" /\ (\E i \in Own(D, r) : D.item[i] = "PENDING")
            => Cardinality(Own(D, r)) + D.duplicates[r] > Len(D.asked[r])

\* Rows that the transactions of this program build.
Sound(D) == Listed(D) /\ Fresh(D) /\ Tried(D) /\ Early(D)

\* What no transaction takes back from the rows C.
Ahead(C, D) ==
    /\ D.asked = C.asked
    /\ \A i \in Items :
          /\ C.owner[i] # None => D.owner[i] = C.owner[i]
          /\ C.item[i] # "PENDING" => D.item[i] = C.item[i]
          /\ C.known[i] # "none" => D.known[i] = C.known[i]

Staging(r) == api[r].phase = "staging"

\* One transaction is open when, and only when, one process is in it.
OneWriter ==
    /\ ing.phase = "staging" => tx # None /\ kno.phase # "working"
    /\ kno.phase = "working" => tx # None
    /\ \A r \in Runs : Staging(r) =>
          tx # None /\ ing.phase # "staging" /\ kno.phase # "working" /\ r \in InlineRuns
    /\ \A q, r \in Runs : Staging(q) /\ Staging(r) => q = r

Images == Sound(db) /\ (tx # None => Sound(tx) /\ Ahead(db, tx))

\* The claimed runs are open, before and after a rollback, and each item of the
\* run under way was inserted or counted as a duplicate.
InStaging ==
    ing.phase = "staging" =>
        /\ \A r \in ing.queue : {db.status[r], tx.status[r]} \subseteq {"PENDING", "PROCESSING"}
        /\ ing.queue # {} => ing.staged + ing.duplicates >= ing.pos - 1

\* The knowledge worker has written no run yet, and no item that is left but its
\* number of tries.
InWorking ==
    kno.phase = "working" =>
        /\ tx.status = db.status /\ tx.owner = db.owner /\ tx.duplicates = db.duplicates
        /\ \A r \in kno.touched : db.status[r] = "PROCESSING"
        /\ \A i \in kno.left :
              /\ db.owner[i] # None /\ db.item[i] = "PENDING" /\ tx.item[i] = "PENDING"
              /\ tx.known[i] = db.known[i] /\ tx.tries[i] = db.tries[i] + 1

\* The ingest worker announces items only; the extractions that the knowledge
\* worker has to announce are in the rows it builds, and then in the database.
Outboxes ==
    /\ \A k \in DOMAIN ing.out : ing.out[k][1] = "raw.ingested"
    /\ kno.phase \in {"working", "publishing"} => \A k \in DOMAIN kno.out :
          (IF kno.phase = "working" THEN tx ELSE db).known[kno.out[k][2]] = "full"

\* The inductive invariant.
Inv == ProcessTypeOK /\ OneWriter /\ Images /\ InStaging /\ InWorking /\ Outboxes

-----------------------------------------------------------------------------
(* Rows after each kind of update.                                         *)

\* A set of numbers has a least element, and Min is it.
LEMMA MinOfNumbers ==
    ASSUME NEW S \in SUBSET Nat, S # {}
    PROVE  Min(S) \in S /\ \A n \in S : Min(S) <= n
<1>1. \E m \in S : \A n \in S : ~ (<<n, m>> \in OpToRel(<, Nat))
  BY NatLessThanWellFounded, WFMin, Zenon
<1>2. PICK m \in S : \A n \in S : ~ (n < m)
  BY <1>1 DEF OpToRel
<1>3. \A n \in S : m <= n
  BY <1>2
<1> QED
  BY <1>3 DEF Min

\* The fields of rows.
LEMMA Fields ==
    ASSUME NEW D \in Databases
    PROVE  /\ D.order \in Seq(Runs) /\ D.asked \in Requests /\ D.status \in [Runs -> RunStates]
           /\ D.attempts \in [Runs -> Nat] /\ D.duplicates \in [Runs -> Nat]
           /\ D.owner \in [Items -> Runs \cup {None}]
           /\ D.item \in [Items -> {"PENDING", "COMPLETED", "FAILED"}]
           /\ D.tries \in [Items -> Nat] /\ D.known \in [Items -> {"none", "partial", "full"}]
BY DEF Databases

\* A run is created.
LEMMA CreateFields ==
    ASSUME NEW D \in Databases, NEW r \in Runs, NEW s \in RunStates
    PROVE  LET E == [D EXCEPT !.order = Append(@, r), !.status[r] = s] IN
           /\ E \in Databases
           /\ E.order = Append(D.order, r) /\ E.status = [D.status EXCEPT ![r] = s]
           /\ E.asked = D.asked /\ E.attempts = D.attempts /\ E.duplicates = D.duplicates /\ E.owner = D.owner
           /\ E.item = D.item /\ E.tries = D.tries /\ E.known = D.known
<1>1. D.order \in Seq(Runs) /\ Append(D.order, r) \in Seq(Runs)
  BY DEF Databases
<1>2. ASSUME NEW o \in Seq(Runs)
      PROVE  LET E == [D EXCEPT !.order = o, !.status[r] = s] IN
             /\ E \in Databases
             /\ E.order = o /\ E.status = [D.status EXCEPT ![r] = s]
             /\ E.asked = D.asked /\ E.attempts = D.attempts /\ E.duplicates = D.duplicates
             /\ E.owner = D.owner /\ E.item = D.item /\ E.tries = D.tries /\ E.known = D.known
  BY DEF Databases
<1> QED
  BY <1>1, <1>2

\* An item is inserted, materialized or not.
LEMMA OwnerFields ==
    ASSUME NEW D \in Databases, NEW r \in Runs, NEW i \in Items
    PROVE  LET E == [D EXCEPT !.owner[i] = r] IN
           /\ E \in Databases
           /\ E.owner = [D.owner EXCEPT ![i] = r]
           /\ E.order = D.order /\ E.asked = D.asked /\ E.status = D.status /\ E.attempts = D.attempts
           /\ E.duplicates = D.duplicates /\ E.item = D.item /\ E.tries = D.tries /\ E.known = D.known
BY DEF Databases

\* The status of runs.
LEMMA StatusFields ==
    ASSUME NEW D \in Databases, NEW f \in [Runs -> RunStates]
    PROVE  LET E == [D EXCEPT !.status = f] IN
           /\ E \in Databases /\ E.status = f
           /\ E.order = D.order /\ E.asked = D.asked /\ E.attempts = D.attempts /\ E.owner = D.owner
           /\ E.duplicates = D.duplicates /\ E.item = D.item /\ E.tries = D.tries /\ E.known = D.known
BY DEF Databases

\* The tries of items.
LEMMA TriesFields ==
    ASSUME NEW D \in Databases, NEW f \in [Items -> Nat]
    PROVE  LET E == [D EXCEPT !.tries = f] IN
           /\ E \in Databases /\ E.tries = f
           /\ E.order = D.order /\ E.asked = D.asked /\ E.status = D.status /\ E.attempts = D.attempts
           /\ E.owner = D.owner /\ E.duplicates = D.duplicates /\ E.item = D.item /\ E.known = D.known
BY DEF Databases

\* The length of what a run asks for, and the number of its items.
LEMMA Counts ==
    ASSUME NEW D \in Databases, Fresh(D), NEW r \in Runs
    PROVE  /\ D.asked[r] \in Seq(Items) /\ Len(D.asked[r]) \in Nat /\ D.duplicates[r] \in Nat
           /\ IsFiniteSet(Own(D, r)) /\ Cardinality(Own(D, r)) \in Nat
           /\ Own(D, r) # {} => Cardinality(Own(D, r)) > 0
<1>1. D.asked \in [Runs -> Seq(Items)]
  BY RequestAssumption, Fields
<1>2. IsFiniteSet(Own(D, r))
  <2>1. Own(D, r) \subseteq {i \in Items : D.owner[i] # None}
    BY NoneAssumption DEF Own
  <2> QED
    BY <2>1, FS_Subset DEF Fresh
<1>3. Cardinality(Own(D, r)) \in Nat /\ (Cardinality(Own(D, r)) = 0 <=> Own(D, r) = {})
  BY <1>2, FS_CardinalityType, FS_EmptySet
<1>4. D.asked[r] \in Seq(Items) /\ Len(D.asked[r]) \in Nat
  BY <1>1
<1> QED
  BY <1>2, <1>3, <1>4, Fields

\* A run is closed early only with as many duplicates as it asks for.
LEMMA StatusSound ==
    ASSUME NEW D \in Databases, NEW E \in Databases, Sound(D), Listed(E),
           E.owner = D.owner, E.item = D.item, E.tries = D.tries, E.known = D.known, E.asked = D.asked,
           \A r \in Runs \ InlineRuns : E.status[r] = "COMPLETED" =>
              \/ D.status[r] = "COMPLETED" /\ E.duplicates[r] = D.duplicates[r]
              \/ \A i \in Own(D, r) : D.item[i] # "PENDING"
              \/ E.duplicates[r] >= Len(D.asked[r])
    PROVE  Sound(E)
<1>1. Fresh(E) /\ Tried(E)
  BY DEF Sound, Fresh, Tried
<1>2. Early(E)
  <2> SUFFICES ASSUME NEW r \in Runs \ InlineRuns, E.status[r] = "COMPLETED",
                      NEW i \in Own(E, r), E.item[i] = "PENDING"
               PROVE  Cardinality(Own(E, r)) + E.duplicates[r] > Len(E.asked[r])
    BY DEF Early
  <2>1. Own(E, r) = Own(D, r)
    BY DEF Own
  <2>2. /\ Len(E.asked[r]) \in Nat /\ E.duplicates[r] \in Nat
        /\ Cardinality(Own(E, r)) \in Nat /\ Cardinality(Own(E, r)) > 0
    BY <1>1, Counts
  <2>3. CASE D.status[r] = "COMPLETED" /\ E.duplicates[r] = D.duplicates[r]
    BY <2>1, <2>3 DEF Sound, Early
  <2>4. CASE E.duplicates[r] >= Len(D.asked[r])
    BY <2>2, <2>4
  <2> QED
    BY <2>1, <2>3, <2>4
<1> QED
  BY <1>1, <1>2 DEF Sound

\* An item that had no row is inserted for a run that is not closed, or for an
\* inline one.
LEMMA InsertSound ==
    ASSUME NEW D \in Databases, NEW E \in Databases, Sound(D), Listed(E), NEW r \in Runs, NEW i \in Items,
           D.owner[i] = None, E.owner = [D.owner EXCEPT ![i] = r],
           \/ E.item = D.item /\ E.known = D.known
           \/ E.item = [D.item EXCEPT ![i] = "COMPLETED"] /\ E.known = [D.known EXCEPT ![i] = "full"],
           E.tries = D.tries, E.asked = D.asked, E.duplicates = D.duplicates,
           \A q \in Runs \ {r} : E.status[q] = D.status[q],
           r \in InlineRuns \/ E.status[r] # "COMPLETED"
    PROVE  Sound(E)
<1> USE Fields
<1>1. Fresh(E)
  <2> DEFINE S == {j \in Items : D.owner[j] # None}
             T == {j \in Items : E.owner[j] # None}
  <2>1. T \subseteq S \cup {i}
    OBVIOUS
  <2>2. IsFiniteSet(S \cup {i})
    BY FS_AddElement DEF Sound, Fresh
  <2>3. IsFiniteSet(T)
    BY <2>1, <2>2, FS_Subset
  <2>4. \A j \in Items : E.owner[j] = None => E.item[j] = "PENDING" /\ E.known[j] = "none"
    BY NoneAssumption DEF Sound, Fresh
  <2> QED
    BY <2>3, <2>4 DEF Fresh
<1>2. Tried(E)
  <2> SUFFICES ASSUME NEW j \in Items
               PROVE  /\ E.known[j] = "partial" => E.tries[j] > 0
                      /\ E.item[j] = "COMPLETED" /\ E.known[j] # "full" => E.tries[j] > 1
    BY DEF Tried
  <2>1. \/ E.item[j] = D.item[j] /\ E.known[j] = D.known[j]
        \/ E.item[j] = "COMPLETED" /\ E.known[j] = "full"
    OBVIOUS
  <2>2. /\ D.known[j] = "partial" => D.tries[j] > 0
        /\ D.item[j] = "COMPLETED" /\ D.known[j] # "full" => D.tries[j] > 1
    BY DEF Sound, Tried
  <2> QED
    BY <2>1, <2>2
<1>3. Early(E)
  <2> SUFFICES ASSUME NEW q \in Runs \ InlineRuns, E.status[q] = "COMPLETED",
                      NEW j \in Own(E, q), E.item[j] = "PENDING"
               PROVE  Cardinality(Own(E, q)) + E.duplicates[q] > Len(E.asked[q])
    BY DEF Early
  <2>1. q # r /\ D.status[q] = "COMPLETED"
    OBVIOUS
  <2>2. Own(E, q) = Own(D, q)
    BY <2>1, NoneAssumption DEF Own
  <2>3. D.item[j] = "PENDING"
    BY <2>2, NoneAssumption DEF Own
  <2> QED
    BY <2>1, <2>2, <2>3 DEF Sound, Early
<1> QED
  BY <1>1, <1>2, <1>3 DEF Sound

\* More tries.
LEMMA TriesSound ==
    ASSUME NEW D \in Databases, NEW E \in Databases, Sound(D), \A i \in Items : E.tries[i] >= D.tries[i],
           E.owner = D.owner, E.item = D.item, E.known = D.known, E.asked = D.asked, E.order = D.order,
           E.status = D.status, E.duplicates = D.duplicates
    PROVE  Sound(E)
<1>1. Tried(E)
  BY Fields DEF Sound, Tried
<1>2. Listed(E) /\ Fresh(E) /\ Early(E)
  BY DEF Sound, Listed, Fresh, Early, Own
<1> QED
  BY <1>1, <1>2 DEF Sound

\* The outcome of an item that was pending.
LEMMA OutcomeSound ==
    ASSUME NEW D \in Databases, NEW E \in Databases, Sound(D), NEW i \in Items,
           D.owner[i] # None, D.item[i] = "PENDING",
           \A j \in Items \ {i} : E.item[j] = D.item[j] /\ E.known[j] = D.known[j],
           E.known[i] = "partial" => D.tries[i] > 0,
           E.item[i] = "COMPLETED" /\ E.known[i] # "full" => D.tries[i] > 1,
           E.owner = D.owner, E.tries = D.tries, E.asked = D.asked, E.order = D.order,
           E.status = D.status, E.duplicates = D.duplicates
    PROVE  Sound(E)
<1>1. Tried(E)
  <2> SUFFICES ASSUME NEW j \in Items
               PROVE  /\ E.known[j] = "partial" => E.tries[j] > 0
                      /\ E.item[j] = "COMPLETED" /\ E.known[j] # "full" => E.tries[j] > 1
    BY DEF Tried
  <2>1. CASE j = i
    BY <2>1
  <2>2. CASE j # i
    BY <2>2 DEF Sound, Tried
  <2> QED
    BY <2>1, <2>2
<1>2. Listed(E)
  BY DEF Sound, Listed
<1>3. Fresh(E)
  <2>1. ASSUME NEW j \in Items, E.owner[j] = None
        PROVE  E.item[j] = "PENDING" /\ E.known[j] = "none"
    BY <2>1 DEF Sound, Fresh
  <2> QED
    BY <2>1 DEF Sound, Fresh
<1>4. Early(E)
  <2> SUFFICES ASSUME NEW r \in Runs \ InlineRuns, E.status[r] = "COMPLETED",
                      NEW j \in Own(E, r), E.item[j] = "PENDING"
               PROVE  Cardinality(Own(E, r)) + E.duplicates[r] > Len(E.asked[r])
    BY DEF Early
  <2>1. Own(E, r) = Own(D, r) /\ D.item[j] = "PENDING"
    BY Fields DEF Own
  <2> QED
    BY <2>1 DEF Sound, Early
<1> QED
  BY <1>1, <1>2, <1>3, <1>4 DEF Sound

\* Runs are created, claimed or closed.
LEMMA StatusAhead ==
    ASSUME NEW C \in Databases, NEW D \in Databases, NEW E \in Databases, Ahead(C, D),
           E.owner = D.owner, E.item = D.item, E.known = D.known, E.asked = D.asked
    PROVE  Ahead(C, E)
BY DEF Ahead

\* An item is inserted.
LEMMA InsertAhead ==
    ASSUME NEW C \in Databases, NEW D \in Databases, NEW E \in Databases, Fresh(C), Ahead(C, D),
           NEW r \in Runs, NEW i \in Items, D.owner[i] = None, E.owner = [D.owner EXCEPT ![i] = r],
           \/ E.item = D.item /\ E.known = D.known
           \/ E.item = [D.item EXCEPT ![i] = "COMPLETED"] /\ E.known = [D.known EXCEPT ![i] = "full"],
           E.asked = D.asked
    PROVE  Ahead(C, E)
<1>1. C.owner[i] = None /\ C.item[i] = "PENDING" /\ C.known[i] = "none"
  BY DEF Ahead, Fresh
<1>2. ASSUME NEW j \in Items
      PROVE  /\ C.owner[j] # None => E.owner[j] = C.owner[j]
             /\ C.item[j] # "PENDING" => E.item[j] = C.item[j]
             /\ C.known[j] # "none" => E.known[j] = C.known[j]
  BY <1>1, Fields DEF Ahead
<1> QED
  BY <1>2 DEF Ahead

\* An item that is pending in C gets an outcome.
LEMMA OutcomeAhead ==
    ASSUME NEW C \in Databases, NEW D \in Databases, NEW E \in Databases, Ahead(C, D),
           NEW i \in Items, C.item[i] = "PENDING", C.known[i] = "none" \/ E.known[i] = C.known[i],
           \A j \in Items \ {i} : E.item[j] = D.item[j] /\ E.known[j] = D.known[j],
           E.owner = D.owner, E.asked = D.asked
    PROVE  Ahead(C, E)
BY Fields DEF Ahead

\* The first of some runs that exist is one of them.
LEMMA FirstIn ==
    ASSUME db \in Databases, Listed(db), NEW S \in SUBSET Runs, S # {}, \A r \in S : db.status[r] # None
    PROVE  First(S) \in S
<1> DEFINE K == {k \in DOMAIN db.order : db.order[k] \in S}
<1>1. K \in SUBSET Nat
  BY Fields
<1>2. K # {}
  BY DEF Listed
<1>3. Min(K) \in K
  BY <1>1, <1>2, MinOfNumbers
<1> QED
  BY <1>3 DEF First

-----------------------------------------------------------------------------
(* What a step of somebody else leaves alone.                              *)

LEMMA StagingFrame ==
    ASSUME InStaging, UNCHANGED ing, ing.phase = "staging" => UNCHANGED <<db, tx>>
    PROVE  InStaging'
BY DEF InStaging

LEMMA WorkingFrame ==
    ASSUME InWorking, UNCHANGED kno, kno.phase = "working" => UNCHANGED <<db, tx>>
    PROVE  InWorking'
BY DEF InWorking

LEMMA OutboxFrame ==
    ASSUME ProcessTypeOK, Outboxes, UNCHANGED <<ing, kno>>, kno.phase = "working" => UNCHANGED tx,
           kno.phase = "publishing" => Ahead(db, db')
    PROVE  Outboxes'
<1>1. \A k \in DOMAIN kno.out : kno.out[k][2] \in Items
  <2>1. kno.out \in Seq(Topics)
    BY DEF ProcessTypeOK
  <2>2. \A k \in DOMAIN kno.out : kno.out[k] \in Topics
    BY <2>1
  <2> QED
    BY <2>2 DEF Topics
<1>2. ASSUME kno.phase \in {"working", "publishing"}, NEW k \in DOMAIN kno.out
      PROVE  (IF kno.phase = "working" THEN tx' ELSE db').known[kno.out[k][2]] = "full"
  BY <1>1, <1>2 DEF Outboxes, Ahead
<1> QED
  BY <1>2 DEF Outboxes

ApiRecords == [phase : {"new", "staging", "publishing", "answered", "failed"},
               pos : Nat \ {0}, out : Seq(Topics)]

\* The request of run r goes on.
LEMMA ApiGoesOn ==
    ASSUME ProcessTypeOK, NEW r \in Runs, NEW x \in ApiRecords, api' = [api EXCEPT ![r] = x]
    PROVE  /\ api' \in [Runs -> ApiRecords]
           /\ api'[r].phase = x.phase
           /\ \A q \in Runs : q # r => api'[q].phase = api[q].phase
BY DEF ProcessTypeOK, ApiRecords

LEMMA ApiNext ==
    ASSUME NEW y \in ApiRecords, NEW o \in Seq(Topics)
    PROVE  /\ [y EXCEPT !.pos = @ + 1, !.out = o] \in ApiRecords
           /\ [y EXCEPT !.pos = @ + 1, !.out = o].phase = y.phase
<1>1. ASSUME NEW n \in Nat \ {0}
      PROVE  [y EXCEPT !.pos = n, !.out = o] \in ApiRecords /\ [y EXCEPT !.pos = n, !.out = o].phase = y.phase
  BY DEF ApiRecords
<1>2. y.pos + 1 \in Nat \ {0}
  BY DEF ApiRecords
<1> QED
  BY <1>1, <1>2

\* The next item of an inline request, and the rows it is read with.
LEMMA InlineItemIn ==
    ASSUME Inv, NEW r \in Runs, InlineItemsLeft(r)
    PROVE  /\ InlineItem(r) \in Items /\ Staging(r) /\ tx \in Databases /\ db \in Databases
           /\ Sound(db) /\ Sound(tx) /\ Ahead(db, tx)
           /\ api[r] \in ApiRecords
           /\ ing.phase # "staging" /\ kno.phase # "working" /\ r \in InlineRuns
<1>1. db \in Databases /\ api[r] \in ApiRecords
  BY DEF Inv, ProcessTypeOK, ApiRecords
<1>2. Request[r] \in Seq(Items)
  BY <1>1, Fields, RequestAssumption DEF Request
<1>3. api[r].pos \in 1..Len(Request[r])
  BY <1>1, <1>2 DEF ApiRecords, InlineItemsLeft
<1>4. InlineItem(r) \in Items
  BY <1>2, <1>3 DEF InlineItem
<1>5. Staging(r) /\ tx # None /\ ing.phase # "staging" /\ kno.phase # "working" /\ r \in InlineRuns
  BY DEF InlineItemsLeft, Staging, Inv, OneWriter
<1> QED
  BY <1>1, <1>4, <1>5 DEF Inv, ProcessTypeOK, Images

-----------------------------------------------------------------------------
(* Inline requests keep Inv.                                               *)

\* The request of run r goes on within its transaction.
LEMMA InlineGoesOn ==
    ASSUME Inv, NEW r \in Runs, Staging(r), NEW x \in ApiRecords, x.phase = "staging",
           api' = [api EXCEPT ![r] = x], UNCHANGED <<db, ing, kno, published, crashes>>,
           tx' \in Databases, Sound(tx'), Ahead(db, tx')
    PROVE  Inv'
<1>1. ProcessTypeOK'
  BY ApiGoesOn DEF Inv, ProcessTypeOK, ApiRecords
<1>2. \A q \in Runs : Staging(q)' <=> Staging(q)
  BY ApiGoesOn DEF Inv, Staging
<1>3. tx' # None /\ tx # None /\ ing.phase # "staging" /\ kno.phase # "working"
  BY NoneAssumption DEF Inv, OneWriter
<1>4. OneWriter'
  BY <1>2, <1>3 DEF Inv, OneWriter
<1>5. Images'
  BY DEF Inv, Images
<1>6. Ahead(db, db')
  BY DEF Ahead
<1> QED
  BY <1>1, <1>3, <1>4, <1>5, <1>6, StagingFrame, WorkingFrame, OutboxFrame DEF Inv

\* The transaction of an inline request ends.
LEMMA InlineEnds ==
    ASSUME Inv, NEW r \in Runs, Staging(r), NEW x \in ApiRecords, x.phase # "staging",
           api' = [api EXCEPT ![r] = x], UNCHANGED <<ing, kno, published, crashes>>,
           tx' = None, db' \in Databases, Sound(db'), Ahead(db, db')
    PROVE  Inv'
<1>1. ProcessTypeOK'
  BY ApiGoesOn DEF Inv, ProcessTypeOK, ApiRecords
<1>2. \A q \in Runs : ~ Staging(q)'
  BY ApiGoesOn DEF Inv, OneWriter, Staging
<1>3. ing.phase # "staging" /\ kno.phase # "working"
  BY DEF Inv, OneWriter
<1>4. OneWriter'
  BY <1>2, <1>3 DEF Inv, OneWriter
<1>5. Images'
  BY DEF Images
<1> QED
  BY <1>1, <1>3, <1>4, <1>5, StagingFrame, WorkingFrame, OutboxFrame DEF Inv

LEMMA InlineNewItemKeepsInv ==
    ASSUME Inv, NEW r \in Runs, InlineNewItem(r)
    PROVE  Inv'
<1> DEFINE i == InlineItem(r)
<1>1. /\ i \in Items /\ Staging(r) /\ tx \in Databases /\ db \in Databases
      /\ Sound(db) /\ Sound(tx) /\ Ahead(db, tx) /\ api[r] \in ApiRecords /\ r \in InlineRuns
      /\ Fresh(db) /\ Listed(tx)
  BY InlineItemIn DEF InlineNewItem, Sound
<1>2. Raw(i) \in Topics /\ Knowledge(i) \in Topics
  BY <1>1 DEF Raw, Knowledge, Topics
<1>3. tx.owner[i] = None /\ UNCHANGED <<db, ing, kno, published, crashes>>
  BY DEF InlineNewItem
<1>4. CASE /\ tx' = [tx EXCEPT !.owner[i] = r, !.item[i] = "COMPLETED", !.known[i] = "full"]
           /\ api' = [api EXCEPT ![r].pos = @ + 1, ![r].out = @ \o <<Raw(i), Knowledge(i)>>]
  <2> DEFINE o == api[r].out \o <<Raw(i), Knowledge(i)>>
             x == [api[r] EXCEPT !.pos = @ + 1, !.out = o]
  <2>1. x \in ApiRecords /\ x.phase = "staging"
    <3>1. api[r].out \in Seq(Topics)
      BY <1>1 DEF ApiRecords
    <3>2. o \in Seq(Topics)
      BY <1>2, <3>1
    <3> HIDE DEF o
    <3> QED
      BY <1>1, <3>2, ApiNext DEF Staging
  <2>2. api' = [api EXCEPT ![r] = x]
    BY <1>4, <1>1 DEF Inv, ProcessTypeOK
  <2>3. /\ tx' \in Databases
        /\ tx'.owner = [tx.owner EXCEPT ![i] = r] /\ tx'.item = [tx.item EXCEPT ![i] = "COMPLETED"]
        /\ tx'.known = [tx.known EXCEPT ![i] = "full"]
        /\ tx'.order = tx.order /\ tx'.asked = tx.asked /\ tx'.status = tx.status
        /\ tx'.duplicates = tx.duplicates /\ tx'.tries = tx.tries
    <3>1. tx' = [tx EXCEPT !.owner[i] = r, !.item[i] = "COMPLETED", !.known[i] = "full"]
      BY <1>4
    <3> HIDE DEF i
    <3> QED
      BY <1>1, <3>1 DEF Databases
  <2>4. Listed(tx')
    BY <1>1, <2>3 DEF Listed
  <2>5. Sound(tx')
    BY <1>1, <1>3, <2>3, <2>4, InsertSound
  <2>6. Ahead(db, tx')
    BY <1>1, <1>3, <2>3, InsertAhead
  <2> HIDE DEF x
  <2> QED
    BY <1>1, <1>3, <2>1, <2>2, <2>3, <2>5, <2>6, InlineGoesOn
<1>5. CASE /\ tx' = [tx EXCEPT !.owner[i] = r]
           /\ api' = [api EXCEPT ![r].pos = @ + 1, ![r].out = Append(@, Raw(i))]
  <2> DEFINE o == Append(api[r].out, Raw(i))
             x == [api[r] EXCEPT !.pos = @ + 1, !.out = o]
  <2>1. x \in ApiRecords /\ x.phase = "staging"
    <3>1. api[r].out \in Seq(Topics)
      BY <1>1 DEF ApiRecords
    <3>2. o \in Seq(Topics)
      BY <1>2, <3>1
    <3> HIDE DEF o
    <3> QED
      BY <1>1, <3>2, ApiNext DEF Staging
  <2>2. api' = [api EXCEPT ![r] = x]
    BY <1>5, <1>1 DEF Inv, ProcessTypeOK
  <2>3. /\ tx' \in Databases
        /\ tx'.owner = [tx.owner EXCEPT ![i] = r] /\ tx'.item = tx.item /\ tx'.known = tx.known
        /\ tx'.order = tx.order /\ tx'.asked = tx.asked /\ tx'.status = tx.status
        /\ tx'.duplicates = tx.duplicates /\ tx'.tries = tx.tries
    BY <1>1, <1>5, OwnerFields
  <2>4. Listed(tx')
    BY <1>1, <2>3 DEF Listed
  <2>5. Sound(tx')
    BY <1>1, <1>3, <2>3, <2>4, InsertSound
  <2>6. Ahead(db, tx')
    BY <1>1, <1>3, <2>3, InsertAhead
  <2> HIDE DEF x
  <2> QED
    BY <1>1, <1>3, <2>1, <2>2, <2>3, <2>5, <2>6, InlineGoesOn
<1> QED
  BY <1>4, <1>5 DEF InlineNewItem

LEMMA InlineDuplicateKeepsInv ==
    ASSUME Inv, NEW r \in Runs, InlineDuplicate(r)
    PROVE  Inv'
<1> DEFINE x == [api[r] EXCEPT !.pos = @ + 1]
<1>1. Staging(r) /\ db \in Databases /\ Sound(db) /\ api[r] \in ApiRecords
  BY InlineItemIn DEF InlineDuplicate
<1>2. x \in ApiRecords /\ x.phase = "staging"
  BY <1>1 DEF ApiRecords, Staging
<1>3. api' = [api EXCEPT ![r] = x] /\ tx' = db /\ UNCHANGED <<db, ing, kno, published, crashes>>
  BY DEF Inv, ProcessTypeOK, InlineDuplicate
<1>4. Ahead(db, tx')
  BY <1>3 DEF Ahead
<1> HIDE DEF x
<1> QED
  BY <1>1, <1>2, <1>3, <1>4, InlineGoesOn

LEMMA InlineRaisesKeepsInv ==
    ASSUME Inv, NEW r \in Runs, InlineRaises(r)
    PROVE  Inv'
<1> DEFINE x == [NewRequest EXCEPT !.phase = "failed"]
<1>1. Staging(r) /\ db \in Databases /\ Sound(db)
  BY InlineItemIn DEF InlineRaises
<1>2. x \in ApiRecords /\ x.phase # "staging"
  <2>1. 1 \in Nat \ {0} /\ <<>> \in Seq(Topics)
    OBVIOUS
  <2> QED
    BY <2>1 DEF ApiRecords, NewRequest
<1>3. api' = [api EXCEPT ![r] = x] /\ tx' = None /\ UNCHANGED <<db, ing, kno, published, crashes>>
  BY DEF InlineRaises
<1>4. Ahead(db, db')
  BY <1>3 DEF Ahead
<1> HIDE DEF x
<1> QED
  BY <1>1, <1>2, <1>3, <1>4, InlineEnds

LEMMA CommitInlineKeepsInv ==
    ASSUME Inv, NEW r \in Runs, CommitInline(r)
    PROVE  Inv' /\ Ahead(db, db')
<1> DEFINE x == [api[r] EXCEPT !.phase = "publishing"]
<1>1. Staging(r) /\ tx # None /\ r \in InlineRuns
  BY DEF CommitInline, Staging, Inv, OneWriter
<1>2. db \in Databases /\ tx \in Databases /\ Sound(tx) /\ Ahead(db, tx) /\ api[r] \in ApiRecords
  BY <1>1 DEF Inv, ProcessTypeOK, Images, ApiRecords
<1>3. x \in ApiRecords /\ x.phase # "staging"
  BY <1>2 DEF ApiRecords
<1>4. api' = [api EXCEPT ![r] = x] /\ tx' = None /\ UNCHANGED <<ing, kno, published, crashes>>
  BY DEF CommitInline, Inv, ProcessTypeOK
<1>5. db' \in Databases /\ Sound(db') /\ Ahead(db, db')
  <2>1. CASE tx.status[r] = None
    BY <1>2, <2>1 DEF CommitInline
  <2>2. CASE tx.status[r] # None
    <3> DEFINE f == [tx.status EXCEPT ![r] = "COMPLETED"]
    <3>1. db' = [tx EXCEPT !.status = f]
      BY <2>2 DEF CommitInline
    <3>2. f \in [Runs -> RunStates]
      BY <1>2, Fields DEF RunStates
    <3>3. /\ db' \in Databases /\ db'.status = f
          /\ db'.order = tx.order /\ db'.asked = tx.asked /\ db'.owner = tx.owner
          /\ db'.duplicates = tx.duplicates /\ db'.item = tx.item /\ db'.tries = tx.tries
          /\ db'.known = tx.known
      BY <1>2, <3>1, <3>2, StatusFields
    <3>4. Listed(db')
      BY <1>2, <2>2, <3>3, Fields DEF Sound, Listed
    <3>5. \A q \in Runs \ InlineRuns : db'.status[q] = tx.status[q]
      BY <1>1, <1>2, <3>3, Fields
    <3>6. Sound(db')
      BY <1>2, <3>3, <3>4, <3>5, StatusSound
    <3> QED
      BY <1>2, <3>3, <3>6, StatusAhead
  <2> QED
    BY <2>1, <2>2
<1> HIDE DEF x
<1> QED
  BY <1>1, <1>3, <1>4, <1>5, InlineEnds

\* A run is created.
LEMMA CreateSound ==
    ASSUME NEW D \in Databases, Sound(D), NEW r \in Runs, NEW s \in {"PENDING", "PROCESSING"},
           NEW E \in Databases,
           E.order = Append(D.order, r), E.status = [D.status EXCEPT ![r] = s],
           E.asked = D.asked, E.duplicates = D.duplicates, E.owner = D.owner,
           E.item = D.item, E.tries = D.tries, E.known = D.known
    PROVE  Sound(E) /\ Ahead(D, E)
<1>1. Listed(E)
  <2> SUFFICES ASSUME NEW q \in Runs, E.status[q] # None
               PROVE  \E k \in DOMAIN E.order : E.order[k] = q
    BY DEF Listed
  <2>1. D.order \in Seq(Runs) /\ D.status \in [Runs -> RunStates]
    BY Fields
  <2>2. CASE q = r
    <3>1. Len(D.order) + 1 \in DOMAIN E.order /\ E.order[Len(D.order) + 1] = r
      BY <2>1
    <3> QED
      BY <2>2, <3>1
  <2>3. CASE q # r
    <3>1. D.status[q] # None
      BY <2>1, <2>3
    <3>2. PICK k \in DOMAIN D.order : D.order[k] = q
      BY <3>1 DEF Sound, Listed
    <3>3. k \in DOMAIN E.order /\ E.order[k] = q
      BY <2>1, <3>2
    <3> QED
      BY <3>3
  <2> QED
    BY <2>2, <2>3
<1>2. \A q \in Runs : E.status[q] = "COMPLETED" => D.status[q] = "COMPLETED" /\ E.duplicates[q] = D.duplicates[q]
  <2>1. D.status \in [Runs -> RunStates]
    BY Fields
  <2>2. \A q \in Runs : E.status[q] = IF q = r THEN s ELSE D.status[q]
    BY <2>1
  <2>3. s # "COMPLETED"
    OBVIOUS
  <2> QED
    BY <2>2, <2>3
<1>3. Sound(E)
  BY <1>1, <1>2, StatusSound
<1>4. Ahead(D, D)
  BY DEF Ahead
<1> QED
  BY <1>3, <1>4, StatusAhead

LEMMA CreateQueuedKeepsInv ==
    ASSUME Inv, NEW r \in Runs, CreateQueued(r)
    PROVE  Inv' /\ Ahead(db, db')
<1> DEFINE x == [api[r] EXCEPT !.phase = "answered"]
<1>1. /\ db \in Databases /\ Sound(db) /\ tx = None /\ api[r] \in ApiRecords
      /\ UNCHANGED <<tx, ing, kno, published, crashes>>
  BY DEF CreateQueued, Inv, ProcessTypeOK, Images, ApiRecords
<1>2. db' \in Databases /\ Sound(db') /\ Ahead(db, db')
  <2>1. "PENDING" \in RunStates
    BY DEF RunStates
  <2>2. db' = [db EXCEPT !.order = Append(@, r), !.status[r] = "PENDING"]
    BY DEF CreateQueued
  <2>3. /\ db' \in Databases
        /\ db'.order = Append(db.order, r) /\ db'.status = [db.status EXCEPT ![r] = "PENDING"]
        /\ db'.asked = db.asked /\ db'.attempts = db.attempts /\ db'.duplicates = db.duplicates
        /\ db'.owner = db.owner /\ db'.item = db.item /\ db'.tries = db.tries /\ db'.known = db.known
    BY <1>1, <2>1, <2>2, CreateFields, Zenon
  <2> QED
    BY <1>1, <2>3, CreateSound, NoneAssumption
<1>3. x \in ApiRecords /\ x.phase = "answered"
  BY <1>1 DEF ApiRecords
<1>4. api' = [api EXCEPT ![r] = x]
  BY DEF CreateQueued, Inv, ProcessTypeOK
<1> HIDE DEF x
<1>5. ProcessTypeOK'
  BY <1>1, <1>2, <1>3, <1>4, ApiGoesOn DEF Inv, ProcessTypeOK, ApiRecords
<1>6. \A q \in Runs : Staging(q)' => Staging(q)
  BY <1>3, <1>4, ApiGoesOn DEF Inv, Staging
<1>7. OneWriter' /\ ing.phase # "staging" /\ kno.phase # "working"
  BY <1>1, <1>6 DEF Inv, OneWriter
<1>8. Images'
  BY <1>1, <1>2 DEF Images
<1> QED
  BY <1>1, <1>2, <1>5, <1>7, <1>8, StagingFrame, WorkingFrame, OutboxFrame DEF Inv

LEMMA BeginInlineKeepsInv ==
    ASSUME Inv, NEW r \in Runs, BeginInline(r)
    PROVE  Inv'
<1> DEFINE x == [api[r] EXCEPT !.phase = "staging"]
<1>1. /\ db \in Databases /\ Sound(db) /\ tx = None /\ api[r] \in ApiRecords /\ r \in InlineRuns
      /\ UNCHANGED <<db, ing, kno, published, crashes>>
  BY DEF BeginInline, Inv, ProcessTypeOK, Images, ApiRecords
<1>2. tx' \in Databases /\ Sound(tx') /\ Ahead(db, tx') /\ tx' # None
  <2>1. "PROCESSING" \in RunStates
    BY DEF RunStates
  <2>2. tx' = [db EXCEPT !.order = Append(@, r), !.status[r] = "PROCESSING"]
    BY DEF BeginInline
  <2>3. /\ tx' \in Databases
        /\ tx'.order = Append(db.order, r) /\ tx'.status = [db.status EXCEPT ![r] = "PROCESSING"]
        /\ tx'.asked = db.asked /\ tx'.attempts = db.attempts /\ tx'.duplicates = db.duplicates
        /\ tx'.owner = db.owner /\ tx'.item = db.item /\ tx'.tries = db.tries /\ tx'.known = db.known
    BY <1>1, <2>1, <2>2, CreateFields, Zenon
  <2> QED
    BY <1>1, <2>3, CreateSound, NoneAssumption
<1>3. x \in ApiRecords /\ x.phase = "staging"
  BY <1>1 DEF ApiRecords
<1>4. api' = [api EXCEPT ![r] = x]
  BY DEF BeginInline, Inv, ProcessTypeOK
<1> HIDE DEF x
<1>5. ProcessTypeOK'
  BY <1>1, <1>2, <1>3, <1>4, ApiGoesOn DEF Inv, ProcessTypeOK, ApiRecords
<1>6. \A q \in Runs : Staging(q)' => q = r
  BY <1>1, <1>3, <1>4, ApiGoesOn DEF Inv, OneWriter, Staging
<1>7. OneWriter' /\ ing.phase # "staging" /\ kno.phase # "working"
  BY <1>1, <1>2, <1>6 DEF Inv, OneWriter
<1>8. Images'
  BY <1>1, <1>2 DEF Images
<1>9. Ahead(db, db')
  BY <1>1 DEF Ahead
<1> QED
  BY <1>1, <1>5, <1>7, <1>8, <1>9, StagingFrame, WorkingFrame, OutboxFrame DEF Inv

LEMMA PublishInlineKeepsInv ==
    ASSUME Inv, NEW r \in Runs, PublishInline(r)
    PROVE  Inv'
<1>1. UNCHANGED <<db, tx, ing, kno, crashes>>
  BY DEF PublishInline
<1>2. PICK x \in ApiRecords : x.phase # "staging" /\ api' = [api EXCEPT ![r] = x]
  <2>1. 1 \in Nat \ {0} /\ <<>> \in Seq(Topics)
    OBVIOUS
  <2>2. \A s \in {"answered", "failed"} : /\ [NewRequest EXCEPT !.phase = s] \in ApiRecords
                                          /\ [NewRequest EXCEPT !.phase = s].phase # "staging"
    BY <2>1 DEF ApiRecords, NewRequest
  <2>3. \E s \in {"answered", "failed"} : api' = [api EXCEPT ![r] = [NewRequest EXCEPT !.phase = s]]
    BY DEF PublishInline
  <2> QED
    BY <2>2, <2>3
<1>3. published' \subseteq Topics
  <2>1. api[r].out \in Seq(Topics) /\ published \subseteq Topics
    BY DEF Inv, ProcessTypeOK
  <2>2. \A k \in 1..Len(api[r].out) : api[r].out[k] \in Topics
    BY <2>1
  <2>3. PICK n \in 0..Len(api[r].out) : published' = published \cup {api[r].out[k] : k \in 1..n}
    BY DEF PublishInline
  <2>4. \A k \in 1..n : k \in 1..Len(api[r].out)
    BY <2>1, <2>3
  <2> QED
    BY <2>1, <2>2, <2>3, <2>4
<1>4. ProcessTypeOK'
  BY <1>1, <1>2, <1>3, ApiGoesOn DEF Inv, ProcessTypeOK, ApiRecords
<1>5. \A q \in Runs : Staging(q)' => Staging(q)
  BY <1>2, ApiGoesOn DEF Inv, Staging
<1>6. OneWriter'
  BY <1>1, <1>5 DEF Inv, OneWriter
<1>7. Images' /\ Ahead(db, db')
  BY <1>1 DEF Inv, Images, Ahead
<1> QED
  BY <1>1, <1>4, <1>6, <1>7, StagingFrame, WorkingFrame, OutboxFrame DEF Inv

-----------------------------------------------------------------------------
(* The ingest worker keeps Inv.                                            *)

IngestRecords == [phase : {"idle", "staging", "publishing", "dead"}, queue : SUBSET Runs,
                  pos : Nat \ {0}, staged : Nat, duplicates : Nat, expired : BOOLEAN, out : Seq(Topics)]

\* What the worker finds while it stages.
LEMMA StagingIn ==
    ASSUME Inv, ing.phase = "staging"
    PROVE  /\ tx \in Databases /\ db \in Databases /\ ing \in IngestRecords
           /\ Sound(db) /\ Sound(tx) /\ Ahead(db, tx)
           /\ tx # None /\ kno.phase # "working" /\ \A r \in Runs : ~ Staging(r)
           /\ \A r \in ing.queue : /\ db.status[r] \in {"PENDING", "PROCESSING"}
                                  /\ tx.status[r] \in {"PENDING", "PROCESSING"}
           /\ \A S \in SUBSET ing.queue : S # {} => First(S) \in S
<1>1. tx # None /\ kno.phase # "working" /\ \A r \in Runs : ~ Staging(r)
  BY DEF Inv, OneWriter
<1>2. tx \in Databases /\ db \in Databases /\ ing \in IngestRecords
  BY <1>1 DEF Inv, ProcessTypeOK, IngestRecords
<1>3. Sound(db) /\ Sound(tx) /\ Ahead(db, tx)
  BY <1>1 DEF Inv, Images
<1>4. \A r \in ing.queue : /\ db.status[r] \in {"PENDING", "PROCESSING"}
                         /\ tx.status[r] \in {"PENDING", "PROCESSING"}
  BY DEF Inv, InStaging
<1>5. ASSUME NEW S \in SUBSET ing.queue, S # {}
      PROVE  First(S) \in S
  <2>1. S \in SUBSET Runs
    BY <1>2 DEF IngestRecords
  <2>2. \A r \in S : db.status[r] # None
    BY <1>4, NoneAssumption
  <2> QED
    BY <1>2, <1>3, <1>5, <2>1, <2>2, FirstIn DEF Sound
<1> QED
  BY <1>1, <1>2, <1>3, <1>4, <1>5

\* The run under way and its next item.
LEMMA StagedIn ==
    ASSUME Inv, ing.phase = "staging", ing.queue # {}
    PROVE  /\ StagedRun \in ing.queue /\ StagedRun \in Runs
           /\ Request[StagedRun] \in Seq(Items) /\ tx.asked[StagedRun] = Request[StagedRun]
           /\ ItemsLeft => NextItem \in Items
<1>1. StagedRun \in ing.queue /\ StagedRun \in Runs
  BY StagingIn DEF StagedRun, IngestRecords
<1>2. db.asked \in [Runs -> Seq(Items)] /\ tx.asked = db.asked
  BY StagingIn, Fields, RequestAssumption DEF Ahead
<1>3. Request[StagedRun] \in Seq(Items) /\ tx.asked[StagedRun] = Request[StagedRun]
  BY <1>1, <1>2 DEF Request
<1>4. ASSUME ItemsLeft PROVE NextItem \in Items
  <2>1. ing.pos \in 1..Len(Request[StagedRun])
    BY <1>3, <1>4, StagingIn DEF ItemsLeft, IngestRecords
  <2> QED
    BY <1>3, <2>1 DEF NextItem
<1> QED
  BY <1>1, <1>3, <1>4

\* The elements of a sequence that one is appended to, and of its tail.
LEMMA AppendedOut ==
    ASSUME NEW s \in Seq(Topics), NEW e \in Topics
    PROVE  /\ Append(s, e) \in Seq(Topics)
           /\ \A k \in DOMAIN Append(s, e) : Append(s, e)[k] = e \/ (k \in DOMAIN s /\ Append(s, e)[k] = s[k])
OBVIOUS

LEMMA TailOut ==
    ASSUME NEW s \in Seq(Topics), s # <<>>
    PROVE  /\ Tail(s) \in Seq(Topics) /\ Head(s) \in Topics /\ 1 \in DOMAIN s /\ Head(s) = s[1]
           /\ \A k \in DOMAIN Tail(s) : k + 1 \in DOMAIN s /\ Tail(s)[k] = s[k + 1]
OBVIOUS

\* The worker goes on staging.
LEMMA StagingGoesOn ==
    ASSUME Inv, ing.phase = "staging", UNCHANGED <<db, kno, api, published, crashes>>,
           tx' \in Databases, Sound(tx'), Ahead(db, tx'),
           ing' \in IngestRecords, ing'.phase = "staging", ing'.queue \subseteq ing.queue,
           ing'.out = ing.out \/ \E i \in Items : ing'.out = Append(ing.out, Raw(i)),
           \A r \in ing'.queue : tx'.status[r] \in {"PENDING", "PROCESSING"},
           ing'.queue # {} => ing'.staged + ing'.duplicates >= ing'.pos - 1
    PROVE  Inv'
<1>1. ProcessTypeOK'
  BY DEF Inv, ProcessTypeOK, IngestRecords
<1>2. OneWriter'
  BY StagingIn, NoneAssumption DEF OneWriter, Staging
<1>3. Images'
  BY DEF Inv, Images
<1>4. InStaging'
  BY StagingIn DEF InStaging
<1>5. InWorking'
  BY StagingIn DEF InWorking
<1>6. Outboxes'
  <2>1. \A k \in DOMAIN ing'.out : ing'.out[k][1] = "raw.ingested"
    <3>1. CASE ing'.out = ing.out
      BY <3>1 DEF Inv, Outboxes
    <3>2. CASE \E i \in Items : ing'.out = Append(ing.out, Raw(i))
      <4>1. PICK i \in Items : ing'.out = Append(ing.out, Raw(i))
        BY <3>2
      <4>2. ing.out \in Seq(Topics) /\ Raw(i) \in Topics
        BY StagingIn DEF IngestRecords, Raw, Topics
      <4>3. \A k \in DOMAIN ing'.out : ing'.out[k] = Raw(i) \/ (k \in DOMAIN ing.out /\ ing'.out[k] = ing.out[k])
        BY <4>1, <4>2, AppendedOut
      <4>4. Raw(i)[1] = "raw.ingested"
        BY DEF Raw
      <4> QED
        BY <4>3, <4>4 DEF Inv, Outboxes
    <3> QED
      BY <3>1, <3>2
  <2>2. kno.phase # "working"
    BY StagingIn
  <2> QED
    BY <2>1, <2>2 DEF Inv, Outboxes
<1> QED
  BY <1>1, <1>2, <1>3, <1>4, <1>5, <1>6 DEF Inv

LEMMA ClaimRunsKeepsInv ==
    ASSUME Inv, ClaimRuns
    PROVE  Inv'
<1> DEFINE queue == {r \in Runs : Claimable(r)}
           f == [r \in Runs |-> IF Claimable(r) THEN "PROCESSING" ELSE db.status[r]]
           g == [r \in Runs |-> IF Claimable(r) THEN db.attempts[r] + 1 ELSE db.attempts[r]]
           d == db.duplicates[First(queue)]
<1>1. /\ ing.phase = "idle" /\ tx = None /\ queue # {}
      /\ tx' = [db EXCEPT !.status = f, !.attempts = g]
      /\ ing' = [IngestIdle EXCEPT !.phase = "staging", !.queue = queue,
                                   !.duplicates = d]
      /\ UNCHANGED <<db, kno, api, published, crashes>>
  BY DEF ClaimRuns
<1>2. db \in Databases /\ Sound(db) /\ kno.phase # "working" /\ \A r \in Runs : ~ Staging(r)
  BY <1>1 DEF Inv, ProcessTypeOK, Images, OneWriter
<1>3. f \in [Runs -> RunStates] /\ g \in [Runs -> Nat]
  BY <1>2, Fields DEF RunStates
<1>4. \A r \in Runs : f[r] = IF Claimable(r) THEN "PROCESSING" ELSE db.status[r]
  OBVIOUS
<1> HIDE DEF f, g
<1>5. /\ tx' \in Databases /\ tx'.status = f /\ tx'.order = db.order /\ tx'.asked = db.asked
      /\ tx'.owner = db.owner /\ tx'.duplicates = db.duplicates
      /\ tx'.item = db.item /\ tx'.tries = db.tries /\ tx'.known = db.known
  <2>1. tx' = [db EXCEPT !.status = f, !.attempts = g]
    BY <1>1
  <2> QED
    BY <1>2, <1>3, <2>1 DEF Databases
<1>6. Sound(tx') /\ Ahead(db, tx') /\ tx' # None
  <2>1. Listed(tx')
    BY <1>2, <1>5, <1>4, NoneAssumption DEF Sound, Listed, Claimable
  <2>2. \A r \in Runs : tx'.status[r] = "COMPLETED" => db.status[r] = "COMPLETED"
    BY <1>5, <1>4
  <2>3. Ahead(db, db)
    BY DEF Ahead
  <2> QED
    BY <1>2, <1>5, <2>1, <2>2, <2>3, StatusSound, StatusAhead, NoneAssumption
<1>7. \A r \in queue : /\ db.status[r] \in {"PENDING", "PROCESSING"}
                     /\ tx'.status[r] \in {"PENDING", "PROCESSING"}
  BY <1>5, <1>4 DEF Claimable
<1>8. First(queue) \in queue
  BY <1>1, <1>2, <1>7, FirstIn, NoneAssumption DEF Sound
<1>9. d \in Nat
  BY <1>2, <1>8, Fields
<1> HIDE DEF queue, d
<1>10. /\ ing' \in IngestRecords /\ ing'.phase = "staging" /\ ing'.queue = queue /\ ing'.pos = 1
      /\ ing'.staged = 0 /\ ing'.duplicates \in Nat /\ ing'.out = <<>>
  <2>1. <<>> \in Seq(Topics) /\ queue \in SUBSET Runs
    BY DEF queue
  <2>2. ing' = [phase |-> "staging", queue |-> queue, pos |-> 1, staged |-> 0,
                duplicates |-> d, expired |-> FALSE, out |-> <<>>]
    BY <1>1 DEF IngestIdle
  <2>3. 1 \in Nat \ {0} /\ 0 \in Nat
    OBVIOUS
  <2> QED
    BY <1>9, <2>1, <2>2, <2>3 DEF IngestRecords
<1>11. ProcessTypeOK'
  BY <1>1, <1>5, <1>10 DEF Inv, ProcessTypeOK, IngestRecords
<1>12. OneWriter'
  BY <1>1, <1>2, <1>6 DEF OneWriter, Staging
<1>13. Images'
  BY <1>1, <1>2, <1>6 DEF Images
<1>14. InStaging'
  BY <1>1, <1>7, <1>10 DEF InStaging
<1>15. InWorking'
  BY <1>1, <1>2 DEF InWorking
<1>16. Outboxes'
  BY <1>1, <1>2, <1>10 DEF Inv, Outboxes
<1> QED
  BY <1>11, <1>12, <1>13, <1>14, <1>15, <1>16 DEF Inv

LEMMA StageNewItemKeepsInv ==
    ASSUME Inv, StageNewItem
    PROVE  Inv'
<1> DEFINE r == StagedRun
           i == NextItem
<1>1. /\ ing.phase = "staging" /\ ing.queue # {} /\ ItemsLeft /\ tx.owner[i] = None
      /\ tx' = [tx EXCEPT !.owner[i] = r]
      /\ ing' = [ing EXCEPT !.pos = @ + 1, !.staged = @ + 1, !.out = Append(@, Raw(i))]
      /\ UNCHANGED <<db, kno, api, published, crashes>>
  BY DEF StageNewItem, ItemsLeft
<1>2. /\ tx \in Databases /\ db \in Databases /\ ing \in IngestRecords
      /\ Sound(db) /\ Sound(tx) /\ Ahead(db, tx)
      /\ \A q \in ing.queue : tx.status[q] \in {"PENDING", "PROCESSING"}
  BY <1>1, StagingIn
<1>3. i \in Items /\ r \in Runs /\ r \in ing.queue
  BY <1>1, StagedIn
<1>4. Raw(i) \in Topics
  BY <1>3 DEF Raw, Topics
<1> HIDE DEF r, i
<1>5. /\ tx' \in Databases
      /\ tx'.owner = [tx.owner EXCEPT ![i] = r] /\ tx'.item = tx.item /\ tx'.known = tx.known
      /\ tx'.order = tx.order /\ tx'.asked = tx.asked /\ tx'.status = tx.status
      /\ tx'.duplicates = tx.duplicates /\ tx'.tries = tx.tries
  BY <1>1, <1>2, <1>3, OwnerFields
<1>6. Sound(tx')
  <2>1. Listed(tx')
    BY <1>2, <1>5 DEF Sound, Listed
  <2>2. tx'.status[r] # "COMPLETED"
    BY <1>2, <1>3, <1>5
  <2> QED
    BY <1>1, <1>2, <1>3, <1>5, <2>1, <2>2, InsertSound
<1>7. Ahead(db, tx')
  BY <1>1, <1>2, <1>3, <1>5, InsertAhead DEF Sound
<1>8. /\ ing' \in IngestRecords /\ ing'.phase = "staging" /\ ing'.queue = ing.queue
      /\ ing'.out = Append(ing.out, Raw(i))
      /\ ing'.staged = ing.staged + 1 /\ ing'.duplicates = ing.duplicates /\ ing'.pos = ing.pos + 1
  <2>1. Append(ing.out, Raw(i)) \in Seq(Topics)
    BY <1>2, <1>4, AppendedOut DEF IngestRecords
  <2>2. ing.pos + 1 \in Nat \ {0} /\ ing.staged + 1 \in Nat
    BY <1>2 DEF IngestRecords
  <2> DEFINE o == Append(ing.out, Raw(i))
             p == ing.pos + 1
             n == ing.staged + 1
  <2>3. ing' = [ing EXCEPT !.pos = p, !.staged = n, !.out = o]
    BY <1>1
  <2> HIDE DEF o, p, n
  <2>4. /\ ing' \in IngestRecords /\ ing'.phase = "staging" /\ ing'.queue = ing.queue
        /\ ing'.out = o /\ ing'.staged = n /\ ing'.duplicates = ing.duplicates /\ ing'.pos = p
    BY <1>1, <1>2, <2>1, <2>2, <2>3 DEF IngestRecords, o, p, n
  <2> QED
    BY <2>4 DEF o, p, n
<1>9. ing'.staged + ing'.duplicates >= ing'.pos - 1
  <2>1. ing.staged + ing.duplicates >= ing.pos - 1
    BY <1>1 DEF Inv, InStaging
  <2> QED
    BY <1>2, <1>8, <2>1 DEF IngestRecords
<1> QED
  BY <1>1, <1>2, <1>3, <1>5, <1>6, <1>7, <1>8, <1>9, StagingGoesOn

LEMMA StageDuplicateKeepsInv ==
    ASSUME Inv, StageDuplicate
    PROVE  Inv'
<1>1. /\ ing.phase = "staging" /\ ing.queue # {} /\ tx' = db
      /\ ing' = [ing EXCEPT !.pos = @ + 1, !.duplicates = @ + 1, !.expired = TRUE]
      /\ UNCHANGED <<db, kno, api, published, crashes>>
  BY DEF StageDuplicate, ItemsLeft
<1>2. /\ db \in Databases /\ ing \in IngestRecords /\ Sound(db)
      /\ \A q \in ing.queue : db.status[q] \in {"PENDING", "PROCESSING"}
  BY <1>1, StagingIn
<1>3. Ahead(db, tx')
  BY <1>1 DEF Ahead
<1>4. /\ ing' \in IngestRecords /\ ing'.phase = "staging" /\ ing'.queue = ing.queue
      /\ ing'.out = ing.out
      /\ ing'.staged = ing.staged /\ ing'.duplicates = ing.duplicates + 1 /\ ing'.pos = ing.pos + 1
  <2> DEFINE p == ing.pos + 1
             n == ing.duplicates + 1
  <2>1. p \in Nat \ {0} /\ n \in Nat
    BY <1>2 DEF IngestRecords
  <2>2. ing' = [ing EXCEPT !.pos = p, !.duplicates = n, !.expired = TRUE]
    BY <1>1
  <2> HIDE DEF p, n
  <2>3. /\ ing' \in IngestRecords /\ ing'.phase = "staging" /\ ing'.queue = ing.queue
        /\ ing'.out = ing.out
        /\ ing'.staged = ing.staged /\ ing'.duplicates = n /\ ing'.pos = p
    BY <1>1, <1>2, <2>1, <2>2 DEF IngestRecords
  <2> QED
    BY <2>3 DEF p, n
<1>5. ing'.staged + ing'.duplicates >= ing'.pos - 1
  <2>1. ing.staged + ing.duplicates >= ing.pos - 1
    BY <1>1 DEF Inv, InStaging
  <2> QED
    BY <1>2, <1>4, <2>1 DEF IngestRecords
<1> QED
  BY <1>1, <1>2, <1>3, <1>4, <1>5, StagingGoesOn

\* The worker turns to the next run.
LEMMA TurnKeepsInv ==
    ASSUME Inv, ing.phase = "staging", ing.queue # {}, NEW rows \in Databases, Turn(rows),
           Sound(rows), Ahead(db, rows), \A q \in ing.queue \ {StagedRun} : rows.status[q] = tx.status[q],
           UNCHANGED <<db, kno, api, published, crashes>>
    PROVE  Inv'
<1> DEFINE left == ing.queue \ {StagedRun}
           d == IF left = {} THEN 0 ELSE rows.duplicates[First(left)]
<1>1. /\ ing \in IngestRecords /\ left \in SUBSET Runs
      /\ \A q \in left : rows.status[q] \in {"PENDING", "PROCESSING"}
  BY StagingIn DEF IngestRecords
<1>2. d \in Nat
  <2>1. CASE left = {}
    BY <2>1
  <2>2. CASE left # {}
    <3>1. First(left) \in left
      BY <2>2, StagingIn
    <3> QED
      BY <1>1, <2>2, <3>1, Fields
  <2> QED
    BY <2>1, <2>2
<1>3. tx' = rows /\ ing' = [ing EXCEPT !.queue = left, !.pos = 1, !.staged = 0, !.duplicates = d]
  BY DEF Turn
<1> HIDE DEF d
<1>4. /\ ing' \in IngestRecords /\ ing'.phase = "staging" /\ ing'.queue = left /\ ing'.out = ing.out
      /\ ing'.staged = 0 /\ ing'.duplicates = d /\ ing'.pos = 1
  <2>1. 1 \in Nat \ {0} /\ 0 \in Nat
    OBVIOUS
  <2> HIDE DEF left
  <2> QED
    BY <1>1, <1>2, <1>3, <2>1 DEF IngestRecords
<1>5. ing'.staged + ing'.duplicates >= ing'.pos - 1
  BY <1>2, <1>4
<1> QED
  BY <1>1, <1>3, <1>4, <1>5, StagingGoesOn

LEMMA StageRaisesKeepsInv ==
    ASSUME Inv, StageRaises
    PROVE  Inv'
<1> DEFINE r == StagedRun
           i == NextItem
           s == AfterFailure(tx.attempts[r])
           rows == [tx EXCEPT !.status[r] = s, !.owner[i] = r]
<1>1. /\ ing.phase = "staging" /\ ing.queue # {} /\ ItemsLeft /\ tx.owner[i] = None
      /\ Turn(rows) /\ UNCHANGED <<db, kno, api, published, crashes>>
  BY DEF StageRaises, ItemsLeft
<1>2. /\ tx \in Databases /\ db \in Databases /\ Sound(db) /\ Sound(tx) /\ Ahead(db, tx)
      /\ \A q \in ing.queue : tx.status[q] \in {"PENDING", "PROCESSING"}
  BY <1>1, StagingIn
<1>3. i \in Items /\ r \in Runs /\ r \in ing.queue /\ r = StagedRun
  BY <1>1, StagedIn
<1>4. s \in RunStates /\ s # "COMPLETED"
  BY DEF AfterFailure, RunStates
<1> HIDE DEF r, i, s
<1>5. /\ rows \in Databases
      /\ rows.owner = [tx.owner EXCEPT ![i] = r] /\ rows.status = [tx.status EXCEPT ![r] = s]
      /\ rows.order = tx.order /\ rows.asked = tx.asked /\ rows.item = tx.item
      /\ rows.known = tx.known /\ rows.duplicates = tx.duplicates /\ rows.tries = tx.tries
  <2>1. tx \in Databases /\ r \in Runs /\ i \in Items
    BY <1>2, <1>3
  <2> QED
    BY <1>4, <2>1 DEF Databases
<1> HIDE DEF rows
<1>6. \A q \in Runs : rows.status[q] = IF q = r THEN s ELSE tx.status[q]
  BY <1>2, <1>5, Fields
<1>7. Sound(rows)
  <2>1. tx.status[r] # None
    BY <1>2, <1>3, NoneAssumption
  <2>2. Listed(rows)
    BY <1>2, <1>5, <1>6, <2>1 DEF Sound, Listed
  <2>3. (\A q \in Runs \ {r} : rows.status[q] = tx.status[q]) /\ rows.status[r] # "COMPLETED"
    BY <1>3, <1>4, <1>6
  <2>4. tx \in Databases /\ Sound(tx) /\ i \in Items /\ r \in Runs /\ tx.owner[i] = None
    BY <1>1, <1>2, <1>3
  <2> QED
    BY <1>5, <2>2, <2>3, <2>4, InsertSound
<1>8. Ahead(db, rows)
  BY <1>1, <1>2, <1>3, <1>5, InsertAhead DEF Sound
<1>9. \A q \in ing.queue \ {StagedRun} : rows.status[q] = tx.status[q]
  <2>1. ing.queue \subseteq Runs
    BY <1>1, StagingIn DEF IngestRecords
  <2> QED
    BY <1>3, <1>6, <2>1
<1> QED
  BY <1>1, <1>5, <1>7, <1>8, <1>9, TurnKeepsInv

LEMMA StageDoneKeepsInv ==
    ASSUME Inv, StageDone
    PROVE  Inv'
<1> DEFINE r == StagedRun
           l == Len(Request[r])
           n == IF ing.duplicates > l THEN l + 1 ELSE ing.duplicates
           s == IF ing.staged = 0 THEN "COMPLETED" ELSE tx.status[r]
           rows == [tx EXCEPT !.duplicates[r] = n, !.status[r] = s]
<1>1. /\ ing.phase = "staging" /\ ing.queue # {} /\ ing.pos > l
      /\ UNCHANGED <<db, kno, api, published, crashes>>
  BY DEF StageDone
<1>2. /\ tx \in Databases /\ db \in Databases /\ Sound(db) /\ Sound(tx) /\ Ahead(db, tx)
      /\ \A q \in ing.queue : tx.status[q] \in {"PENDING", "PROCESSING"}
      /\ ing \in IngestRecords
  BY <1>1, StagingIn
<1>3. r \in Runs /\ r \in ing.queue /\ r = StagedRun /\ l \in Nat /\ l = Len(tx.asked[r])
  BY <1>1, StagedIn
<1>4. n \in Nat /\ (ing.staged = 0 => n >= l)
  <2>1. ing.staged + ing.duplicates >= ing.pos - 1
    BY <1>1 DEF Inv, InStaging
  <2> HIDE DEF l
  <2> QED
    BY <1>1, <1>2, <1>3, <2>1 DEF IngestRecords
<1>5. s \in RunStates /\ (s = "COMPLETED" => ing.staged = 0) /\ s # None
  BY <1>2, <1>3, NoneAssumption DEF RunStates
<1>6. Turn(rows)
  BY DEF StageDone
<1> HIDE DEF r, l, n, s
<1>7. /\ rows \in Databases
      /\ rows.duplicates = [tx.duplicates EXCEPT ![r] = n] /\ rows.status = [tx.status EXCEPT ![r] = s]
      /\ rows.order = tx.order /\ rows.asked = tx.asked /\ rows.item = tx.item
      /\ rows.known = tx.known /\ rows.owner = tx.owner /\ rows.tries = tx.tries
  <2>1. tx \in Databases /\ r \in Runs
    BY <1>2, <1>3
  <2> QED
    BY <1>4, <1>5, <2>1 DEF Databases
<1> HIDE DEF rows
<1>8. \A q \in Runs : /\ rows.status[q] = IF q = r THEN s ELSE tx.status[q]
                     /\ rows.duplicates[q] = IF q = r THEN n ELSE tx.duplicates[q]
  BY <1>2, <1>7, Fields
<1>9. Sound(rows)
  <2>1. tx.status[r] # None
    BY <1>2, <1>3, NoneAssumption
  <2>2. Listed(rows)
    BY <1>2, <1>7, <1>8, <2>1 DEF Sound, Listed
  <2>3. ASSUME NEW q \in Runs, rows.status[q] = "COMPLETED"
        PROVE  \/ tx.status[q] = "COMPLETED" /\ rows.duplicates[q] = tx.duplicates[q]
               \/ rows.duplicates[q] >= Len(tx.asked[q])
    BY <1>3, <1>4, <1>5, <1>8, <2>3
  <2> QED
    BY <1>2, <1>7, <2>2, <2>3, StatusSound
<1>10. Ahead(db, rows)
  BY <1>2, <1>7, StatusAhead
<1>11. \A q \in ing.queue \ {StagedRun} : rows.status[q] = tx.status[q]
  BY <1>2, <1>3, <1>8 DEF IngestRecords
<1> QED
  BY <1>1, <1>6, <1>7, <1>9, <1>10, <1>11, TurnKeepsInv

\* The transaction of the ingest worker ends.
LEMMA StagingEnds ==
    ASSUME Inv, ing.phase = "staging", UNCHANGED <<kno, api, published>>, crashes' \in 0..MaxCrashes,
           tx' = None, db' \in Databases, Sound(db'), Ahead(db, db'),
           ing' \in IngestRecords, ing'.phase # "staging", ing'.out \in {<<>>, ing.out}
    PROVE  Inv'
<1>1. kno.phase # "working" /\ \A r \in Runs : ~ Staging(r)
  BY StagingIn
<1>2. ProcessTypeOK'
  BY DEF Inv, ProcessTypeOK, IngestRecords
<1>3. OneWriter'
  BY <1>1 DEF OneWriter, Staging
<1>4. Images' /\ InStaging'
  BY DEF Images, InStaging
<1>5. InWorking'
  BY <1>1 DEF InWorking
<1>6. Outboxes'
  <2>1. \A k \in DOMAIN kno.out : kno.out[k][2] \in Items
    <3>1. kno.out \in Seq(Topics)
      BY DEF Inv, ProcessTypeOK
    <3>2. \A k \in DOMAIN kno.out : kno.out[k] \in Topics
      BY <3>1
    <3> QED
      BY <3>2 DEF Topics
  <2>2. kno.phase = "publishing" => \A k \in DOMAIN kno.out : db'.known[kno.out[k][2]] = "full"
    BY <1>1, <2>1 DEF Inv, Outboxes, Ahead
  <2>3. \A k \in DOMAIN ing'.out : ing'.out[k][1] = "raw.ingested"
    BY DEF Inv, Outboxes
  <2> QED
    BY <1>1, <2>2, <2>3 DEF Outboxes
<1> QED
  BY <1>2, <1>3, <1>4, <1>5, <1>6 DEF Inv

\* The ingest worker works outside of any transaction.
LEMMA IngestRests ==
    ASSUME Inv, ing.phase # "staging", UNCHANGED <<db, tx, kno, api>>, crashes' \in 0..MaxCrashes,
           published' \subseteq Topics, ing' \in IngestRecords, ing'.phase # "staging",
           \A k \in DOMAIN ing'.out : ing'.out[k][1] = "raw.ingested"
    PROVE  Inv'
<1>1. ProcessTypeOK'
  BY DEF Inv, ProcessTypeOK, IngestRecords
<1>2. OneWriter'
  BY DEF Inv, OneWriter, Staging
<1>3. Images' /\ InStaging' /\ InWorking'
  BY WorkingFrame DEF Inv, Images, InStaging
<1>4. Outboxes'
  BY DEF Inv, Outboxes
<1> QED
  BY <1>1, <1>2, <1>3, <1>4 DEF Inv

\* The worker rests, is dead or has something to publish.
LEMMA IngestRecordsOf ==
    /\ IngestIdle \in IngestRecords /\ IngestIdle.phase = "idle"
    /\ IngestIdle.out = <<>> /\ DOMAIN IngestIdle.out = {}
    /\ \A y \in IngestRecords :
          LET x == [y EXCEPT !.phase = "dead"]
          IN  x \in IngestRecords /\ x.phase = "dead" /\ x.out = y.out
    /\ \A y \in IngestRecords : \A o \in Seq(Topics) :
          LET x == [y EXCEPT !.phase = "publishing", !.out = o]
          IN  x \in IngestRecords /\ x.phase = "publishing" /\ x.out = o
<1>1. 1 \in Nat \ {0} /\ 0 \in Nat /\ <<>> \in Seq(Topics) /\ {} \in SUBSET Runs /\ DOMAIN <<>> = {}
  OBVIOUS
<1>2. ASSUME NEW o \in Seq(Topics), NEW S \in SUBSET Runs
      PROVE  [phase |-> "idle", queue |-> S, pos |-> 1, staged |-> 0,
              duplicates |-> 0, expired |-> FALSE, out |-> o] \in IngestRecords
  BY <1>1 DEF IngestRecords
<1>3. IngestIdle \in IngestRecords
  BY <1>1, <1>2, Zenon DEF IngestIdle
<1>4. IngestIdle.phase = "idle" /\ IngestIdle.out = <<>>
  BY DEF IngestIdle
<1>5. ASSUME NEW y \in IngestRecords
      PROVE  LET x == [y EXCEPT !.phase = "dead"]
             IN  x \in IngestRecords /\ x.phase = "dead" /\ x.out = y.out
  BY DEF IngestRecords
<1>6. ASSUME NEW y \in IngestRecords, NEW o \in Seq(Topics)
      PROVE  LET x == [y EXCEPT !.phase = "publishing", !.out = o]
             IN  x \in IngestRecords /\ x.phase = "publishing" /\ x.out = o
  BY DEF IngestRecords
<1> QED
  BY <1>1, <1>3, <1>4, <1>5, <1>6

LEMMA StageAbortsKeepsInv ==
    ASSUME Inv, StageAborts
    PROVE  Inv'
<1>1. /\ ing.phase = "staging" /\ tx' = None /\ ing' = [IngestIdle EXCEPT !.phase = "dead"]
      /\ UNCHANGED <<db, kno, api, published, crashes>>
  BY DEF StageAborts, ItemsLeft, FirstReadRaises
<1>2. db \in Databases /\ Sound(db) /\ Ahead(db, db') /\ crashes \in 0..MaxCrashes
  BY <1>1 DEF Inv, ProcessTypeOK, Images, Ahead
<1> QED
  BY <1>1, <1>2, IngestRecordsOf, StagingEnds

LEMMA CommitStagedKeepsInv ==
    ASSUME Inv, CommitStaged
    PROVE  Inv' /\ Ahead(db, db')
<1>1. /\ ing.phase = "staging" /\ tx' = None /\ db' = tx
      /\ ing' = [IngestIdle EXCEPT !.phase = "publishing", !.out = ing.out]
      /\ UNCHANGED <<kno, api, published, crashes>>
  BY DEF CommitStaged
<1>2. tx \in Databases /\ Sound(tx) /\ Ahead(db, tx) /\ ing.out \in Seq(Topics)
  BY <1>1, StagingIn DEF IngestRecords
<1>3. crashes \in 0..MaxCrashes
  BY DEF Inv, ProcessTypeOK
<1>4. ing' \in IngestRecords /\ ing'.phase = "publishing" /\ ing'.out = ing.out
  BY <1>1, <1>2, IngestRecordsOf
<1> QED
  BY <1>1, <1>2, <1>3, <1>4, StagingEnds

LEMMA PublishStagedKeepsInv ==
    ASSUME Inv, PublishStaged
    PROVE  Inv'
<1>1. /\ ing.phase = "publishing" /\ UNCHANGED <<db, tx, kno, api, crashes>>
      /\ ing \in IngestRecords /\ crashes \in 0..MaxCrashes /\ published \subseteq Topics
  BY DEF PublishStaged, Inv, ProcessTypeOK, IngestRecords
<1>2. CASE ing.out = <<>>
  <2>1. ing' = IngestIdle /\ published' = published
    BY <1>2 DEF PublishStaged
  <2>2. ing' \in IngestRecords /\ ing'.phase # "staging" /\ (\A k \in DOMAIN ing'.out : ing'.out[k][1] = "raw.ingested")
    BY <2>1, IngestRecordsOf
  <2> QED
    BY <1>1, <2>1, <2>2, IngestRests
<1>3. CASE ing.out # <<>>
  <2>1. ing.out \in Seq(Topics)
    BY <1>1 DEF IngestRecords
  <2> DEFINE o == Tail(ing.out)
  <2>2. ing' = [ing EXCEPT !.out = o] /\ published' = published \cup {Head(ing.out)}
    BY <1>3 DEF PublishStaged
  <2>3. o \in Seq(Topics) /\ Head(ing.out) \in Topics
    BY <1>3, <2>1, TailOut
  <2>4. \A k \in DOMAIN o : o[k][1] = "raw.ingested"
    BY <1>3, <2>1, TailOut DEF Inv, Outboxes
  <2> HIDE DEF o
  <2>5. ing' \in IngestRecords /\ ing'.phase = "publishing" /\ ing'.out = o
    BY <1>1, <2>2, <2>3 DEF IngestRecords
  <2> QED
    BY <1>1, <2>2, <2>3, <2>4, <2>5, IngestRests
<1> QED
  BY <1>2, <1>3

LEMMA CrashIngestKeepsInv ==
    ASSUME Inv, CrashIngest
    PROVE  Inv'
<1>1. /\ ing' = [IngestIdle EXCEPT !.phase = "dead"] /\ crashes' \in 0..MaxCrashes
      /\ UNCHANGED <<db, kno, api, published>> /\ published \subseteq Topics
  BY LimitsAssumption DEF CrashIngest, Inv, ProcessTypeOK
<1>2. CASE ing.phase = "staging"
  <2>1. tx' = None /\ db \in Databases /\ Sound(db) /\ Ahead(db, db')
    BY <1>1, <1>2 DEF CrashIngest, Inv, ProcessTypeOK, Images, Ahead
  <2> QED
    BY <1>1, <1>2, <2>1, IngestRecordsOf, StagingEnds
<1>3. CASE ing.phase # "staging"
  <2>1. tx' = tx
    BY <1>3 DEF CrashIngest
  <2>2. ing' \in IngestRecords /\ ing'.phase # "staging" /\ (\A k \in DOMAIN ing'.out : ing'.out[k][1] = "raw.ingested")
    BY <1>1, IngestRecordsOf
  <2> QED
    BY <1>1, <1>3, <2>1, <2>2, IngestRests
<1> QED
  BY <1>2, <1>3

LEMMA RestartIngestKeepsInv ==
    ASSUME Inv, RestartIngest
    PROVE  Inv'
<1>1. /\ ing.phase = "dead" /\ ing' = IngestIdle /\ UNCHANGED <<db, tx, kno, api, published, crashes>>
      /\ crashes \in 0..MaxCrashes /\ published \subseteq Topics
  BY DEF RestartIngest, Inv, ProcessTypeOK
<1>2. ing' \in IngestRecords /\ ing'.phase # "staging" /\ (\A k \in DOMAIN ing'.out : ing'.out[k][1] = "raw.ingested")
  BY <1>1, IngestRecordsOf
<1> QED
  BY <1>1, <1>2, IngestRests

-----------------------------------------------------------------------------
(* The knowledge worker keeps Inv.                                         *)

KnowledgeRecords == [phase : {"idle", "working", "publishing", "dead"}, left : SUBSET Items,
                     touched : SUBSET Runs, out : Seq(Topics)]

\* What the worker finds while it works.
LEMMA WorkingIn ==
    ASSUME Inv, kno.phase = "working"
    PROVE  /\ tx \in Databases /\ db \in Databases /\ kno \in KnowledgeRecords
           /\ Sound(db) /\ Sound(tx) /\ Ahead(db, tx)
           /\ tx # None /\ ing.phase # "staging" /\ \A r \in Runs : ~ Staging(r)
           /\ tx.status = db.status /\ tx.owner = db.owner /\ tx.duplicates = db.duplicates
           /\ \A k \in DOMAIN kno.out : tx.known[kno.out[k][2]] = "full"
<1>1. tx # None /\ ing.phase # "staging" /\ \A r \in Runs : ~ Staging(r)
  BY DEF Inv, OneWriter
<1> QED
  BY <1>1 DEF Inv, ProcessTypeOK, KnowledgeRecords, Images, InWorking, Outboxes

\* The worker goes on.
LEMMA WorkingGoesOn ==
    ASSUME Inv, kno.phase \in {"idle", "working"}, ing.phase # "staging", \A r \in Runs : ~ Staging(r),
           UNCHANGED <<db, ing, api, published, crashes>>,
           tx' \in Databases, Sound(tx'), Ahead(db, tx'),
           kno' \in KnowledgeRecords, kno'.phase = "working",
           InWorking', \A k \in DOMAIN kno'.out : tx'.known[kno'.out[k][2]] = "full"
    PROVE  Inv'
<1>1. ProcessTypeOK'
  BY DEF Inv, ProcessTypeOK, KnowledgeRecords
<1>2. OneWriter'
  BY NoneAssumption DEF OneWriter, Staging
<1>3. Images'
  BY DEF Inv, Images
<1>4. InStaging'
  BY DEF InStaging
<1>5. Outboxes'
  BY DEF Inv, Outboxes
<1> QED
  BY <1>1, <1>2, <1>3, <1>4, <1>5 DEF Inv

LEMMA ClaimItemsKeepsInv ==
    ASSUME Inv, ClaimItems
    PROVE  Inv'
<1> DEFINE claimed == {i \in Items : Unprocessed(i)}
           f == [i \in Items |-> IF i \in claimed THEN db.tries[i] + 1 ELSE db.tries[i]]
           t == {db.owner[i] : i \in claimed}
<1>1. /\ kno.phase = "idle" /\ tx = None /\ tx' = [db EXCEPT !.tries = f]
      /\ kno' = [KnowledgeIdle EXCEPT !.phase = "working", !.left = claimed, !.touched = t]
      /\ UNCHANGED <<db, ing, api, published, crashes>>
  BY DEF ClaimItems
<1>2. db \in Databases /\ Sound(db) /\ ing.phase # "staging" /\ \A r \in Runs : ~ Staging(r)
  BY <1>1 DEF Inv, ProcessTypeOK, Images, OneWriter
<1>3. claimed \in SUBSET Items /\ f \in [Items -> Nat]
  BY <1>2, Fields
<1>4. t \in SUBSET Runs /\ \A r \in t : db.status[r] = "PROCESSING"
  BY <1>2, Fields DEF Unprocessed
<1>5. \A i \in claimed : /\ db.owner[i] # None /\ db.item[i] = "PENDING"
                        /\ f[i] = db.tries[i] + 1
  BY DEF Unprocessed
<1>6. \A i \in Items : f[i] >= db.tries[i]
  BY <1>2, Fields
<1> HIDE DEF claimed, f, t
<1>7. /\ tx' \in Databases /\ tx'.tries = f /\ tx'.order = db.order /\ tx'.asked = db.asked
      /\ tx'.owner = db.owner /\ tx'.duplicates = db.duplicates /\ tx'.status = db.status
      /\ tx'.item = db.item /\ tx'.known = db.known
  BY <1>1, <1>2, <1>3, TriesFields
<1>8. Sound(tx') /\ Ahead(db, tx')
  <2>1. Ahead(db, db)
    BY DEF Ahead
  <2> QED
    BY <1>2, <1>6, <1>7, <2>1, TriesSound, StatusAhead
<1>9. /\ kno' \in KnowledgeRecords /\ kno'.phase = "working" /\ kno'.left = claimed /\ kno'.touched = t
      /\ DOMAIN kno'.out = {}
  <2>1. kno' = [phase |-> "working", left |-> claimed, touched |-> t, out |-> <<>>]
    BY <1>1 DEF KnowledgeIdle
  <2>2. <<>> \in Seq(Topics) /\ DOMAIN <<>> = {}
    OBVIOUS
  <2> QED
    BY <1>3, <1>4, <2>1, <2>2 DEF KnowledgeRecords
<1>10. InWorking'
  BY <1>1, <1>3, <1>4, <1>5, <1>7, <1>9 DEF InWorking
<1> QED
  BY <1>1, <1>2, <1>7, <1>8, <1>9, <1>10, WorkingGoesOn

\* The rows after an outcome.
LEMMA OutcomeRows ==
    ASSUME NEW C \in Databases, NEW D \in Databases, NEW E \in Databases, Sound(C), Sound(D), Ahead(C, D),
           NEW i \in Items, D.owner[i] # None, C.item[i] = "PENDING", D.item[i] = "PENDING",
           D.known[i] = C.known[i], D.tries[i] = C.tries[i] + 1,
           \A j \in Items \ {i} : E.item[j] = D.item[j] /\ E.known[j] = D.known[j],
           E.owner = D.owner, E.tries = D.tries, E.asked = D.asked, E.order = D.order,
           E.status = D.status, E.duplicates = D.duplicates,
           D.known[i] = "none" \/ E.known[i] = D.known[i],
           E.item[i] = "COMPLETED" => E.known[i] # "none",
           E.item[i] = "COMPLETED" /\ E.known[i] = "partial" => D.known[i] = "partial"
    PROVE  Sound(E) /\ Ahead(C, E)
<1>1. D.tries[i] > 0 /\ (C.known[i] = "partial" => D.tries[i] > 1)
  BY Fields DEF Sound, Tried
<1>2. E.item[i] = "COMPLETED" /\ E.known[i] # "full" => D.tries[i] > 1
  <2>1. E.known[i] \in {"none", "partial", "full"}
    BY Fields
  <2> QED
    BY <1>1, <2>1
<1>3. Sound(E)
  BY <1>1, <1>2, OutcomeSound
<1>4. C.known[i] = "none" \/ E.known[i] = C.known[i]
  OBVIOUS
<1>5. Ahead(C, E)
  BY <1>4, OutcomeAhead
<1> QED
  BY <1>3, <1>5

\* The image after the outcome of an item that the worker has left.
LEMMA OutcomeOfItem ==
    ASSUME Inv, kno.phase = "working", NEW i \in kno.left,
           NEW s \in {"PENDING", "COMPLETED", "FAILED"}, NEW k \in {"none", "partial", "full"},
           tx' = [tx EXCEPT !.item[i] = s, !.known[i] = k],
           tx.known[i] = "none" \/ k = tx.known[i],
           s = "COMPLETED" => k # "none",
           s = "COMPLETED" /\ k = "partial" => tx.known[i] = "partial"
    PROVE  /\ i \in Items /\ tx' \in Databases /\ Sound(tx') /\ Ahead(db, tx')
           /\ tx'.item[i] = s /\ tx'.known[i] = k
           /\ \A j \in Items \ {i} : tx'.item[j] = tx.item[j] /\ tx'.known[j] = tx.known[j]
           /\ tx'.status = tx.status /\ tx'.owner = tx.owner /\ tx'.duplicates = tx.duplicates
           /\ tx'.tries = tx.tries
<1>1. /\ tx \in Databases /\ db \in Databases /\ kno \in KnowledgeRecords
      /\ Sound(db) /\ Sound(tx) /\ Ahead(db, tx)
  BY WorkingIn
<1>2. /\ i \in Items /\ db.item[i] = "PENDING" /\ tx.item[i] = "PENDING"
      /\ tx.known[i] = db.known[i] /\ tx.tries[i] = db.tries[i] + 1 /\ tx.owner[i] # None
  BY <1>1 DEF Inv, InWorking, KnowledgeRecords
<1>3. /\ tx' \in Databases
      /\ tx'.item = [tx.item EXCEPT ![i] = s] /\ tx'.known = [tx.known EXCEPT ![i] = k]
      /\ tx'.order = tx.order /\ tx'.asked = tx.asked /\ tx'.status = tx.status
      /\ tx'.owner = tx.owner /\ tx'.duplicates = tx.duplicates /\ tx'.tries = tx.tries
  BY <1>1, <1>2 DEF Databases
<1>4. /\ tx'.item[i] = s /\ tx'.known[i] = k
      /\ \A j \in Items \ {i} : tx'.item[j] = tx.item[j] /\ tx'.known[j] = tx.known[j]
  BY <1>1, <1>2, <1>3, Fields
<1>5. Sound(tx') /\ Ahead(db, tx')
  <2> DEFINE E == tx'
  <2>1. /\ tx.known[i] = "none" \/ E.known[i] = tx.known[i]
        /\ E.item[i] = "COMPLETED" => E.known[i] # "none"
        /\ E.item[i] = "COMPLETED" /\ E.known[i] = "partial" => tx.known[i] = "partial"
        /\ \A j \in Items \ {i} : E.item[j] = tx.item[j] /\ E.known[j] = tx.known[j]
    BY <1>4
  <2>2. /\ E.order = tx.order /\ E.asked = tx.asked /\ E.status = tx.status
        /\ E.owner = tx.owner /\ E.duplicates = tx.duplicates /\ E.tries = tx.tries
        /\ E \in Databases
    BY <1>3
  <2> HIDE DEF E
  <2>3. Sound(E) /\ Ahead(db, E)
    BY <1>1, <1>2, <2>1, <2>2, OutcomeRows
  <2> QED
    BY <2>3 DEF E
<1> QED
  BY <1>2, <1>3, <1>4, <1>5

\* The worker is done with item i.
LEMMA OutcomeKeepsInv ==
    ASSUME Inv, kno.phase = "working", NEW i \in kno.left,
           NEW s \in {"PENDING", "COMPLETED", "FAILED"}, NEW k \in {"none", "partial", "full"},
           tx' = [tx EXCEPT !.item[i] = s, !.known[i] = k],
           tx.known[i] = "none" \/ k = tx.known[i],
           s = "COMPLETED" => k # "none",
           s = "COMPLETED" /\ k = "partial" => tx.known[i] = "partial",
           kno' = [kno EXCEPT !.left = @ \ {i}] \/
              (k = "full" /\ kno' = [kno EXCEPT !.left = @ \ {i}, !.out = Append(@, Knowledge(i))]),
           UNCHANGED <<db, ing, api, crashes, published>>
    PROVE  Inv'
<1>1. /\ tx \in Databases /\ db \in Databases /\ kno \in KnowledgeRecords
      /\ ing.phase # "staging" /\ \A r \in Runs : ~ Staging(r)
  BY WorkingIn
<1>2. /\ i \in Items /\ tx' \in Databases /\ Sound(tx') /\ Ahead(db, tx')
      /\ tx'.known[i] = k
      /\ \A j \in Items \ {i} : tx'.item[j] = tx.item[j] /\ tx'.known[j] = tx.known[j]
      /\ tx'.status = tx.status /\ tx'.owner = tx.owner /\ tx'.duplicates = tx.duplicates
      /\ tx'.tries = tx.tries
  BY OutcomeOfItem
<1>6. Knowledge(i) \in Topics /\ Knowledge(i)[2] = i
  BY <1>2 DEF Knowledge, Topics
<1>7. kno.out \in Seq(Topics)
  BY <1>1 DEF KnowledgeRecords
<1> DEFINE o == Append(kno.out, Knowledge(i))
           l == kno.left \ {i}
<1>8. /\ kno' \in KnowledgeRecords /\ kno'.phase = "working" /\ kno'.left = l
      /\ kno'.touched = kno.touched /\ (kno'.out = kno.out \/ (k = "full" /\ kno'.out = o))
  <2>1. o \in Seq(Topics) /\ l \in SUBSET Items
    BY <1>1, <1>6, <1>7, AppendedOut DEF KnowledgeRecords
  <2>2. CASE kno' = [kno EXCEPT !.left = l]
    <3> HIDE DEF l
    <3> QED
      BY <1>1, <2>1, <2>2 DEF KnowledgeRecords
  <2>3. CASE k = "full" /\ kno' = [kno EXCEPT !.left = l, !.out = o]
    <3> HIDE DEF l, o
    <3> QED
      BY <1>1, <2>1, <2>3 DEF KnowledgeRecords
  <2> QED
    BY <2>2, <2>3
<1>9. \A n \in DOMAIN kno'.out : tx'.known[kno'.out[n][2]] = "full"
  <2>1. ASSUME NEW n \in DOMAIN kno.out PROVE tx'.known[kno.out[n][2]] = "full"
    <3>1. kno.out[n][2] \in Items /\ tx.known[kno.out[n][2]] = "full"
      BY <1>7, WorkingIn DEF Topics
    <3> QED
      BY <1>2, <3>1
  <2>2. k = "full" => tx'.known[Knowledge(i)[2]] = "full"
    BY <1>2, <1>6
  <2>3. \A n \in DOMAIN o : o[n] = Knowledge(i) \/ (n \in DOMAIN kno.out /\ o[n] = kno.out[n])
    BY <1>6, <1>7, AppendedOut
  <2> HIDE DEF o
  <2> QED
    BY <1>8, <2>1, <2>2, <2>3
<1>10. InWorking'
  <2>1. \A j \in l : j \in Items /\ tx'.item[j] = tx.item[j] /\ tx'.known[j] = tx.known[j]
    BY <1>1, <1>2 DEF KnowledgeRecords
  <2>2. \A j \in l : j \in kno.left
    OBVIOUS
  <2> HIDE DEF l, o
  <2> QED
    BY <1>2, <1>8, <2>1, <2>2 DEF Inv, InWorking
<1> QED
  BY <1>1, <1>2, <1>8, <1>9, <1>10, WorkingGoesOn

LEMMA MaterializeKeepsInv ==
    ASSUME Inv, NEW i \in Items, Materialize(i)
    PROVE  Inv'
<1> DEFINE k == IF tx.known[i] = "none" THEN "full" ELSE tx.known[i]
<1>1. /\ kno.phase = "working" /\ i \in kno.left
      /\ tx' = [tx EXCEPT !.item[i] = "COMPLETED", !.known[i] = k]
      /\ UNCHANGED <<db, ing, api, crashes, published>>
  <2>1. tx \in Databases
    BY WorkingIn DEF Materialize
  <2>2. tx' = [tx EXCEPT !.item[i] = "COMPLETED",
                         !.known[i] = IF @ = "none" THEN "full" ELSE @]
    BY DEF Materialize
  <2> QED
    BY <2>1, <2>2 DEF Materialize, Databases
<1>2. k \in {"none", "partial", "full"} /\ k # "none" /\ (tx.known[i] = "none" \/ k = tx.known[i])
      /\ (tx.known[i] = "none" => k = "full") /\ (k = "partial" => tx.known[i] = "partial")
  BY <1>1, WorkingIn, Fields
<1>3. kno' = [kno EXCEPT !.left = @ \ {i}] \/
         (k = "full" /\ kno' = [kno EXCEPT !.left = @ \ {i}, !.out = Append(@, Knowledge(i))])
  <2>1. CASE tx.known[i] = "none"
    BY <1>2, <2>1 DEF Materialize
  <2>2. CASE tx.known[i] # "none"
    <3>1. kno' = [kno EXCEPT !.left = @ \ {i}, !.out = kno.out]
      BY <2>2 DEF Materialize
    <3>2. kno \in KnowledgeRecords
      BY <1>1, WorkingIn
    <3>3. kno' = [kno EXCEPT !.left = @ \ {i}]
      BY <3>1, <3>2 DEF KnowledgeRecords
    <3> QED
      BY <3>3
  <2> QED
    BY <2>1, <2>2
<1> HIDE DEF k
<1> QED
  BY <1>1, <1>2, <1>3, OutcomeKeepsInv

LEMMA MaterializeRaisesKeepsInv ==
    ASSUME Inv, NEW i \in Items, MaterializeRaises(i)
    PROVE  Inv'
<1> DEFINE s == AfterFailure(tx.tries[i])
<1>1. PICK k \in {"none", "partial"} : tx' = [tx EXCEPT !.item[i] = s, !.known[i] = k]
  BY DEF MaterializeRaises
<1>2. /\ kno.phase = "working" /\ i \in kno.left /\ tx.known[i] = "none"
      /\ kno' = [kno EXCEPT !.left = @ \ {i}]
      /\ UNCHANGED <<db, ing, api, crashes, published>>
  BY DEF MaterializeRaises
<1>3. s \in {"PENDING", "COMPLETED", "FAILED"} /\ s # "COMPLETED" /\ k \in {"none", "partial", "full"}
  BY DEF AfterFailure
<1> HIDE DEF s
<1> QED
  BY <1>1, <1>2, <1>3, OutcomeKeepsInv

\* A run that is closed has no pending item, and all it asks for is accounted for.
LEMMA FinalStatusOf ==
    ASSUME NEW rows \in Databases, NEW r \in Runs
    PROVE  /\ FinalStatus(rows, r) \in {"PROCESSING", "FAILED", "COMPLETED"}
           /\ FinalStatus(rows, r) # "PROCESSING" =>
                 /\ \A i \in Own(rows, r) : rows.item[i] # "PENDING"
                 /\ ~ (Cardinality(Own(rows, r)) + rows.duplicates[r] < Len(Request[r]))
<1> DEFINE pending == {i \in Own(rows, r) : rows.item[i] = "PENDING"}
           failed == {i \in Own(rows, r) : rows.item[i] = "FAILED"}
           short == Cardinality(Own(rows, r)) + rows.duplicates[r] < Len(Request[r])
<1>1. FinalStatus(rows, r) = IF short \/ pending # {} THEN "PROCESSING"
                             ELSE IF failed # {} THEN "FAILED" ELSE "COMPLETED"
  BY DEF FinalStatus, Own
<1>2. pending = {} => \A i \in Own(rows, r) : rows.item[i] # "PENDING"
  OBVIOUS
<1> HIDE DEF pending, failed, short
<1>3. /\ FinalStatus(rows, r) \in {"PROCESSING", "FAILED", "COMPLETED"}
      /\ FinalStatus(rows, r) # "PROCESSING" => ~ short /\ pending = {}
  BY <1>1
<1> QED
  BY <1>2, <1>3 DEF short

\* The transaction of the knowledge worker ends.
LEMMA WorkingEnds ==
    ASSUME Inv, kno.phase = "working", UNCHANGED <<ing, api, published>>, crashes' \in 0..MaxCrashes,
           tx' = None, db' \in Databases, Sound(db'), Ahead(db, db'),
           kno' \in KnowledgeRecords, kno'.phase # "working",
           kno'.phase = "publishing" => \A k \in DOMAIN kno'.out : db'.known[kno'.out[k][2]] = "full"
    PROVE  Inv'
<1>1. ing.phase # "staging" /\ \A r \in Runs : ~ Staging(r)
  BY WorkingIn
<1>2. ProcessTypeOK'
  BY DEF Inv, ProcessTypeOK, KnowledgeRecords
<1>3. OneWriter'
  BY <1>1 DEF OneWriter, Staging
<1>4. Images' /\ InStaging' /\ InWorking'
  BY <1>1 DEF Images, InStaging, InWorking
<1>5. Outboxes'
  BY DEF Inv, Outboxes
<1> QED
  BY <1>2, <1>3, <1>4, <1>5 DEF Inv

\* The knowledge worker works outside of any transaction.
LEMMA KnowledgeRests ==
    ASSUME Inv, kno.phase # "working", UNCHANGED <<db, tx, ing, api>>, crashes' \in 0..MaxCrashes,
           published' \subseteq Topics, kno' \in KnowledgeRecords, kno'.phase # "working",
           kno'.phase = "publishing" => \A k \in DOMAIN kno'.out : db.known[kno'.out[k][2]] = "full"
    PROVE  Inv'
<1>1. ProcessTypeOK'
  BY DEF Inv, ProcessTypeOK, KnowledgeRecords
<1>2. OneWriter'
  BY DEF Inv, OneWriter, Staging
<1>3. Images' /\ InStaging' /\ InWorking'
  BY StagingFrame DEF Inv, Images, InWorking
<1>4. Outboxes'
  BY DEF Inv, Outboxes
<1> QED
  BY <1>1, <1>2, <1>3, <1>4 DEF Inv

\* The worker rests, is dead or has something to publish.
LEMMA KnowledgeRecordsOf ==
    /\ KnowledgeIdle \in KnowledgeRecords /\ KnowledgeIdle.phase = "idle"
    /\ \A y \in KnowledgeRecords :
          LET x == [y EXCEPT !.phase = "dead"]
          IN  x \in KnowledgeRecords /\ x.phase = "dead"
    /\ \A y \in KnowledgeRecords : \A o \in Seq(Topics) :
          LET x == [y EXCEPT !.phase = "publishing", !.out = o]
          IN  x \in KnowledgeRecords /\ x.phase = "publishing" /\ x.out = o
<1>1. <<>> \in Seq(Topics)
  OBVIOUS
<1>2. ASSUME NEW o \in Seq(Topics), NEW S \in SUBSET Items, NEW T \in SUBSET Runs
      PROVE  [phase |-> "idle", left |-> S, touched |-> T, out |-> o] \in KnowledgeRecords
  BY DEF KnowledgeRecords
<1>3. KnowledgeIdle \in KnowledgeRecords
  <2>1. {} \in SUBSET Items /\ {} \in SUBSET Runs
    OBVIOUS
  <2> QED
    BY <1>1, <1>2, <2>1, Zenon DEF KnowledgeIdle
<1>4. KnowledgeIdle.phase = "idle"
  BY DEF KnowledgeIdle
<1>5. ASSUME NEW y \in KnowledgeRecords
      PROVE  LET x == [y EXCEPT !.phase = "dead"]
             IN  x \in KnowledgeRecords /\ x.phase = "dead"
  BY DEF KnowledgeRecords
<1>6. ASSUME NEW y \in KnowledgeRecords, NEW o \in Seq(Topics)
      PROVE  LET x == [y EXCEPT !.phase = "publishing", !.out = o]
             IN  x \in KnowledgeRecords /\ x.phase = "publishing" /\ x.out = o
  BY DEF KnowledgeRecords
<1> QED
  BY <1>3, <1>4, <1>5, <1>6

LEMMA CommitKnowledgeKeepsInv ==
    ASSUME Inv, CommitKnowledge
    PROVE  /\ Inv' /\ Ahead(db, db') /\ db'.item = tx.item
           /\ \A r \in Runs : db'.status[r] = IF r \in kno.touched THEN FinalStatus(tx, r) ELSE db.status[r]
<1> DEFINE f == [r \in Runs |-> IF r \in kno.touched THEN FinalStatus(tx, r) ELSE tx.status[r]]
<1>1. /\ kno.phase = "working" /\ db' = [tx EXCEPT !.status = f] /\ tx' = None
      /\ kno' = [KnowledgeIdle EXCEPT !.phase = "publishing", !.out = kno.out]
      /\ UNCHANGED <<ing, api, published, crashes>>
  BY DEF CommitKnowledge
<1>2. /\ tx \in Databases /\ kno \in KnowledgeRecords /\ Sound(tx) /\ Ahead(db, tx)
      /\ tx.status = db.status /\ \A k \in DOMAIN kno.out : tx.known[kno.out[k][2]] = "full"
  BY <1>1, WorkingIn
<1>3. f \in [Runs -> RunStates]
  BY <1>2, FinalStatusOf, Fields DEF RunStates
<1>4. \A r \in Runs : f[r] = IF r \in kno.touched THEN FinalStatus(tx, r) ELSE tx.status[r]
  OBVIOUS
<1> HIDE DEF f
<1>5. /\ db' \in Databases /\ db'.status = f /\ db'.order = tx.order /\ db'.asked = tx.asked
      /\ db'.owner = tx.owner /\ db'.duplicates = tx.duplicates
      /\ db'.item = tx.item /\ db'.tries = tx.tries /\ db'.known = tx.known
  BY <1>1, <1>2, <1>3, StatusFields
<1>6. Listed(db')
  <2>1. \A r \in kno.touched : tx.status[r] # None
    BY <1>1, <1>2, NoneAssumption DEF Inv, InWorking
  <2> QED
    BY <1>2, <1>4, <1>5, <2>1 DEF Sound, Listed
<1>7. Sound(db')
  <2>1. ASSUME NEW r \in Runs, db'.status[r] = "COMPLETED"
        PROVE  \/ tx.status[r] = "COMPLETED" /\ db'.duplicates[r] = tx.duplicates[r]
               \/ \A i \in Own(tx, r) : tx.item[i] # "PENDING"
    <3>1. CASE r \in kno.touched
      BY <1>2, <1>4, <1>5, <2>1, <3>1, FinalStatusOf
    <3>2. CASE r \notin kno.touched
      BY <1>4, <1>5, <2>1, <3>2
    <3> QED
      BY <3>1, <3>2
  <2> QED
    BY <1>2, <1>5, <1>6, <2>1, StatusSound
<1>8. Ahead(db, db')
  <2>1. db \in Databases
    BY DEF Inv, ProcessTypeOK
  <2> QED
    BY <1>2, <1>5, <2>1, StatusAhead
<1>9. kno' \in KnowledgeRecords /\ kno'.phase = "publishing" /\ kno'.out = kno.out
  <2>1. kno.out \in Seq(Topics)
    BY <1>2 DEF KnowledgeRecords
  <2> QED
    BY <1>1, <2>1, KnowledgeRecordsOf
<1>10. crashes' \in 0..MaxCrashes
  BY <1>1 DEF Inv, ProcessTypeOK
<1> QED
  BY <1>1, <1>2, <1>4, <1>5, <1>7, <1>8, <1>9, <1>10, WorkingEnds

LEMMA PublishKnowledgeKeepsInv ==
    ASSUME Inv, PublishKnowledge
    PROVE  Inv'
<1>1. /\ kno.phase = "publishing" /\ UNCHANGED <<db, tx, ing, api, crashes>>
      /\ kno \in KnowledgeRecords /\ crashes \in 0..MaxCrashes /\ published \subseteq Topics
  BY DEF PublishKnowledge, Inv, ProcessTypeOK, KnowledgeRecords
<1>2. CASE kno.out = <<>>
  <2>1. kno' = KnowledgeIdle /\ published' = published
    BY <1>2 DEF PublishKnowledge
  <2> QED
    BY <1>1, <2>1, KnowledgeRecordsOf, KnowledgeRests
<1>3. CASE kno.out # <<>>
  <2>1. kno.out \in Seq(Topics)
    BY <1>1 DEF KnowledgeRecords
  <2> DEFINE o == Tail(kno.out)
  <2>2. kno' = [kno EXCEPT !.out = o] /\ published' = published \cup {Head(kno.out)}
    BY <1>3 DEF PublishKnowledge
  <2>3. o \in Seq(Topics) /\ Head(kno.out) \in Topics
    BY <1>3, <2>1, TailOut
  <2>4. \A k \in DOMAIN o : db.known[o[k][2]] = "full"
    BY <1>1, <1>3, <2>1, TailOut DEF Inv, Outboxes
  <2> HIDE DEF o
  <2>5. kno' \in KnowledgeRecords /\ kno'.phase = "publishing" /\ kno'.out = o
    BY <1>1, <2>2, <2>3 DEF KnowledgeRecords
  <2> QED
    BY <1>1, <2>2, <2>3, <2>4, <2>5, KnowledgeRests
<1> QED
  BY <1>2, <1>3

LEMMA CrashKnowledgeKeepsInv ==
    ASSUME Inv, CrashKnowledge
    PROVE  Inv'
<1>1. /\ kno' = [KnowledgeIdle EXCEPT !.phase = "dead"] /\ crashes' \in 0..MaxCrashes
      /\ UNCHANGED <<db, ing, api, published>> /\ published \subseteq Topics
  BY LimitsAssumption DEF CrashKnowledge, Inv, ProcessTypeOK
<1>2. kno' \in KnowledgeRecords /\ kno'.phase = "dead"
  BY <1>1, KnowledgeRecordsOf
<1>3. CASE kno.phase = "working"
  <2>1. tx' = None /\ db \in Databases /\ Sound(db) /\ Ahead(db, db')
    BY <1>1, <1>3 DEF CrashKnowledge, Inv, ProcessTypeOK, Images, Ahead
  <2> QED
    BY <1>1, <1>2, <1>3, <2>1, WorkingEnds
<1>4. CASE kno.phase # "working"
  <2>1. tx' = tx
    BY <1>4 DEF CrashKnowledge
  <2> QED
    BY <1>1, <1>2, <1>4, <2>1, KnowledgeRests
<1> QED
  BY <1>3, <1>4

LEMMA RestartKnowledgeKeepsInv ==
    ASSUME Inv, RestartKnowledge
    PROVE  Inv'
<1>1. /\ kno.phase = "dead" /\ kno' = KnowledgeIdle /\ UNCHANGED <<db, tx, ing, api, published, crashes>>
      /\ crashes \in 0..MaxCrashes /\ published \subseteq Topics
  BY DEF RestartKnowledge, Inv, ProcessTypeOK
<1> QED
  BY <1>1, KnowledgeRecordsOf, KnowledgeRests

-----------------------------------------------------------------------------
(* Every step keeps Inv.                                                   *)

LEMMA InitInv ==
    ASSUME Init
    PROVE  Inv
<1>1. PICK request \in Requests : db = EmptyDb(request)
  BY DEF Init
<1>2. /\ tx = None /\ ing = IngestIdle /\ kno = KnowledgeIdle /\ api = [r \in Runs |-> NewRequest]
      /\ published = {} /\ crashes = 0
  BY DEF Init
<1>3. /\ db.order = <<>> /\ db.asked = request /\ db.status = [r \in Runs |-> None]
      /\ db.attempts = [r \in Runs |-> 0] /\ db.duplicates = [r \in Runs |-> 0]
      /\ db.owner = [i \in Items |-> None] /\ db.item = [i \in Items |-> "PENDING"]
      /\ db.tries = [i \in Items |-> 0] /\ db.known = [i \in Items |-> "none"]
  BY <1>1 DEF EmptyDb
<1>4. db \in Databases
  <2>1. ASSUME NEW o \in Seq(Runs), NEW q \in Requests, NEW st \in [Runs -> RunStates],
               NEW at \in [Runs -> Nat], NEW du \in [Runs -> Nat], NEW ow \in [Items -> Runs \cup {None}],
               NEW it \in [Items -> {"PENDING", "COMPLETED", "FAILED"}], NEW tr \in [Items -> Nat],
               NEW kn \in [Items -> {"none", "partial", "full"}]
        PROVE  [order |-> o, asked |-> q, status |-> st, attempts |-> at, duplicates |-> du,
                owner |-> ow, item |-> it, tries |-> tr, known |-> kn] \in Databases
    BY DEF Databases
  <2>2. /\ <<>> \in Seq(Runs)
        /\ [r \in Runs |-> None] \in [Runs -> RunStates] /\ [r \in Runs |-> 0] \in [Runs -> Nat]
        /\ [i \in Items |-> None] \in [Items -> Runs \cup {None}]
        /\ [i \in Items |-> "PENDING"] \in [Items -> {"PENDING", "COMPLETED", "FAILED"}]
        /\ [i \in Items |-> 0] \in [Items -> Nat]
        /\ [i \in Items |-> "none"] \in [Items -> {"none", "partial", "full"}]
    BY DEF RunStates
  <2> QED
    BY <1>1, <2>1, <2>2, Zenon DEF EmptyDb
<1>5. Sound(db)
  <2>1. Listed(db) /\ Tried(db) /\ Early(db)
    BY <1>3, NoneAssumption DEF Listed, Tried, Early
  <2>2. {i \in Items : db.owner[i] # None} = {}
    BY <1>3
  <2>3. Fresh(db)
    BY <1>3, <2>2, FS_EmptySet DEF Fresh
  <2> QED
    BY <2>1, <2>3 DEF Sound
<1>6. /\ ing \in IngestRecords /\ ing.phase = "idle" /\ DOMAIN ing.out = {}
      /\ kno \in KnowledgeRecords /\ kno.phase = "idle"
  BY <1>2, IngestRecordsOf, KnowledgeRecordsOf
<1>7. NewRequest \in ApiRecords /\ NewRequest.phase = "new"
  <2>1. 1 \in Nat \ {0} /\ <<>> \in Seq(Topics)
    OBVIOUS
  <2> QED
    BY <2>1 DEF NewRequest, ApiRecords
<1>8. api \in [Runs -> ApiRecords] /\ \A r \in Runs : ~ Staging(r)
  BY <1>2, <1>7 DEF Staging
<1>9. ProcessTypeOK
  BY <1>2, <1>4, <1>6, <1>8, LimitsAssumption DEF ProcessTypeOK, IngestRecords, KnowledgeRecords, ApiRecords
<1> QED
  BY <1>2, <1>5, <1>6, <1>8, <1>9 DEF Inv, OneWriter, Images, InStaging, InWorking, Outboxes

\* Events that come, or find nothing, touch neither rows nor processes.
LEMMA EventsAlone ==
    ASSUME ClaimNothing \/ OtherEvent \/ UNCHANGED vars
    PROVE  UNCHANGED <<db, tx, ing, kno, api, published, crashes>>
BY DEF ClaimNothing, OtherEvent, vars

LEMMA NextInv ==
    ASSUME Inv, [Next]_vars
    PROVE  Inv'
<1>1. ASSUME NEW r \in Runs, CreateQueued(r) PROVE Inv'
  BY <1>1, CreateQueuedKeepsInv
<1>2. ASSUME NEW r \in Runs, InlineStep(r) PROVE Inv'
  BY <1>2, BeginInlineKeepsInv, InlineNewItemKeepsInv, InlineDuplicateKeepsInv, InlineRaisesKeepsInv,
     CommitInlineKeepsInv, PublishInlineKeepsInv DEF InlineStep
<1>3. ASSUME IngestStep PROVE Inv'
  BY <1>3, StageNewItemKeepsInv, StageDuplicateKeepsInv, StageRaisesKeepsInv, StageDoneKeepsInv,
     StageAbortsKeepsInv, CommitStagedKeepsInv, PublishStagedKeepsInv, RestartIngestKeepsInv DEF IngestStep
<1>4. ASSUME KnowledgeStep, ~ ClaimNothing PROVE Inv'
  BY <1>4, MaterializeKeepsInv, MaterializeRaisesKeepsInv, CommitKnowledgeKeepsInv,
     PublishKnowledgeKeepsInv, RestartKnowledgeKeepsInv DEF KnowledgeStep
<1>5. CASE ClaimRuns \/ CrashIngest \/ ClaimItems \/ CrashKnowledge
  BY <1>5, ClaimRunsKeepsInv, CrashIngestKeepsInv, ClaimItemsKeepsInv, CrashKnowledgeKeepsInv
<1>6. CASE ClaimNothing \/ OtherEvent \/ UNCHANGED vars
  <2>1. UNCHANGED <<db, tx, ing, kno, api, published, crashes>>
    BY <1>6, EventsAlone
  <2>2. ProcessTypeOK' /\ OneWriter' /\ Images'
    BY <2>1 DEF Inv, ProcessTypeOK, OneWriter, Staging, Images
  <2>3. Ahead(db, db')
    BY <2>1 DEF Ahead
  <2> QED
    BY <2>1, <2>2, <2>3, StagingFrame, WorkingFrame, OutboxFrame DEF Inv
<1> QED
  BY <1>1, <1>2, <1>3, <1>4, <1>5, <1>6 DEF Next

\* The inductive invariant holds in every reachable state.
THEOREM Invariance == Spec => []Inv
<1>1. Init => Inv
  BY InitInv
<1>2. Inv /\ [Next]_vars => Inv'
  BY NextInv
<1> QED
  BY <1>1, <1>2, PTL DEF Spec

-----------------------------------------------------------------------------
(* The properties.                                                         *)

\* Every variable has its type: in particular the rows under way are rows,
\* and the workers only ever turn to runs and items that exist.
THEOREM TypeCorrect == Spec => []TypeOK
<1> DEFINE WakeType == wake \in BOOLEAN
<1>1. Init => WakeType
  BY DEF Init
<1>2. WakeType /\ [Next]_vars => WakeType'
  <2> SUFFICES ASSUME wake \in BOOLEAN, [Next]_vars PROVE wake' \in BOOLEAN
    OBVIOUS
  <2>1. ASSUME NEW r \in Runs, PublishInline(r) PROVE wake' \in BOOLEAN
    BY <2>1 DEF PublishInline
  <2>2. ASSUME NEW r \in Runs, CreateQueued(r) \/ InlineStep(r), ~ PublishInline(r) PROVE wake' = wake
    BY <2>2 DEF CreateQueued, InlineStep, BeginInline, InlineNewItem, InlineDuplicate, InlineRaises, CommitInline
  <2>3. ASSUME IngestStep \/ ClaimRuns \/ CrashIngest PROVE wake' \in BOOLEAN
    BY <2>3 DEF IngestStep, ClaimRuns, CrashIngest, StageNewItem, StageDuplicate, StageRaises, StageDone,
                StageAborts, CommitStaged, PublishStaged, RestartIngest
  <2>4. ASSUME KnowledgeStep \/ ClaimItems \/ CrashKnowledge \/ OtherEvent PROVE wake' \in BOOLEAN
    BY <2>4 DEF KnowledgeStep, ClaimItems, ClaimNothing, CrashKnowledge, OtherEvent, Materialize,
                MaterializeRaises, CommitKnowledge, PublishKnowledge, RestartKnowledge
  <2> QED
    BY <2>1, <2>2, <2>3, <2>4 DEF Next, vars
<1>3. Inv /\ WakeType => TypeOK
  BY DEF Inv, TypeOK
<1> HIDE DEF WakeType
<1> QED
  BY <1>1, <1>2, <1>3, Invariance, PTL DEF Spec

\* For any number of runs and items, any requests and any deaths of the workers:
\* a queued run that answers as COMPLETED with items still to be extracted has
\* counted its own items as duplicates.
THEOREM EarlyCloses == Spec => []EarlyCloseIsARestaging
<1>1. Inv => EarlyCloseIsARestaging
  <2> SUFFICES ASSUME Inv, NEW r \in Runs \ InlineRuns, db.status[r] = "COMPLETED",
                      NEW i \in ItemsOf(r), db.item[i] = "PENDING"
               PROVE  Cardinality(ItemsOf(r)) + db.duplicates[r] > Len(Request[r])
    BY DEF EarlyCloseIsARestaging
  <2>1. ItemsOf(r) = Own(db, r)
    BY DEF ItemsOf, Own
  <2>2. Early(db)
    BY DEF Inv, Images, Sound
  <2> QED
    BY <2>1, <2>2 DEF Early, Request
<1> QED
  BY <1>1, Invariance, PTL

\* An item is COMPLETED without its claims only after a second try.
THEOREM UnextractedIsRetried == Spec => []UnextractedIsARetry
<1>1. Inv => UnextractedIsARetry
  BY DEF Inv, Images, Sound, Tried, UnextractedIsARetry
<1> QED
  BY <1>1, Invariance, PTL

\* The steps that write the database.
LEMMA CommitsAdvance ==
    ASSUME Inv, [Next]_vars
    PROVE  db' = db \/ Ahead(db, db')
<1>1. ASSUME NEW r \in Runs, CreateQueued(r) \/ InlineStep(r) PROVE db' = db \/ Ahead(db, db')
  <2>1. CASE CreateQueued(r)
    BY <2>1, CreateQueuedKeepsInv
  <2>2. CASE CommitInline(r)
    BY <2>2, CommitInlineKeepsInv
  <2>3. CASE BeginInline(r) \/ InlineNewItem(r) \/ InlineDuplicate(r) \/ InlineRaises(r) \/ PublishInline(r)
    BY <2>3 DEF BeginInline, InlineNewItem, InlineDuplicate, InlineRaises, PublishInline
  <2> QED
    BY <1>1, <2>1, <2>2, <2>3 DEF InlineStep
<1>2. CASE IngestStep \/ ClaimRuns \/ CrashIngest
  <2>1. CASE CommitStaged
    BY <2>1, CommitStagedKeepsInv
  <2>2. CASE ~ CommitStaged
    BY <1>2, <2>2 DEF IngestStep, ClaimRuns, CrashIngest, StageNewItem, StageDuplicate, StageRaises, StageDone,
                      StageAborts, PublishStaged, RestartIngest
  <2> QED
    BY <2>1, <2>2
<1>3. CASE KnowledgeStep \/ ClaimItems \/ CrashKnowledge
  <2>1. CASE CommitKnowledge
    BY <2>1, CommitKnowledgeKeepsInv
  <2>2. CASE ~ CommitKnowledge
    BY <1>3, <2>2, EventsAlone DEF KnowledgeStep, ClaimItems, CrashKnowledge, Materialize, MaterializeRaises,
                                   PublishKnowledge, RestartKnowledge
  <2> QED
    BY <2>1, <2>2
<1>4. CASE OtherEvent \/ UNCHANGED vars
  BY <1>4, EventsAlone
<1> QED
  BY <1>1, <1>2, <1>3, <1>4 DEF Next

\* No commit takes back what an earlier one has written of an item, whatever
\* was rolled back, lost with a worker or staged again in between.
THEOREM Advance == Spec => RowsOnlyAdvance
<1> DEFINE A == \A i \in Items :
                   /\ db.owner[i] # None => db'.owner[i] = db.owner[i]
                   /\ db.item[i] # "PENDING" => db'.item[i] = db.item[i]
                   /\ db.known[i] # "none" => db'.known[i] = db.known[i]
<1>1. Inv /\ [Next]_vars => [A]_vars
  <2> SUFFICES ASSUME Inv, [Next]_vars PROVE A
    OBVIOUS
  <2> QED
    BY CommitsAdvance DEF Ahead
<1> QED
  BY <1>1, Invariance, PTL DEF Spec, RowsOnlyAdvance

\* What the knowledge worker announces is committed, and stays so.
THEOREM AnnouncedIsCommitted == Spec => AnnouncedKnowledgeIsCommitted
<1> DEFINE A == \A i \in Items : Knowledge(i) \in published' \ published /\ UNCHANGED api
                                   => db'.known[i] = "full"
<1>1. Inv /\ [Next]_vars => [A]_vars
  <2> SUFFICES ASSUME Inv, [Next]_vars, NEW i \in Items, Knowledge(i) \in published', Knowledge(i) \notin published,
                      UNCHANGED api
               PROVE  db'.known[i] = "full"
    OBVIOUS
  <2>1. ASSUME NEW r \in Runs, CreateQueued(r) \/ InlineStep(r) PROVE FALSE
    <3>1. ~ PublishInline(r)
      <4>1. SUFFICES ASSUME PublishInline(r) PROVE FALSE
        OBVIOUS
      <4>2. api[r].phase = "publishing"
        BY <4>1 DEF PublishInline
      <4>3. \E s \in {"answered", "failed"} : api'[r] = [NewRequest EXCEPT !.phase = s]
        BY <4>1 DEF PublishInline, Inv, ProcessTypeOK
      <4>4. \A s \in {"answered", "failed"} : [NewRequest EXCEPT !.phase = s].phase = s
        BY DEF NewRequest
      <4> QED
        BY <4>2, <4>3, <4>4
    <3> QED
      BY <2>1, <3>1 DEF InlineStep, CreateQueued, BeginInline, InlineNewItem, InlineDuplicate,
                        InlineRaises, CommitInline
  <2>2. ASSUME PublishStaged PROVE FALSE
    <3>1. ing.out # <<>> /\ Knowledge(i) = Head(ing.out)
      BY <2>2 DEF PublishStaged
    <3>2. ing.out \in Seq(Topics)
      BY DEF Inv, ProcessTypeOK
    <3>3. Head(ing.out)[1] = "raw.ingested"
      BY <3>1, <3>2, TailOut DEF Inv, Outboxes
    <3> QED
      BY <3>1, <3>3 DEF Knowledge
  <2>3. CASE PublishKnowledge
    <3>1. kno.phase = "publishing" /\ kno.out # <<>> /\ Knowledge(i) = Head(kno.out) /\ db' = db
      BY <2>3 DEF PublishKnowledge
    <3>2. kno.out \in Seq(Topics)
      BY DEF Inv, ProcessTypeOK
    <3>3. db.known[Head(kno.out)[2]] = "full"
      BY <3>1, <3>2, TailOut DEF Inv, Outboxes
    <3> QED
      BY <3>1, <3>3 DEF Knowledge
  <2>4. ASSUME ~ PublishStaged, ~ PublishKnowledge,
               \/ IngestStep \/ ClaimRuns \/ CrashIngest \/ KnowledgeStep \/ ClaimItems \/ CrashKnowledge
               \/ OtherEvent \/ UNCHANGED vars
        PROVE  FALSE
    BY <2>4, EventsAlone DEF IngestStep, ClaimRuns, CrashIngest, StageNewItem, StageDuplicate, StageRaises, StageDone,
                StageAborts, CommitStaged, RestartIngest, Turn, KnowledgeStep, ClaimItems, CrashKnowledge,
                Materialize, MaterializeRaises, CommitKnowledge, RestartKnowledge, vars
  <2> QED
    BY <2>1, <2>2, <2>3, <2>4 DEF Next
<1> QED
  BY <1>1, Invariance, PTL DEF Spec, AnnouncedKnowledgeIsCommitted

\* The knowledge worker closes a run only when all that it asks for has a row
\* or was counted as a duplicate, and no row of it is pending.
THEOREM ClosesFinished == Spec => KnowledgeClosesFinishedRuns
<1> DEFINE A == \A r \in Runs :
                   kno.phase = "working" /\ db'.status[r] # db.status[r] /\ db'.status[r] # "PROCESSING"
                       => /\ \A i \in ItemsOf(r) : db'.item[i] # "PENDING"
                          /\ Cardinality(ItemsOf(r)) + db.duplicates[r] >= Len(Request[r])
<1>1. Inv /\ [Next]_vars => [A]_vars
  <2> SUFFICES ASSUME Inv, [Next]_vars, NEW r \in Runs, kno.phase = "working",
                      db'.status[r] # db.status[r], db'.status[r] # "PROCESSING"
               PROVE  /\ \A i \in ItemsOf(r) : db'.item[i] # "PENDING"
                      /\ Cardinality(ItemsOf(r)) + db.duplicates[r] >= Len(Request[r])
    OBVIOUS
  <2>1. tx # None /\ ing.phase # "staging" /\ \A q \in Runs : ~ Staging(q)
    BY WorkingIn
  <2>2. CommitKnowledge
    <3>1. ASSUME NEW q \in Runs, CreateQueued(q) \/ InlineStep(q) PROVE db' = db
      BY <2>1, <3>1 DEF CreateQueued, InlineStep, BeginInline, InlineNewItem, InlineDuplicate, InlineRaises,
                        CommitInline, PublishInline, Staging
    <3>2. ASSUME IngestStep \/ ClaimRuns \/ CrashIngest PROVE db' = db
      BY <2>1, <3>2 DEF IngestStep, ClaimRuns, CrashIngest, StageNewItem, StageDuplicate, StageRaises, StageDone,
                        StageAborts, CommitStaged, PublishStaged, RestartIngest
    <3>3. ASSUME ~ CommitKnowledge, KnowledgeStep \/ ClaimItems \/ CrashKnowledge \/ OtherEvent \/ UNCHANGED vars
          PROVE  db' = db
      BY <3>3, EventsAlone DEF KnowledgeStep, ClaimItems, CrashKnowledge, Materialize, MaterializeRaises,
                  PublishKnowledge, RestartKnowledge, vars
    <3> QED
      BY <3>1, <3>2, <3>3 DEF Next
  <2>3. db'.item = tx.item /\ db'.status[r] = FinalStatus(tx, r)
    BY <2>2, CommitKnowledgeKeepsInv
  <2>4. /\ tx \in Databases /\ Fresh(tx) /\ tx.owner = db.owner /\ tx.duplicates = db.duplicates
        /\ tx.asked = db.asked
    BY WorkingIn DEF Sound, Ahead
  <2>5. ItemsOf(r) = Own(tx, r)
    BY <2>4 DEF ItemsOf, Own
  <2>6. /\ \A i \in Own(tx, r) : tx.item[i] # "PENDING"
        /\ ~ (Cardinality(Own(tx, r)) + tx.duplicates[r] < Len(Request[r]))
    BY <2>3, <2>4, FinalStatusOf
  <2>7. /\ Cardinality(Own(tx, r)) \in Nat /\ tx.duplicates[r] \in Nat /\ Len(tx.asked[r]) \in Nat
        /\ tx.asked[r] = Request[r]
    BY <2>4, Counts DEF Request
  <2> QED
    BY <2>3, <2>4, <2>5, <2>6, <2>7
<1> QED
  BY <1>1, Invariance, PTL DEF Spec, KnowledgeClosesFinishedRuns

=============================================================================
