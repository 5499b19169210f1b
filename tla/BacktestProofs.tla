----------------------------- MODULE BacktestProofs -----------------------------
(***************************************************************************)
(* The two places of a verdict, for any numbers of calibration workers,    *)
(* requests and versions.  The invariant is inductive because a row is     *)
(* written by one transaction at a time (Reserved), and because what is    *)
(* written belongs to a version that was made before (Known, Numbered).    *)
(***************************************************************************)
EXTENDS Backtest, FiniteSetTheorems, WellFoundedInduction, TLAPS

\* Versions are numbered as they are made.
Numbered == \E n \in 0..MaxVersions : Made = 1..n

\* Only versions that were made have a status, a verdict in a round or a request.
Known ==
    /\ \A v \in Versions : status[v] # "none" => v \in Made
    /\ \A w \in Workers, v \in Versions : plan[w][v] # None => v \in Made
    /\ \A w \in Workers : pc[w] \in {"check", "flush"} => todo[w] \subseteq Made
    /\ \A q \in Users : pc[q] \in {"read", "write"} => copy[q].version \in Made

\* A version a worker has written has no record yet, and no other worker has.
Reserved ==
    /\ \A w \in Workers : \A v \in flushed[w] : record[v] = None /\ plan[w][v] # None
    /\ \A w, x \in Workers : w # x => flushed[w] \cap flushed[x] = {}

Inv == TypeOK /\ Numbered /\ Known /\ Reserved

--------------------------------------------------------------------------------
\* A set of numbers has a least element, and Min is it.
LEMMA MinOfNumbers ==
    ASSUME NEW S \in SUBSET Nat, S # {}
    PROVE  Min(S) \in S /\ \A n \in S : Min(S) <= n
<1>1. \E m \in S : \A n \in S : ~ (<<n, m>> \in OpToRel(<, Nat))
  BY NatLessThanWellFounded, WFMin, Zenon
<1>2. PICK m \in S : \A n \in S : ~ (n < m)
  BY <1>1 DEF OpToRel
<1>3. \A n \in S : m <= n
  BY <1>2
<1> QED
  BY <1>3 DEF Min

\* The sets the types mention do not overlap.
LEMMA Distinct ==
  /\ Workers \cap Users = {}
  /\ None \notin Verdicts /\ None # "PENDING"
  /\ MaxVersions \in Nat \ {0} /\ MaxTurns \in Nat /\ Verifies \in Nat
  /\ IsFiniteSet(Workers)
BY ActorsAssumption, NoneAssumption, BoundsAssumption

\* A set of versions is finite.
LEMMA FiniteVersions ==
  \A S \in SUBSET Versions : IsFiniteSet(S) /\ Cardinality(S) \in Nat
<1>1. IsFiniteSet(Versions)
  BY FS_Interval, Distinct DEF Versions
<1> QED
  BY <1>1, FS_Subset, FS_CardinalityType

\* A finite set of numbers has an upper bound: of the sets that have none, a
\* smallest one would get one with one element less.
LEMMA UpperBound ==
    ASSUME NEW S \in SUBSET Nat, IsFiniteSet(S)
    PROVE  \E b \in Nat : \A n \in S : n <= b
<1> DEFINE Bounded(T) == \E b \in Nat : \A n \in T : n <= b
           B == {k \in Nat : \E T \in SUBSET S : ~Bounded(T) /\ Cardinality(T) = k}
<1>1. ASSUME B # {} PROVE FALSE
  <2>1. Min(B) \in B /\ \A k \in B : Min(B) <= k
    BY <1>1, MinOfNumbers
  <2>2. PICK T \in SUBSET S : ~Bounded(T) /\ Cardinality(T) = Min(B)
    BY <2>1
  <2>3. T # {}
    BY <2>2
  <2>4. PICK x : x \in T
    BY <2>3
  <2> DEFINE R == T \ {x}
  <2>5. IsFiniteSet(T) /\ Cardinality(T) \in Nat
    BY FS_Subset, FS_CardinalityType
  <2>6. IsFiniteSet(R) /\ Cardinality(R) = Cardinality(T) - 1 /\ Cardinality(R) \in Nat
    BY <2>4, <2>5, FS_RemoveElement, FS_CardinalityType
  <2>7. R \in SUBSET S
    OBVIOUS
  <2> HIDE DEF R
  <2>8. Bounded(R)
    <3> SUFFICES ASSUME ~Bounded(R) PROVE FALSE
      OBVIOUS
    <3>1. Cardinality(R) \in B
      BY <2>6, <2>7
    <3>2. Min(B) <= Cardinality(R)
      BY <2>1, <3>1
    <3> HIDE DEF B
    <3> QED
      BY <2>2, <2>5, <2>6, <3>2
  <2>9. PICK b \in Nat : \A n \in R : n <= b
    BY <2>8
  <2>10. x \in Nat
    BY <2>4
  <2>11. \A n \in T : n <= b + x
    <3> SUFFICES ASSUME NEW n \in T PROVE n <= b + x
      OBVIOUS
    <3>1. n = x \/ n <= b
      BY <2>9 DEF R
    <3> QED
      BY <2>10, <3>1
  <2> QED
    BY <2>2, <2>10, <2>11
<1>2. Cardinality(S) \in Nat
  BY FS_CardinalityType
<1> QED
  BY <1>1, <1>2

\* It has a greatest element when it has any, and Max is one.
LEMMA MaxOfNumbers ==
    ASSUME NEW S \in SUBSET Nat, IsFiniteSet(S), S # {}
    PROVE  Max(S) \in S
<1> DEFINE B == {b \in Nat : \A n \in S : n <= b}
<1>1. B \in SUBSET Nat /\ B # {}
  BY UpperBound
<1>2. Min(B) \in B /\ \A b \in B : Min(B) <= b
  BY <1>1, MinOfNumbers
<1> DEFINE m == Min(B)
<1>3. m \in Nat /\ \A n \in S : n <= m
  BY <1>2
<1>4. \A b \in Nat : (\A n \in S : n <= b) => m <= b
  BY <1>2
<1> HIDE DEF m, B
<1>5. m \in S
  <2> SUFFICES ASSUME m \notin S PROVE FALSE
    OBVIOUS
  <2>1. PICK n \in S : TRUE
    OBVIOUS
  <2>2. n \in Nat /\ n <= m /\ n # m
    BY <1>3
  <2>3. m - 1 \in Nat /\ \A k \in S : k <= m - 1
    <3>1. m \in Nat /\ m # 0
      BY <1>3, <2>2
    <3>2. \A k \in S : k \in Nat /\ k <= m /\ k # m
      BY <1>3
    <3> QED
      BY <3>1, <3>2
  <2>4. m <= m - 1
    BY <1>4, <2>3
  <2> QED
    BY <1>3, <2>4
<1>6. \E x \in S : \A y \in S : y <= x
  BY <1>3, <1>5
<1> QED
  BY <1>6 DEF Max

\* The clock shows a number.
LEMMA NowType ==
    ASSUME TypeOK
    PROVE  Now \in Nat
<1>1. IsFiniteSet(Versions) /\ IsFiniteSet(Users)
  BY FS_Interval, Distinct DEF Versions, Users
<1>2. IsFiniteSet(Workers \cup Users)
  BY <1>1, Distinct, FS_Union
<1>3. \A S : \A f \in [S -> Nat] : IsFiniteSet(S) => IsFiniteSet(Range(f))
  <2> SUFFICES ASSUME NEW S, NEW f \in [S -> Nat], IsFiniteSet(S) PROVE IsFiniteSet(Range(f))
    OBVIOUS
  <2>1. f \in Surjection(S, Range(f))
    BY DEF Range, Surjection
  <2> QED
    BY <2>1, FS_Surjection
<1>4. IsFiniteSet(Range(verified)) /\ IsFiniteSet(Range(moment))
  BY <1>1, <1>2, <1>3 DEF TypeOK
<1>5. IsFiniteSet({0}) /\ IsFiniteSet({0} \cup Range(verified))
  BY <1>4, FS_Singleton, FS_Union
<1> DEFINE S == {0} \cup Range(verified) \cup Range(moment)
<1>6. IsFiniteSet(S)
  BY <1>4, <1>5, FS_Union
<1>7. S \in SUBSET Nat /\ S # {}
  BY DEF TypeOK, Range
<1> HIDE DEF S
<1>8. Max(S) \in Nat
  BY <1>6, <1>7, MaxOfNumbers
<1> QED
  BY <1>8 DEF Now, S

\* The next version is none of those that were made, and comes after them.
LEMMA NextVersion ==
  ASSUME TypeOK, Numbered, Made # Versions
  PROVE  LET new == Cardinality(Made) + 1 IN
         /\ new \in Versions \ Made
         /\ Made \cup {new} = 1..new
<1>1. PICK n \in 0..MaxVersions : Made = 1..n
  BY DEF Numbered
<1>2. Cardinality(Made) = n
  BY <1>1, FS_Interval, Distinct
<1>3. n # MaxVersions
  BY <1>1 DEF Versions
<1> QED
  BY <1>1, <1>2, <1>3, Distinct DEF Versions

\* The columns and variables get values of their types from the first state on.
LEMMA InitInv == Init => Inv
<1> SUFFICES ASSUME Init PROVE Inv
  OBVIOUS
<1>1. TypeOK
  BY Distinct DEF Init, TypeOK, NoPlan, NoVersion
<1>2. Made = 1..0
  BY DEF Init, Made, Versions
<1>3. Numbered
  BY <1>2, Distinct DEF Numbered
<1>4. Known
  BY Distinct DEF Init, Known, NoPlan, Users
<1>5. Reserved
  BY DEF Init, Reserved
<1> QED
  BY <1>1, <1>3, <1>4, <1>5 DEF Inv

\* A new version takes the next number and supersedes made ones only.
LEMMA NewVersionInv == Inv /\ NewVersion => Inv'
<1> SUFFICES ASSUME Inv, NewVersion PROVE Inv'
  OBVIOUS
<1> DEFINE new == Cardinality(Made) + 1
<1>1. new \in Versions \ Made /\ Made \cup {new} = 1..new /\ new \in 0..MaxVersions
  BY NextVersion, Distinct DEF NewVersion, Inv, Versions
<1>2. PICK s \in {series[v] : v \in Made} \cup {new} :
        /\ series' = [series EXCEPT ![new] = s]
        /\ status' = [v \in Versions |->
                        IF v = new THEN "ACTIVE"
                        ELSE IF v \in Superseded(s) THEN "SUPERSEDED" ELSE status[v]]
        /\ hyp' = IF new \in Supposed THEN [hyp EXCEPT ![new] = "PENDING"] ELSE hyp
  BY DEF NewVersion
<1>3. UNCHANGED <<record, verified, due, tally, pc, moment, round, copy, clashes, turns>>
  BY DEF NewVersion
<1> HIDE DEF new
<1>4. s \in 1..MaxVersions
  BY <1>1, <1>2, Distinct DEF Inv, TypeOK, Made, Versions
<1>5. Made' = Made \cup {new}
  <2>1. series' \in [Versions -> 0..MaxVersions] /\ series'[new] = s
    BY <1>1, <1>2, <1>4 DEF Inv, TypeOK
  <2>2. \A v \in Versions \ {new} : series'[v] = series[v]
    BY <1>2 DEF Inv, TypeOK
  <2>3. s # 0
    BY <1>4
  <2>4. \A v \in Versions : v \in Made' <=> series'[v] # 0
    BY DEF Made, Versions
  <2>5. \A v \in Versions : v \in Made <=> series[v] # 0
    BY DEF Made
  <2>6. Made' \subseteq Versions /\ Made \subseteq Versions
    BY DEF Made, Versions
  <2> QED
    BY <1>1, <2>1, <2>2, <2>3, <2>4, <2>5, <2>6
<1>6. TypeOK'
  <2>1. series' \in [Versions -> 0..MaxVersions]
    BY <1>1, <1>2, <1>4 DEF Inv, TypeOK
  <2>2. status' \in [Versions -> {"none", "ACTIVE", "SUPERSEDED"} \cup Verdicts]
    BY <1>2 DEF Inv, TypeOK
  <2>3. hyp' \in [Versions -> Verdicts \cup {"PENDING", None}]
    BY <1>1, <1>2 DEF Inv, TypeOK
  <2> QED
    BY <1>3, <2>1, <2>2, <2>3 DEF Inv, TypeOK, round
<1>7. Numbered'
  BY <1>1, <1>5 DEF Numbered
<1>8. Known'
  <2>1. ASSUME NEW v \in Versions, status'[v] # "none" PROVE v \in Made'
    <3>1. v \in Superseded(s) => v \in Made
      BY <1>4 DEF Superseded, Made
    <3> QED
      BY <1>2, <1>5, <2>1, <3>1 DEF Inv, Known
  <2> QED
    BY <1>5, <1>3, <2>1 DEF Inv, Known, round
<1>9. Reserved'
  BY <1>3 DEF Inv, Reserved, round
<1> QED
  BY <1>6, <1>7, <1>8, <1>9 DEF Inv

\* The parts of the invariant that only read columns and plans survive a step
\* that leaves those alone.
LEMMA RoundOnly ==
  ASSUME Inv, series' = series, status' = status, record' = record
  PROVE  Made' = Made /\ Numbered'
BY DEF Made, Inv, Numbered

\* A worker that selects, looks at or counts rows claims none.
LEMMA ReadingInv ==
  ASSUME Inv, NEW w \in Workers,
         SelectHypotheses(w) \/ SelectVersions(w) \/ Recount(w) \/ CheckFails(w)
  PROVE  Inv'
<1>1. UNCHANGED <<series, status, record, verified, plan, flushed, copy, clashes, hyp, due, tally>>
  BY DEF SelectHypotheses, SelectVersions, Recount, CheckFails, tables
<1>2. Made' = Made /\ Numbered'
  BY <1>1, RoundOnly
<1>3. \A v \in todo'[w] : pc'[w] = "check" => v \in Made
  <2>1. CASE SelectHypotheses(w)
    BY <2>1, Distinct DEF SelectHypotheses, Goto, Inv, TypeOK
  <2>2. CASE SelectVersions(w)
    BY <2>2, Distinct DEF SelectVersions, Firsts, Inv, TypeOK, Known
  <2>3. CASE Recount(w)
    BY <2>3, Distinct DEF Recount, Goto, Inv, TypeOK
  <2>4. CASE CheckFails(w)
    BY <2>4, Distinct DEF CheckFails, Inv, TypeOK, Known
  <2> QED
    BY <2>1, <2>2, <2>3, <2>4
<1>4. TypeOK'
  <2>1. CASE SelectHypotheses(w)
    BY <1>1, <2>1 DEF SelectHypotheses, Goto, Inv, TypeOK
  <2>2. CASE SelectVersions(w)
    <3>1. moment' \in [Workers \cup Users -> Nat]
      BY <2>2, NowType DEF SelectVersions, Inv, TypeOK
    <3> QED
      BY <1>1, <2>2, <3>1 DEF SelectVersions, Goto, Firsts, Inv, TypeOK
  <2>3. CASE Recount(w)
    <3>1. Confirmed \subseteq Nat
      <4>1. \A vs \in Latest : {v \in vs : record[v] = "CONFIRMED"} \in SUBSET Versions
        BY DEF Latest, Judged
      <4> QED
        BY <4>1, FiniteVersions DEF Confirmed
    <3>2. PICK n \in Nat : count' = [count EXCEPT ![w] = n]
      BY <2>3, <3>1 DEF Recount
    <3>3. count' \in [Workers -> Nat]
      BY <3>2 DEF Inv, TypeOK
    <3> QED
      BY <1>1, <2>3, <3>3 DEF Recount, Goto, Inv, TypeOK
  <2>4. CASE CheckFails(w)
    BY <1>1, <2>4, Distinct DEF CheckFails, Turn, Inv, TypeOK
  <2> QED
    BY <2>1, <2>2, <2>3, <2>4
<1>5. \A x \in Workers : pc'[x] \in {"check", "flush"} => todo'[x] \subseteq Made
  <2> SUFFICES ASSUME NEW x \in Workers, pc'[x] \in {"check", "flush"}
               PROVE  todo'[x] \subseteq Made
    OBVIOUS
  <2>1. CASE x = w
    <3>1. pc'[w] # "flush"
      BY Distinct DEF SelectHypotheses, SelectVersions, Recount, CheckFails, Goto, Inv, TypeOK
    <3> QED
      BY <1>3, <2>1, <3>1
  <2>2. CASE x # w
    <3>1. todo'[x] = todo[x] /\ pc'[x] = pc[x]
      BY <2>2 DEF SelectHypotheses, SelectVersions, Recount, CheckFails, Goto, Inv, TypeOK
    <3> QED
      BY <3>1 DEF Inv, Known
  <2> QED
    BY <2>1, <2>2
<1>6. \A q \in Users : pc'[q] = pc[q]
  BY Distinct DEF SelectHypotheses, SelectVersions, Recount, CheckFails, Goto, Inv, TypeOK
<1>7. Known'
  BY <1>1, <1>2, <1>5, <1>6 DEF Inv, Known
<1>8. Reserved'
  BY <1>1 DEF Inv, Reserved
<1> QED
  BY <1>2, <1>4, <1>7, <1>8 DEF Inv

\* A worker drafts a verdict on a version it has loaded.
LEMMA CheckInv ==
  ASSUME Inv, NEW w \in Workers, Check(w)
  PROVE  Inv'
<1> DEFINE v == Oldest(w)
<1>1. v \in todo[w]
  <2>1. todo[w] \in SUBSET Nat /\ todo[w] # {}
    BY DEF Check, Inv, TypeOK, Versions
  <2> QED
    BY <2>1, MinOfNumbers DEF Oldest
<1>2. v \in Made
  BY <1>1 DEF Check, Inv, Known
<1> HIDE DEF v
<1>3. v \in Versions
  BY <1>2 DEF Made
<1>4. /\ UNCHANGED <<tables, moment, flushed, count, copy, clashes, turns>>
      /\ todo' = [todo EXCEPT ![w] = @ \ {v}]
      /\ Goto(w, IF record[v] # None THEN "check" ELSE "flush")
      /\ \/ plan' = plan
         \/ \E k \in Resolutions(v) : plan' = [plan EXCEPT ![w][v] = k]
  BY DEF Check, v
<1>5. Resolutions(v) \subseteq Verdicts
  BY DEF Resolutions
<1>6. plan' \in [Workers -> [Versions -> Verdicts \cup {None}]]
  <2>1. CASE plan' = plan
    BY <2>1 DEF Inv, TypeOK
  <2>2. ASSUME NEW k \in Resolutions(v), plan' = [plan EXCEPT ![w][v] = k]
        PROVE  plan' \in [Workers -> [Versions -> Verdicts \cup {None}]]
    BY <1>3, <1>5, <2>2 DEF Inv, TypeOK
  <2> QED
    BY <1>4, <2>1, <2>2
<1>7. TypeOK'
  <2>1. pc' \in [Workers \cup Users -> {"idle", "hypotheses", "versions", "check", "flush",
                                      "recount", "tally", "read", "write", "done"}]
    BY <1>4 DEF Goto, Inv, TypeOK
  <2>2. todo' \in [Workers -> SUBSET Versions]
    BY <1>4 DEF Inv, TypeOK
  <2>3. UNCHANGED <<series, status, record, verified, hyp, due, tally>>
    BY <1>4 DEF tables
  <2>4. UNCHANGED <<moment, flushed, count, copy, clashes, turns>>
    BY <1>4
  <2> QED
    BY <1>6, <2>1, <2>2, <2>3, <2>4 DEF Inv, TypeOK
<1>8. Made' = Made /\ Numbered'
  BY <1>4, RoundOnly DEF tables
<1>9. \A x \in Workers, u \in Versions :
        plan'[x][u] # plan[x][u] => plan'[x][u] # None /\ u \in Made
  <2>1. plan \in [Workers -> [Versions -> Verdicts \cup {None}]]
    BY DEF Inv, TypeOK
  <2>2. plan' = plan \/ \E k \in Verdicts : plan' = [plan EXCEPT ![w][v] = k]
    BY <1>4, <1>5
  <2> QED
    BY <1>2, <1>3, <2>1, <2>2, Distinct
<1>10. Known'
  <2>1. \A q \in Users : pc'[q] = pc[q]
    BY <1>4, Distinct DEF Goto, Inv, TypeOK
  <2>2. ASSUME NEW x \in Workers, pc'[x] \in {"check", "flush"}
        PROVE  todo'[x] \subseteq Made
    <3>1. todo[x] \subseteq Made
      BY <1>4, <2>2 DEF Check, Goto, Inv, TypeOK, Known
    <3> QED
      BY <1>4, <3>1 DEF Inv, TypeOK
  <2> QED
    BY <1>4, <1>8, <1>9, <2>1, <2>2 DEF Inv, Known, tables
<1>11. Reserved'
  BY <1>4, <1>9 DEF Inv, TypeOK, Reserved, tables
<1> QED
  BY <1>7, <1>8, <1>10, <1>11 DEF Inv

\* A worker writes what it has drafted, or loses its round.
LEMMA FlushInv ==
  ASSUME Inv, NEW w \in Workers, Flush(w)
  PROVE  Inv'
<1>1. UNCHANGED <<tables, copy, clashes, turns>>
  BY DEF Flush
<1>2. Made' = Made /\ Numbered'
  BY <1>1, RoundOnly DEF tables
<1>3. CASE \A v \in Drafted(w) : record[v] = None
  <2>1. /\ flushed' = [flushed EXCEPT ![w] = Drafted(w)]
        /\ Goto(w, "check")
        /\ UNCHANGED <<moment, todo, plan, count>>
    BY <1>3 DEF Flush
  <2>2. Drafted(w) \subseteq Versions
    BY DEF Drafted
  <2>3. TypeOK'
    BY <1>1, <2>1, <2>2 DEF Goto, Inv, TypeOK, tables
  <2>4. Known'
    BY <1>1, <1>2, <2>1, Distinct DEF Flush, Goto, Inv, TypeOK, Known, tables
  <2>5. \A v \in Drafted(w) : record[v] = None /\ plan[w][v] # None
    BY <1>3 DEF Drafted
  <2>6. \A x \in Workers \ {w} : Drafted(w) \cap flushed[x] = {}
    BY DEF Flush, Locked, Inv, Reserved
  <2>7. Reserved'
    BY <1>1, <2>1, <2>5, <2>6 DEF Inv, TypeOK, Reserved, tables
  <2> QED
    BY <1>2, <2>3, <2>4, <2>7 DEF Inv
<1>4. CASE Drop(w)
  <2>1. TypeOK'
    BY <1>1, <1>4, Distinct DEF Drop, Goto, NoPlan, Inv, TypeOK, tables
  <2>2. Known'
    BY <1>1, <1>2, <1>4, Distinct DEF Drop, Goto, NoPlan, Inv, TypeOK, Known, tables
  <2>3. Reserved'
    BY <1>1, <1>4 DEF Drop, Inv, TypeOK, Reserved, tables
  <2> QED
    BY <1>2, <2>1, <2>2, <2>3 DEF Inv
<1> QED
  BY <1>3, <1>4 DEF Flush

\* Verdicts on hypotheses, and time, touch no version.
LEMMA AroundInv ==
  ASSUME Inv, (\E v \in Versions : ComeDue(v) \/ VerifyHypothesis(v))
              \/ \E w \in Workers : CommitHypotheses(w)
  PROVE  Inv'
<1>1. UNCHANGED <<series, status, record, verified, tally, moment, plan, flushed, count,
                 copy, clashes>>
  BY DEF ComeDue, VerifyHypothesis, CommitHypotheses, round
<1>2. Made' = Made /\ Numbered'
  BY <1>1, RoundOnly
<1>3. TypeOK'
  <2>1. CASE \E v \in Versions : ComeDue(v)
    BY <1>1, <2>1 DEF ComeDue, Made, Inv, TypeOK, round
  <2>2. CASE \E v \in Versions : VerifyHypothesis(v)
    BY <1>1, <2>2, Distinct DEF VerifyHypothesis, Turn, Inv, TypeOK, round
  <2>3. ASSUME NEW w \in Workers, CommitHypotheses(w) PROVE TypeOK'
    <3>1. hyp' \in [Versions -> Verdicts \cup {"PENDING", None}] /\ turns' \in 0..MaxTurns
      <4>1. PICK bad \in SUBSET todo[w] : \E found \in [todo[w] \ bad -> Verdicts] :
              /\ turns + Cardinality(bad) <= MaxTurns
              /\ turns' = turns + Cardinality(bad)
              /\ hyp' = [v \in Versions |-> IF v \in DOMAIN found THEN found[v] ELSE hyp[v]]
        BY <2>3 DEF CommitHypotheses
      <4>2. Cardinality(bad) \in Nat
        BY FiniteVersions DEF Inv, TypeOK
      <4> QED
        BY <4>1, <4>2, Distinct DEF Inv, TypeOK
    <3>2. due' = due
      BY <2>3 DEF CommitHypotheses
    <3>3. todo' \in [Workers -> SUBSET Versions]
      BY <2>3 DEF CommitHypotheses, Inv, TypeOK
    <3>4. pc' = [pc EXCEPT ![w] = "versions"]
      BY <2>3 DEF CommitHypotheses, Goto
    <3> QED
      BY <1>1, <3>1, <3>2, <3>3, <3>4 DEF Inv, TypeOK
  <2> QED
    BY <2>1, <2>2, <2>3
<1>4. Known'
  <2>1. CASE \E v \in Versions : ComeDue(v) \/ VerifyHypothesis(v)
    BY <1>1, <1>2, <2>1 DEF ComeDue, VerifyHypothesis, Inv, Known, round
  <2>2. ASSUME NEW w \in Workers, CommitHypotheses(w) PROVE Known'
    <3>1. \A x \in Workers : x # w => pc'[x] = pc[x] /\ todo'[x] = todo[x]
      BY <2>2 DEF CommitHypotheses, Goto, Inv, TypeOK
    <3>2. pc'[w] = "versions" /\ \A q \in Users : pc'[q] = pc[q]
      BY <2>2, Distinct DEF CommitHypotheses, Goto, Inv, TypeOK
    <3> QED
      BY <1>1, <1>2, <3>1, <3>2 DEF Inv, Known
  <2> QED
    BY <2>1, <2>2
<1>5. Reserved'
  BY <1>1 DEF Inv, Reserved
<1> QED
  BY <1>2, <1>3, <1>4, <1>5 DEF Inv

\* The end of a transaction of a worker releases its versions.
LEMMA EndInv ==
  ASSUME Inv, NEW w \in Workers,
         CommitVersions(w) \/ CommitTally(w) \/ RoundFails(w)
  PROVE  Inv'
<1>1. UNCHANGED <<series, hyp, due, copy, clashes>>
  BY DEF CommitVersions, CommitTally, RoundFails, tables
<1>2. Made' = Made /\ Numbered'
  BY <1>1 DEF Made, Inv, Numbered
<1>3. CASE CommitVersions(w)
  <2>1. TypeOK'
    <3>1. status' \in [Versions -> {"none", "ACTIVE", "SUPERSEDED"} \cup Verdicts]
      BY <1>3 DEF CommitVersions, Inv, TypeOK, Reserved
    <3>2. record' \in [Versions -> Verdicts \cup {None}]
      BY <1>3 DEF CommitVersions, Inv, TypeOK
    <3>3. verified' \in [Versions -> Nat] /\ moment' \in [Workers \cup Users -> Nat]
      BY <1>3 DEF CommitVersions, Inv, TypeOK
    <3> QED
      BY <1>1, <1>3, <3>1, <3>2, <3>3 DEF CommitVersions, Goto, NoPlan, Inv, TypeOK
  <2>2. Known'
    <3>1. \A v \in Versions : status'[v] # "none" => v \in Made
      BY <1>3 DEF CommitVersions, Inv, TypeOK, Known, Reserved
    <3>2. \A x \in Workers, v \in Versions : plan'[x][v] # None => v \in Made
      BY <1>3 DEF CommitVersions, NoPlan, Inv, TypeOK, Known
    <3>3. \A x \in Workers : pc'[x] \in {"check", "flush"} => todo'[x] \subseteq Made
      BY <1>3 DEF CommitVersions, Goto, Inv, TypeOK, Known
    <3>4. \A q \in Users : pc'[q] = pc[q]
      BY <1>3, Distinct DEF CommitVersions, Goto, Inv, TypeOK
    <3> QED
      BY <1>1, <1>2, <3>1, <3>2, <3>3, <3>4 DEF Inv, Known
  <2>3. Reserved'
    <3>1. \A x \in Workers : x # w => /\ flushed'[x] = flushed[x]
                                     /\ plan'[x] = plan[x]
                                     /\ flushed[x] \cap flushed[w] = {}
      BY <1>3 DEF CommitVersions, Inv, TypeOK, Reserved
    <3>2. flushed'[w] = {}
      BY <1>3 DEF CommitVersions, Inv, TypeOK
    <3>3. \A v \in Versions \ flushed[w] : record'[v] = record[v]
      BY <1>3 DEF CommitVersions
    <3>4. \A x \in Workers : \A v \in flushed'[x] : record'[v] = None /\ plan'[x][v] # None
      BY <3>1, <3>2, <3>3 DEF Inv, TypeOK, Reserved
    <3>5. \A x, y \in Workers : x # y => flushed'[x] \cap flushed'[y] = {}
      BY <3>1, <3>2 DEF Inv, Reserved
    <3> QED
      BY <3>4, <3>5 DEF Reserved
  <2> QED
    BY <1>2, <2>1, <2>2, <2>3 DEF Inv
<1>4. CASE CommitTally(w)
  <2>1. TypeOK'
    BY <1>1, <1>4 DEF CommitTally, Goto, Inv, TypeOK
  <2>2. Known'
    BY <1>1, <1>2, <1>4, Distinct DEF CommitTally, Goto, Inv, TypeOK, Known
  <2>3. Reserved'
    BY <1>4 DEF CommitTally, Inv, Reserved
  <2> QED
    BY <1>2, <2>1, <2>2, <2>3 DEF Inv
<1>5. CASE RoundFails(w)
  <2>1. TypeOK'
    BY <1>5, Distinct DEF RoundFails, Turn, Drop, Goto, NoPlan, Inv, TypeOK, tables
  <2>2. Known'
    BY <1>1, <1>2, <1>5, Distinct DEF RoundFails, Drop, Goto, NoPlan, Inv, TypeOK, Known, tables
  <2>3. Reserved'
    BY <1>5 DEF RoundFails, Drop, Inv, TypeOK, Reserved, tables
  <2> QED
    BY <1>2, <2>1, <2>2, <2>3 DEF Inv
<1> QED
  BY <1>3, <1>4, <1>5

\* A request reads the two places of a version that was made,
LEMMA RequestReadsInv ==
  ASSUME Inv, NEW q \in Users, Load(q) \/ ReadRecord(q) \/ Refuse(q)
  PROVE  Inv'
<1>1. UNCHANGED <<tables, round, clashes, turns>> /\ moment' \in [Workers \cup Users -> Nat]
  <2>1. moment \in [Workers \cup Users -> Nat] /\ Now \in Nat
    BY NowType DEF Inv, TypeOK
  <2>2. \/ moment' = moment
        \/ moment' = [moment EXCEPT ![q] = Now] \/ moment' = [moment EXCEPT ![q] = 0]
    BY DEF Load, ReadRecord, Refuse, Leave
  <2>3. moment' \in [Workers \cup Users -> Nat]
    BY <2>1, <2>2
  <2> QED
    BY <2>3 DEF Load, ReadRecord, Refuse
<1>2. Made' = Made /\ Numbered'
  BY <1>1, RoundOnly DEF tables
<1>3. \A w \in Workers : pc'[w] = pc[w]
  BY Distinct DEF Load, ReadRecord, Refuse, Leave, Goto, Inv, TypeOK
<1>4. /\ copy' \in [Users -> [version : 0..MaxVersions, record : Verdicts \cup {None},
                              status : {"none", "ACTIVE", "SUPERSEDED"} \cup Verdicts]]
      /\ \A r \in Users : pc'[r] \in {"read", "write"} => copy'[r].version \in Made
  <2>1. CASE Load(q)
    BY <2>1, Distinct DEF Load, Goto, Made, Versions, Inv, TypeOK, Known
  <2>2. CASE ReadRecord(q)
    <3>1. copy[q].version \in Made /\ record[copy[q].version] \in Verdicts \cup {None}
      BY <2>2 DEF ReadRecord, Inv, TypeOK, Known, Made
    <3>2. copy' = [copy EXCEPT ![q] = [@ EXCEPT !.record = record[copy[q].version]]]
      BY <2>2 DEF ReadRecord
    <3>3. \A r \in Users : copy'[r].version = copy[r].version
      BY <3>2 DEF Inv, TypeOK
    <3>4. \A r \in Users : pc'[r] \in {"read", "write"} => pc[r] \in {"read", "write"}
      BY <2>2 DEF ReadRecord, Goto, Inv, TypeOK
    <3> QED
      BY <3>1, <3>2, <3>3, <3>4 DEF Inv, TypeOK, Known
  <2>3. CASE Refuse(q)
    BY <2>3, Distinct DEF Refuse, Leave, NoVersion, Goto, Inv, TypeOK, Known
  <2> QED
    BY <2>1, <2>2, <2>3
<1>5. TypeOK'
  <2>1. pc' \in [Workers \cup Users -> {"idle", "hypotheses", "versions", "check", "flush",
                                      "recount", "tally", "read", "write", "done"}]
    BY DEF Load, ReadRecord, Refuse, Leave, Goto, Inv, TypeOK
  <2> QED
    BY <1>1, <1>4, <2>1 DEF Inv, TypeOK, tables, round
<1>6. Known'
  BY <1>1, <1>2, <1>3, <1>4 DEF Inv, Known, tables, round
<1>7. Reserved'
  BY <1>1 DEF Inv, Reserved, tables, round
<1> QED
  BY <1>2, <1>5, <1>6, <1>7 DEF Inv

\* and writes them when no worker holds the row.
LEMMA VerifyInv ==
  ASSUME Inv, NEW q \in Users, Verify(q)
  PROVE  Inv'
<1> DEFINE v == copy[q].version
<1>1. v \in Made /\ v \in Versions
  BY DEF Verify, Inv, Known, Made
<1> HIDE DEF v
<1>2. PICK k \in Verdicts :
        /\ status' = [status EXCEPT ![v] = IF k = copy[q].status THEN @ ELSE k]
        /\ record' = [record EXCEPT ![v] = IF k = copy[q].record THEN @ ELSE k]
  BY DEF Verify, v
<1>3. /\ UNCHANGED <<series, hyp, due, tally, round, turns>>
      /\ clashes' \in {clashes, clashes + 1}
      /\ Leave(q)
      /\ ~Locked(v)
  BY DEF Verify, v
<1>4. Made' = Made /\ Numbered'
  BY <1>3 DEF Made, Inv, Numbered
<1>5. TypeOK'
  <2>1. status' \in [Versions -> {"none", "ACTIVE", "SUPERSEDED"} \cup Verdicts]
    BY <1>1, <1>2 DEF Inv, TypeOK
  <2>2. record' \in [Versions -> Verdicts \cup {None}]
    BY <1>1, <1>2 DEF Inv, TypeOK
  <2>3. copy' \in [Users -> [version : 0..MaxVersions, record : Verdicts \cup {None},
                            status : {"none", "ACTIVE", "SUPERSEDED"} \cup Verdicts]]
    BY <1>3, Distinct DEF Leave, NoVersion, Inv, TypeOK
  <2>4. pc' = [pc EXCEPT ![q] = "done"]
    BY <1>3 DEF Leave, Goto
  <2>5. verified' \in [Versions -> Nat] /\ moment' \in [Workers \cup Users -> Nat]
    <3>1. moment \in [Workers \cup Users -> Nat] /\ verified \in [Versions -> Nat]
      BY DEF Inv, TypeOK
    <3>2. moment[q] \in Nat
      BY <3>1
    <3>3. verified' = [verified EXCEPT ![v] = moment[q]] /\ moment' = [moment EXCEPT ![q] = 0]
      BY <1>3 DEF Verify, Leave, v
    <3> QED
      BY <3>1, <3>2, <3>3
  <2> QED
    BY <1>3, <2>1, <2>2, <2>3, <2>4, <2>5 DEF Inv, TypeOK, round
<1>6. Known'
  <2>1. \A u \in Versions : status'[u] # "none" => u \in Made
    BY <1>1, <1>2 DEF Inv, TypeOK, Known
  <2>2. \A w \in Workers : pc'[w] = pc[w]
    BY <1>3, Distinct DEF Leave, Goto, Inv, TypeOK
  <2>3. \A r \in Users : pc'[r] \in {"read", "write"} => copy'[r].version \in Made
    BY <1>3 DEF Leave, Goto, Inv, TypeOK, Known
  <2> QED
    BY <1>3, <1>4, <2>1, <2>2, <2>3 DEF Inv, Known, round
<1>7. Reserved'
  <2>1. \A w \in Workers : v \notin flushed[w]
    BY <1>3 DEF Locked
  <2>2. \A u \in Versions : u # v => record'[u] = record[u]
    BY <1>2 DEF Inv, TypeOK
  <2> QED
    BY <1>3, <2>1, <2>2 DEF Inv, TypeOK, Reserved, round
<1> QED
  BY <1>4, <1>5, <1>6, <1>7 DEF Inv

\* Every step keeps the invariant.
LEMMA StepInv == Inv /\ [Next]_vars => Inv'
<1> SUFFICES ASSUME Inv, [Next]_vars PROVE Inv'
  OBVIOUS
<1>1. CASE NewVersion
  BY <1>1, NewVersionInv
<1>2. CASE \E v \in Versions : ComeDue(v) \/ VerifyHypothesis(v)
  BY <1>2, AroundInv
<1>3. ASSUME NEW w \in Workers, Calibrate(w) \/ CheckFails(w) \/ RoundFails(w) PROVE Inv'
  BY <1>3, ReadingInv, AroundInv, CheckInv, FlushInv, EndInv DEF Calibrate
<1>4. ASSUME NEW q \in Users, Load(q) \/ ReadRecord(q) \/ Refuse(q) \/ Verify(q) PROVE Inv'
  BY <1>4, RequestReadsInv, VerifyInv
<1>5. CASE UNCHANGED vars
  BY <1>5 DEF vars, tables, round, Inv, TypeOK, Numbered, Known, Reserved, Made
<1> QED
  BY <1>1, <1>2, <1>3, <1>4, <1>5 DEF Next

LEMMA Invariance == Spec => []Inv
<1> QED
  BY InitInv, StepInv, PTL DEF Spec

--------------------------------------------------------------------------------
\* Every reachable state of the verdicts is well typed.
THEOREM TypeCorrect == Spec => []TypeOK
<1> QED
  BY Invariance, PTL DEF Inv

\* However many workers and requests look for the record of a version at once,
\* a verdict that was given is changed only by a request.
THEOREM GivenVerdictsStay == Spec => OnlyUsersChangeVerdicts
<1> DEFINE Stays ==
      \A v \in Versions :
        record[v] \notin {None, record'[v]} => \E q \in Users : pc[q] # pc'[q]
<1>1. ASSUME Inv, [Next]_vars PROVE [Stays]_vars
  <2> SUFFICES ASSUME NEW v \in Versions, record[v] \notin {None, record'[v]}, Next
               PROVE  \E q \in Users : pc[q] # pc'[q]
    BY <1>1
  <2>1. ASSUME NEW w \in Workers, CommitVersions(w) PROVE FALSE
    <3>1. v \in flushed[w]
      BY <2>1 DEF CommitVersions
    <3> QED
      BY <1>1, <3>1 DEF Inv, Reserved
  <2>2. ASSUME NEW q \in Users, Verify(q) PROVE pc[q] # pc'[q]
    BY <1>1, <2>2 DEF Verify, Leave, Goto, Inv, TypeOK
  <2>3. \/ \E w \in Workers : CommitVersions(w)
        \/ \E q \in Users : Verify(q)
    BY DEF Next, NewVersion, ComeDue, VerifyHypothesis, Calibrate, SelectHypotheses,
           CommitHypotheses, SelectVersions, Check, Flush, Recount, CommitTally,
           CheckFails, RoundFails, Load, ReadRecord, Refuse, tables
  <2> QED
    BY <2>1, <2>2, <2>3
<1> QED
  BY <1>1, Invariance, PTL DEF Spec, OnlyUsersChangeVerdicts

\* A step tears at most one version, and then it is counted as a clash.
LEMMA StepTears ==
  ASSUME Inv, [Next]_vars
  PROVE  \/ Torn' \subseteq Torn /\ clashes' \in {clashes, clashes + 1}
         \/ clashes' = clashes + 1 /\ \E v \in Versions : Torn' \subseteq Torn \cup {v}
<1>1. CASE NewVersion
  <2>1. UNCHANGED <<record, clashes>>
    BY <1>1 DEF NewVersion
  <2>2. ASSUME NEW v \in Versions, record[v] # None, status[v] = record[v]
        PROVE  status'[v] = status[v]
    <3>1. status[v] \in Verdicts /\ v \in Made
      BY <2>2 DEF Inv, TypeOK, Known, Verdicts
    <3>2. v # Cardinality(Made) + 1
      BY <1>1, <3>1, NextVersion DEF NewVersion, Inv
    <3>3. \A s : v \notin Superseded(s)
      BY <3>1 DEF Superseded, Verdicts
    <3> QED
      BY <1>1, <3>2, <3>3 DEF NewVersion
  <2> QED
    BY <2>1, <2>2 DEF Torn
<1>2. ASSUME NEW w \in Workers, CommitVersions(w)
      PROVE  Torn' \subseteq Torn /\ clashes' = clashes
  BY <1>2 DEF CommitVersions, Torn
<1>3. ASSUME NEW q \in Users, Verify(q)
      PROVE  \/ Torn' \subseteq Torn /\ clashes' \in {clashes, clashes + 1}
             \/ clashes' = clashes + 1 /\ \E v \in Versions : Torn' \subseteq Torn \cup {v}
  <2> DEFINE v == copy[q].version
  <2>1. v \in Versions
    BY <1>3 DEF Verify, Inv, Known, Made
  <2> HIDE DEF v
  <2>2. PICK k \in Verdicts :
          /\ status' = [status EXCEPT ![v] = IF k = copy[q].status THEN @ ELSE k]
          /\ record' = [record EXCEPT ![v] = IF k = copy[q].record THEN @ ELSE k]
    BY <1>3 DEF Verify, v
  <2>3. \A u \in Versions : u # v => status'[u] = status[u] /\ record'[u] = record[u]
    BY <2>2 DEF Inv, TypeOK
  <2>4. Torn' \subseteq Torn \cup {v}
    BY <2>3 DEF Torn
  <2>5. CASE Fresh(q)
    <3>1. status'[v] = k /\ record'[v] = k
      BY <2>1, <2>2, <2>5 DEF Fresh, v, Inv, TypeOK
    <3>2. clashes' = clashes
      BY <1>3, <2>5 DEF Verify
    <3> QED
      BY <2>4, <3>1, <3>2 DEF Torn
  <2>6. CASE ~Fresh(q)
    <3>1. clashes' = clashes + 1
      BY <1>3, <2>6 DEF Verify
    <3> QED
      BY <2>1, <2>4, <3>1
  <2> QED
    BY <2>5, <2>6
<1>4. CASE UNCHANGED <<status, record, clashes>>
  BY <1>4 DEF Torn
<1>5. \/ NewVersion \/ UNCHANGED <<status, record, clashes>>
      \/ \E w \in Workers : CommitVersions(w)
      \/ \E q \in Users : Verify(q)
  BY DEF Next, ComeDue, VerifyHypothesis, Calibrate, SelectHypotheses, CommitHypotheses,
         SelectVersions, Check, Flush, Recount, CommitTally, CheckFails, RoundFails,
         Load, ReadRecord, Refuse, tables, vars
<1> QED
  BY <1>1, <1>2, <1>3, <1>4, <1>5

\* The status of a version and its record agree, but for one version for each
\* request that wrote what another one had changed.
THEOREM TornAreClashes == Spec => []EachTornIsAClash
<1> DEFINE Bounded == clashes \in Nat /\ EachTornIsAClash
<1>1. Init => Bounded
  <2> SUFFICES ASSUME Init PROVE Bounded
    OBVIOUS
  <2>1. Torn = {}
    BY DEF Init, Torn
  <2> QED
    BY <2>1, FS_EmptySet DEF Init, EachTornIsAClash
<1>2. ASSUME Inv, Bounded, [Next]_vars PROVE Bounded'
  <2> DEFINE T == Torn
             U == Torn'
  <2>1. U \in SUBSET Versions /\ T \in SUBSET Versions
    BY DEF Torn, Versions
  <2>2. /\ IsFiniteSet(T) /\ Cardinality(T) \in Nat
        /\ Cardinality(U) \in Nat
    BY <2>1, FiniteVersions
  <2>3. Cardinality(T) <= clashes /\ clashes \in Nat
    BY <1>2 DEF EachTornIsAClash
  <2>4. \/ U \subseteq T /\ clashes' \in {clashes, clashes + 1}
        \/ clashes' = clashes + 1 /\ \E v \in Versions : U \subseteq T \cup {v}
    BY <1>2, StepTears
  <2> HIDE DEF T, U
  <2>5. Cardinality(U) <= clashes' /\ clashes' \in Nat
    <3>1. CASE U \subseteq T /\ clashes' \in {clashes, clashes + 1}
      BY <2>2, <2>3, <3>1, FS_Subset
    <3>2. ASSUME NEW v \in Versions, clashes' = clashes + 1, U \subseteq T \cup {v}
          PROVE  Cardinality(U) <= clashes' /\ clashes' \in Nat
      <4>1. IsFiniteSet(T \cup {v}) /\ Cardinality(T \cup {v}) \in Nat
        BY <2>1, FiniteVersions
      <4>2. Cardinality(T \cup {v}) <= Cardinality(T) + 1
        BY <2>2, FS_AddElement
      <4>3. Cardinality(U) <= Cardinality(T \cup {v})
        BY <3>2, <4>1, FS_Subset
      <4> QED
        BY <2>2, <2>3, <3>2, <4>1, <4>2, <4>3
    <3> QED
      BY <2>4, <3>1, <3>2
  <2> QED
    BY <2>5 DEF EachTornIsAClash, U
<1>3. Spec => []Bounded
  BY <1>1, <1>2, Invariance, PTL DEF Spec
<1> QED
  BY <1>3, PTL
================================================================================
