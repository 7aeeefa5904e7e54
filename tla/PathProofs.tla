----------------------------- MODULE PathProofs -----------------------------
(***************************************************************************)
(* What the loops of instanceworkflowobject.py compute, for every workflow *)
(* graph: initialize_approvals reaches every edge,                         *)
(* cancel_impossible_future finds the whole future,                        *)
(* _re_create_cycled_path leaves no edge out; and what follows for the     *)
(* ways on that an object has.                                             *)
(***************************************************************************)
EXTENDS InstanceWorkflowProofs

-----------------------------------------------------------------------------
(* Induction and recursion on the natural numbers, with sets and functions  *)
(* in place of operators.                                                   *)

\* A set of natural numbers that is not empty has a least element.
LEMMA Least ==
  ASSUME NEW S \in SUBSET Nat, S # {}
  PROVE  \E x \in S : \A y \in S : x <= y
<1>1. PICK R : R = OpToRel(<, Nat)
  OBVIOUS
<1>2. IsWellFoundedOn(R, Nat)
  BY <1>1, NatLessThanWellFounded
<1>3. PICK x \in S : \A y \in S : ~ (<<y, x>> \in R)
  BY <1>2, WFMin
<1>4. \A m, n \in Nat : m < n => <<m, n>> \in R
  BY <1>1 DEF OpToRel
<1>5. x \in Nat /\ \A y \in S : y \in Nat /\ ~ (y < x)
  BY <1>3, <1>4
<1>6. \A y \in S : x <= y
  BY <1>5
<1> QED
  BY <1>6

\* Induction: a set that has 0 and with every number the next one has them all.
LEMMA Induction ==
  ASSUME NEW S, 0 \in S, \A n \in Nat : n \in S => n + 1 \in S
  PROVE  Nat \subseteq S
<1> SUFFICES ASSUME Nat \ S # {}  PROVE FALSE
  OBVIOUS
<1>1. PICK m \in Nat \ S : \A y \in Nat \ S : m <= y
  BY Least
<1>2. m \in Nat /\ m # 0 /\ m \notin S
  BY <1>1
<1>3. m - 1 \in Nat /\ m - 1 < m /\ (m - 1) + 1 = m
  BY <1>2
<1>4. m - 1 \in S
  BY <1>1, <1>3
<1> QED
  BY <1>2, <1>3, <1>4

\* f is what g makes of d, step by step.
Iterates(f, D, d, g) == f \in [Nat -> D] /\ f[0] = d /\ \A n \in Nat : f[n + 1] = g[n][f[n]]

\* A function on the natural numbers may be defined by what follows each of its values.
LEMMA Recursion ==
  ASSUME NEW D, NEW d \in D, NEW g \in [Nat -> [D -> D]]
  PROVE  \E f : Iterates(f, D, d, g)
<1> DEFINE Start(n) == {h \in [0..n -> D] : h[0] = d /\ \A i \in 0..n : i + 1 <= n => h[i + 1] = g[i][h[i]]}
<1>1. \A n \in Nat : Start(n) # {}
  <2> DEFINE S == {n \in Nat : Start(n) # {}}
  <2>1. 0 \in S
    <3>1. PICK h : h = [i \in 0..0 |-> d]
      OBVIOUS
    <3>2. h \in Start(0)
      BY <3>1
    <3> QED
      BY <3>2
  <2>2. ASSUME NEW n \in Nat, n \in S  PROVE n + 1 \in S
    <3>1. PICK h \in Start(n) : TRUE
      BY <2>2
    <3>2. PICK e : e = [i \in 0..(n + 1) |-> IF i = n + 1 THEN g[n][h[n]] ELSE h[i]]
      OBVIOUS
    <3>3. h \in [0..n -> D] /\ h[0] = d /\ \A i \in 0..n : i + 1 <= n => h[i + 1] = g[i][h[i]]
      BY <3>1
    <3>4. e[n + 1] = g[n][h[n]] /\ \A i \in 0..n : e[i] = h[i]
      BY <3>2
    <3>5. g[n][h[n]] \in D
      BY <3>3
    <3>6. e \in [0..(n + 1) -> D]
      BY <3>2, <3>3, <3>5
    <3>7. e[0] = d
      BY <3>3, <3>4
    <3>8. ASSUME NEW i \in 0..(n + 1), i + 1 <= n + 1  PROVE e[i + 1] = g[i][e[i]]
      <4>1. CASE i = n
        BY <3>4, <4>1
      <4>2. CASE i # n
        <5>1. i \in 0..n /\ i + 1 \in 0..n /\ i + 1 <= n
          BY <3>8, <4>2
        <5> QED
          BY <3>3, <3>4, <5>1
      <4> QED
        BY <4>1, <4>2
    <3>9. e \in Start(n + 1)
      BY <3>6, <3>7, <3>8
    <3> QED
      BY <3>9
  <2> HIDE DEF S
  <2>3. Nat \subseteq S
    BY <2>1, <2>2, Induction
  <2> QED
    BY <2>3 DEF S
<1>2. ASSUME NEW n \in Nat, NEW m \in Nat, n <= m, NEW h \in Start(n), NEW e \in Start(m)
      PROVE  \A i \in 0..n : h[i] = e[i]
  <2> DEFINE S == {i \in Nat : i <= n => h[i] = e[i]}
  <2>1. /\ h[0] = d /\ \A i \in 0..n : i + 1 <= n => h[i + 1] = g[i][h[i]]
        /\ e[0] = d /\ \A i \in 0..m : i + 1 <= m => e[i + 1] = g[i][e[i]]
    OBVIOUS
  <2> HIDE DEF Start
  <2>2. 0 \in S
    BY <2>1
  <2>3. ASSUME NEW i \in Nat, i \in S  PROVE i + 1 \in S
    <3>1. SUFFICES ASSUME i + 1 <= n  PROVE h[i + 1] = e[i + 1]
      OBVIOUS
    <3>2. i \in 0..n /\ i \in 0..m /\ i + 1 <= m /\ i <= n
      BY <1>2, <3>1
    <3>3. h[i] = e[i]
      BY <2>3, <3>2
    <3> QED
      BY <2>1, <3>1, <3>2, <3>3
  <2>4. Nat \subseteq S
    <3> HIDE DEF S
    <3> QED
      BY <2>2, <2>3, Induction
  <2> QED
    BY <2>4
<1>3. PICK c : c = [n \in Nat |-> CHOOSE h \in Start(n) : TRUE]
  OBVIOUS
<1>4. \A n \in Nat : c[n] \in Start(n)
  BY <1>1, <1>3
<1>5. PICK f : f = [n \in Nat |-> c[n][n]]
  OBVIOUS
<1>6. \A n \in Nat : c[n] \in [0..n -> D] /\ c[n][0] = d
  BY <1>4
<1>7. f \in [Nat -> D]
  BY <1>5, <1>6
<1>8. f[0] = d
  BY <1>5, <1>6
<1>9. ASSUME NEW n \in Nat  PROVE f[n + 1] = g[n][f[n]]
  <2>1. c[n + 1] \in Start(n + 1) /\ c[n] \in Start(n)
    BY <1>4
  <2>2. c[n + 1][n + 1] = g[n][c[n + 1][n]]
    BY <2>1
  <2>3. c[n + 1][n] = c[n][n]
    <3> HIDE DEF Start
    <3> QED
      BY <1>2, <2>1
  <2> QED
    BY <1>5, <2>2, <2>3
<1> QED
  BY <1>7, <1>8, <1>9 DEF Iterates

-----------------------------------------------------------------------------
(* initialize_approvals.                                                    *)

\* The next pass of the loop.
Onward(before) == {m \in Meta : \E b \in before.edges : Source[m] = Destination[b]} \ before.processed
NextPass(before) == [edges |-> Onward(before), processed |-> before.processed \cup Onward(before)]

\* The passes of the loop are those that its recursion describes.
LEMMA PassDefined ==
  /\ Pass[0] = [edges |-> FirstEdges, processed |-> FirstEdges]
  /\ \A k \in Nat : Pass[k + 1] = NextPass(Pass[k])
<1> DEFINE D == [edges : SUBSET Meta, processed : SUBSET Meta]
           Defines(f) == f = [k \in Nat |->
                               IF k = 0 THEN [edges |-> FirstEdges, processed |-> FirstEdges]
                               ELSE NextPass(f[k - 1])]
<1>1. PICK g : g = [n \in Nat |-> [b \in D |-> NextPass(b)]]
  OBVIOUS
<1>2. \A b \in D : NextPass(b) \in D
  BY DEF NextPass, Onward
<1>3. g \in [Nat -> [D -> D]] /\ \A n \in Nat, b \in D : g[n][b] = NextPass(b)
  BY <1>1, <1>2
<1>4. PICK first : first = [edges |-> FirstEdges, processed |-> FirstEdges]
  OBVIOUS
<1>5. first \in D
  BY <1>4 DEF FirstEdges
<1>6. PICK f : Iterates(f, D, first, g)
  <2>1. first \in D /\ g \in [Nat -> [D -> D]]
    BY <1>3, <1>5
  <2> HIDE DEF D
  <2> QED
    BY <2>1, Recursion
<1>7. ASSUME NEW k \in Nat  PROVE f[k] = IF k = 0 THEN first ELSE NextPass(f[k - 1])
  <2>1. CASE k = 0
    BY <1>6, <2>1 DEF Iterates
  <2>2. CASE k # 0
    <3>1. k - 1 \in Nat /\ (k - 1) + 1 = k
      BY <2>2
    <3> QED
      BY <1>3, <1>6, <2>2, <3>1 DEF Iterates
  <2> QED
    BY <2>1, <2>2
<1>8. Defines(f)
  BY <1>4, <1>6, <1>7 DEF Iterates
<1>9. Pass = CHOOSE h : Defines(h)
  BY DEF Pass, NextPass, Onward
<1>10. Defines(Pass)
  <2> HIDE DEF Defines
  <2> QED
    BY <1>8, <1>9
<1>11. \A k \in Nat : Pass[k] = IF k = 0 THEN first ELSE NextPass(Pass[k - 1])
  BY <1>4, <1>10
<1>12. Pass[0] = first
  BY <1>11
<1>13. ASSUME NEW k \in Nat  PROVE Pass[k + 1] = NextPass(Pass[k])
  <2>1. k + 1 \in Nat /\ k + 1 # 0 /\ (k + 1) - 1 = k
    OBVIOUS
  <2> QED
    BY <1>11, <2>1
<1> QED
  BY <1>4, <1>12, <1>13

\* Every pass that finds an edge adds it to those processed.
LEMMA PassesGrow ==
  ASSUME NEW k \in Nat
  PROVE  /\ Pass[k].edges \subseteq Pass[k].processed /\ Pass[k].processed \subseteq Meta
         /\ Pass[k].edges # {} => Cardinality(Pass[k].processed) > k
         /\ \A m \in Pass[k].processed : \E j \in 0..k : m \in EdgesOfRound(j)
<1> DEFINE Found(n) == \A m \in Pass[n].processed : \E j \in 0..n : m \in EdgesOfRound(j)
           Good(n) == /\ Pass[n].edges \subseteq Pass[n].processed /\ Pass[n].processed \subseteq Meta
                      /\ Pass[n].edges # {} => Cardinality(Pass[n].processed) > n
                      /\ Found(n)
           S == {n \in Nat : Good(n)}
<1>1. 0 \in S
  <2>1. Pass[0].edges = FirstEdges /\ Pass[0].processed = FirstEdges /\ FirstEdges \subseteq Meta
    BY PassDefined DEF FirstEdges
  <2>2. FirstEdges # {} => Cardinality(FirstEdges) > 0
    <3>1. IsFiniteSet(FirstEdges)
      BY <2>1, BoundAssumption, FS_Subset
    <3>2. Cardinality(FirstEdges) \in Nat /\ (Cardinality(FirstEdges) = 0 <=> FirstEdges = {})
      BY <3>1, FS_CardinalityType, FS_EmptySet
    <3> QED
      BY <3>2
  <2>3. 0 \in 0..0 /\ EdgesOfRound(0) = FirstEdges
    BY DEF EdgesOfRound
  <2> QED
    BY <2>1, <2>2, <2>3
<1>2. ASSUME NEW n \in Nat, n \in S  PROVE n + 1 \in S
  <2>1. Pass[n + 1] = NextPass(Pass[n]) /\ Good(n)
    BY <1>2, PassDefined
  <2>2. PICK new : new = Onward(Pass[n])
    OBVIOUS
  <2>3. /\ Pass[n + 1].edges = new /\ Pass[n + 1].processed = Pass[n].processed \cup new
        /\ new \subseteq Meta /\ new \cap Pass[n].processed = {}
    BY <2>1, <2>2 DEF NextPass, Onward
  <2>4. new # {} => Pass[n].edges # {}
    BY <2>2 DEF Onward
  <2>5. new # {} => Cardinality(Pass[n + 1].processed) > n + 1
    <3> SUFFICES ASSUME NEW x \in new  PROVE Cardinality(Pass[n + 1].processed) > n + 1
      OBVIOUS
    <3>1. IsFiniteSet(Pass[n].processed) /\ IsFiniteSet(Pass[n + 1].processed)
      BY <2>1, <2>3, BoundAssumption, FS_Subset
    <3>2. PICK more : more = Pass[n].processed \cup {x}
      OBVIOUS
    <3>3. IsFiniteSet(more) /\ Cardinality(more) = Cardinality(Pass[n].processed) + 1
      BY <2>3, <3>1, <3>2, FS_AddElement
    <3>4. more \subseteq Pass[n + 1].processed
      BY <2>3, <3>2
    <3>5. Cardinality(more) <= Cardinality(Pass[n + 1].processed)
      BY <3>1, <3>4, FS_Subset
    <3>6. Cardinality(more) \in Nat /\ Cardinality(Pass[n + 1].processed) \in Nat /\ Cardinality(Pass[n].processed) \in Nat
      BY <3>1, <3>3, FS_CardinalityType
    <3>7. Cardinality(Pass[n].processed) > n
      BY <2>1, <2>4
    <3> QED
      BY <3>3, <3>5, <3>6, <3>7
  <2>6. Found(n + 1)
    <3>1. EdgesOfRound(n + 1) = new
      BY <2>3 DEF EdgesOfRound
    <3>2. 0..n \subseteq 0..(n + 1) /\ n + 1 \in 0..(n + 1)
      OBVIOUS
    <3> QED
      BY <2>1, <2>3, <3>1, <3>2
  <2>7. Good(n + 1)
    BY <2>1, <2>3, <2>5, <2>6
  <2> QED
    BY <2>7
<1> HIDE DEF Good
<1>3. Nat \subseteq S
  <2> HIDE DEF S
  <2> QED
    BY <1>1, <1>2, Induction
<1>4. Good(k)
  BY <1>3
<1> QED
  BY <1>4 DEF Good

\* The rows of the first save: one for every edge that the initial state leads to.
LEMMA ReachedIsClosed ==
  /\ FirstEdges \subseteq Reached
  /\ \A b \in Reached, m \in Meta : Source[m] = Destination[b] => m \in Reached
<1> DEFINE N == Cardinality(Meta)
<1>1. N \in Nat /\ 0 \in Rounds
  BY FS_CardinalityType, BoundAssumption DEF Rounds
<1>2. FirstEdges \subseteq Reached
  BY <1>1 DEF Reached, EdgesOfRound, FirstEdges
<1>3. \A k \in Nat : EdgesOfRound(k) = Pass[k].edges
  BY PassDefined DEF EdgesOfRound
<1>4. ASSUME NEW b \in Reached, NEW m \in Meta, Source[m] = Destination[b]  PROVE m \in Reached
  <2>1. PICK k \in Rounds : b \in EdgesOfRound(k)
    BY DEF Reached
  <2>2. k \in Nat /\ k <= N /\ b \in Pass[k].edges
    BY <1>1, <1>3, <2>1 DEF Rounds
  <2>3. k < N
    <3>1. Cardinality(Pass[k].processed) > k /\ Pass[k].processed \subseteq Meta
      BY <2>2, PassesGrow
    <3>2. IsFiniteSet(Pass[k].processed) /\ Cardinality(Pass[k].processed) <= N
      BY <3>1, BoundAssumption, FS_Subset
    <3>3. Cardinality(Pass[k].processed) \in Nat
      BY <3>2, FS_CardinalityType
    <3> QED
      BY <1>1, <2>2, <3>1, <3>2, <3>3
  <2>4. m \in Pass[k + 1].processed
    <3>1. Pass[k + 1].processed = Pass[k].processed \cup Onward(Pass[k])
      <4>1. Pass[k + 1] = NextPass(Pass[k])
        BY <2>2, PassDefined
      <4> QED
        BY <4>1 DEF NextPass
    <3>2. m \notin Pass[k].processed => m \in Onward(Pass[k])
      BY <1>4, <2>2 DEF Onward
    <3> QED
      BY <3>1, <3>2
  <2>5. k + 1 \in Nat
    BY <2>2
  <2>6. PICK j \in 0..(k + 1) : m \in EdgesOfRound(j)
    BY <2>4, <2>5, PassesGrow
  <2>7. j \in Rounds
    BY <1>1, <2>2, <2>3, <2>6 DEF Rounds
  <2> QED
    BY <2>6, <2>7 DEF Reached
<1> QED
  BY <1>2, <1>4

-----------------------------------------------------------------------------
(* cancel_impossible_future.                                                *)

Labels == {Label[s] : s \in State}

\* One round of the loop: what open transitions other than t lead to from there.
Farther(rows, t, before) ==
  before \cup {Label[To(rows, p)] : p \in {q \in Pending(rows) \ {t} : Label[From(rows, q)] \in before}}

\* There are no more labels than states.
LEMMA LabelsAreFew == IsFiniteSet(Labels) /\ Cardinality(Labels) <= Cardinality(State)
<1>1. PICK f : f = [s \in State |-> Label[s]]
  OBVIOUS
<1>2. f \in Surjection(State, Labels)
  BY <1>1 DEF Surjection, Labels
<1> QED
  BY <1>2, BoundAssumption, FS_Surjection

\* One step of the loop over labels finds labels of states.
LEMMA FartherLabels ==
  ASSUME NEW rows \in Seq(Transition), NEW t, NEW before \in SUBSET Labels
  PROVE  Farther(rows, t, before) \in SUBSET Labels
<1>1. ASSUME NEW p \in DOMAIN rows  PROVE Label[To(rows, p)] \in Labels
  <2>1. rows[p] \in Transition
    BY ElementOfSeq, LenProperties
  <2> QED
    BY <2>1, GraphAssumption DEF To, Transition, Labels
<1> QED
  BY <1>1 DEF Farther, Pending

\* The loop over labels is the one that its recursion describes.
LEMMA FutureDefined ==
  ASSUME NEW rows \in Seq(Transition), NEW t \in DOMAIN rows
  PROVE  \E f \in [Nat -> SUBSET Labels] :
           /\ f[0] = {Label[To(rows, t)]}
           /\ \A n \in Nat : f[n + 1] = Farther(rows, t, f[n])
           /\ FutureLabels(rows, t) = f[Cardinality(State)]
<1> DEFINE D == SUBSET Labels
           Defines(f) == f = [k \in Nat |-> IF k = 0 THEN {Label[To(rows, t)]}
                                            ELSE Farther(rows, t, f[k - 1])]
<1>1. PICK g : g = [n \in Nat |-> [b \in D |-> Farther(rows, t, b)]]
  OBVIOUS
<1>2. g \in [Nat -> [D -> D]] /\ \A n \in Nat, b \in D : g[n][b] = Farther(rows, t, b)
  BY <1>1, FartherLabels
<1>3. PICK first : first = {Label[To(rows, t)]}
  OBVIOUS
<1>4. first \in D
  <2>1. rows[t] \in Transition
    BY ElementOfSeq, LenProperties
  <2> QED
    BY <1>3, <2>1, GraphAssumption DEF To, Transition, Labels
<1>5. PICK f : Iterates(f, D, first, g)
  <2>1. first \in D /\ g \in [Nat -> [D -> D]]
    BY <1>2, <1>4
  <2> HIDE DEF D
  <2> QED
    BY <2>1, Recursion
<1>6. ASSUME NEW k \in Nat  PROVE f[k] = IF k = 0 THEN first ELSE Farther(rows, t, f[k - 1])
  <2>1. CASE k = 0
    BY <1>5, <2>1 DEF Iterates
  <2>2. CASE k # 0
    <3>1. k - 1 \in Nat /\ (k - 1) + 1 = k
      BY <2>2
    <3> QED
      BY <1>2, <1>5, <2>2, <3>1 DEF Iterates
  <2> QED
    BY <2>1, <2>2
<1>7. Defines(f)
  BY <1>3, <1>5, <1>6 DEF Iterates
<1>8. PICK w : w = CHOOSE h : Defines(h)
  OBVIOUS
<1>9. FutureLabels(rows, t) = w[Cardinality(State)]
  BY <1>8 DEF FutureLabels, Farther
<1>10. Defines(w)
  <2> HIDE DEF Defines
  <2> QED
    BY <1>7, <1>8
<1>11. \A k \in Nat : w[k] = IF k = 0 THEN first ELSE Farther(rows, t, w[k - 1])
  BY <1>3, <1>10
<1>12. w[0] = first
  BY <1>11
<1>13. ASSUME NEW k \in Nat  PROVE w[k + 1] = Farther(rows, t, w[k])
  <2>1. k + 1 \in Nat /\ k + 1 # 0 /\ (k + 1) - 1 = k
    OBVIOUS
  <2> QED
    BY <1>11, <2>1
<1>14. w \in [Nat -> D]
  <2> DEFINE S == {n \in Nat : w[n] \in D}
  <2>1. 0 \in S
    BY <1>4, <1>12
  <2>2. ASSUME NEW n \in Nat, n \in S  PROVE n + 1 \in S
    <3>1. w[n] \in SUBSET Labels /\ w[n + 1] = Farther(rows, t, w[n])
      BY <1>13, <2>2
    <3> QED
      BY <3>1, FartherLabels
  <2>3. Nat \subseteq S
    <3> HIDE DEF S
    <3> QED
      BY <2>1, <2>2, Induction
  <2>4. \E e : w = [k \in Nat |-> e[k]]
    <3>1. PICK e : e = [k \in Nat |-> IF k = 0 THEN {Label[To(rows, t)]} ELSE Farther(rows, t, w[k - 1])]
      OBVIOUS
    <3>2. w = e
      BY <1>10, <3>1
    <3> QED
      BY <3>1, <3>2
  <2> QED
    BY <2>3, <2>4
<1> QED
  BY <1>3, <1>9, <1>12, <1>13, <1>14

\* The loop has found everything after as many rounds as there are states: what an open
\* transition leads to from a label of the future is in the future.
LEMMA FutureIsClosed ==
  ASSUME NEW rows \in Seq(Transition), NEW t \in DOMAIN rows
  PROVE  /\ Label[To(rows, t)] \in FutureLabels(rows, t)
         /\ \A p \in Pending(rows) \ {t} : Label[From(rows, p)] \in FutureLabels(rows, t)
                                             => Label[To(rows, p)] \in FutureLabels(rows, t)
<1>1. PICK f \in [Nat -> SUBSET Labels] :
        /\ f[0] = {Label[To(rows, t)]}
        /\ \A n \in Nat : f[n + 1] = Farther(rows, t, f[n])
        /\ FutureLabels(rows, t) = f[Cardinality(State)]
  BY FutureDefined
<1>2. \A n \in Nat : f[n] \in SUBSET Labels /\ f[n] \subseteq f[n + 1]
  BY <1>1 DEF Farther
<1>3. \A n \in Nat : IsFiniteSet(f[n]) /\ Cardinality(f[n]) \in Nat /\ Cardinality(f[n]) <= Cardinality(Labels)
  BY <1>2, LabelsAreFew, FS_Subset, FS_CardinalityType
<1> DEFINE S == {n \in Nat : /\ Label[To(rows, t)] \in f[n]
                             /\ f[n + 1] # f[n] => Cardinality(f[n]) > n}
<1>4. 0 \in S
  <2>1. Cardinality(f[0]) = 1
    BY <1>1, FS_Singleton
  <2>2. Label[To(rows, t)] \in f[0] /\ 1 > 0
    BY <1>1
  <2> QED
    BY <2>1, <2>2
<1>5. ASSUME NEW n \in Nat, n \in S  PROVE n + 1 \in S
  <2>1. Label[To(rows, t)] \in f[n + 1]
    BY <1>2, <1>5
  <2>2. ASSUME f[(n + 1) + 1] # f[n + 1]  PROVE Cardinality(f[n + 1]) > n + 1
    <3>1. n + 1 \in Nat
      OBVIOUS
    <3>2. f[n + 1] # f[n]
      BY <1>1, <2>2, <3>1
    <3>3. PICK x \in f[n + 1] : x \notin f[n]
      BY <1>2, <3>2
    <3>4. PICK more : more = f[n] \cup {x}
      OBVIOUS
    <3>5. Cardinality(more) = Cardinality(f[n]) + 1
      BY <1>3, <3>3, <3>4, FS_AddElement
    <3>6. more \subseteq f[n + 1]
      BY <1>2, <3>3, <3>4
    <3>7. Cardinality(more) <= Cardinality(f[n + 1])
      BY <1>3, <3>1, <3>6, FS_Subset
    <3>8. Cardinality(f[n]) > n
      BY <1>5, <3>2
    <3>9. Cardinality(f[n]) \in Nat /\ Cardinality(f[n + 1]) \in Nat
      BY <1>3, <3>1
    <3> QED
      BY <3>5, <3>7, <3>8, <3>9
  <2> QED
    BY <2>1, <2>2
<1>6. Nat \subseteq S
  <2> HIDE DEF S
  <2> QED
    BY <1>4, <1>5, Induction
<1>7. PICK N \in Nat : N = Cardinality(State)
  BY BoundAssumption, FS_CardinalityType
<1>8. f[N + 1] = f[N] /\ Label[To(rows, t)] \in f[N]
  <2>1. Cardinality(f[N]) <= N
    <3>1. Cardinality(Labels) \in Nat
      BY LabelsAreFew, FS_CardinalityType
    <3> QED
      BY <1>3, <1>7, <3>1, LabelsAreFew
  <2>2. N \in S
    BY <1>6
  <2>3. ~ (Cardinality(f[N]) > N)
    BY <1>3, <2>1
  <2> QED
    BY <2>2, <2>3
<1>9. Farther(rows, t, f[N]) = f[N]
  BY <1>1, <1>8
<1> QED
  BY <1>1, <1>7, <1>8, <1>9 DEF Farther

-----------------------------------------------------------------------------
(* What approve() cancels.                                                  *)

\* Signing changes neither the edge, the iteration nor the status of a row.
LEMMA SignedPaths ==
  ASSUME TypeOK, NEW a \in (DOMAIN transitions) \X Rule, NEW rows, rows = Sign(transitions, a)
  PROVE  /\ rows \in Seq(Transition) /\ DOMAIN rows = DOMAIN transitions
         /\ Pending(rows) = Pending(transitions)
         /\ \A p \in DOMAIN transitions : /\ rows[p].iteration = transitions[p].iteration
                                          /\ From(rows, p) = From(transitions, p)
                                          /\ To(rows, p) = To(transitions, p)
<1>1. /\ rows \in Seq(Transition) /\ DOMAIN rows = DOMAIN transitions
      /\ \A t \in DOMAIN transitions :
           rows[t] = IF t = a[1] THEN [transitions[t] EXCEPT !.approvals[a[2]] = "approved"]
                     ELSE transitions[t]
  <2>1. transitions \in Seq(Transition)
    BY DEF TypeOK
  <2>2. /\ Sign(transitions, a) \in Seq(Transition) /\ DOMAIN Sign(transitions, a) = DOMAIN transitions
        /\ \A t \in DOMAIN transitions :
             Sign(transitions, a)[t] = IF t = a[1] THEN [transitions[t] EXCEPT !.approvals[a[2]] = "approved"]
                                       ELSE transitions[t]
    BY <2>1, SignRows
  <2> QED
    BY <2>2
<1>2. \A p \in DOMAIN transitions : /\ rows[p].meta = transitions[p].meta
                                    /\ rows[p].iteration = transitions[p].iteration
                                    /\ rows[p].status = transitions[p].status
  BY <1>1, RowType DEF Transition
<1> QED
  BY <1>1, <1>2 DEF Pending, From, To

\* F is the future of the row t: open rows other than t lead from F to F.
FutureOf(t, F) ==
  /\ Label[To(transitions, t)] \in F
  /\ \A p \in Pending(transitions) \ {t} : Label[From(transitions, p)] \in F
                                             => Label[To(transitions, p)] \in F

\* The rows of the same or a later iteration outside a future.
Outside(t, F) == {p \in Pending(transitions) \ {t} :
                    /\ transitions[p].iteration >= transitions[t].iteration
                    /\ Label[From(transitions, p)] \notin F}

\* With next_state approve() cancels what is outside the future of the row it signs.
LEMMA CancelledIsOutside ==
  ASSUME TypeOK, NEW a \in (DOMAIN transitions) \X Rule, NEW next, next # NotGiven
  PROVE  \E F : FutureOf(a[1], F) /\ Cancelled(a, next) = Outside(a[1], F)
<1>1. PICK rows : rows = Sign(transitions, a)
  OBVIOUS
<1>2. PICK t : t = a[1]
  OBVIOUS
<1>3. t \in DOMAIN transitions
  BY <1>2
<1>4. /\ rows \in Seq(Transition) /\ DOMAIN rows = DOMAIN transitions
      /\ Pending(rows) = Pending(transitions)
      /\ \A p \in DOMAIN transitions : /\ rows[p].iteration = transitions[p].iteration
                                       /\ From(rows, p) = From(transitions, p)
                                       /\ To(rows, p) = To(transitions, p)
  BY <1>1, SignedPaths
<1>5. Pending(transitions) \subseteq DOMAIN transitions
  BY DEF Pending
<1>6. PICK F : F = FutureLabels(rows, t)
  OBVIOUS
<1>7. FutureOf(t, F)
  BY <1>3, <1>4, <1>5, <1>6, FutureIsClosed DEF FutureOf
<1>8. Cancelled(a, next) = Impossible(rows, t)
  BY <1>1, <1>2 DEF Cancelled
<1>9. Impossible(rows, t) = Outside(t, F)
  BY <1>3, <1>4, <1>5, <1>6 DEF Impossible, Outside
<1> QED
  BY <1>2, <1>7, <1>8, <1>9

\* What is cancelled does not lie behind a row that stays open.
LEMMA CancellationStep ==
  ASSUME IInv, [Next]_vars, NEW k \in DOMAIN transitions, NEW p \in DOMAIN transitions,
         transitions[p].status = "pending", transitions'[p].status = "cancelled",
         transitions'[k].status = "pending", k # recent',
         transitions[k].iteration >= transitions[recent'].iteration
  PROVE  To(transitions, k) # From(transitions, p)
<1>1. ASSUME NEW u \in User, NEW next, ApprovePart(u, next) \/ ApproveLast(u, next)
      PROVE  To(transitions, k) # From(transitions, p)
  <2>0. PICK a \in Eligible(u, next) : Signs(a, u, next)
    BY <1>1, ApprovedRows DEF ApprovePart
  <2>1. /\ recent' = a[1]
        /\ transitions'[a[1]].status \in {"pending", "done"}
        /\ Cancelled(a, next) \subseteq Pending(transitions) \ {a[1]}
        /\ \A q \in DOMAIN transitions \ {a[1]} :
             /\ q \in Cancelled(a, next) => transitions'[q].status = "cancelled"
             /\ q \notin Cancelled(a, next) => transitions'[q] = transitions[q]
    BY <2>0 DEF Signs
  <2>2. p \in Cancelled(a, next) /\ k \notin Cancelled(a, next) /\ transitions[k].status = "pending" /\ k # a[1]
    BY <2>1
  <2>3. next # NotGiven
    BY <2>2 DEF Cancelled
  <2>4. a \in (DOMAIN transitions) \X Rule
    BY EligibleApproval
  <2>5. PICK F : FutureOf(a[1], F) /\ Cancelled(a, next) = Outside(a[1], F)
    BY <2>3, <2>4, CancelledIsOutside DEF IInv
  <2>6. k \in Pending(transitions) \ {a[1]} /\ transitions[k].iteration >= transitions[a[1]].iteration
    BY <2>1, <2>2 DEF Pending
  <2>7. Label[From(transitions, k)] \in F
    BY <2>2, <2>5, <2>6 DEF Outside
  <2> QED
    BY <2>2, <2>5, <2>6, <2>7 DEF FutureOf, Outside
<1>2. ASSUME NEW given, Create(given)  PROVE FALSE
  BY <1>2, EmptySeq DEF IInv, Create
<1>3. ASSUME NEW u \in User, NEW s \in State, JumpTo(u, s)  PROVE FALSE
  <2>1. transitions'[p] = IF p \in Jumped(s) THEN Stamped(transitions[p], "jumped") ELSE transitions[p]
    BY <1>3, SetStatusRows DEF IInv, TypeOK, JumpTo
  <2>2. transitions[p] \in Transition
    BY RowType DEF IInv
  <2> QED
    BY <2>1, <2>2, StampedEntry
<1>4. ASSUME NEW r \in Rule, DeleteRule(r)  PROVE FALSE
  <2>1. transitions[p] \in Transition
    BY RowType DEF IInv
  <2> QED
    BY <1>4, <2>1 DEF DeleteRule, Transition
<1> QED
  BY <1>1, <1>2, <1>3, <1>4 DEF Next, vars

\* What cancel_impossible_future cancels is not behind an open row of the same or a later
\* iteration: its loop over labels has found the whole future.
THEOREM CancellationClosed == Spec => CancellationIsClosed
<1> DEFINE A == \A k, p \in DOMAIN transitions :
                  /\ transitions[p].status = "pending" /\ transitions'[p].status = "cancelled"
                  /\ transitions'[k].status = "pending"
                  /\ k # recent' /\ transitions[k].iteration >= transitions[recent'].iteration
                  => To(transitions, k) # From(transitions, p)
<1>1. IInv /\ [Next]_vars => A
  BY CancellationStep
<1>2. IInv /\ [Next]_vars => [A]_vars
  BY <1>1
<1>3. [][A]_vars => CancellationIsClosed
  BY PTL DEF CancellationIsClosed
<1> QED
  BY <1>2, <1>3, Invariance, PTL DEF Spec

-----------------------------------------------------------------------------
(* _re_create_cycled_path.                                                  *)

\* The edges of rows, and of the rows that a round of the loop copies.
RowMetas(rows) == {rows[k].meta : k \in DOMAIN rows}
BatchMetas(rows, o) == {(rows \o o.new)[b].meta : b \in o.batch}

\* What the loop may hold between two rounds.
Outcomes(rows) == {o \in [new : Seq(Transition), regenerated : SUBSET Meta, batch : SUBSET Nat] :
                     o.batch \subseteq DOMAIN (rows \o o.new)}

FirstOutcome(rows, t) == [new |-> <<>>, regenerated |-> {}, batch |-> Images(rows, {To(rows, t)})]
NextOutcomes(rows, t, k, before) ==
  UNION {IF o.batch = {} THEN {o} ELSE NextRounds(rows, o, rows[t].iteration + k) : o \in before}

\* Every edge that has rows has one that is its latest.
LEMMA LatestRow ==
  ASSUME NEW rows \in Seq(Transition), NEW sources, NEW q \in DOMAIN rows, From(rows, q) \in sources
  PROVE  \E t \in Images(rows, sources) : rows[t].meta = rows[q].meta
<1> DEFINE Same == {p \in DOMAIN rows : rows[p].meta = rows[q].meta}
           S == {n \in Nat : (\E p \in Same : p <= n) =>
                   \E p \in Same : \A r \in Same : r <= n => rows[r].iteration <= rows[p].iteration}
<1>1. /\ DOMAIN rows = 1..Len(rows) /\ Len(rows) \in Nat
      /\ \A p \in DOMAIN rows : rows[p] \in Transition /\ rows[p].iteration \in Nat
  <2>1. \A p \in DOMAIN rows : rows[p] \in Transition
    BY ElementOfSeq, LenProperties
  <2> QED
    BY <2>1, LenProperties DEF Transition
<1>2. 0 \in S
  BY <1>1
<1>3. ASSUME NEW n \in Nat, n \in S  PROVE n + 1 \in S
  <2>1. \A r \in Same : r \in Nat /\ rows[r].iteration \in Nat /\ (r <= n + 1 <=> r <= n \/ r = n + 1)
    BY <1>1
  <2> SUFFICES ASSUME NEW p \in Same, p <= n + 1
               PROVE  \E best \in Same : \A r \in Same : r <= n + 1 => rows[r].iteration <= rows[best].iteration
    OBVIOUS
  <2>2. CASE \A r \in Same : ~ (r <= n)
    <3>1. \A r \in Same : r <= n + 1 => r = p
      BY <2>1, <2>2
    <3> QED
      BY <2>1, <3>1
  <2>3. CASE \E r \in Same : r <= n
    <3>1. PICK old \in Same : \A r \in Same : r <= n => rows[r].iteration <= rows[old].iteration
      BY <1>3, <2>3
    <3>2. CASE \E r \in Same : r = n + 1 /\ ~ (rows[r].iteration <= rows[old].iteration)
      <4>1. PICK r \in Same : r = n + 1 /\ ~ (rows[r].iteration <= rows[old].iteration)
        BY <3>2
      <4> HIDE DEF Same
      <4>2. ASSUME NEW s \in Same, s <= n + 1  PROVE rows[s].iteration <= rows[r].iteration
        <5>1. CASE s = r
          BY <2>1, <5>1
        <5>2. CASE s # r
          <6>1. s <= n /\ rows[s].iteration <= rows[old].iteration
            BY <2>1, <3>1, <4>1, <4>2, <5>2
          <6>2. /\ rows[s].iteration \in Nat /\ rows[r].iteration \in Nat
                /\ rows[old].iteration \in Nat
            BY <2>1
          <6>3. PICK i, j, k \in Nat : i = rows[s].iteration /\ j = rows[r].iteration /\ k = rows[old].iteration
            BY <6>2
          <6>4. i <= k /\ ~ (j <= k)
            BY <4>1, <6>1, <6>3
          <6>5. i <= j
            BY <6>4
          <6> QED
            BY <6>3, <6>5
        <5> QED
          BY <5>1, <5>2
      <4> QED
        BY <4>2
    <3>3. CASE \A r \in Same : r = n + 1 => rows[r].iteration <= rows[old].iteration
      <4>1. \A s \in Same : s <= n + 1 => rows[s].iteration <= rows[old].iteration
        BY <2>1, <3>1, <3>3
      <4> QED
        BY <4>1
    <3> QED
      BY <3>2, <3>3
  <2> QED
    BY <2>2, <2>3
<1>4. Nat \subseteq S
  <2> HIDE DEF S
  <2> QED
    BY <1>2, <1>3, Induction
<1>5. PICK p \in Same : \A r \in Same : r <= Len(rows) => rows[r].iteration <= rows[p].iteration
  BY <1>1, <1>4
<1>6. \A r \in Same : rows[r].iteration <= rows[p].iteration
  BY <1>1, <1>5
<1>7. From(rows, p) \in sources
  BY DEF From
<1> QED
  BY <1>6, <1>7 DEF Images

\* A batch of rows gets a new row for each.
LEMMA CycledRowsCover ==
  ASSUME NEW rows \in Seq(Transition), NEW batch \in SUBSET (DOMAIN rows), NEW iteration \in Nat
  PROVE  /\ CycledRows(rows, batch, iteration) \in Seq(Transition)
         /\ RowMetas(CycledRows(rows, batch, iteration)) = {rows[b].meta : b \in batch}
<1> DEFINE n == Cardinality(batch)
           order == SetToSeq(batch)
<1>0. DOMAIN rows = 1..Len(rows) /\ Len(rows) \in Nat
  BY LenProperties
<1>1. IsFiniteSet(batch)
  <2>1. IsFiniteSet(DOMAIN rows)
    BY <1>0, FS_Interval
  <2> QED
    BY <2>1, FS_Subset
<1>2. n \in Nat /\ ExistsBijection(1..n, batch)
  BY <1>1, FS_CardinalityType
<1>3. order \in [1..n -> batch] /\ IsInjective(order)
  <2>1. \E f \in [1..n -> batch] : IsInjective(f)
    BY <1>2 DEF ExistsBijection, Bijection, Injection
  <2> QED
    BY <2>1 DEF SetToSeq
<1>4. order \in Injection(1..n, batch)
  BY <1>3 DEF Injection
<1>5. Cardinality(1..n) = n
  BY <1>2, FS_Interval
<1>6. order \in Surjection(1..n, batch)
  BY <1>1, <1>4, <1>5, FS_Injection
<1>7. CycledRows(rows, batch, iteration) = [k \in DOMAIN order |-> CycledRow(rows[order[k]], iteration)]
  BY DEF CycledRows
<1> HIDE DEF n, order
<1>8. \A b \in batch : \E k \in 1..n : order[k] = b
  BY <1>6 DEF Surjection
<1>9. \A k \in 1..n : order[k] \in batch /\ DOMAIN order = 1..n
  BY <1>3
<1>10. \A b \in batch : rows[b] \in Transition
  BY <1>0, ElementOfSeq
<1>11. \A row \in Transition : CycledRow(row, iteration) \in Transition /\ CycledRow(row, iteration).meta = row.meta
  BY DEF CycledRow, Transition, Status, Approvals, ApprovalStatus
<1>12. PICK new : new = CycledRows(rows, batch, iteration)
  OBVIOUS
<1>13. new \in [1..n -> Transition] /\ \A k \in 1..n : new[k].meta = rows[order[k]].meta
  BY <1>3, <1>7, <1>9, <1>10, <1>11, <1>12
<1>14. new \in Seq(Transition) /\ DOMAIN new = 1..n
  BY <1>2, <1>13, SequenceOfFunction
<1>15. RowMetas(new) = {rows[b].meta : b \in batch}
  BY <1>8, <1>9, <1>13, <1>14 DEF RowMetas
<1> QED
  BY <1>12, <1>14, <1>15

\* Rows that are added bring their edges with them.
LEMMA ConcatMetas ==
  ASSUME NEW rows \in Seq(Transition), NEW new \in Seq(Transition)
  PROVE  /\ rows \o new \in Seq(Transition)
         /\ RowMetas(rows \o new) = RowMetas(rows) \cup RowMetas(new)
         /\ RowMetas(rows) \subseteq Meta
<1>1. PICK all : all = rows \o new
  OBVIOUS
<1>2. /\ all \in Seq(Transition) /\ Len(all) = Len(rows) + Len(new)
      /\ \A k \in 1..Len(all) : all[k] = IF k <= Len(rows) THEN rows[k] ELSE new[k - Len(rows)]
  BY <1>1, ConcatProperties
<1>3. /\ Len(rows) \in Nat /\ DOMAIN rows = 1..Len(rows)
      /\ Len(new) \in Nat /\ DOMAIN new = 1..Len(new)
      /\ DOMAIN all = 1..Len(all)
  BY <1>2, LenProperties
<1>4. ASSUME NEW k \in DOMAIN all  PROVE all[k].meta \in RowMetas(rows) \cup RowMetas(new)
  <2>1. CASE k <= Len(rows)
    BY <1>2, <1>3, <2>1 DEF RowMetas
  <2>2. CASE ~ (k <= Len(rows))
    <3>1. k - Len(rows) \in DOMAIN new
      BY <1>2, <1>3, <2>2
    <3> QED
      BY <1>2, <1>3, <2>2, <3>1 DEF RowMetas
  <2> QED
    BY <2>1, <2>2
<1>5. ASSUME NEW k \in DOMAIN rows  PROVE k \in DOMAIN all /\ all[k] = rows[k]
  BY <1>2, <1>3
<1>6. ASSUME NEW k \in DOMAIN new  PROVE k + Len(rows) \in DOMAIN all /\ all[k + Len(rows)] = new[k]
  BY <1>2, <1>3
<1>7. RowMetas(all) = RowMetas(rows) \cup RowMetas(new)
  BY <1>4, <1>5, <1>6 DEF RowMetas
<1>8. \A k \in DOMAIN rows : rows[k] \in Transition
  BY <1>3, ElementOfSeq
<1> QED
  BY <1>1, <1>2, <1>7, <1>8 DEF RowMetas, Transition

\* A round of the loop creates rows for the edges of its batch and goes on with the edges
\* that these lead to and that are not remembered yet.
LEMMA RoundStep ==
  ASSUME NEW rows \in Seq(Transition), NEW o \in Outcomes(rows), NEW iteration \in Nat,
         NEW e \in NextRounds(rows, o, iteration)
  PROVE  /\ e \in Outcomes(rows)
         /\ RowMetas(e.new) = RowMetas(o.new) \cup BatchMetas(rows, o)
         /\ \E m \in BatchMetas(rows, o) : e.regenerated = o.regenerated \cup {m}
         /\ BatchMetas(rows, e) \cap e.regenerated = {}
         /\ BatchMetas(rows, e) \subseteq RowMetas(rows) \cup RowMetas(e.new)
         /\ \A x \in RowMetas(rows), y \in BatchMetas(rows, o) :
              Source[x] = Destination[y] => x \in e.regenerated \cup BatchMetas(rows, e)
<1> DEFINE all == rows \o o.new
           more == CycledRows(all, o.batch, iteration)
           now == o.new \o more
<1>1. all = rows \o o.new /\ more = CycledRows(all, o.batch, iteration) /\ now = o.new \o more
  OBVIOUS
<1>2. PICK last \in o.batch :
        e = [new |-> now, regenerated |-> o.regenerated \cup {all[last].meta},
             batch |-> {t \in Images(rows \o now, {To(all, b) : b \in o.batch}) :
                          (rows \o now)[t].meta \notin o.regenerated \cup {all[last].meta}}]
  BY DEF NextRounds
<1> HIDE DEF all, more, now
<1>3. o.new \in Seq(Transition) /\ o.regenerated \in SUBSET Meta /\ o.batch \subseteq DOMAIN all
  BY <1>1 DEF Outcomes
<1>4. all \in Seq(Transition) /\ RowMetas(all) = RowMetas(rows) \cup RowMetas(o.new) /\ RowMetas(all) \subseteq Meta
  BY <1>1, <1>3, ConcatMetas
<1>5. more \in Seq(Transition) /\ RowMetas(more) = BatchMetas(rows, o)
  BY <1>1, <1>3, <1>4, CycledRowsCover DEF BatchMetas
<1>6. now \in Seq(Transition) /\ RowMetas(now) = RowMetas(o.new) \cup BatchMetas(rows, o)
  BY <1>1, <1>3, <1>5, ConcatMetas
<1>7. PICK every : every = rows \o now
  OBVIOUS
<1>8. every \in Seq(Transition) /\ RowMetas(every) = RowMetas(rows) \cup RowMetas(now)
  BY <1>6, <1>7, ConcatMetas
<1>9. PICK onward : onward = {To(all, b) : b \in o.batch}
  OBVIOUS
<1>10. all[last].meta \in Meta /\ all[last].meta \in BatchMetas(rows, o)
  BY <1>1, <1>3, <1>4 DEF BatchMetas, RowMetas
<1>11. /\ e.new = now /\ e.regenerated = o.regenerated \cup {all[last].meta}
       /\ e.batch = {t \in Images(every, onward) : every[t].meta \notin e.regenerated}
  BY <1>2, <1>7, <1>9
<1>12. e.batch \subseteq DOMAIN every
  BY <1>11 DEF Images
<1>13. e \in Outcomes(rows)
  <2>1. DOMAIN every \subseteq Nat
    BY <1>8, LenProperties
  <2>2. e \in [new : Seq(Transition), regenerated : SUBSET Meta, batch : SUBSET Nat]
    BY <1>2, <1>3, <1>6, <1>10, <1>11, <1>12, <2>1
  <2> QED
    BY <1>7, <1>11, <1>12, <2>2 DEF Outcomes
<1>14. BatchMetas(rows, e) = {every[b].meta : b \in e.batch}
  BY <1>7, <1>11 DEF BatchMetas
<1>15. BatchMetas(rows, e) \cap e.regenerated = {}
  BY <1>11, <1>14
<1>16. BatchMetas(rows, e) \subseteq RowMetas(rows) \cup RowMetas(e.new)
  <2>1. \A b \in e.batch : every[b].meta \in RowMetas(every)
    BY <1>12 DEF RowMetas
  <2> QED
    BY <1>8, <1>11, <1>14, <2>1
<1>17. ASSUME NEW x \in RowMetas(rows), NEW y \in BatchMetas(rows, o), Source[x] = Destination[y]
       PROVE  x \in e.regenerated \cup BatchMetas(rows, e)
  <2>1. PICK b \in o.batch : all[b].meta = y
    BY <1>1 DEF BatchMetas
  <2>2. Source[x] \in onward
    BY <1>9, <1>17, <2>1 DEF To
  <2>3. PICK q \in DOMAIN every : every[q].meta = x
    BY <1>8 DEF RowMetas
  <2>4. PICK t \in Images(every, onward) : every[t].meta = x
    <3>1. From(every, q) \in onward
      BY <2>2, <2>3 DEF From
    <3> QED
      BY <1>8, <2>3, <3>1, LatestRow
  <2> QED
    BY <1>11, <1>14, <2>4
<1> QED
  BY <1>6, <1>10, <1>11, <1>13, <1>15, <1>16, <1>17

\* A round of the loop leaves what the loop may hold.
LEMMA OutcomesStay ==
  ASSUME NEW rows \in Seq(Transition), NEW t \in DOMAIN rows, NEW k \in Nat,
         NEW before \in SUBSET Outcomes(rows)
  PROVE  NextOutcomes(rows, t, k, before) \in SUBSET Outcomes(rows)
<1>1. rows[t].iteration + k \in Nat
  <2>1. rows[t] \in Transition
    BY ElementOfSeq, LenProperties
  <2>2. rows[t].iteration \in Nat
    BY <2>1 DEF Transition
  <2> QED
    BY <2>2
<1>2. \A o \in before : NextRounds(rows, o, rows[t].iteration + k) \subseteq Outcomes(rows)
  BY <1>1, RoundStep
<1> QED
  BY <1>2 DEF NextOutcomes

\* The rounds of the loop, as a function.
LEMMA RoundsDefined ==
  ASSUME NEW rows \in Seq(Transition), NEW t \in DOMAIN rows
  PROVE  \E f \in [Nat -> SUBSET Outcomes(rows)] :
           /\ f[0] = {FirstOutcome(rows, t)}
           /\ \A n \in Nat : f[n + 1] = NextOutcomes(rows, t, n + 1, f[n])
           /\ RoundOutcomes(rows, t) = f[Cardinality(Meta)]
<1> DEFINE D == SUBSET Outcomes(rows)
           Defines(f) == f = [k \in Nat |-> IF k = 0 THEN {FirstOutcome(rows, t)}
                                            ELSE NextOutcomes(rows, t, k, f[k - 1])]
<1>1. PICK g : g = [n \in Nat |-> [b \in D |-> NextOutcomes(rows, t, n + 1, b)]]
  OBVIOUS
<1>2. g \in [Nat -> [D -> D]] /\ \A n \in Nat, b \in D : g[n][b] = NextOutcomes(rows, t, n + 1, b)
  <2>1. \A n \in Nat, b \in SUBSET Outcomes(rows) :
          n + 1 \in Nat /\ NextOutcomes(rows, t, n + 1, b) \in SUBSET Outcomes(rows)
    BY OutcomesStay
  <2> QED
    BY <1>1, <2>1
<1>3. PICK first : first = {FirstOutcome(rows, t)}
  OBVIOUS
<1>4. first \in D
  <2>1. <<>> \in Seq(Transition) /\ rows \o <<>> = rows
    BY EmptySeq, ConcatEmptySeq
  <2>2. Images(rows, {To(rows, t)}) \subseteq DOMAIN rows /\ DOMAIN rows \subseteq Nat
    BY LenProperties DEF Images
  <2>3. FirstOutcome(rows, t) \in Outcomes(rows)
    BY <2>1, <2>2 DEF FirstOutcome, Outcomes
  <2> QED
    BY <1>3, <2>3
<1>5. PICK f : Iterates(f, D, first, g)
  <2>1. first \in D /\ g \in [Nat -> [D -> D]]
    BY <1>2, <1>4
  <2> HIDE DEF D
  <2> QED
    BY <2>1, Recursion
<1>6. ASSUME NEW k \in Nat  PROVE f[k] = IF k = 0 THEN first ELSE NextOutcomes(rows, t, k, f[k - 1])
  <2>1. CASE k = 0
    BY <1>5, <2>1 DEF Iterates
  <2>2. CASE k # 0
    <3>1. k - 1 \in Nat /\ (k - 1) + 1 = k
      BY <2>2
    <3>2. f[k - 1] \in D /\ f[(k - 1) + 1] = g[k - 1][f[k - 1]]
      BY <1>5, <3>1 DEF Iterates
    <3>3. g[k - 1][f[k - 1]] = NextOutcomes(rows, t, (k - 1) + 1, f[k - 1])
      BY <1>2, <3>1, <3>2
    <3> QED
      BY <2>2, <3>1, <3>2, <3>3
  <2> QED
    BY <2>1, <2>2
<1>7. Defines(f)
  BY <1>3, <1>5, <1>6 DEF Iterates
<1>8. PICK w : w = CHOOSE h : Defines(h)
  OBVIOUS
<1>9. RoundOutcomes(rows, t) = w[Cardinality(Meta)]
  BY <1>8 DEF RoundOutcomes, NextOutcomes, FirstOutcome
<1>10. Defines(w)
  <2> HIDE DEF Defines
  <2> QED
    BY <1>7, <1>8
<1>11. \A k \in Nat : w[k] = IF k = 0 THEN first ELSE NextOutcomes(rows, t, k, w[k - 1])
  BY <1>3, <1>10
<1>12. w[0] = first
  BY <1>11
<1>13. ASSUME NEW k \in Nat  PROVE w[k + 1] = NextOutcomes(rows, t, k + 1, w[k])
  <2>1. k + 1 \in Nat /\ k + 1 # 0 /\ (k + 1) - 1 = k
    OBVIOUS
  <2> QED
    BY <1>11, <2>1
<1>14. w \in [Nat -> D]
  <2> DEFINE S == {n \in Nat : w[n] \in D}
  <2>1. 0 \in S
    BY <1>4, <1>12
  <2>2. ASSUME NEW n \in Nat, n \in S  PROVE n + 1 \in S
    <3>1. w[n] \in SUBSET Outcomes(rows)
      BY <2>2
    <3>2. n + 1 \in Nat /\ w[n + 1] = NextOutcomes(rows, t, n + 1, w[n])
      BY <1>13
    <3>3. NextOutcomes(rows, t, n + 1, w[n]) \in SUBSET Outcomes(rows)
      BY <3>1, <3>2, OutcomesStay
    <3> QED
      BY <3>2, <3>3
  <2>3. Nat \subseteq S
    <3> HIDE DEF S
    <3> QED
      BY <2>1, <2>2, Induction
  <2>4. \E e : w = [k \in Nat |-> e[k]]
    <3>1. PICK e : e = [k \in Nat |-> IF k = 0 THEN {FirstOutcome(rows, t)}
                                      ELSE NextOutcomes(rows, t, k, w[k - 1])]
      OBVIOUS
    <3>2. w = e
      BY <1>10, <3>1
    <3> QED
      BY <3>1, <3>2
  <2> QED
    BY <2>3, <2>4
<1> QED
  BY <1>3, <1>9, <1>12, <1>13, <1>14

\* What holds of the loop after k rounds: it creates rows for edges that have rows, what
\* these lead to has a new row or is in the batch, and each round but the last remembers an edge.
Explored(rows, t, k, o) ==
  /\ RowMetas(o.new) \cup BatchMetas(rows, o) \subseteq RowMetas(rows)
  /\ o.regenerated \subseteq RowMetas(o.new)
  /\ BatchMetas(rows, o) \cap o.regenerated = {}
  /\ o.batch # {} => Cardinality(o.regenerated) >= k
  /\ \A x \in RowMetas(rows) :
       Source[x] = To(rows, t) \/ (\E y \in RowMetas(o.new) : Source[x] = Destination[y])
         => x \in RowMetas(o.new) \cup BatchMetas(rows, o)

\* Before its first round the loop has all edges out of the state still before it.
LEMMA FirstExplored ==
  ASSUME NEW rows \in Seq(Transition), NEW t \in DOMAIN rows
  PROVE  Explored(rows, t, 0, FirstOutcome(rows, t))
<1>1. PICK o : o = FirstOutcome(rows, t)
  OBVIOUS
<1>2. o.new = <<>> /\ o.regenerated = {} /\ o.batch = Images(rows, {To(rows, t)})
  BY <1>1 DEF FirstOutcome
<1>3. RowMetas(o.new) = {}
  BY <1>2 DEF RowMetas
<1>4. rows \o o.new = rows
  BY <1>2, ConcatEmptySeq
<1>5. BatchMetas(rows, o) = {rows[b].meta : b \in o.batch} /\ o.batch \subseteq DOMAIN rows
  BY <1>2, <1>4 DEF BatchMetas, Images
<1>6. BatchMetas(rows, o) \subseteq RowMetas(rows)
  BY <1>5 DEF RowMetas
<1>7. Cardinality(o.regenerated) = 0
  BY <1>2, FS_EmptySet
<1>8. ASSUME NEW x \in RowMetas(rows), Source[x] = To(rows, t)  PROVE x \in BatchMetas(rows, o)
  <2>1. PICK q \in DOMAIN rows : rows[q].meta = x
    BY DEF RowMetas
  <2>2. PICK b \in Images(rows, {To(rows, t)}) : rows[b].meta = x
    <3>1. From(rows, q) \in {To(rows, t)}
      BY <1>8, <2>1 DEF From
    <3> QED
      BY <2>1, <3>1, LatestRow
  <2> QED
    BY <1>2, <1>5, <2>2
<1> QED
  BY <1>1, <1>2, <1>3, <1>6, <1>7, <1>8 DEF Explored

\* A round loses no edge: what its batch leads to is new, remembered or in the next batch.
LEMMA RoundExplored ==
  ASSUME NEW rows \in Seq(Transition), NEW t \in DOMAIN rows, NEW k \in Nat, NEW o \in Outcomes(rows),
         Explored(rows, t, k, o), o.batch # {},
         NEW iteration \in Nat, NEW e \in NextRounds(rows, o, iteration)
  PROVE  Explored(rows, t, k + 1, e)
<1>1. /\ RowMetas(e.new) = RowMetas(o.new) \cup BatchMetas(rows, o)
      /\ BatchMetas(rows, e) \cap e.regenerated = {}
      /\ BatchMetas(rows, e) \subseteq RowMetas(rows) \cup RowMetas(e.new)
      /\ \A x \in RowMetas(rows), y \in BatchMetas(rows, o) :
           Source[x] = Destination[y] => x \in e.regenerated \cup BatchMetas(rows, e)
  BY RoundStep
<1>2. PICK m \in BatchMetas(rows, o) : e.regenerated = o.regenerated \cup {m}
  BY RoundStep
<1>3. e.regenerated \subseteq RowMetas(e.new) /\ m \notin o.regenerated
  BY <1>1, <1>2 DEF Explored
<1>4. Cardinality(e.regenerated) >= k + 1
  <2>1. IsFiniteSet(o.regenerated) /\ Cardinality(o.regenerated) \in Nat
    <3>1. o.regenerated \subseteq Meta
      BY DEF Outcomes
    <3> QED
      BY <3>1, BoundAssumption, FS_Subset, FS_CardinalityType
  <2>2. Cardinality(e.regenerated) = Cardinality(o.regenerated) + 1
    BY <1>2, <1>3, <2>1, FS_AddElement
  <2>3. Cardinality(o.regenerated) >= k
    BY DEF Explored
  <2> QED
    BY <2>1, <2>2, <2>3
<1>5. RowMetas(e.new) \cup BatchMetas(rows, e) \subseteq RowMetas(rows)
  BY <1>1 DEF Explored
<1>6. ASSUME NEW x \in RowMetas(rows),
             Source[x] = To(rows, t) \/ \E y \in RowMetas(e.new) : Source[x] = Destination[y]
      PROVE  x \in RowMetas(e.new) \cup BatchMetas(rows, e)
  <2>1. CASE Source[x] = To(rows, t) \/ \E y \in RowMetas(o.new) : Source[x] = Destination[y]
    BY <1>1, <2>1 DEF Explored
  <2>2. CASE \E y \in BatchMetas(rows, o) : Source[x] = Destination[y]
    BY <1>1, <1>3, <2>2
  <2> QED
    BY <1>1, <1>6, <2>1, <2>2
<1> QED
  BY <1>1, <1>3, <1>4, <1>5, <1>6 DEF Explored

\* When a state is entered again, _re_create_cycled_path opens a row for every edge that
\* has rows and can be reached from there, and for no other.
LEMMA ReCreatedIsClosed ==
  ASSUME NEW rows \in Seq(Transition), NEW t \in DOMAIN rows, NEW new \in ReCreated(rows, t)
  PROVE  /\ RowMetas(new) \subseteq RowMetas(rows)
         /\ \A x \in RowMetas(rows) :
              Source[x] = To(rows, t) \/ (\E y \in RowMetas(new) : Source[x] = Destination[y])
                => x \in RowMetas(new)
<1>1. PICK f \in [Nat -> SUBSET Outcomes(rows)] :
        /\ f[0] = {FirstOutcome(rows, t)}
        /\ \A n \in Nat : f[n + 1] = NextOutcomes(rows, t, n + 1, f[n])
        /\ RoundOutcomes(rows, t) = f[Cardinality(Meta)]
  BY RoundsDefined
<1> DEFINE S == {n \in Nat : \A o \in f[n] : Explored(rows, t, n, o) \/ (o.batch = {} /\ Explored(rows, t, 0, o))}
<1>2. 0 \in S
  BY <1>1, FirstExplored
<1>3. ASSUME NEW n \in Nat, n \in S  PROVE n + 1 \in S
  <2>1. rows[t].iteration + (n + 1) \in Nat
    <3>1. rows[t] \in Transition
      BY ElementOfSeq, LenProperties
    <3>2. rows[t].iteration \in Nat
      BY <3>1 DEF Transition
    <3> QED
      BY <3>2
  <2>2. ASSUME NEW e \in f[n + 1]
        PROVE  Explored(rows, t, n + 1, e) \/ (e.batch = {} /\ Explored(rows, t, 0, e))
    <3>1. f[n] \subseteq Outcomes(rows) /\ f[n + 1] = NextOutcomes(rows, t, n + 1, f[n])
      BY <1>1
    <3>2. PICK o \in f[n] : e \in IF o.batch = {} THEN {o}
                                  ELSE NextRounds(rows, o, rows[t].iteration + (n + 1))
      BY <3>1 DEF NextOutcomes
    <3>3. CASE o.batch = {}
      <4>1. Explored(rows, t, 0, o)
        BY <1>3, <3>2, <3>3 DEF Explored
      <4> QED
        BY <3>2, <3>3, <4>1
    <3>4. CASE o.batch # {}
      <4>1. Explored(rows, t, n, o)
        BY <1>3, <3>2, <3>4
      <4>2. o \in Outcomes(rows) /\ e \in NextRounds(rows, o, rows[t].iteration + (n + 1))
        BY <3>1, <3>2, <3>4
      <4> QED
        BY <2>1, <3>4, <4>1, <4>2, RoundExplored
    <3> QED
      BY <3>3, <3>4
  <2> QED
    BY <2>2
<1>4. Nat \subseteq S
  <2> HIDE DEF S
  <2> QED
    BY <1>2, <1>3, Induction
<1>5. PICK N \in Nat : N = Cardinality(Meta)
  BY BoundAssumption, FS_CardinalityType
<1>6. PICK o \in f[N] : new = o.new
  BY <1>1, <1>5 DEF ReCreated
<1>7. o \in Outcomes(rows) /\ o.regenerated \subseteq Meta
  <2>1. f[N] \in SUBSET Outcomes(rows)
    BY <1>1
  <2>2. o \in Outcomes(rows)
    BY <1>6, <2>1
  <2> QED
    BY <2>2 DEF Outcomes
<1>8. o.batch = {}
  <2> SUFFICES ASSUME o.batch # {}  PROVE FALSE
    OBVIOUS
  <2>1. Explored(rows, t, N, o)
    BY <1>4, <1>6
  <2>2. Cardinality(o.regenerated) >= N
    BY <2>1 DEF Explored
  <2>3. o.regenerated = Meta
    <3>1. Cardinality(o.regenerated) <= N /\ (Cardinality(o.regenerated) = N => o.regenerated = Meta)
      BY <1>5, <1>7, BoundAssumption, FS_Subset
    <3>2. Cardinality(o.regenerated) \in Nat
      BY <1>7, BoundAssumption, FS_Subset, FS_CardinalityType
    <3> QED
      BY <2>2, <3>1, <3>2
  <2>4. PICK b \in o.batch : TRUE
    OBVIOUS
  <2>5. (rows \o o.new)[b].meta \in BatchMetas(rows, o)
    BY DEF BatchMetas
  <2>6. (rows \o o.new)[b].meta \in Meta
    BY <2>1, <2>5, EmptySeq, ConcatMetas DEF Explored
  <2> QED
    BY <2>1, <2>3, <2>5, <2>6 DEF Explored
<1>9. BatchMetas(rows, o) = {}
  BY <1>8 DEF BatchMetas
<1>10. Explored(rows, t, N, o) \/ Explored(rows, t, 0, o)
  BY <1>4, <1>6
<1> QED
  BY <1>6, <1>9, <1>10 DEF Explored

-----------------------------------------------------------------------------
(* The way on.                                                              *)

\* What no step takes back: rows keep their edge and their iteration, the log grows, and
\* it names every row that is closed.
Keeps ==
  /\ DOMAIN transitions \subseteq DOMAIN transitions'
  /\ \A p \in DOMAIN transitions : /\ transitions'[p].meta = transitions[p].meta
                                   /\ transitions'[p].iteration = transitions[p].iteration
  /\ LogGrows
  /\ \A p \in DOMAIN transitions :
       transitions[p].status = "pending" /\ transitions'[p].status # "pending" =>
         \E j \in DOMAIN auditLog' \ DOMAIN auditLog : p \in auditLog'[j].transitions

\* Every operation keeps the edges, the iterations and the log.
LEMMA StepKeeps == IInv /\ [Next]_vars => Keeps
<1> SUFFICES ASSUME IInv, [Next]_vars
             PROVE  Keeps
  OBVIOUS
<1>1. ASSUME NEW given, Create(given)  PROVE Keeps
  <2>1. transitions = <<>> /\ auditLog' = auditLog
    BY <1>1 DEF IInv, Create
  <2>2. DOMAIN transitions = {}
    BY <2>1
  <2> QED
    BY <2>1, <2>2, SameLog DEF Keeps, IInv
<1>2. ASSUME NEW u \in User, NEW next, ApprovePart(u, next) \/ ApproveLast(u, next)  PROVE Keeps
  <2>1. PICK a \in Eligible(u, next) : Signs(a, u, next)
    BY <1>2, ApprovedRows DEF ApprovePart
  <2>2. PICK c : c = Cancelled(a, next)
    OBVIOUS
  <2>3. SignedThenCancelled(auditLog, auditLog', {a[1]}, c)
    BY <2>1, <2>2, ApproveLog DEF IInv, Signs
  <2>4. /\ Longer(auditLog, auditLog')
        /\ \E j \in DOMAIN auditLog' \ DOMAIN auditLog : a[1] \in auditLog'[j].transitions
        /\ c # {} => \E j \in DOMAIN auditLog' \ DOMAIN auditLog : auditLog'[j].transitions = c
    <3>1. PICK t : t = a[1]
      OBVIOUS
    <3>2. Longer(auditLog, auditLog') /\ SignatureEntries(auditLog, auditLog', t, c)
      BY <2>3, <3>1, NewEntries
    <3> QED
      BY <3>1, <3>2 DEF SignatureEntries
  <2>5. ASSUME NEW p \in DOMAIN transitions, transitions[p].status = "pending", transitions'[p].status # "pending"
        PROVE  \E j \in DOMAIN auditLog' \ DOMAIN auditLog : p \in auditLog'[j].transitions
    <3>1. p = a[1] \/ p \in c
      BY <2>1, <2>2, <2>5 DEF Signs
    <3> QED
      BY <2>4, <3>1
  <2> QED
    BY <2>1, <2>4, <2>5 DEF Keeps, Signs, LogGrows
<1>3. ASSUME NEW u \in User, NEW s \in State, JumpTo(u, s)  PROVE Keeps
  <2>1. PICK c : c = Jumped(s)
    OBVIOUS
  <2>2. Appends(auditLog, auditLog', "jumped", c) /\ c # {}
    BY <1>3, <2>1, JumpLog DEF IInv
  <2>3. LogGrows /\ \E j \in DOMAIN auditLog' \ DOMAIN auditLog : auditLog'[j].transitions = c
    BY <2>2, NewEntry DEF LogGrows
  <2>4. /\ DOMAIN transitions' = DOMAIN transitions
        /\ \A p \in DOMAIN transitions :
             /\ p \notin c => transitions'[p] = transitions[p]
             /\ transitions'[p].meta = transitions[p].meta
             /\ transitions'[p].iteration = transitions[p].iteration
    BY <1>3, <2>1, JumpedRows
  <2> QED
    BY <2>3, <2>4 DEF Keeps
<1>4. ASSUME NEW r \in Rule, DeleteRule(r)  PROVE Keeps
  <2>1. \A t \in DOMAIN transitions : transitions[t] \in Transition
    BY RowType DEF IInv
  <2>2. auditLog' = auditLog /\ DOMAIN transitions' = DOMAIN transitions
    BY <1>4 DEF DeleteRule
  <2>3. \A t \in DOMAIN transitions : /\ transitions'[t].meta = transitions[t].meta
                                      /\ transitions'[t].iteration = transitions[t].iteration
                                      /\ transitions'[t].status = transitions[t].status
    BY <1>4, <2>1 DEF DeleteRule, Transition
  <2> QED
    BY <2>2, <2>3, SameLog DEF Keeps, IInv
<1>5. CASE UNCHANGED vars
  BY <1>5, SameLog DEF vars, Keeps, IInv
<1> QED
  BY <1>1, <1>2, <1>3, <1>4, <1>5 DEF Next

\* What has been jumped or cut short remains so.
LEMMA PastStays ==
  ASSUME Keeps
  PROVE  (HasJumped => HasJumped') /\ (CutShort => CutShort')
<1>1. /\ DOMAIN auditLog \subseteq DOMAIN auditLog'
      /\ \A k \in DOMAIN auditLog : auditLog'[k] = auditLog[k]
      /\ \A k \in DOMAIN auditLog, j \in DOMAIN auditLog' \ DOMAIN auditLog : j > k
  BY DEF Keeps, LogGrows, Longer
<1>2. HasJumped => HasJumped'
  BY <1>1 DEF HasJumped
<1>3. ASSUME NEW t \in DOMAIN transitions, NEW k \in DOMAIN auditLog, OpenAfter(t, k)
      PROVE  OpenAfter(t, k)'
  <2>1. CASE transitions[t].status = "pending"
    BY <1>1, <2>1 DEF OpenAfter, Keeps
  <2>2. CASE \E j \in DOMAIN auditLog : j > k /\ t \in auditLog[j].transitions
    BY <1>1, <2>2 DEF OpenAfter
  <2> QED
    BY <1>3, <2>1, <2>2 DEF OpenAfter
<1>4. ASSUME CutShort  PROVE CutShort'
  <2>1. PICK k \in DOMAIN auditLog, t \in DOMAIN transitions, p \in DOMAIN transitions :
          /\ k + 1 \in DOMAIN auditLog
          /\ auditLog[k].transitions = {t} /\ auditLog[k + 1].action = "cancelled"
          /\ OpenAfter(t, k + 1) /\ OpenAfter(p, k + 1)
          /\ From(transitions, p) = From(transitions, t)
          /\ transitions[p].iteration < transitions[t].iteration
    BY <1>4 DEF CutShort
  <2>2. /\ k \in DOMAIN auditLog' /\ k + 1 \in DOMAIN auditLog'
        /\ auditLog'[k].transitions = {t} /\ auditLog'[k + 1].action = "cancelled"
    BY <1>1, <2>1
  <2>3. OpenAfter(t, k + 1)' /\ OpenAfter(p, k + 1)'
    <3>1. PICK i \in DOMAIN auditLog : i = k + 1
      BY <2>1
    <3>2. OpenAfter(t, i)' /\ OpenAfter(p, i)'
      BY <1>3, <2>1, <3>1
    <3> QED
      BY <3>1, <3>2
  <2>4. /\ t \in DOMAIN transitions' /\ p \in DOMAIN transitions'
        /\ From(transitions', p) = From(transitions', t)
        /\ transitions'[p].iteration < transitions'[t].iteration
    BY <2>1 DEF Keeps, From
  <2> QED
    BY <2>2, <2>3, <2>4 DEF CutShort
<1> QED
  BY <1>2, <1>4

\* Every edge that has a row leads to edges that have one.
MetasClosed ==
  \A x \in RowMetas(transitions), m \in Meta :
    Source[m] = Destination[x] => m \in RowMetas(transitions)

\* The open rows do not lead out of the states S, to which the object's belongs, and
\* from each of them that has an edge a row is open or was taken.
WaysOnIn(S) ==
  /\ state \in S
  /\ \A p \in Pending(transitions) : From(transitions, p) \in S => To(transitions, p) \in S
  /\ \A s \in S, m \in Meta : Source[m] = s =>
       \E p \in DOMAIN transitions : /\ From(transitions, p) = s
                                     /\ transitions[p].status \in {"pending", "done"}

\* A row is open from the state, if an edge is.
WayOn == (\E m \in Meta : Source[m] = state) =>
            \E t \in Pending(transitions) : From(transitions, t) = state

\* The inductive invariant of the way on.
StrandInv ==
  /\ MetasClosed
  /\ state # NoObject /\ ~HasJumped /\ ~CutShort =>
       WayOn /\ \E S \in SUBSET State : WaysOnIn(S)

\* The states from which, once t is signed and c is cancelled, the ways on are kept.
Future(t, c, G) ==
  /\ To(transitions, t) \in G
  /\ \A p \in Pending(transitions) \ {t} :
       /\ From(transitions, p) \in G => To(transitions, p) \in G
       /\ p \in c => From(transitions, p) \notin G
       /\ p \notin c => From(transitions, p) \in G \/ transitions[p].iteration < transitions[t].iteration

\* What approve() cancels leaves such states, those whose labels it has found.
LEMMA FutureExists ==
  ASSUME TypeOK, NEW a \in (DOMAIN transitions) \X Rule, NEW next
  PROVE  \E G \in SUBSET State : Future(a[1], Cancelled(a, next), G)
<1>1. PICK t, c : t = a[1] /\ c = Cancelled(a, next)
  OBVIOUS
<1>2. \A p \in DOMAIN transitions : /\ From(transitions, p) \in State /\ To(transitions, p) \in State
                                     /\ transitions[p].iteration \in Nat
  BY RowType, GraphAssumption DEF Transition, From, To
<1>3. t \in DOMAIN transitions /\ Pending(transitions) \subseteq DOMAIN transitions
  BY <1>1 DEF Pending
<1>4. CASE next = NotGiven
  <2>1. c = {}
    BY <1>1, <1>4 DEF Cancelled
  <2>2. Future(t, c, State)
    BY <1>2, <1>3, <2>1 DEF Future
  <2> QED
    BY <1>1, <2>2
<1>5. CASE next # NotGiven
  <2>1. PICK F : FutureOf(t, F) /\ c = Outside(t, F)
    BY <1>1, <1>5, CancelledIsOutside
  <2>2. PICK G \in SUBSET State : \A s \in State : s \in G <=> Label[s] \in F
    <3>1. \A s \in State : s \in {r \in State : Label[r] \in F} <=> Label[s] \in F
      OBVIOUS
    <3> QED
      BY <3>1
  <2>3. To(transitions, t) \in G
    BY <1>2, <1>3, <2>1, <2>2 DEF FutureOf
  <2>4. ASSUME NEW p \in Pending(transitions) \ {t}
        PROVE  /\ From(transitions, p) \in G => To(transitions, p) \in G
               /\ p \in c => From(transitions, p) \notin G
               /\ p \notin c => From(transitions, p) \in G \/ transitions[p].iteration < transitions[t].iteration
    <3>1. From(transitions, p) \in State /\ To(transitions, p) \in State
      BY <1>2, <1>3
    <3>2. From(transitions, p) \in G => To(transitions, p) \in G
      BY <2>1, <2>2, <3>1 DEF FutureOf
    <3>3. p \in c => From(transitions, p) \notin G
      BY <2>1, <2>2, <3>1 DEF Outside
    <3>4. transitions[p].iteration \in Nat /\ transitions[t].iteration \in Nat
      BY <1>2, <1>3
    <3>5. ~ (transitions[p].iteration >= transitions[t].iteration) => transitions[p].iteration < transitions[t].iteration
      BY <3>4
    <3>6. p \notin c => From(transitions, p) \in G \/ ~ (transitions[p].iteration >= transitions[t].iteration)
      BY <2>1, <2>2, <3>1 DEF Outside
    <3> QED
      BY <3>2, <3>3, <3>5, <3>6
  <2>5. Future(t, c, G)
    BY <2>3, <2>4 DEF Future
  <2> QED
    BY <1>1, <2>5
<1> QED
  BY <1>4, <1>5

\* The object has moved to a state that it has not left, or from which a row is open.
MovedOn ==
  /\ RowMetas(transitions') = RowMetas(transitions)
  /\ DOMAIN transitions' = DOMAIN transitions
  /\ (\E p \in DOMAIN transitions' : From(transitions', p) = state' /\ transitions'[p].status = "done") =>
       \E p \in DOMAIN transitions' : From(transitions', p) = state' /\ transitions'[p].status = "pending"

\* The edges N have been created again, and they are all that can be reached.
Recreated(N) ==
  /\ RowMetas(transitions') = RowMetas(transitions) /\ N \subseteq RowMetas(transitions)
  /\ \A m \in N : \E p \in DOMAIN transitions' : transitions'[p].meta = m /\ transitions'[p].status = "pending"
  /\ \A x \in RowMetas(transitions) :
       Source[x] = state' \/ (\E y \in N : Source[x] = Destination[y]) => x \in N

\* The last signature moves the object on, or has created again what it comes back to.
LEMMA Returns ==
  ASSUME IInv, NEW u \in User, NEW next, ApproveLast(u, next)
  PROVE  MovedOn \/ \E N : Recreated(N)
<1>1. PICK a \in Eligible(u, next) :
        LET done == Complete(AfterSignature(a, next), a[1])
        IN /\ \E new \in IF Cycled(done, a[1]) THEN ReCreated(done, a[1]) ELSE {<<>>} :
                transitions' = done \o new
           /\ state' = To(done, a[1])
  BY DEF ApproveLast
<1>2. PICK t, signed, done : t = a[1] /\ signed = AfterSignature(a, next) /\ done = Complete(signed, t)
  OBVIOUS
<1>3. PICK new \in IF Cycled(done, t) THEN ReCreated(done, t) ELSE {<<>>} : transitions' = done \o new
  BY <1>1, <1>2
<1>4. state' = To(done, t) /\ a \in (DOMAIN transitions) \X Rule /\ t \in DOMAIN transitions
  BY <1>1, <1>2, EligibleApproval
<1>5. signed \in Seq(Transition) /\ DOMAIN signed = DOMAIN transitions
  BY <1>2, <1>4, AfterSignatureRows DEF IInv
<1>6. done \in Seq(Transition) /\ DOMAIN done = DOMAIN signed
  BY <1>2, <1>4, <1>5, CompleteRows
<1>7. DOMAIN done = DOMAIN transitions /\ \A p \in DOMAIN transitions : transitions'[p] = done[p]
  BY <1>1, <1>2, ApproveLastRows DEF IInv
<1>8. \A p \in DOMAIN transitions : transitions'[p].meta = transitions[p].meta
  BY ApprovedRows DEF Signs
<1>9. RowMetas(done) = RowMetas(transitions)
  BY <1>7, <1>8 DEF RowMetas
<1>10. CASE Cycled(done, t)
  <2>1. new \in ReCreated(done, t)
    BY <1>3, <1>10
  <2>2. new \in Seq(NewTransition) /\ NewTransition \subseteq Transition
    BY <2>1 DEF ReCreated, NewTransition, Transition, Status, Approvals, ApprovalStatus
  <2>3. new \in Seq(Transition)
    BY <2>2, SeqMonotonic
  <2>4. /\ RowMetas(new) \subseteq RowMetas(done)
        /\ \A x \in RowMetas(done) :
             Source[x] = To(done, t) \/ (\E y \in RowMetas(new) : Source[x] = Destination[y])
               => x \in RowMetas(new)
    BY <1>4, <1>6, <1>7, <2>1, ReCreatedIsClosed
  <2>5. RowMetas(transitions') = RowMetas(done) \cup RowMetas(new)
    BY <1>3, <1>6, <2>3, ConcatMetas
  <2>6. PICK N : N = RowMetas(new)
    OBVIOUS
  <2>7. ASSUME NEW m \in N
        PROVE  \E p \in DOMAIN transitions' : transitions'[p].meta = m /\ transitions'[p].status = "pending"
    <3>1. PICK k \in DOMAIN new : new[k].meta = m
      BY <2>6, <2>7 DEF RowMetas
    <3>2. /\ Len(done) \in Nat /\ DOMAIN done = 1..Len(done) /\ Len(new) \in Nat /\ DOMAIN new = 1..Len(new)
      BY <1>6, <2>3, LenProperties
    <3>3. new[k] \in NewTransition
      BY <2>2, <3>2, ElementOfSeq
    <3>4. /\ transitions' \in Seq(Transition) /\ Len(transitions') = Len(done) + Len(new)
          /\ \A i \in 1..(Len(done) + Len(new)) :
               transitions'[i] = IF i <= Len(done) THEN done[i] ELSE new[i - Len(done)]
      BY <1>3, <1>6, <2>3, ConcatProperties
    <3>5. PICK l, n : l = Len(done) /\ n = Len(new)
      OBVIOUS
    <3>6. k \in 1..n /\ l \in Nat /\ n \in Nat
      BY <3>2, <3>5
    <3>7. k + l \in 1..(l + n) /\ ~ (k + l <= l) /\ (k + l) - l = k
      BY <3>6
    <3>8. transitions'[k + l] = new[k]
      BY <3>4, <3>5, <3>7
    <3>9. DOMAIN transitions' = 1..(l + n)
      BY <3>4, <3>5, LenProperties
    <3> QED
      BY <3>1, <3>3, <3>7, <3>8, <3>9 DEF NewTransition
  <2>8. Recreated(N)
    BY <1>4, <1>9, <2>4, <2>5, <2>6, <2>7 DEF Recreated
  <2> QED
    BY <2>8
<1>11. CASE ~Cycled(done, t)
  <2>1. transitions' = done
    BY <1>3, <1>6, <1>11, ConcatEmptySeq
  <2>2. (\E p \in DOMAIN done : From(done, p) = state' /\ done[p].status = "done") =>
          \E p \in DOMAIN done : From(done, p) = state' /\ done[p].status = "pending"
    BY <1>4, <1>11 DEF Cycled
  <2>3. MovedOn
    BY <1>7, <1>9, <2>1, <2>2 DEF MovedOn
  <2> QED
    BY <2>3
<1> QED
  BY <1>10, <1>11

\* Rows of the same edges: what leads on from where.
LEMMA RowEnds ==
  ASSUME IInv, NEW p \in DOMAIN transitions
  PROVE  /\ transitions[p].meta \in Meta
         /\ From(transitions, p) = Source[transitions[p].meta] /\ From(transitions, p) \in State
         /\ To(transitions, p) = Destination[transitions[p].meta] /\ To(transitions, p) \in State
<1>1. transitions[p].meta \in Meta
  BY RowType DEF IInv, Transition
<1> QED
  BY <1>1, GraphAssumption DEF From, To

\* The object is created in the initial state or in one that an edge was reached to.
LEMMA CreateStrand ==
  ASSUME IInv, NEW given \in Given \cup {NotGiven}, Create(given),
         Given \subseteq {InitialState} \cup {Destination[m] : m \in Reached}
  PROVE  StrandInv'
<1>1. /\ transitions' = InitialRows /\ state' \in {InitialState} \cup {Destination[m] : m \in Reached}
      /\ \A t \in DOMAIN transitions' : transitions'[t] \in NewTransition
  <2>1. transitions' \in Seq(NewTransition)
    BY CreateInv
  <2> QED
    BY <2>1, ElementOfSeq, LenProperties DEF Create
<1>2. RowMetas(transitions') = Reached
  BY <1>1, ReachedCreated DEF RowMetas
<1>3. \A m \in Meta : Source[m] = InitialState \/ (\E b \in Reached : Source[m] = Destination[b]) => m \in Reached
  BY ReachedIsClosed DEF FirstEdges
<1>4. \A p \in DOMAIN transitions' : /\ transitions'[p].status = "pending" /\ transitions'[p].meta \in Reached
                                      /\ From(transitions', p) = Source[transitions'[p].meta]
                                      /\ To(transitions', p) = Destination[transitions'[p].meta]
  BY <1>1, <1>2 DEF RowMetas, NewTransition, From, To
<1>5. MetasClosed'
  BY <1>2, <1>3 DEF MetasClosed
<1>6. PICK S : S = {InitialState} \cup {Destination[m] : m \in Reached}
  OBVIOUS
<1>7. S \in SUBSET State
  BY <1>6, GraphAssumption DEF Reached
<1>8. ASSUME NEW s \in S, NEW m \in Meta, Source[m] = s
      PROVE  \E p \in DOMAIN transitions' : From(transitions', p) = s /\ transitions'[p].status = "pending"
  <2>1. m \in Reached
    BY <1>3, <1>6, <1>8
  <2>2. PICK p \in DOMAIN transitions' : transitions'[p].meta = m
    BY <1>2, <2>1 DEF RowMetas
  <2> QED
    BY <1>4, <1>8, <2>2
<1>9. WaysOnIn(S)'
  BY <1>1, <1>4, <1>6, <1>8 DEF WaysOnIn, Pending
<1>10. WayOn'
  BY <1>1, <1>6, <1>8 DEF WayOn, Pending
<1> QED
  BY <1>5, <1>7, <1>9, <1>10 DEF StrandInv

\* What approve() does to the rows, by their ends.
LEMMA SignedEnds ==
  ASSUME IInv, NEW a, NEW u, NEW next, Signs(a, u, next)
  PROVE  /\ \A p \in DOMAIN transitions : /\ From(transitions', p) = From(transitions, p)
                                          /\ To(transitions', p) = To(transitions, p)
         /\ \A p \in DOMAIN transitions : transitions'[p].status \in {"pending", "done"} <=>
              transitions[p].status \in {"pending", "done"} /\ p \notin Cancelled(a, next)
         /\ \A p \in DOMAIN transitions : transitions'[p].status = "pending" =>
              transitions[p].status = "pending" /\ p \notin Cancelled(a, next)
         /\ a[1] \in Pending(transitions) /\ a[1] \notin Cancelled(a, next)
<1>1. PICK t, c : t = a[1] /\ c = Cancelled(a, next)
  OBVIOUS
<1>2. /\ t \in DOMAIN transitions /\ t \notin c
      /\ transitions[t].status = "pending" /\ transitions'[t].status \in {"pending", "done"}
      /\ \A p \in DOMAIN transitions \ {t} : /\ p \in c => transitions'[p].status = "cancelled"
                                             /\ p \notin c => transitions'[p] = transitions[p]
      /\ \A p \in DOMAIN transitions : transitions'[p].meta = transitions[p].meta
  BY <1>1 DEF Signs
<1>3. \A p \in DOMAIN transitions : /\ From(transitions', p) = From(transitions, p)
                                    /\ To(transitions', p) = To(transitions, p)
  BY <1>2 DEF From, To
<1>4. ASSUME NEW p \in DOMAIN transitions
      PROVE  /\ transitions'[p].status \in {"pending", "done"} <=>
                  transitions[p].status \in {"pending", "done"} /\ p \notin c
             /\ transitions'[p].status = "pending" => transitions[p].status = "pending" /\ p \notin c
  <2>1. CASE p = t
    BY <1>2, <2>1
  <2>2. CASE p # t /\ p \in c
    <3>1. transitions'[p].status = "cancelled"
      BY <1>2, <2>2
    <3> QED
      BY <2>2, <3>1
  <2>3. CASE p # t /\ p \notin c
    BY <1>2, <2>3
  <2> QED
    BY <2>1, <2>2, <2>3
<1>5. t \in Pending(transitions)
  BY <1>2 DEF Pending
<1> QED
  BY <1>1, <1>2, <1>3, <1>4, <1>5

\* A signature brings no edge that had no row.
LEMMA ApproveMetas ==
  ASSUME IInv, MetasClosed, NEW u \in User, NEW next, ApprovePart(u, next) \/ ApproveLast(u, next)
  PROVE  RowMetas(transitions') = RowMetas(transitions) /\ MetasClosed'
<1>1. CASE ApproveLast(u, next)
  <2>1. RowMetas(transitions') = RowMetas(transitions)
    BY <1>1, Returns DEF MovedOn, Recreated
  <2> QED
    BY <2>1 DEF MetasClosed
<1>2. CASE ~ApproveLast(u, next)
  <2>1. PICK a : Signs(a, u, next) /\ DOMAIN transitions' = DOMAIN transitions
    BY <1>2, ApprovedRows DEF ApprovePart
  <2>2. RowMetas(transitions') = RowMetas(transitions)
    BY <2>1 DEF Signs, RowMetas
  <2> QED
    BY <2>2 DEF MetasClosed
<1> QED
  BY <1>1, <1>2

\* The object moves to a state that it has not left: the future of the row it takes has
\* been kept, as far as it could be reached before.
LEMMA MovedOnStrand ==
  ASSUME IInv, NEW u \in User, NEW next, ApproveLast(u, next), MovedOn, NEW S \in SUBSET State, WaysOnIn(S)
  PROVE  WayOn' /\ \E T \in SUBSET State : WaysOnIn(T)'
<1>1. PICK a \in Eligible(u, next) : /\ Signs(a, u, next)
                                     /\ transitions'[a[1]].status = "done" /\ state' = To(transitions, a[1])
  BY ApprovedRows
<1>2. PICK t, c : t = a[1] /\ c = Cancelled(a, next)
  OBVIOUS
<1>3. From(transitions, t) = state /\ a \in (DOMAIN transitions) \X Rule
  BY <1>2, EligibleApproval
<1>4. /\ \A p \in DOMAIN transitions : /\ From(transitions', p) = From(transitions, p)
                                       /\ To(transitions', p) = To(transitions, p)
      /\ \A p \in DOMAIN transitions : transitions'[p].status \in {"pending", "done"} <=>
           transitions[p].status \in {"pending", "done"} /\ p \notin c
      /\ \A p \in DOMAIN transitions : transitions'[p].status = "pending" =>
           transitions[p].status = "pending" /\ p \notin c
      /\ t \in Pending(transitions) /\ t \notin c
  BY <1>1, <1>2, SignedEnds
<1>5. PICK G \in SUBSET State : Future(t, c, G)
  BY <1>2, <1>3, FutureExists DEF IInv
<1>6. DOMAIN transitions' = DOMAIN transitions
  BY DEF MovedOn
<1>7. To(transitions, t) \in S /\ To(transitions, t) \in G
  BY <1>3, <1>4, <1>5 DEF WaysOnIn, Future
<1>8. PICK T : T = S \cap G
  OBVIOUS
<1>9. state' \in T
  BY <1>1, <1>2, <1>7, <1>8
<1>10. ASSUME NEW p \in Pending(transitions'), From(transitions', p) \in T  PROVE To(transitions', p) \in T
  <2>1. p \in DOMAIN transitions /\ transitions'[p].status = "pending" /\ p # t
    BY <1>1, <1>2, <1>6 DEF Pending
  <2>2. p \in Pending(transitions) \ {t} /\ From(transitions, p) \in T
    BY <1>4, <1>10, <2>1 DEF Pending
  <2>3. To(transitions, p) \in S /\ To(transitions, p) \in G
    BY <1>5, <1>8, <2>2 DEF WaysOnIn, Future
  <2> QED
    BY <1>4, <1>8, <2>1, <2>3
<1>11. ASSUME NEW s \in T, NEW m \in Meta, Source[m] = s
       PROVE  \E p \in DOMAIN transitions' : From(transitions', p) = s /\ transitions'[p].status \in {"pending", "done"}
  <2>1. PICK p \in DOMAIN transitions : From(transitions, p) = s /\ transitions[p].status \in {"pending", "done"}
    BY <1>8, <1>11 DEF WaysOnIn
  <2>2. p \notin c
    <3>1. CASE p = t
      BY <1>4, <3>1
    <3>2. CASE p # t
      <4>1. c \subseteq Pending(transitions)
        BY <1>2, <1>3, AfterSignatureRows DEF IInv
      <4> QED
        BY <1>5, <1>8, <2>1, <3>2, <4>1 DEF Future
    <3> QED
      BY <3>1, <3>2
  <2> QED
    BY <1>4, <1>6, <2>1, <2>2
<1>12. WaysOnIn(T)'
  BY <1>9, <1>10, <1>11 DEF WaysOnIn
<1>13. WayOn'
  <2> SUFFICES ASSUME NEW m \in Meta, Source[m] = state'
               PROVE  \E p \in Pending(transitions') : From(transitions', p) = state'
    BY DEF WayOn
  <2>1. PICK p \in DOMAIN transitions' : From(transitions', p) = state' /\ transitions'[p].status \in {"pending", "done"}
    BY <1>9, <1>11
  <2>2. \E q \in DOMAIN transitions' : From(transitions', q) = state' /\ transitions'[q].status = "pending"
    BY <2>1 DEF MovedOn
  <2> QED
    BY <2>2 DEF Pending
<1> QED
  BY <1>8, <1>12, <1>13

\* The object comes back: everything that can be reached from its state has a new row.
LEMMA RecreatedStrand ==
  ASSUME IInv, MetasClosed, NEW u \in User, NEW next, ApproveLast(u, next), NEW N, Recreated(N)
  PROVE  WayOn' /\ \E T \in SUBSET State : WaysOnIn(T)'
<1>1. PICK a \in Eligible(u, next) : Signs(a, u, next) /\ state' = To(transitions, a[1])
  BY ApprovedRows
<1>2. a[1] \in DOMAIN transitions
  BY EligibleApproval
<1>3. PICK x : x = transitions[a[1]].meta
  OBVIOUS
<1>4. x \in RowMetas(transitions) /\ state' = Destination[x] /\ state' \in State
  BY <1>1, <1>2, <1>3, RowEnds DEF RowMetas
<1>5. PICK T : T = {state'} \cup {Destination[y] : y \in N}
  OBVIOUS
<1>6. RowMetas(transitions) \subseteq Meta /\ N \subseteq RowMetas(transitions)
  BY RowEnds DEF RowMetas, Recreated
<1>7. T \in SUBSET State
  BY <1>4, <1>5, <1>6, GraphAssumption
<1>8. \A m \in RowMetas(transitions) : Source[m] \in T => m \in N
  BY <1>5 DEF Recreated
<1>9. ASSUME NEW p \in DOMAIN transitions', From(transitions', p) \in T  PROVE To(transitions', p) \in T
  <2>1. transitions'[p].meta \in RowMetas(transitions)
    BY DEF Recreated, RowMetas
  <2>2. transitions'[p].meta \in N
    BY <1>8, <1>9, <2>1 DEF From
  <2> QED
    BY <1>5, <2>2 DEF To
<1>10. ASSUME NEW s \in T, NEW m \in Meta, Source[m] = s
       PROVE  \E p \in DOMAIN transitions' : From(transitions', p) = s /\ transitions'[p].status = "pending"
  <2>1. \E y \in RowMetas(transitions) : s = Destination[y]
    BY <1>4, <1>5, <1>6, <1>10
  <2>2. m \in RowMetas(transitions)
    BY <1>10, <2>1 DEF MetasClosed
  <2>3. m \in N
    BY <1>8, <1>10, <2>2
  <2>4. PICK p \in DOMAIN transitions' : transitions'[p].meta = m /\ transitions'[p].status = "pending"
    BY <2>3 DEF Recreated
  <2> QED
    BY <1>10, <2>4 DEF From
<1>11. WaysOnIn(T)'
  BY <1>5, <1>9, <1>10 DEF WaysOnIn, Pending
<1>12. WayOn'
  BY <1>5, <1>10 DEF WayOn, Pending
<1> QED
  BY <1>7, <1>11, <1>12

\* A signature that leaves its row open, and an older row out of the same state with it,
\* has cut short what the older one leads to.
LEMMA PartCutsShort ==
  ASSUME IInv, NEW a, NEW u \in User, NEW next, Signs(a, u, next), Cancelled(a, next) # {},
         transitions'[a[1]].status = "pending",
         NEW p \in DOMAIN transitions, transitions'[p].status = "pending",
         From(transitions, p) = From(transitions, a[1]),
         transitions[p].iteration < transitions[a[1]].iteration
  PROVE  CutShort'
<1>1. PICK t, c : t = a[1] /\ c = Cancelled(a, next)
  OBVIOUS
<1>2. SignedThenCancelled(auditLog, auditLog', {t}, c)
  BY <1>1, ApproveLog DEF IInv, Signs
<1>3. SignatureEntries(auditLog, auditLog', t, c)
  BY <1>2, NewEntries
<1>4. PICK n \in DOMAIN auditLog' : /\ auditLog'[n].transitions = {t}
                                     /\ n + 1 \in DOMAIN auditLog' /\ auditLog'[n + 1].action = "cancelled"
  BY <1>1, <1>3 DEF SignatureEntries
<1>5. /\ t \in DOMAIN transitions' /\ p \in DOMAIN transitions'
      /\ From(transitions', p) = From(transitions', t)
      /\ transitions'[p].iteration < transitions'[t].iteration
  BY <1>1 DEF Signs, From
<1>6. OpenAfter(t, n + 1)' /\ OpenAfter(p, n + 1)'
  BY <1>1 DEF OpenAfter
<1> QED
  BY <1>4, <1>5, <1>6 DEF CutShort

\* The object stays, and a row of its state is open.
LEMMA PartStrand ==
  ASSUME IInv, NEW u \in User, NEW next, ApprovePart(u, next), ~ApproveLast(u, next), ~CutShort',
         NEW S \in SUBSET State, WaysOnIn(S)
  PROVE  WayOn' /\ \E T \in SUBSET State : WaysOnIn(T)'
<1>1. PICK a \in Eligible(u, next) : /\ Signs(a, u, next)
                                     /\ transitions'[a[1]].status = "pending" /\ state' = state
                                     /\ DOMAIN transitions' = DOMAIN transitions
  BY ApprovedRows DEF ApprovePart
<1>2. PICK t, c : t = a[1] /\ c = Cancelled(a, next)
  OBVIOUS
<1>3. From(transitions, t) = state /\ a \in (DOMAIN transitions) \X Rule
  BY <1>2, EligibleApproval
<1>4. /\ \A p \in DOMAIN transitions : /\ From(transitions', p) = From(transitions, p)
                                       /\ To(transitions', p) = To(transitions, p)
      /\ \A p \in DOMAIN transitions : transitions'[p].status \in {"pending", "done"} <=>
           transitions[p].status \in {"pending", "done"} /\ p \notin c
      /\ \A p \in DOMAIN transitions : transitions'[p].status = "pending" =>
           transitions[p].status = "pending" /\ p \notin c
      /\ t \in Pending(transitions) /\ t \notin c
  BY <1>1, <1>2, SignedEnds
<1>5. PICK G \in SUBSET State : Future(t, c, G)
  BY <1>2, <1>3, FutureExists DEF IInv
<1>6. t \in Pending(transitions') /\ From(transitions', t) = state' /\ c \subseteq Pending(transitions)
  BY <1>1, <1>2, <1>3, <1>4, AfterSignatureRows DEF Pending, IInv
<1>7. WayOn'
  BY <1>6 DEF WayOn
<1>8. CASE c = {}
  <2>1. /\ \A p \in Pending(transitions') : p \in Pending(transitions)
        /\ \A p \in DOMAIN transitions : transitions[p].status \in {"pending", "done"} =>
             transitions'[p].status \in {"pending", "done"}
    BY <1>1, <1>4, <1>8 DEF Pending
  <2>2. WaysOnIn(S)'
    BY <1>1, <1>4, <2>1 DEF WaysOnIn, Pending
  <2> QED
    BY <1>7, <2>2
<1>9. CASE c # {}
  <2>1. PICK T : T = {state} \cup (S \cap G)
    OBVIOUS
  <2>2. T \in SUBSET State /\ state \in T /\ T \subseteq S
    BY <2>1 DEF WaysOnIn
  <2>3. To(transitions, t) \in T
    BY <1>3, <1>4, <1>5, <2>1 DEF WaysOnIn, Future
  <2>4. ASSUME NEW p \in Pending(transitions'), From(transitions', p) \in T  PROVE To(transitions', p) \in T
    <3>1. /\ p \in DOMAIN transitions /\ transitions'[p].status = "pending" /\ p \notin c
          /\ p \in Pending(transitions) /\ From(transitions, p) \in T
          /\ To(transitions', p) = To(transitions, p)
      BY <1>1, <1>4, <2>4 DEF Pending
    <3>2. CASE p = t
      BY <2>3, <3>1, <3>2
    <3>3. CASE p # t
      <4>1. From(transitions, p) \in G
        <5>1. CASE From(transitions, p) = From(transitions, t)
          <6>1. ~ (transitions[p].iteration < transitions[t].iteration)
            BY <1>1, <1>2, <1>9, <3>1, <5>1, PartCutsShort
          <6> QED
            BY <1>5, <3>1, <3>3, <6>1 DEF Future
        <5>2. CASE From(transitions, p) # From(transitions, t)
          BY <1>3, <2>1, <3>1, <5>2
        <5> QED
          BY <5>1, <5>2
      <4>2. To(transitions, p) \in S /\ To(transitions, p) \in G
        BY <1>5, <2>2, <3>1, <3>3, <4>1 DEF WaysOnIn, Future
      <4> QED
        BY <2>1, <3>1, <4>2
    <3> QED
      BY <3>2, <3>3
  <2>5. ASSUME NEW s \in T, NEW m \in Meta, Source[m] = s
        PROVE  \E p \in DOMAIN transitions' : From(transitions', p) = s /\ transitions'[p].status \in {"pending", "done"}
    <3>1. CASE s = state
      BY <1>1, <1>6, <3>1 DEF Pending
    <3>2. CASE s # state
      <4>1. PICK p \in DOMAIN transitions : From(transitions, p) = s /\ transitions[p].status \in {"pending", "done"}
        BY <2>2, <2>5 DEF WaysOnIn
      <4>2. p \notin c
        BY <1>3, <1>5, <1>6, <2>1, <2>5, <3>2, <4>1 DEF Future
      <4> QED
        BY <1>1, <1>4, <4>1, <4>2
    <3> QED
      BY <3>1, <3>2
  <2>6. WaysOnIn(T)'
    BY <1>1, <2>2, <2>4, <2>5 DEF WaysOnIn
  <2> QED
    BY <1>7, <2>2, <2>6
<1> QED
  BY <1>8, <1>9

\* Neither the state nor the rows, but for their approvals.
LEMMA SameRowsStrand ==
  ASSUME StrandInv, Keeps, state' = state, DOMAIN transitions' = DOMAIN transitions,
         \A p \in DOMAIN transitions : transitions'[p].status = transitions[p].status
  PROVE  StrandInv'
<1>1. \A p \in DOMAIN transitions : /\ transitions'[p].meta = transitions[p].meta
                                    /\ From(transitions', p) = From(transitions, p)
                                    /\ To(transitions', p) = To(transitions, p)
  BY DEF Keeps, From, To
<1>2. MetasClosed'
  <2>1. RowMetas(transitions') = RowMetas(transitions)
    BY <1>1 DEF RowMetas
  <2> QED
    BY <2>1 DEF StrandInv, MetasClosed
<1>3. Pending(transitions') = Pending(transitions)
  BY DEF Pending
<1>4. WayOn => WayOn'
  BY <1>1, <1>3 DEF WayOn, Pending
<1>5. ASSUME NEW S, WaysOnIn(S)  PROVE WaysOnIn(S)'
  BY <1>1, <1>3, <1>5 DEF WaysOnIn, Pending
<1>6. (HasJumped => HasJumped') /\ (CutShort => CutShort')
  BY PastStays
<1> QED
  BY <1>2, <1>4, <1>5, <1>6 DEF StrandInv

\* The object is created in a state that its initial rows lead to.
GivenReached == Given \subseteq {InitialState} \cup {Destination[m] : m \in Reached}

\* No step strands the object.
LEMMA StrandStep ==
  ASSUME GivenReached
  PROVE  IInv /\ StrandInv /\ [Next]_vars => StrandInv'
<1> SUFFICES ASSUME IInv, StrandInv, [Next]_vars
             PROVE  StrandInv'
  OBVIOUS
<1>0. Keeps /\ (HasJumped => HasJumped') /\ (CutShort => CutShort')
  BY StepKeeps, PastStays
<1>1. ASSUME NEW given \in Given \cup {NotGiven}, Create(given)  PROVE StrandInv'
  BY <1>1, CreateStrand DEF GivenReached
<1>2. ASSUME NEW u \in User, NEW next, ApprovePart(u, next) \/ ApproveLast(u, next)  PROVE StrandInv'
  <2>1. MetasClosed'
    BY <1>2, ApproveMetas DEF StrandInv
  <2> SUFFICES ASSUME ~HasJumped', ~CutShort'
               PROVE  WayOn' /\ \E T \in SUBSET State : WaysOnIn(T)'
    BY <2>1 DEF StrandInv
  <2>2. state # NoObject
    <3>1. PICK a \in Eligible(u, next) : a \in (DOMAIN transitions) \X Rule
      BY <1>2, ApprovedRows DEF ApprovePart, Signs
    <3>2. DOMAIN transitions # {}
      BY <3>1
    <3> QED
      BY <3>2, EmptySeq DEF IInv
  <2>3. MetasClosed /\ \E S \in SUBSET State : WaysOnIn(S)
    BY <1>0, <2>2 DEF StrandInv
  <2>4. PICK S \in SUBSET State : WaysOnIn(S)
    BY <2>3
  <2>5. CASE ~ApproveLast(u, next)
    BY <1>2, <2>4, <2>5, PartStrand
  <2>6. CASE ApproveLast(u, next)
    <3>1. CASE MovedOn
      BY <2>4, <2>6, <3>1, MovedOnStrand
    <3>2. CASE \E N : Recreated(N)
      BY <2>3, <2>6, <3>2, RecreatedStrand
    <3> QED
      BY <2>6, <3>1, <3>2, Returns
  <2> QED
    BY <2>5, <2>6
<1>3. ASSUME NEW u \in User, NEW s \in State, JumpTo(u, s)  PROVE StrandInv'
  <2>1. Appends(auditLog, auditLog', "jumped", Jumped(s)) /\ Jumped(s) # {}
    BY <1>3, JumpLog DEF IInv
  <2>2. \E n \in DOMAIN auditLog' : auditLog'[n].action = "jumped"
    BY <2>1, NewEntry
  <2>3. HasJumped'
    BY <2>2 DEF HasJumped
  <2>4. RowMetas(transitions') = RowMetas(transitions)
    BY <1>3, JumpedRows DEF RowMetas
  <2>5. MetasClosed'
    BY <2>4 DEF StrandInv, MetasClosed
  <2> QED
    BY <2>3, <2>5 DEF StrandInv
<1>4. ASSUME NEW r \in Rule, DeleteRule(r)  PROVE StrandInv'
  <2>1. \A t \in DOMAIN transitions : transitions[t] \in Transition
    BY RowType DEF IInv
  <2>2. state' = state /\ DOMAIN transitions' = DOMAIN transitions
    BY <1>4 DEF DeleteRule
  <2>3. \A t \in DOMAIN transitions : transitions'[t].status = transitions[t].status
    BY <1>4, <2>1 DEF DeleteRule, Transition
  <2> QED
    BY <1>0, <2>2, <2>3, SameRowsStrand
<1>5. CASE UNCHANGED vars
  BY <1>0, <1>5, SameRowsStrand DEF vars
<1> QED
  BY <1>1, <1>2, <1>3, <1>4, <1>5 DEF Next

\* Approvals alone do not strand an object that was created in its initial state or in one
\* that its edges reach.
THEOREM NeverStranded ==
  ASSUME GivenReached
  PROVE  Spec => []NotStranded
<1>1. Init => StrandInv
  <2> SUFFICES ASSUME Init
               PROVE  StrandInv
    OBVIOUS
  <2>1. state = NoObject /\ RowMetas(transitions) = {}
    BY EmptySeq DEF Init, RowMetas
  <2> QED
    BY <2>1 DEF StrandInv, MetasClosed
<1>2. IInv /\ StrandInv /\ [Next]_vars => StrandInv'
  BY StrandStep
<1>3. StrandInv => NotStranded
  BY DEF StrandInv, WayOn, NotStranded
<1> QED
  BY <1>1, <1>2, <1>3, Invariance, PTL DEF Spec
=============================================================================
