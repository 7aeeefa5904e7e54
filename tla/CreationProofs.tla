---------------------------- MODULE CreationProofs ----------------------------
(***************************************************************************)
(* Theorems about what an object is created with.  WorkflowDefinition: the *)
(* copy of the graph, for every set of states, edges, rules and objects.   *)
(* ObjectLifecycle: a state and the rows of every field, for every number  *)
(* of processes and of fields, when callers save in a transaction.  The    *)
(* two modules share no variable; the proofs of each use only its own.     *)
(***************************************************************************)
EXTENDS WorkflowDefinition, ObjectLifecycle, WellFoundedInduction, TLAPS

\* A set of states that has the initial one and everything the edges lead to from there.
ClosedIn(graph, initial, S) ==
  initial \in S /\ \A m \in DOMAIN graph : graph[m][1] \in S => graph[m][2] \in S

\* The edge m can be reached.
Grounded(graph, initial, m) == \A S \in SUBSET State : ClosedIn(graph, initial, S) => graph[m][1] \in S

\* The copy that is being made of the one definition there is.
Traced(o) ==
  /\ seen[o] = <<metas, objects[o].initial>> /\ objects[o].initial = workflows[Subject]
  /\ \A row \in objects[o].rows : metas[row.meta] = <<row.from, row.to>>
  /\ \A m \in Processed(o) : m \in DOMAIN metas /\ Grounded(metas, objects[o].initial, m)
  /\ objects[o].processed = <<>> => objects[o].rows = {}
  /\ objects[o].processed # <<>> =>
       /\ objects[o].processed[Len(objects[o].processed)] = Processed(o)
       /\ \A m \in DOMAIN metas : From(m) = objects[o].initial => m \in Processed(o)
       /\ \A b \in Processed(o), m \in DOMAIN metas : From(m) = To(b) => m \in Processed(o) \cup Level(o)

EdgesOf(o) == {<<row.from, row.to>> : row \in objects[o].rows}

\* The copy that has been made of one definition.
Copied(o) == EdgesOf(o) = Reachable(seen[o][1], seen[o][2])

ObjectInv(o) ==
  /\ objects[o].at = "none" => objects[o].rows = {}
  /\ objects[o].at # "none" => Subject \in DOMAIN workflows
  /\ objects[o].at = "creating" => objects[o].initial \in State
  /\ objects[o].at = "creating" /\ seen[o] # Several => Traced(o)
  /\ objects[o].at = "made" /\ seen[o] # Several => Copied(o)
  /\ \A row \in objects[o].rows : /\ row.meta \in DOMAIN metas
                                  /\ ~edited => metas[row.meta] = <<row.from, row.to>>

\* The invariant of the definition and its copies.
DefinitionIInv ==
  /\ TypeOK
  /\ ParentsAreThoseBefore
  /\ \A o \in Object : ObjectInv(o)

-----------------------------------------------------------------------------
(* Induction on the natural numbers, with a set in place of an operator.    *)

\* What 0 has and every number hands on to the next, every number has.
LEMMA Induction ==
  ASSUME NEW S, 0 \in S, \A n \in Nat : n \in S => n + 1 \in S
  PROVE  Nat \subseteq S
<1> SUFFICES ASSUME Nat \ S # {}  PROVE FALSE
  OBVIOUS
<1>1. PICK R : R = OpToRel(<, Nat)
  OBVIOUS
<1>2. IsWellFoundedOn(R, Nat)
  BY <1>1, NatLessThanWellFounded
<1>3. PICK m \in Nat \ S : \A y \in Nat \ S : ~ (<<y, m>> \in R)
  <2>1. Nat \ S \subseteq Nat
    OBVIOUS
  <2> QED
    BY <1>2, <2>1, WFMin
<1>4. \A i, j \in Nat : i < j => <<i, j>> \in R
  BY <1>1 DEF OpToRel
<1>5. m \in Nat /\ m # 0
  BY <1>3
<1>6. m - 1 \in Nat /\ m - 1 < m /\ (m - 1) + 1 = m
  BY <1>5
<1>7. m - 1 \in S
  BY <1>3, <1>4, <1>6
<1> QED
  BY <1>3, <1>6, <1>7

-----------------------------------------------------------------------------
(* The levels of transition_meta_list.                                      *)

First(graph, initial) == {m \in DOMAIN graph : graph[m][1] = initial}
Following(graph, processed, level) ==
  {m \in DOMAIN graph \ processed : \E n \in level : graph[n][2] = graph[m][1]}

\* f has the levels of a graph, of which some have been processed when they were asked for.
Levels(f, graph, initial, processed) ==
  f = [k \in Nat |-> IF k = 0 THEN First(graph, initial) ELSE Following(graph, processed[k], f[k - 1])]

\* There are such levels: the least relation that the queries describe.
LEMMA LevelsExist ==
  ASSUME NEW graph, NEW initial, NEW processed
  PROVE  \E f : Levels(f, graph, initial, processed)
<1> DEFINE Pairs == Nat \X DOMAIN graph
           Found(k, m, S) == \/ k = 0 /\ graph[m][1] = initial
                             \/ /\ k # 0 /\ m \notin processed[k]
                                /\ \E n \in DOMAIN graph : <<k - 1, n>> \in S /\ graph[n][2] = graph[m][1]
           Closed(S) == \A k \in Nat, m \in DOMAIN graph : Found(k, m, S) => <<k, m>> \in S
           Least == {x \in Pairs : \A S \in SUBSET Pairs : Closed(S) => x \in S}
<1>1. Closed(Least)
  <2> SUFFICES ASSUME NEW k \in Nat, NEW m \in DOMAIN graph, Found(k, m, Least)  PROVE <<k, m>> \in Least
    OBVIOUS
  <2>1. ASSUME NEW S \in SUBSET Pairs, Closed(S)  PROVE <<k, m>> \in S
    <3>1. Found(k, m, S)
      BY <2>1
    <3> QED
      BY <2>1, <3>1
  <2> QED
    BY <2>1
<1>2. ASSUME NEW k \in Nat, NEW m \in DOMAIN graph, <<k, m>> \in Least  PROVE Found(k, m, Least)
  <2>1. PICK T : T = {x \in Pairs : Found(x[1], x[2], Least)}
    OBVIOUS
  <2>2. T \in SUBSET Pairs /\ \A i \in Nat, n \in DOMAIN graph : <<i, n>> \in T <=> Found(i, n, Least)
    BY <2>1
  <2>3. T \subseteq Least
    <3>1. \A x \in T : \E i \in Nat, n \in DOMAIN graph : x = <<i, n>>
      BY <2>2
    <3>2. ASSUME NEW i \in Nat, NEW n \in DOMAIN graph, <<i, n>> \in T  PROVE <<i, n>> \in Least
      <4>1. Found(i, n, Least)
        BY <2>2, <3>2
      <4> HIDE DEF Least, Found
      <4> QED
        BY <1>1, <4>1
    <3> HIDE DEF Least
    <3> QED
      BY <3>1, <3>2
  <2>4. Closed(T)
    <3> SUFFICES ASSUME NEW i \in Nat, NEW n \in DOMAIN graph, Found(i, n, T)  PROVE <<i, n>> \in T
      OBVIOUS
    <3>1. Found(i, n, Least)
      BY <2>3
    <3> HIDE DEF Least, Found
    <3> QED
      BY <2>2, <3>1
  <2>5. <<k, m>> \in T
    BY <1>2, <2>2, <2>4
  <2> HIDE DEF Least, Found
  <2> QED
    BY <2>2, <2>5
<1>3. PICK f : f = [k \in Nat |-> {m \in DOMAIN graph : <<k, m>> \in Least}]
  OBVIOUS
<1>4. ASSUME NEW k \in Nat
      PROVE  f[k] = IF k = 0 THEN First(graph, initial) ELSE Following(graph, processed[k], f[k - 1])
  <2>1. \A m \in DOMAIN graph : m \in f[k] <=> Found(k, m, Least)
    <3> HIDE DEF Least, Found
    <3> QED
      BY <1>1, <1>2, <1>3
  <2>2. f[k] \subseteq DOMAIN graph
    BY <1>3
  <2>3. CASE k = 0
    <3>1. \A m \in DOMAIN graph : Found(k, m, Least) <=> graph[m][1] = initial
      BY <2>3
    <3> HIDE DEF Least, Found
    <3> QED
      BY <2>1, <2>2, <2>3, <3>1 DEF First
  <2>4. CASE k # 0
    <3>1. k - 1 \in Nat
      BY <2>4
    <3>2. \A n \in DOMAIN graph : n \in f[k - 1] <=> <<k - 1, n>> \in Least
      <4> HIDE DEF Least
      <4> QED
        BY <1>3, <3>1
    <3>3. f[k - 1] \subseteq DOMAIN graph
      BY <1>3, <3>1
    <3>4. \A m \in DOMAIN graph :
            Found(k, m, Least) <=> m \notin processed[k] /\ \E n \in f[k - 1] : graph[n][2] = graph[m][1]
      <4> HIDE DEF Least
      <4> QED
        BY <2>4, <3>2, <3>3
    <3> HIDE DEF Least, Found
    <3> QED
      BY <2>1, <2>2, <2>4, <3>4 DEF Following
  <2> QED
    BY <2>3, <2>4
<1>5. f = [k \in Nat |-> f[k]]
  BY <1>3
<1>6. [k \in Nat |-> f[k]] =
        [k \in Nat |-> IF k = 0 THEN First(graph, initial) ELSE Following(graph, processed[k], f[k - 1])]
  BY <1>4
<1> QED
  BY <1>5, <1>6 DEF Levels

\* The levels there are.
LevelsOf(graph, initial, processed) == CHOOSE f : Levels(f, graph, initial, processed)

\* The levels satisfy the equations of the queries.
LEMMA LevelsDefined ==
  ASSUME NEW graph, NEW initial, NEW processed, NEW f, f = LevelsOf(graph, initial, processed)
  PROVE  /\ f[0] = First(graph, initial)
         /\ \A k \in Nat : f[k + 1] = Following(graph, processed[k + 1], f[k])
         /\ \A k \in Nat : f[k] \subseteq DOMAIN graph
<1>1. Levels(f, graph, initial, processed)
  <2>1. \E g : Levels(g, graph, initial, processed)
    BY LevelsExist
  <2> QED
    BY <2>1 DEF LevelsOf
<1>2. \A k \in Nat : f[k] = IF k = 0 THEN First(graph, initial) ELSE Following(graph, processed[k], f[k - 1])
  BY <1>1 DEF Levels
<1>3. \A k \in Nat : k + 1 \in Nat /\ k + 1 # 0 /\ (k + 1) - 1 = k
  OBVIOUS
<1>4. \A k \in Nat : f[k] \subseteq DOMAIN graph
  BY <1>2 DEF First, Following
<1> QED
  BY <1>2, <1>3, <1>4

\* Only what has been processed by a level matters for it.
LEMMA LevelsAgree ==
  ASSUME NEW graph, NEW initial, NEW done, NEW processed, NEW n \in Nat,
         \A k \in 1..n : done[k] = processed[k]
  PROVE  LevelsOf(graph, initial, done)[n] = LevelsOf(graph, initial, processed)[n]
<1>1. PICK f, g : f = LevelsOf(graph, initial, done) /\ g = LevelsOf(graph, initial, processed)
  OBVIOUS
<1>2. f[0] = g[0]
  BY <1>1, LevelsDefined
<1>3. \A k \in Nat : f[k + 1] = Following(graph, done[k + 1], f[k])
  BY <1>1, LevelsDefined
<1>4. \A k \in Nat : g[k + 1] = Following(graph, processed[k + 1], g[k])
  BY <1>1, LevelsDefined
<1>5. PICK S : S = {k \in Nat : k <= n => f[k] = g[k]}
  OBVIOUS
<1>6. 0 \in S
  BY <1>2, <1>5
<1>7. ASSUME NEW k \in Nat, k \in S  PROVE k + 1 \in S
  <2> SUFFICES ASSUME k + 1 <= n  PROVE f[k + 1] = g[k + 1]
    BY <1>5
  <2>1. k <= n /\ k + 1 \in 1..n
    OBVIOUS
  <2>2. f[k] = g[k] /\ done[k + 1] = processed[k + 1]
    BY <1>5, <1>7, <2>1
  <2> QED
    BY <1>3, <1>4, <2>2
<1>8. n \in S
  BY <1>6, <1>7, Induction
<1> QED
  BY <1>1, <1>5, <1>8

\* Every edge of a level can be reached.
LEMMA LevelsGrounded ==
  ASSUME NEW graph, NEW initial, NEW processed, NEW n \in Nat, NEW m \in LevelsOf(graph, initial, processed)[n]
  PROVE  m \in DOMAIN graph /\ Grounded(graph, initial, m)
<1>1. PICK f : f = LevelsOf(graph, initial, processed)
  OBVIOUS
<1>2. /\ f[0] = First(graph, initial)
      /\ \A k \in Nat : f[k + 1] = Following(graph, processed[k + 1], f[k])
      /\ \A k \in Nat : f[k] \subseteq DOMAIN graph
  BY <1>1, LevelsDefined
<1>3. ASSUME NEW S \in SUBSET State, ClosedIn(graph, initial, S)  PROVE graph[m][1] \in S
  <2>1. PICK N : N = {k \in Nat : \A e \in f[k] : graph[e][1] \in S}
    OBVIOUS
  <2>2. 0 \in N
    BY <1>2, <1>3, <2>1 DEF First, ClosedIn
  <2>3. ASSUME NEW k \in Nat, k \in N  PROVE k + 1 \in N
    <3>1. ASSUME NEW e \in f[k + 1]  PROVE graph[e][1] \in S
      <4>1. PICK b \in f[k] : graph[b][2] = graph[e][1]
        BY <1>2, <3>1 DEF Following
      <4>2. b \in DOMAIN graph /\ graph[b][1] \in S
        BY <1>2, <2>1, <2>3, <4>1
      <4> QED
        BY <1>3, <4>1, <4>2 DEF ClosedIn
    <3> QED
      BY <2>1, <3>1
  <2>4. n \in N
    BY <2>2, <2>3, Induction
  <2> QED
    BY <1>1, <2>1, <2>4
<1> QED
  BY <1>1, <1>2, <1>3 DEF Grounded

\* The query of an object that is being created is for the next level.
LEMMA LevelDefined ==
  ASSUME NEW o
  PROVE  Level(o) = LevelsOf(metas, objects[o].initial, objects[o].processed)[Len(objects[o].processed)]
BY DEF Level, LevelsOf, Levels, First, Following, From, To

\* The same after a step.
LEMMA NextLevelDefined ==
  ASSUME NEW o
  PROVE  Level(o)' = LevelsOf(metas', objects'[o].initial, objects'[o].processed)[Len(objects'[o].processed)]
BY DEF Level, LevelsOf, Levels, First, Following, From, To

-----------------------------------------------------------------------------
(* What a step is to the copy an object gets.                               *)

\* What Seeing notes of an object.
LEMMA Noted ==
  ASSUME Seeing, NEW o \in Object
  PROVE  /\ objects'[o].at # "creating" => seen'[o] = seen[o]
         /\ objects'[o].at = "creating" /\ objects[o].at = "none" => seen'[o] = Definition'
         /\ objects'[o].at = "creating" /\ objects[o].at # "none" /\ seen'[o] # Several =>
              seen'[o] = seen[o] /\ seen[o] = Definition'
<1>1. seen'[o] = IF objects'[o].at # "creating" THEN seen[o]
                 ELSE IF objects[o].at = "none" \/ seen[o] = Definition' THEN Definition'
                 ELSE Several
  BY DEF Seeing
<1> QED
  BY <1>1

\* What Seeing notes of edits.
LEMMA NotedEdits ==
  ASSUME Seeing, edited \in BOOLEAN
  PROVE  /\ edited' \in BOOLEAN
         /\ ~edited' => /\ ~edited
                        /\ \A m \in DOMAIN metas \cap DOMAIN metas' : metas'[m] = metas[m]
                        /\ \A r \in DOMAIN rules \cap DOMAIN rules' : rules'[r] = rules[r]
BY DEF Seeing

\* A step that leaves an object alone.
LEMMA ObjectStays ==
  ASSUME DefinitionIInv, Seeing, NEW o \in Object, objects'[o] = objects[o],
         Subject \in DOMAIN workflows => Subject \in DOMAIN workflows',
         \A row \in objects[o].rows : row.meta \in DOMAIN metas'
  PROVE  ObjectInv(o)'
<1>1. ObjectInv(o) /\ edited \in BOOLEAN
  BY DEF DefinitionIInv, TypeOK
<1>2. ASSUME objects[o].at = "creating", seen'[o] # Several  PROVE Traced(o)'
  <2>1. seen'[o] = seen[o] /\ seen[o] = Definition'
    BY <1>2, Noted
  <2>2. Traced(o)
    BY <1>1, <1>2, <2>1 DEF ObjectInv
  <2>3. Subject \in DOMAIN workflows'
    BY <1>1, <1>2 DEF ObjectInv
  <2>4. <<metas', workflows'[Subject]>> = <<metas, objects[o].initial>>
    BY <2>1, <2>2, <2>3 DEF Traced, Definition
  <2>5. metas' = metas /\ workflows'[Subject] = objects[o].initial
    BY <2>4
  <2>6. Level(o)' = Level(o)
    BY <2>5, LevelDefined, NextLevelDefined
  <2>7. Processed(o)' = Processed(o)
    BY DEF Processed
  <2> QED
    BY <2>1, <2>2, <2>5, <2>6, <2>7 DEF Traced, From, To
<1>3. ASSUME objects[o].at = "made", seen'[o] # Several  PROVE Copied(o)'
  <2>1. seen'[o] = seen[o]
    BY <1>3, Noted
  <2> QED
    BY <1>1, <1>3, <2>1 DEF ObjectInv, Copied, EdgesOf
<1>4. ASSUME NEW row \in objects[o].rows, ~edited'  PROVE metas'[row.meta] = <<row.from, row.to>>
  BY <1>1, <1>4, NotedEdits DEF ObjectInv
<1> QED
  BY <1>1, <1>2, <1>3, <1>4 DEF ObjectInv

-----------------------------------------------------------------------------
(* Administrators.                                                         *)

\* The rule p is one of those right before the rule c.
Before(c, p) == c # p /\ To(rules[p]) = From(rules[c])

\* ParentsAreThoseBefore of two rules.
LEMMA ParentsPairwise ==
  ASSUME DefinitionIInv, ~edited
  PROVE  \A c, p \in DOMAIN rules : <<c, p>> \in parents <=> Before(c, p)
BY DEF DefinitionIInv, ParentsAreThoseBefore, Before

\* Enough for the relation to be right after a step.
LEMMA ParentsFollow ==
  ASSUME parents' \subseteq (DOMAIN rules') \X (DOMAIN rules'),
         ~edited' => \A c, p \in DOMAIN rules' : <<c, p>> \in parents' <=> Before(c, p)'
  PROVE  ParentsAreThoseBefore'
<1> SUFFICES ASSUME ~edited'
             PROVE  parents' = {pair \in (DOMAIN rules') \X (DOMAIN rules') :
                                  pair[1] # pair[2] /\ To(rules[pair[2]])' = From(rules[pair[1]])'}
  BY DEF ParentsAreThoseBefore
<1>1. PICK D : D = DOMAIN rules'
  OBVIOUS
<1>2. \A c, p \in D : <<c, p>> \in parents' <=> (c # p /\ To(rules[p])' = From(rules[c])')
  BY <1>1 DEF Before
<1>3. PICK pairs : pairs = {pair \in D \X D : pair[1] # pair[2] /\ To(rules[pair[2]])' = From(rules[pair[1]])'}
  OBVIOUS
<1>4. \A c, p \in D : <<c, p>> \in pairs <=> (c # p /\ To(rules[p])' = From(rules[c])')
  BY <1>3
<1>5. pairs \subseteq D \X D /\ parents' \subseteq D \X D
  BY <1>1, <1>3
<1> QED
  BY <1>1, <1>2, <1>3, <1>4, <1>5

\* An administrator's step: the objects are left alone, the tables have their types and
\* the relation is right.
LEMMA AdministerInv ==
  ASSUME DefinitionIInv, Seeing, Administer
  PROVE  DefinitionIInv'
<1>0. /\ DOMAIN workflows \subseteq Field /\ \A f \in DOMAIN workflows : workflows[f] \in State
      /\ DOMAIN metas \subseteq Meta /\ \A m \in DOMAIN metas : metas[m] \in Edge
      /\ DOMAIN rules \subseteq Rule /\ \A r \in DOMAIN rules : rules[r] \in DOMAIN metas
      /\ parents \subseteq (DOMAIN rules) \X (DOMAIN rules)
  BY DEF DefinitionIInv, TypeOK
<1>1. edited \in BOOLEAN
  BY DEF DefinitionIInv, TypeOK
<1>2. SUFFICES /\ DOMAIN workflows' \subseteq Field /\ \A f \in DOMAIN workflows' : workflows'[f] \in State
               /\ DOMAIN metas' \subseteq Meta /\ \A m \in DOMAIN metas' : metas'[m] \in Edge
               /\ DOMAIN rules' \subseteq Rule /\ \A r \in DOMAIN rules' : rules'[r] \in DOMAIN metas'
               /\ parents' \subseteq (DOMAIN rules') \X (DOMAIN rules')
               /\ ~edited' => \A c, p \in DOMAIN rules' : <<c, p>> \in parents' <=> Before(c, p)'
               /\ objects' = objects
               /\ DOMAIN workflows \subseteq DOMAIN workflows'
               /\ \A o \in Object : \A row \in objects[o].rows : row.meta \in DOMAIN metas'
  <2>1. TypeOK'
    BY <1>1, <1>2, NotedEdits DEF DefinitionIInv, TypeOK
  <2>2. ParentsAreThoseBefore'
    BY <1>2, ParentsFollow
  <2>3. \A o \in Object : ObjectInv(o)'
    BY <1>2, ObjectStays
  <2> QED
    BY <2>1, <2>2, <2>3 DEF DefinitionIInv
<1>3. \A o \in Object : \A row \in objects[o].rows : row.meta \in DOMAIN metas
  BY DEF DefinitionIInv, ObjectInv
<1>4. CASE \E f \in Field, s \in State : DefineWorkflow(f, s)
  <2>1. PICK f \in Field, s \in State : DefineWorkflow(f, s)
    BY <1>4
  <2>2. UNCHANGED <<metas, rules, parents, objects>> /\ workflows' = With(workflows, f, s)
    BY <2>1 DEF DefineWorkflow
  <2>3. ~edited' => \A c, p \in DOMAIN rules : <<c, p>> \in parents' <=> Before(c, p)'
    BY <1>1, <2>2, NotedEdits, ParentsPairwise DEF Before, From, To
  <2> QED
    BY <1>0, <1>3, <2>2, <2>3 DEF With
<1>5. CASE \E m \in Meta, edge \in Edge : SaveMeta(m, edge)
  <2>1. PICK m \in Meta, edge \in Edge : SaveMeta(m, edge)
    BY <1>5
  <2>2. UNCHANGED <<workflows, rules, parents, objects>> /\ metas' = With(metas, m, edge)
    BY <2>1 DEF SaveMeta
  <2>3. DOMAIN metas' = DOMAIN metas \cup {m} /\ \A n \in DOMAIN metas' : metas'[n] \in Edge
    BY <1>0, <2>2 DEF With
  <2>4. ASSUME ~edited', NEW c \in DOMAIN rules, NEW p \in DOMAIN rules
        PROVE  <<c, p>> \in parents' <=> Before(c, p)'
    <3>1. metas'[rules[c]] = metas[rules[c]] /\ metas'[rules[p]] = metas[rules[p]] /\ ~edited
      BY <1>0, <1>1, <2>3, <2>4, NotedEdits
    <3>2. Before(c, p)' <=> Before(c, p)
      BY <2>2, <3>1 DEF Before, From, To
    <3> QED
      BY <2>2, <3>1, <3>2, ParentsPairwise
  <2> QED
    BY <1>0, <1>3, <2>2, <2>3, <2>4
<1>6. CASE \E m \in Meta : DeleteMeta(m)
  <2>1. PICK m \in Meta : DeleteMeta(m)
    BY <1>6
  <2>2. /\ UNCHANGED <<workflows, rules, parents, objects>> /\ metas' = Without(metas, m)
        /\ \A r \in DOMAIN rules : rules[r] # m
        /\ \A o \in Object : \A row \in objects[o].rows : row.meta # m
    BY <2>1 DEF DeleteMeta
  <2>3. DOMAIN metas' = DOMAIN metas \ {m} /\ \A n \in DOMAIN metas' : metas'[n] = metas[n]
    BY <2>2 DEF Without
  <2>4. ASSUME ~edited', NEW c \in DOMAIN rules, NEW p \in DOMAIN rules
        PROVE  <<c, p>> \in parents' <=> Before(c, p)'
    <3>1. metas'[rules[c]] = metas[rules[c]] /\ metas'[rules[p]] = metas[rules[p]] /\ ~edited
      BY <1>0, <1>1, <2>2, <2>3, <2>4, NotedEdits
    <3>2. Before(c, p)' <=> Before(c, p)
      BY <2>2, <3>1 DEF Before, From, To
    <3> QED
      BY <2>2, <3>1, <3>2, ParentsPairwise
  <2> QED
    BY <1>0, <1>3, <2>2, <2>3, <2>4
<1>7. CASE \E r \in Rule, m \in Meta : SaveRule(r, m)
  <2>1. PICK r \in Rule, m \in Meta : SaveRule(r, m)
    BY <1>7
  <2>2. /\ UNCHANGED <<workflows, metas, objects>> /\ rules' = With(rules, r, m) /\ m \in DOMAIN metas
        /\ r \in DOMAIN rules => rules[r] # m
        /\ parents' = parents \cup Related(r, m)
    BY <2>1 DEF SaveRule
  <2>3. /\ DOMAIN rules' = DOMAIN rules \cup {r} /\ rules'[r] = m
        /\ \A q \in DOMAIN rules \ {r} : rules'[q] = rules[q]
    BY <2>2 DEF With
  <2>4. \A c, p : <<c, p>> \in Related(r, m) <=>
          \/ c = r /\ p \in DOMAIN rules \ {r} /\ To(rules[p]) = From(m)
          \/ p = r /\ c \in DOMAIN rules \ {r} /\ From(rules[c]) = To(m)
    BY DEF Related
  <2>5. Related(r, m) \subseteq (DOMAIN rules') \X (DOMAIN rules')
    BY <2>3 DEF Related
  <2>6. ASSUME ~edited', NEW c \in DOMAIN rules', NEW p \in DOMAIN rules'
        PROVE  <<c, p>> \in parents' <=> Before(c, p)'
    <3>1. r \notin DOMAIN rules /\ ~edited
      BY <1>1, <2>2, <2>3, <2>6, NotedEdits
    <3>2. <<c, p>> \in parents' <=> <<c, p>> \in parents \/ <<c, p>> \in Related(r, m)
      BY <2>2
    <3>3. Before(c, p)' <=> c # p /\ To(rules'[p]) = From(rules'[c])
      BY <2>2 DEF Before, From, To
    <3>4. CASE c # r /\ p # r
      <4>1. c \in DOMAIN rules /\ p \in DOMAIN rules /\ <<c, p>> \notin Related(r, m)
        BY <2>3, <2>4, <3>4
      <4>2. Before(c, p)' <=> Before(c, p)
        BY <2>3, <3>3, <3>4, <4>1 DEF Before
      <4> QED
        BY <3>1, <3>2, <4>1, <4>2, ParentsPairwise
    <3>5. CASE c = r \/ p = r
      <4>1. <<c, p>> \notin parents
        BY <1>0, <3>1, <3>5
      <4> QED
        BY <2>3, <2>4, <3>1, <3>2, <3>3, <3>5, <4>1
    <3> QED
      BY <3>4, <3>5
  <2>7. \A q \in DOMAIN rules' : rules'[q] \in DOMAIN metas
    BY <1>0, <2>2, <2>3
  <2>8. DOMAIN rules' \subseteq Rule /\ parents' \subseteq (DOMAIN rules') \X (DOMAIN rules')
    BY <1>0, <2>2, <2>3, <2>5
  <2> QED
    BY <1>0, <1>3, <2>2, <2>6, <2>7, <2>8
<1>8. CASE \E r \in Rule : DeleteRule(r)
  <2>1. PICK r \in Rule : DeleteRule(r)
    BY <1>8
  <2>2. /\ UNCHANGED <<workflows, metas, objects>> /\ rules' = Without(rules, r)
        /\ parents' = {pair \in parents : r \notin {pair[1], pair[2]}}
    BY <2>1 DEF DeleteRule
  <2>3. DOMAIN rules' = DOMAIN rules \ {r} /\ \A q \in DOMAIN rules' : rules'[q] = rules[q]
    BY <2>2 DEF Without
  <2>4. \A c, p : <<c, p>> \in parents' <=> <<c, p>> \in parents /\ r # c /\ r # p
    BY <2>2
  <2>5. parents' \subseteq (DOMAIN rules') \X (DOMAIN rules')
    BY <1>0, <2>2, <2>3
  <2>6. ASSUME ~edited', NEW c \in DOMAIN rules', NEW p \in DOMAIN rules'
        PROVE  <<c, p>> \in parents' <=> Before(c, p)'
    <3>1. c \in DOMAIN rules /\ p \in DOMAIN rules /\ c # r /\ p # r /\ rules'[c] = rules[c] /\ rules'[p] = rules[p]
      BY <2>3
    <3>2. Before(c, p)' <=> Before(c, p)
      BY <2>2, <3>1 DEF Before, From, To
    <3> QED
      BY <1>1, <2>4, <2>6, <3>1, <3>2, NotedEdits, ParentsPairwise
  <2> QED
    BY <1>0, <1>3, <2>2, <2>3, <2>5, <2>6
<1> QED
  BY <1>4, <1>5, <1>6, <1>7, <1>8 DEF Administer

-----------------------------------------------------------------------------
(* Objects.                                                                *)

ObjectType == [at: {"none", "creating", "made"}, place: State \cup {NoPlace}, rows: SUBSET Row,
               initial: State \cup {NoPlace}, processed: Seq(SUBSET Meta)]

\* A step of one object.
LEMMA LiveInv ==
  ASSUME DefinitionIInv, Seeing, NEW o \in Object, NEW object \in ObjectType,
         objects' = [objects EXCEPT ![o] = object], ObjectInv(o)',
         UNCHANGED <<workflows, metas, rules, parents>>
  PROVE  DefinitionIInv'
<1>1. objects \in [Object -> ObjectType] /\ edited \in BOOLEAN
  BY DEF DefinitionIInv, TypeOK, ObjectType
<1>2. objects' \in [Object -> ObjectType] /\ \A q \in Object \ {o} : objects'[q] = objects[q]
  BY <1>1
<1>3. TypeOK'
  BY <1>1, <1>2, NotedEdits DEF DefinitionIInv, TypeOK, ObjectType
<1>4. \A q \in Object \ {o} : ObjectInv(q)'
  BY <1>2, ObjectStays DEF DefinitionIInv, ObjectInv
<1>5. ParentsAreThoseBefore'
  BY <1>1, NotedEdits DEF DefinitionIInv, ParentsAreThoseBefore, From, To
<1> QED
  BY <1>3, <1>4, <1>5 DEF DefinitionIInv

\* What is known of an object.
LEMMA Known ==
  ASSUME DefinitionIInv, NEW o \in Object
  PROVE  /\ objects \in [Object -> ObjectType] /\ objects[o] \in ObjectType /\ ObjectInv(o)
         /\ \A m \in DOMAIN metas : m \in Meta /\ From(m) \in State /\ To(m) \in State /\ metas[m] = <<From(m), To(m)>>
         /\ \A f \in DOMAIN workflows : workflows[f] \in State
         /\ edited \in BOOLEAN
<1>1. \A m \in DOMAIN metas : m \in Meta /\ metas[m] \in State \X State
  BY DefinitionAssumption DEF DefinitionIInv, TypeOK
<1> QED
  BY <1>1 DEF DefinitionIInv, TypeOK, ObjectType, From, To

\* The first save: nothing has been copied yet.
LEMMA BeginInv ==
  ASSUME DefinitionIInv, Seeing, NEW o \in Object, NEW given \in State \cup {NoPlace}, Begin(o, given)
  PROVE  DefinitionIInv'
<1>1. PICK object : object = [NewObject EXCEPT !.at = "creating", !.place = given, !.initial = workflows[Subject]]
  OBVIOUS
<1>2. object = [at |-> "creating", place |-> given, rows |-> {}, initial |-> workflows[Subject], processed |-> <<>>]
  BY <1>1 DEF NewObject
<1>3. workflows[Subject] \in State /\ Subject \in DOMAIN workflows
  BY Known DEF Begin
<1>4. object \in ObjectType
  BY <1>2, <1>3 DEF ObjectType
<1>5. objects' = [objects EXCEPT ![o] = object] /\ UNCHANGED <<workflows, metas, rules, parents>>
      /\ objects[o].at = "none"
  BY <1>1 DEF Begin
<1>6. objects'[o] = object
  BY <1>5, Known
<1>7. seen'[o] = <<metas, workflows[Subject]>>
  <2>1. seen'[o] = Definition'
    BY <1>2, <1>5, <1>6, Noted
  <2> QED
    BY <1>3, <1>5, <2>1 DEF Definition
<1>8. Traced(o)'
  BY <1>2, <1>5, <1>6, <1>7 DEF Traced, Processed
<1>9. ObjectInv(o)'
  BY <1>2, <1>3, <1>5, <1>6, <1>8 DEF ObjectInv
<1> QED
  BY <1>4, <1>5, <1>9, LiveInv

\* A pass of the loop: the level is reached by edges, and what it leads to is the next level.
LEMMA CopyLevelInv == ASSUME DefinitionIInv, Seeing, NEW o \in Object, Initialize(o)  PROVE DefinitionIInv'
<1>1. PICK P, L : P = Processed(o) /\ L = Level(o)
  OBVIOUS
<1>2. PICK done, n : done = objects[o].processed /\ n = Len(done)
  OBVIOUS
<1>3. /\ objects[o] \in ObjectType /\ objects[o].at = "creating" /\ objects[o].initial \in State
      /\ Subject \in DOMAIN workflows
  BY Known DEF Initialize, ObjectInv
<1>4. done \in Seq(SUBSET Meta) /\ n \in Nat
  BY <1>2, <1>3 DEF ObjectType
<1>5. L \subseteq DOMAIN metas /\ \A m \in L : Grounded(metas, objects[o].initial, m)
  BY <1>1, <1>2, <1>4, LevelDefined, LevelsGrounded
<1>6. P \subseteq Meta
  BY <1>1, <1>3 DEF Processed, ObjectType, Row
<1>7. PICK new : new = {[meta |-> m, from |-> From(m), to |-> To(m), rules |-> {r \in DOMAIN rules : rules[r] = m}] : m \in L}
  OBVIOUS
<1>8. new \in SUBSET Row
  BY <1>5, <1>7, Known DEF Row, DefinitionIInv, TypeOK
<1>9. /\ \A row \in new : row.meta \in L /\ metas[row.meta] = <<row.from, row.to>>
      /\ {row.meta : row \in new} = L
  <2>1. \A row \in new : \E m \in L : row.meta = m /\ row.from = From(m) /\ row.to = To(m)
    BY <1>7
  <2>2. \A m \in L : metas[m] = <<From(m), To(m)>>
    BY <1>5, Known
  <2>3. ASSUME NEW m \in L  PROVE \E row \in new : row.meta = m
    <3>1. PICK row : row = [meta |-> m, from |-> From(m), to |-> To(m), rules |-> {r \in DOMAIN rules : rules[r] = m}]
      OBVIOUS
    <3>2. row \in new
      BY <1>7, <3>1
    <3> QED
      BY <3>1, <3>2
  <2>4. \A row \in new : row.meta \in L /\ metas[row.meta] = <<row.from, row.to>>
    BY <2>1, <2>2
  <2> QED
    BY <2>3, <2>4
<1>10. PICK object : object = [objects[o] EXCEPT !.rows = @ \cup new, !.processed = Append(@, P \cup L)]
  OBVIOUS
<1>11. /\ object \in ObjectType /\ object.at = "creating" /\ object.initial = objects[o].initial
       /\ object.rows = objects[o].rows \cup new /\ object.processed = Append(done, P \cup L)
  <2>1. Append(done, P \cup L) \in Seq(SUBSET Meta)
    BY <1>4, <1>5, <1>6, Known
  <2> QED
    BY <1>2, <1>3, <1>8, <1>10, <2>1 DEF ObjectType
<1>12. objects' = [objects EXCEPT ![o] = object] /\ UNCHANGED <<workflows, metas, rules, parents>>
  <2>1. objects' = [objects EXCEPT ![o].rows = @ \cup new, ![o].processed = Append(@, P \cup L)]
    BY <1>1, <1>7 DEF Initialize
  <2> QED
    BY <1>10, <2>1, Known DEF Initialize
<1>13. objects'[o] = object
  BY <1>12, Known
<1>14. Processed(o)' = P \cup L
  BY <1>1, <1>9, <1>11, <1>13 DEF Processed
<1>15. \A row \in object.rows : row.meta \in DOMAIN metas /\ (~edited' => metas[row.meta] = <<row.from, row.to>>)
  BY <1>5, <1>9, <1>11, Known, NotedEdits DEF ObjectInv
<1>16. ASSUME seen'[o] # Several  PROVE Traced(o)'
  <2>1. seen'[o] = seen[o]
    BY <1>3, <1>11, <1>13, <1>16, Noted
  <2>2. Traced(o)
    BY <1>3, <1>16, <2>1, Known DEF ObjectInv
  <2>3. Level(o)' = Following(metas, P \cup L, L)
    <3>1. PICK more : more = object.processed
      OBVIOUS
    <3>2. Len(more) = n + 1 /\ more[n + 1] = P \cup L /\ \A k \in 1..n : more[k] = done[k]
      BY <1>2, <1>4, <1>5, <1>6, <1>11, <3>1, Known
    <3>3. LevelsOf(metas, objects[o].initial, more)[n] = L
      <4>1. LevelsOf(metas, objects[o].initial, more)[n] = LevelsOf(metas, objects[o].initial, done)[n]
        BY <1>4, <3>2, LevelsAgree
      <4> QED
        BY <1>1, <1>2, <4>1, LevelDefined
    <3>4. LevelsOf(metas, objects[o].initial, more)[n + 1] = Following(metas, P \cup L, L)
      <4>1. PICK f : f = LevelsOf(metas, objects[o].initial, more)
        OBVIOUS
      <4>2. \A k \in Nat : f[k + 1] = Following(metas, more[k + 1], f[k])
        BY <4>1, LevelsDefined
      <4>3. f[n + 1] = Following(metas, more[n + 1], f[n])
        BY <1>4, <4>2
      <4> QED
        BY <3>2, <3>3, <4>1, <4>3
    <3> QED
      BY <1>11, <1>12, <1>13, <3>1, <3>2, <3>4, NextLevelDefined
  <2>4. \A m \in DOMAIN metas : From(m) = objects[o].initial => m \in P \cup L
    <3>1. CASE done = <<>>
      <4>1. n = 0
        BY <1>2, <3>1
      <4>2. L = First(metas, objects[o].initial)
        <5>1. PICK f : f = LevelsOf(metas, objects[o].initial, done)
          OBVIOUS
        <5>2. f[0] = First(metas, objects[o].initial)
          BY <5>1, LevelsDefined
        <5>3. L = f[n]
          BY <1>1, <1>2, <5>1, LevelDefined
        <5> QED
          BY <4>1, <5>2, <5>3
      <4> QED
        BY <4>2 DEF First, From
    <3>2. CASE done # <<>>
      BY <1>1, <1>2, <2>2, <3>2 DEF Traced
    <3> QED
      BY <3>1, <3>2
  <2>5. ASSUME NEW b \in P \cup L, NEW m \in DOMAIN metas, From(m) = To(b)
        PROVE  m \in (P \cup L) \cup Following(metas, P \cup L, L)
    <3>1. CASE b \in L
      BY <2>5, <3>1 DEF Following, From, To
    <3>2. CASE b \in P
      <4>1. done # <<>>
        BY <1>1, <1>2, <2>2, <3>2 DEF Traced, Processed
      <4> QED
        BY <1>1, <1>2, <2>2, <2>5, <3>2, <4>1 DEF Traced
    <3> QED
      BY <3>1, <3>2
  <2>6. \A m \in P \cup L : m \in DOMAIN metas /\ Grounded(metas, objects[o].initial, m)
    BY <1>1, <1>5, <2>2 DEF Traced
  <2>7. \A row \in object.rows : metas[row.meta] = <<row.from, row.to>>
    BY <1>9, <1>11, <2>2 DEF Traced
  <2>8. object.processed # <<>> /\ object.processed[Len(object.processed)] = P \cup L
    BY <1>4, <1>5, <1>6, <1>11, Known
  <2>9. seen'[o] = <<metas, object.initial>> /\ object.initial = workflows[Subject]
    BY <1>11, <2>1, <2>2 DEF Traced
  <2>10. /\ \A m \in DOMAIN metas' : From(m)' = From(m)
         /\ \A b \in P \cup L : To(b)' = To(b)
    BY <1>12 DEF From, To
  <2> QED
    BY <1>11, <1>12, <1>13, <1>14, <2>3, <2>4, <2>5, <2>6, <2>7, <2>8, <2>9, <2>10 DEF Traced
<1>17. ObjectInv(o)'
  BY <1>3, <1>11, <1>12, <1>13, <1>15, <1>16 DEF ObjectInv
<1> QED
  BY <1>11, <1>12, <1>17, LiveInv

\* When the loop ends it has processed everything it leads to.
LEMMA AllProcessed ==
  ASSUME DefinitionIInv, NEW o \in Object, objects[o].at = "creating", Traced(o), Level(o) = {},
         NEW m \in DOMAIN metas, From(m) \in {objects[o].initial} \cup {To(b) : b \in Processed(o)}
  PROVE  m \in Processed(o)
<1>1. CASE objects[o].processed = <<>>
  <2>1. Processed(o) = {}
    BY <1>1 DEF Traced, Processed
  <2>2. First(metas, objects[o].initial) = {}
    BY <1>1, LevelDefined, LevelsDefined
  <2> QED
    BY <2>1, <2>2 DEF First, From
<1>2. CASE objects[o].processed # <<>>
  BY <1>2 DEF Traced
<1> QED
  BY <1>1, <1>2

\* The loop ends: the copy has the edges that can be reached and no other.
LEMMA CopyMadeInv == ASSUME DefinitionIInv, Seeing, NEW o \in Object, Initialized(o)  PROVE DefinitionIInv'
<1>1. /\ objects[o] \in ObjectType /\ objects[o].at = "creating" /\ Level(o) = {}
      /\ Subject \in DOMAIN workflows /\ workflows[Subject] \in State
  BY Known DEF Initialized, ObjectInv
<1>2. PICK place : place = IF objects[o].place = NoPlace THEN workflows[Subject] ELSE objects[o].place
  OBVIOUS
<1>3. PICK object : object = [objects[o] EXCEPT !.at = "made", !.initial = NoPlace, !.processed = <<>>,
                                                !.place = place]
  OBVIOUS
<1>4. object \in ObjectType /\ object.at = "made" /\ object.rows = objects[o].rows
  <2>1. object = [at |-> "made", place |-> place, rows |-> objects[o].rows,
                  initial |-> NoPlace, processed |-> <<>>]
    BY <1>1, <1>3 DEF ObjectType
  <2>2. <<>> \in Seq(SUBSET Meta) /\ objects[o].rows \in SUBSET Row
    BY <1>1 DEF ObjectType
  <2>3. place \in State \cup {NoPlace}
    BY <1>1, <1>2 DEF ObjectType
  <2> QED
    BY <2>1, <2>2, <2>3 DEF ObjectType
<1>5. objects' = [objects EXCEPT ![o] = object] /\ UNCHANGED <<workflows, metas, rules, parents>>
  BY <1>2, <1>3, Known DEF Initialized
<1>6. objects'[o] = object
  BY <1>5, Known
<1>7. ASSUME seen'[o] # Several  PROVE Copied(o)'
  <2>1. seen'[o] = seen[o]
    BY <1>6, <1>4, Noted
  <2>2. Traced(o)
    BY <1>1, <1>7, <2>1, Known DEF ObjectInv
  <2>3. PICK initial : initial = objects[o].initial /\ initial \in State
    BY <1>1, Known DEF ObjectInv
  <2>4. seen'[o][1] = metas /\ seen'[o][2] = initial /\ initial = workflows[Subject]
    BY <2>1, <2>2, <2>3 DEF Traced
  <2>5. PICK reached : reached = {n \in DOMAIN metas : Grounded(metas, initial, n)}
    OBVIOUS
  <2>6. Reachable(metas, initial) = {metas[m] : m \in reached}
    BY <2>5 DEF Reachable, Grounded, ClosedIn
  <2>7. reached = Processed(o)
    <3>1. Processed(o) \subseteq reached
      BY <2>2, <2>3, <2>5 DEF Traced
    <3>2. ASSUME NEW n \in reached  PROVE n \in Processed(o)
      <4>1. PICK S : S = {initial} \cup {To(b) : b \in Processed(o)}
        OBVIOUS
      <4>2. \A m \in DOMAIN metas : From(m) \in S => m \in Processed(o)
        BY <1>1, <2>2, <2>3, <4>1, AllProcessed
      <4>3. S \in SUBSET State
        BY <2>2, <2>3, <4>1, Known DEF Traced
      <4>4. ClosedIn(metas, initial, S)
        <5>1. ASSUME NEW m \in DOMAIN metas, From(m) \in S  PROVE To(m) \in S
          BY <4>1, <4>2, <5>1
        <5> QED
          BY <4>1, <5>1 DEF ClosedIn, From, To
      <4>5. n \in DOMAIN metas /\ From(n) \in S
        BY <2>5, <3>2, <4>3, <4>4 DEF Grounded, From
      <4> QED
        BY <4>2, <4>5
    <3> QED
      BY <3>1, <3>2
  <2>8. EdgesOf(o)' = {metas[m] : m \in Processed(o)}
    <3>1. \A row \in objects[o].rows : metas[row.meta] = <<row.from, row.to>>
      BY <2>2 DEF Traced
    <3>2. EdgesOf(o)' = {<<row.from, row.to>> : row \in objects[o].rows}
      BY <1>6, <1>4 DEF EdgesOf
    <3> QED
      BY <3>1, <3>2 DEF Processed
  <2>9. EdgesOf(o)' = Reachable(metas, initial)
    BY <2>6, <2>7, <2>8
  <2> QED
    BY <2>4, <2>9 DEF Copied, Reachable
<1>8. ObjectInv(o)'
  BY <1>1, <1>5, <1>6, <1>7, <1>4, Known, NotedEdits DEF ObjectInv
<1> QED
  BY <1>5, <1>8, <1>4, LiveInv

\* An object that moves over a row of its copy.
LEMMA ProceedInv ==
  ASSUME DefinitionIInv, Seeing, NEW o \in Object, NEW row \in objects[o].rows, Proceed(o, row)
  PROVE  DefinitionIInv'
<1>1. objects[o] \in ObjectType /\ objects[o].at = "made" /\ row \in Row
  BY Known DEF Proceed, ObjectType
<1>2. PICK object : object = [objects[o] EXCEPT !.place = row.to]
  OBVIOUS
<1>3. /\ object \in ObjectType /\ object.at = "made" /\ object.place = row.to
      /\ object.rows = objects[o].rows
  BY <1>1, <1>2 DEF ObjectType, Row
<1>4. objects' = [objects EXCEPT ![o] = object] /\ UNCHANGED <<workflows, metas, rules, parents>>
  BY <1>2, Known DEF Proceed
<1>5. objects'[o] = object
  BY <1>4, Known
<1>6. ASSUME seen'[o] # Several  PROVE Copied(o)'
  <2>1. seen'[o] = seen[o]
    BY <1>3, <1>5, Noted
  <2>2. Copied(o)
    BY <1>1, <1>6, <2>1, Known DEF ObjectInv
  <2>3. EdgesOf(o)' = EdgesOf(o)
    BY <1>3, <1>5 DEF EdgesOf
  <2> QED
    BY <2>1, <2>2, <2>3 DEF Copied
<1>7. ObjectInv(o)'
  BY <1>1, <1>3, <1>4, <1>5, <1>6, Known, NotedEdits DEF ObjectInv
<1> QED
  BY <1>3, <1>4, <1>7, LiveInv

-----------------------------------------------------------------------------
(* Theorems.                                                               *)

\* Every step of the module keeps the invariant.
LEMMA DefinitionSteps == DefinitionIInv /\ [Next]_vars => DefinitionIInv'
<1> SUFFICES ASSUME DefinitionIInv, [Next]_vars  PROVE DefinitionIInv'
  OBVIOUS
<1>1. CASE Administer /\ Seeing
  BY <1>1, AdministerInv
<1>2. CASE Seeing /\ \E o \in Object : Live(o)
  BY <1>2, BeginInv, CopyLevelInv, CopyMadeInv, ProceedInv DEF Live
<1>3. CASE UNCHANGED vars
  <2>1. \A o \in Object : Level(o)' = Level(o) /\ Processed(o)' = Processed(o)
    BY <1>3, LevelDefined, NextLevelDefined DEF vars, Processed
  <2>2. \A o \in Object : ObjectInv(o)' <=> ObjectInv(o)
    BY <1>3, <2>1 DEF vars, ObjectInv, Traced, Copied, EdgesOf, From, To
  <2> QED
    BY <1>3, <2>2 DEF vars, DefinitionIInv, TypeOK, ParentsAreThoseBefore, From, To
<1> QED
  BY <1>1, <1>2, <1>3 DEF Next

\* There is nothing at first.
LEMMA DefinitionInitially == Init => DefinitionIInv
<1> SUFFICES ASSUME Init  PROVE DefinitionIInv
  OBVIOUS
<1>1. NewObject \in ObjectType /\ NewObject.at = "none" /\ NewObject.rows = {}
  BY DEF NewObject, ObjectType
<1>2. DOMAIN <<>> = {}
  OBVIOUS
<1>3. objects \in [Object -> ObjectType] /\ \A o \in Object : objects[o] = NewObject
  BY <1>1 DEF Init
<1>4. TypeOK
  BY <1>2, <1>3 DEF Init, TypeOK, ObjectType
<1>5. ParentsAreThoseBefore
  BY <1>2 DEF Init, ParentsAreThoseBefore
<1>6. \A o \in Object : ObjectInv(o)
  BY <1>1, <1>3 DEF ObjectInv
<1> QED
  BY <1>4, <1>5, <1>6 DEF DefinitionIInv

\* The definition and the copies always satisfy the invariant, however administrators change
\* the one while initialize_approvals makes the other.
THEOREM DefinitionInvariance == Spec => []DefinitionIInv
  BY DefinitionInitially, DefinitionSteps, PTL DEF Spec

\* An object that was created while nothing of the definition changed has the transitions
\* that the definition leads to from its initial state, all of them and no other: the loop of
\* initialize_approvals, which queries one level after the other, finds the closure.
THEOREM CopyOfOneDefinition == Spec => []CopyIsOfOneDefinition
<1>1. DefinitionIInv => CopyIsOfOneDefinition
  BY DEF DefinitionIInv, ObjectInv, Copied, EdgesOf, CopyIsOfOneDefinition, Made
<1> QED
  BY <1>1, DefinitionInvariance, PTL

\* The parents relation that the signals of TransitionApprovalMeta keep is the one between the
\* rules of consecutive edges, as long as nobody edits a saved edge or rule.
THEOREM ParentsBefore == Spec => []ParentsAreThoseBefore
<1>1. DefinitionIInv => ParentsAreThoseBefore
  BY DEF DefinitionIInv
<1> QED
  BY <1>1, DefinitionInvariance, PTL

\* Whatever administrators add and delete, on_final_state never says of an object that a
\* transition of its own leads on from that it is at its end, and says so at the end of the
\* object's graph while the definition is that of the object.
THEOREM FinalEnds == Spec => []FinalIsTheEnd
<1>1. ASSUME DefinitionIInv  PROVE FinalIsTheEnd
  <2> SUFFICES ASSUME NEW o \in Object, objects[o].at = "made"
               PROVE  /\ ~edited /\ OnFinalState(o) => Leaving(o) = {}
                      /\ /\ seen[o] = Definition
                         /\ \E row \in objects[o].rows : row.to = objects[o].place
                         /\ Leaving(o) = {}
                         => OnFinalState(o)
    BY DEF FinalIsTheEnd, Made
  <2>1. ObjectInv(o)
    BY <1>1 DEF DefinitionIInv
  \* The edge of a transition is protected: it is still there, and leads from the same state.
  <2>2. ASSUME ~edited, NEW row \in Leaving(o)  PROVE ~OnFinalState(o)
    <3>1. row.meta \in DOMAIN metas /\ metas[row.meta] = <<row.from, row.to>> /\ row.from = objects[o].place
      BY <2>1, <2>2 DEF ObjectInv, Leaving
    <3>2. From(row.meta) = objects[o].place
      BY <3>1 DEF From
    <3> QED
      BY <3>1, <3>2 DEF OnFinalState, FinalStates, Sources
  <2>3. ASSUME seen[o] = Definition, NEW last \in objects[o].rows, last.to = objects[o].place, Leaving(o) = {}
        PROVE  OnFinalState(o)
    <3>1. PICK initial : initial = workflows[Subject]
      OBVIOUS
    <3>2. seen[o] = <<metas, initial>>
      BY <2>1, <2>3, <3>1 DEF ObjectInv, Definition
    <3>3. seen[o] # Several /\ seen[o][1] = metas /\ seen[o][2] = initial
      BY <3>2 DEF Several
    <3>4. Copied(o)
      BY <2>1, <3>3 DEF ObjectInv
    <3>5. PICK reached : reached = {n \in DOMAIN metas : Grounded(metas, initial, n)}
      OBVIOUS
    <3>6. EdgesOf(o) = {metas[m] : m \in reached}
      BY <3>3, <3>4, <3>5 DEF Copied, Reachable, Grounded, ClosedIn
    <3>7. \A m \in DOMAIN metas : metas[m] = <<From(m), To(m)>> /\ From(m) \in State /\ To(m) \in State
      BY <1>1, Known
    <3>8. \A row \in objects[o].rows : \E m \in reached : row.from = From(m) /\ row.to = To(m)
      <4>1. ASSUME NEW row \in objects[o].rows  PROVE \E m \in reached : row.from = From(m) /\ row.to = To(m)
        <5>1. <<row.from, row.to>> \in EdgesOf(o)
          BY DEF EdgesOf
        <5>2. PICK m \in reached : <<row.from, row.to>> = metas[m]
          BY <3>6, <5>1
        <5> QED
          BY <3>5, <3>7, <5>2
      <4> QED
        BY <4>1
    <3>9. \A m \in reached : \E row \in objects[o].rows : row.from = From(m) /\ row.to = To(m)
      <4>1. ASSUME NEW m \in reached  PROVE \E row \in objects[o].rows : row.from = From(m) /\ row.to = To(m)
        <5>1. metas[m] \in EdgesOf(o)
          BY <3>6
        <5>2. PICK row \in objects[o].rows : metas[m] = <<row.from, row.to>>
          BY <5>1 DEF EdgesOf
        <5> QED
          BY <3>5, <3>7, <5>2
      <4> QED
        BY <4>1
    \* An edge that led on from the place would be reached, and would have been copied.
    <3>10. ASSUME NEW m \in DOMAIN metas, From(m) = objects[o].place  PROVE m \in reached
      <4>1. PICK b \in reached : last.to = To(b)
        BY <2>3, <3>8
      <4>2. ASSUME NEW S \in SUBSET State, ClosedIn(metas, initial, S)  PROVE From(m) \in S
        <5>1. b \in DOMAIN metas /\ From(b) \in S
          BY <3>5, <4>1, <4>2 DEF Grounded, From
        <5> QED
          BY <2>3, <3>10, <4>1, <4>2, <5>1 DEF ClosedIn, From, To
      <4> QED
        BY <3>5, <3>10, <4>2 DEF Grounded, From
    <3>11. objects[o].place \notin Sources
      BY <2>3, <3>9, <3>10 DEF Leaving, Sources
    <3>12. objects[o].place \in Destinations
      BY <2>3, <3>5, <3>8 DEF Destinations
    <3> QED
      BY <3>11, <3>12 DEF OnFinalState, FinalStates
  <2> QED
    BY <2>2, <2>3
<1> QED
  BY <1>1, DefinitionInvariance, PTL

\* The check of unused states never warns of a state that an object's copy uses, as long as
\* nobody edits a saved edge or rule: an edge with copies cannot be deleted.
THEOREM UnusedUnused == Spec => []UnusedIsUnused
<1>1. ASSUME DefinitionIInv  PROVE UnusedIsUnused
  <2> SUFFICES ASSUME ~edited, NEW o \in Object, NEW row \in objects[o].rows
               PROVE  {row.from, row.to} \cap StatesWarned = {}
    BY DEF UnusedIsUnused, Made
  <2>1. row.meta \in DOMAIN metas /\ metas[row.meta] = <<row.from, row.to>>
    BY <1>1 DEF DefinitionIInv, ObjectInv
  <2>2. row.from \in Sources /\ row.to \in Destinations
    BY <2>1 DEF Sources, Destinations, From, To
  <2> QED
    BY <2>2 DEF StatesWarned
<1> QED
  BY <1>1, DefinitionInvariance, PTL

-----------------------------------------------------------------------------
(* The handlers of a save.                                                  *)

ReadyRow(row) == \A f \in Defined : row.state[f] # Null /\ f \in row.rows

\* A row that nobody is saving is ready, or it is gone.
Settled(row) == row.exists => ReadyRow(row)

\* The fields a handler still has to visit.
Ahead(todo) == {todo[k] : k \in DOMAIN todo}

\* The row as a save under way has left it: the fields that have been visited are ready.
Underway(row, work) ==
  /\ row.exists /\ row.state = work.memory
  /\ \A f \in Defined \ Ahead(work.todo) : row.state[f] # Null /\ f \in row.rows
  /\ work.at = "set_state" /\ Head(work.todo) \in Defined => Head(work.todo) \in row.rows

\* One process saves at a time, what it has visited is ready, and what others see is settled.
LifecycleIInv ==
  /\ LifecycleTypeOK
  /\ Settled(before)
  /\ (\A p \in Process : ~Saving(p)) => Settled(db)
  /\ \A p, q \in Process : Saving(p) /\ Saving(q) => p = q
  /\ \A p \in Process : Saving(p) => Underway(db, program[p])
  /\ \A p \in Process : program[p].at = "loaded" => \A f \in Defined : program[p].memory[f] # Null
  /\ ~created => ~db.exists /\ \A p \in Process : program[p].at = "idle"

RowType == [exists: BOOLEAN, state: States, rows: SUBSET StateField, hooks: BOOLEAN]
WorkType == [at: {"idle", "loaded", "initialize", "set_state"}, memory: States, todo: Seq(StateField)]

\* A creation has every field with a workflow ahead of it.
LEMMA AheadOfFields ==
  ASSUME NEW rest \in Seq(StateField)
  PROVE  /\ Fields \o rest \in Seq(StateField)
         /\ Defined \subseteq Ahead(Fields \o rest)
<1>1. Fields \in Seq(StateField) /\ Defined \subseteq StateField
  BY LifecycleAssumption
<1>2. ASSUME NEW f \in StateField  PROVE f \in Ahead(Fields \o rest)
  <2>1. PICK k \in DOMAIN Fields : f = Fields[k]
    BY DEF StateField
  <2>2. k \in DOMAIN (Fields \o rest) /\ (Fields \o rest)[k] = f
    BY <1>1, <2>1
  <2> QED
    BY <2>2 DEF Ahead
<1> QED
  BY <1>1, <1>2

\* A save, of an object that exists or not.
LEMMA SavedInv ==
  ASSUME LifecycleIInv, InTransaction, NEW p \in Process, NEW memory \in States,
         NEW rest \in Seq(StateField), Saved(p, memory, rest),
         \A q \in Process \ {p} : ~Saving(q),
         before' \in RowType, Settled(before'), created' = TRUE,
         db.exists => \A f \in Defined \ Ahead(rest) : memory[f] # Null /\ f \in db.rows
  PROVE  LifecycleIInv'
<1>1. PICK todo : todo = IF db.exists THEN rest ELSE Fields \o rest
  OBVIOUS
<1>2. todo \in Seq(StateField) /\ (~db.exists => Defined \subseteq Ahead(todo))
  BY <1>1, AheadOfFields
<1>3. PICK work : work = [at |-> IF todo = <<>> THEN "loaded" ELSE "initialize", memory |-> memory, todo |-> todo]
  OBVIOUS
<1>4. db' = SavedRow(memory) /\ program' = [program EXCEPT ![p] = work]
  BY <1>1, <1>3 DEF Saved
<1>5. db \in RowType /\ program \in [Process -> WorkType]
  BY DEF LifecycleIInv, LifecycleTypeOK, RowType, WorkType
<1>6. db' \in RowType /\ db'.exists /\ db'.state = memory /\ db'.rows = db.rows
  BY <1>4, <1>5 DEF SavedRow, RowType
<1>7. work \in WorkType /\ work.memory = memory /\ work.todo = todo
      /\ work.at = IF todo = <<>> THEN "loaded" ELSE "initialize"
  BY <1>2, <1>3 DEF WorkType
<1>8. program' \in [Process -> WorkType] /\ program'[p] = work
      /\ \A q \in Process \ {p} : program'[q] = program[q]
  BY <1>4, <1>5, <1>7
<1>9. \A f \in Defined \ Ahead(todo) : memory[f] # Null /\ f \in db.rows
  BY <1>1, <1>2
<1>10. (Saving(p)' <=> todo # <<>>) /\ \A q \in Process \ {p} : Saving(q)' <=> Saving(q)
  BY <1>7, <1>8 DEF Saving
<1>11. LifecycleTypeOK'
  <2>1. \A q \in Process : Saving(q)' <=> program'[q].todo # <<>>
    BY <1>7, <1>8, <1>10 DEF LifecycleIInv, LifecycleTypeOK
  <2> QED
    BY <1>6, <1>8, <2>1 DEF LifecycleTypeOK, RowType, WorkType
<1>12. todo = <<>> => Ahead(todo) = {}
  BY DEF Ahead
<1>13. ASSUME todo = <<>>  PROVE Settled(db') /\ \A f \in Defined : memory[f] # Null
  BY <1>6, <1>9, <1>12, <1>13 DEF Settled, ReadyRow
<1>14. ASSUME todo # <<>>  PROVE Underway(db', program'[p])
  BY <1>6, <1>7, <1>8, <1>9, <1>14 DEF Underway
<1>15. \A q \in Process : program'[q].at = "loaded" => \A f \in Defined : program'[q].memory[f] # Null
  BY <1>7, <1>8, <1>13 DEF LifecycleIInv
<1> QED
  BY <1>10, <1>11, <1>13, <1>14, <1>15 DEF LifecycleIInv

\* The save that creates the object.
LEMMA CreateInv ==
  ASSUME LifecycleIInv, InTransaction, NEW p \in Process, NEW given \in SUBSET StateField, Create(p, given)
  PROVE  LifecycleIInv'
<1>1. ~created /\ ~db.exists /\ \A q \in Process : ~Saving(q)
  BY DEF Create, LifecycleIInv, Saving
<1>2. PICK memory : memory = [f \in StateField |-> IF f \in given THEN Initial[f] ELSE Null]
  OBVIOUS
<1>3. memory \in States
  BY <1>2 DEF States
<1>4. Saved(p, memory, <<>>) /\ before' = db /\ created' = TRUE
  BY <1>2 DEF Create
<1>5. db \in RowType /\ Settled(db)
  BY <1>1 DEF LifecycleIInv, LifecycleTypeOK, RowType
<1>6. <<>> \in Seq(StateField)
  OBVIOUS
<1> QED
  BY <1>1, <1>3, <1>4, <1>5, <1>6, SavedInv

\* A save of an instance that has been loaded.
LEMMA EditInv ==
  ASSUME LifecycleIInv, InTransaction, NEW p \in Process, Edit(p)
  PROVE  LifecycleIInv'
<1>1. \A q \in Process : ~Saving(q)
  BY DEF Edit, Visible
<1>2. db \in RowType /\ Settled(db)
  BY <1>1 DEF LifecycleIInv, LifecycleTypeOK, RowType
<1>3. created
  BY DEF Edit, LifecycleIInv
<1>4. program[p].memory \in States /\ \A f \in Defined : program[p].memory[f] # Null
  BY DEF LifecycleIInv, LifecycleTypeOK, Edit
<1>5. Saved(p, program[p].memory, <<>>) /\ before' = db /\ created' = TRUE
  BY <1>3 DEF Edit, LifecycleIInv, LifecycleTypeOK
<1>6. db.exists => \A f \in Defined \ Ahead(<<>>) : program[p].memory[f] # Null /\ f \in db.rows
  BY <1>2, <1>4 DEF Settled, ReadyRow
<1>7. <<>> \in Seq(StateField)
  OBVIOUS
<1> QED
  BY <1>1, <1>2, <1>4, <1>5, <1>6, <1>7, SavedInv

\* What is ahead after one field.
LEMMA HeadAndTail ==
  ASSUME NEW todo \in Seq(StateField), todo # <<>>
  PROVE  /\ Head(todo) \in StateField /\ Tail(todo) \in Seq(StateField)
         /\ Ahead(todo) = {Head(todo)} \cup Ahead(Tail(todo))
<1>1. Head(todo) = todo[1] /\ Len(todo) \in Nat \ {0} /\ DOMAIN todo = 1..Len(todo)
  OBVIOUS
<1>2. Tail(todo) \in Seq(StateField) /\ DOMAIN Tail(todo) = 1..(Len(todo) - 1)
      /\ \A k \in DOMAIN Tail(todo) : Tail(todo)[k] = todo[k + 1]
  BY <1>1
<1>3. \A k \in DOMAIN todo : k = 1 \/ (k - 1 \in DOMAIN Tail(todo) /\ Tail(todo)[k - 1] = todo[k])
  BY <1>1, <1>2
<1>4. Ahead(todo) \subseteq {Head(todo)} \cup Ahead(Tail(todo))
  BY <1>1, <1>3 DEF Ahead
<1>5. {Head(todo)} \cup Ahead(Tail(todo)) \subseteq Ahead(todo)
  BY <1>1, <1>2 DEF Ahead
<1> QED
  BY <1>1, <1>2, <1>4, <1>5

\* A process that saves, alone.
LEMMA Alone ==
  ASSUME LifecycleIInv, NEW p \in Process, Saving(p)
  PROVE  /\ \A q \in Process \ {p} : ~Saving(q)
         /\ Underway(db, program[p]) /\ created
         /\ db \in RowType /\ before \in RowType /\ Settled(before)
         /\ program \in [Process -> WorkType]
         /\ program[p].todo \in Seq(StateField) /\ program[p].todo # <<>>
BY DEF LifecycleIInv, LifecycleTypeOK, RowType, WorkType, Saving

\* The rows of one field.
LEMMA InitializeInv ==
  ASSUME LifecycleIInv, NEW p \in Process, InitializeApprovals(p)
  PROVE  LifecycleIInv'
<1>1. Saving(p)
  BY DEF InitializeApprovals, Saving
<1>2. PICK f \in StateField : f = Head(program[p].todo)
  BY <1>1, Alone, HeadAndTail
<1>3. /\ db' \in RowType /\ db'.exists = db.exists /\ db'.state = db.state
      /\ db.rows \subseteq db'.rows /\ (f \in Defined => f \in db'.rows)
  BY <1>1, <1>2, Alone DEF InitializeApprovals, RowType
<1>4. /\ program' \in [Process -> WorkType]
      /\ program'[p].at = "set_state" /\ program'[p].memory = program[p].memory
      /\ program'[p].todo = program[p].todo
      /\ \A q \in Process \ {p} : program'[q] = program[q]
  BY <1>1, Alone DEF InitializeApprovals, WorkType
<1>5. \A q \in Process : Saving(q)' <=> Saving(q)
  BY <1>1, <1>4 DEF Saving
<1>6. Underway(db', program'[p])
  BY <1>1, <1>2, <1>3, <1>4, Alone DEF Underway
<1>7. before' = before /\ created' = created
  BY DEF InitializeApprovals
<1>8. LifecycleTypeOK'
  <2>1. \A q \in Process : program'[q].todo = program[q].todo
    BY <1>4
  <2> QED
    BY <1>3, <1>4, <1>5, <1>7, <2>1, <1>1, Alone DEF LifecycleTypeOK, RowType, WorkType, LifecycleIInv
<1>9. \A q \in Process : program'[q].at = "loaded" => program'[q] = program[q]
  BY <1>4
<1> QED
  BY <1>1, <1>5, <1>6, <1>7, <1>8, <1>9, Alone DEF LifecycleIInv

\* The initial state of one field, and the save of it.
LEMMA SetStateInv ==
  ASSUME LifecycleIInv, InTransaction, NEW p \in Process, SetState(p)
  PROVE  LifecycleIInv'
<1>1. Saving(p) /\ program[p].at = "set_state"
  BY DEF SetState, Saving
<1>2. PICK f, rest : f = Head(program[p].todo) /\ rest = Tail(program[p].todo)
  OBVIOUS
<1>3. /\ f \in StateField /\ rest \in Seq(StateField)
      /\ Ahead(program[p].todo) = {f} \cup Ahead(rest)
  BY <1>1, <1>2, Alone, HeadAndTail
<1>4. /\ db.exists /\ db.state = program[p].memory /\ program[p].memory \in States
      /\ \A g \in Defined \ (Ahead(rest) \cup {f}) : program[p].memory[g] # Null /\ g \in db.rows
      /\ f \in Defined => f \in db.rows
  BY <1>1, <1>2, <1>3, Alone DEF Underway, WorkType
<1>5. before' = before /\ created' = created
  BY DEF SetState
<1>6. CASE program[p].memory[f] = Null
  <2>1. PICK memory : memory = [program[p].memory EXCEPT ![f] = InitialOf(f)]
    OBVIOUS
  <2>2. Saved(p, memory, rest)
    BY <1>2, <1>6, <2>1 DEF SetState
  <2>3. InitialOf(f) \in (UNION {{Initial[g], Moved[g]} : g \in StateField}) \cup {Null}
        /\ (f \in Defined => InitialOf(f) # Null)
    BY <1>3, LifecycleAssumption DEF InitialOf
  <2>4. memory \in States /\ memory[f] = InitialOf(f)
        /\ \A g \in StateField \ {f} : memory[g] = program[p].memory[g]
    BY <1>3, <1>4, <2>1, <2>3 DEF States
  <2>5. \A g \in Defined \ Ahead(rest) : memory[g] # Null /\ g \in db.rows
    BY <1>3, <1>4, <2>3, <2>4, LifecycleAssumption
  <2> QED
    BY <1>1, <1>3, <1>5, <2>2, <2>4, <2>5, Alone, SavedInv
<1>7. CASE program[p].memory[f] # Null
  <2>1. db' = db /\ program' = [program EXCEPT ![p].at = IF rest = <<>> THEN "loaded" ELSE "initialize",
                                               ![p].todo = rest]
    BY <1>2, <1>7 DEF SetState
  <2>2. /\ program' \in [Process -> WorkType]
        /\ program'[p].at = (IF rest = <<>> THEN "loaded" ELSE "initialize")
        /\ program'[p].memory = program[p].memory /\ program'[p].todo = rest
        /\ \A q \in Process \ {p} : program'[q] = program[q]
    BY <1>1, <1>3, <2>1, Alone DEF WorkType
  <2>3. (Saving(p)' <=> rest # <<>>) /\ \A q \in Process \ {p} : Saving(q)' <=> Saving(q)
    BY <2>2 DEF Saving
  <2>4. \A g \in Defined \ Ahead(rest) : program[p].memory[g] # Null /\ g \in db.rows
    BY <1>4, <1>7
  <2>5. rest # <<>> => Underway(db', program'[p])
    BY <1>4, <2>1, <2>2, <2>4 DEF Underway
  <2>6. rest = <<>> => Settled(db') /\ \A g \in Defined : program[p].memory[g] # Null
    <3>1. rest = <<>> => Ahead(rest) = {}
      BY DEF Ahead
    <3> QED
      BY <1>4, <2>1, <2>4, <3>1 DEF Settled, ReadyRow
  <2>7. LifecycleTypeOK'
    <3>1. \A q \in Process : Saving(q)' <=> program'[q].todo # <<>>
      BY <2>2, <2>3 DEF LifecycleIInv, LifecycleTypeOK
    <3> QED
      BY <1>1, <1>5, <2>1, <2>2, <3>1, Alone DEF LifecycleTypeOK, RowType, WorkType, LifecycleIInv
  <2>8. \A q \in Process : program'[q].at = "loaded" => \A g \in Defined : program'[q].memory[g] # Null
    BY <2>2, <2>6 DEF LifecycleIInv
  <2> QED
    BY <1>1, <1>5, <2>3, <2>5, <2>6, <2>7, <2>8, Alone DEF LifecycleIInv
<1> QED
  BY <1>6, <1>7

\* What is done while nobody saves, and leaves nobody saving.
LEMMA QuietInv ==
  ASSUME LifecycleIInv, \A q \in Process : ~Saving(q),
         db' \in RowType, Settled(db'), UNCHANGED <<before, created>>, created,
         NEW p \in Process, NEW work \in WorkType, program' = [program EXCEPT ![p] = work],
         work.todo = <<>>,
         work.at = "idle" \/ (work.at = "loaded" /\ \A f \in Defined : work.memory[f] # Null)
  PROVE  LifecycleIInv'
<1>1. program \in [Process -> WorkType] /\ before \in RowType
  BY DEF LifecycleIInv, LifecycleTypeOK, WorkType, RowType
<1>2. program' \in [Process -> WorkType] /\ program'[p] = work
      /\ \A q \in Process \ {p} : program'[q] = program[q]
  BY <1>1
<1>3. \A q \in Process : ~Saving(q)' /\ program'[q].todo = <<>>
  BY <1>2 DEF Saving, LifecycleIInv, LifecycleTypeOK
<1>4. LifecycleTypeOK'
  BY <1>1, <1>2, <1>3 DEF LifecycleTypeOK, RowType, WorkType, LifecycleIInv
<1>5. \A q \in Process : program'[q].at = "loaded" => \A f \in Defined : program'[q].memory[f] # Null
  BY <1>2 DEF LifecycleIInv
<1> QED
  BY <1>3, <1>4, <1>5 DEF LifecycleIInv

\* Every step of the module keeps the invariant.
LEMMA LifecycleSteps ==
  ASSUME InTransaction
  PROVE  LifecycleIInv /\ [LifecycleNext]_lifecycleVars => LifecycleIInv'
<1> SUFFICES ASSUME LifecycleIInv, [LifecycleNext]_lifecycleVars  PROVE LifecycleIInv'
  OBVIOUS
<1>0. /\ db \in RowType /\ before \in RowType /\ Settled(before) /\ program \in [Process -> WorkType]
      /\ created \in BOOLEAN
  BY DEF LifecycleIInv, LifecycleTypeOK, RowType, WorkType
<1>a. Visible => (\A q \in Process : ~Saving(q)) /\ Settled(db)
  BY DEF Visible, LifecycleIInv
<1>b. \A p \in Process : [program EXCEPT ![p] = program[p]] = program
  BY <1>0
<1>1. ASSUME NEW p \in Process, NEW given \in SUBSET StateField, Create(p, given)  PROVE LifecycleIInv'
  BY <1>1, CreateInv
<1>2. ASSUME NEW p \in Process, InitializeApprovals(p)  PROVE LifecycleIInv'
  BY <1>2, InitializeInv
<1>3. ASSUME NEW p \in Process, SetState(p)  PROVE LifecycleIInv'
  BY <1>3, SetStateInv
<1>4. ASSUME NEW p \in Process, Load(p)  PROVE LifecycleIInv'
  <2>1. PICK work : work = [Idle EXCEPT !.at = "loaded", !.memory = db.state]
    OBVIOUS
  <2>2. work = [at |-> "loaded", memory |-> db.state, todo |-> <<>>]
    BY <2>1 DEF Idle
  <2>3. db.state \in States /\ \A f \in Defined : db.state[f] # Null
    BY <1>0, <1>4, <1>a DEF Load, RowType, Settled, ReadyRow
  <2>4. work \in WorkType /\ work.todo = <<>> /\ work.at = "loaded" /\ \A f \in Defined : work.memory[f] # Null
    BY <2>2, <2>3 DEF WorkType
  <2>5. db' = db /\ program' = [program EXCEPT ![p] = work] /\ UNCHANGED <<before, created>>
    BY <1>4, <2>1 DEF Load
  <2>6. created
    BY <1>0, <1>4 DEF Load, LifecycleIInv
  <2> QED
    BY <1>0, <1>4, <1>a, <2>4, <2>5, <2>6, QuietInv DEF Load
<1>5. ASSUME NEW p \in Process, Edit(p)  PROVE LifecycleIInv'
  BY <1>5, EditInv
<1>6. ASSUME NEW p \in Process, Crash(p)  PROVE LifecycleIInv'
  <2>1. Idle \in WorkType /\ Idle.todo = <<>> /\ Idle.at = "idle"
    BY DEF Idle, WorkType, NoState, States
  <2>2. created /\ UNCHANGED <<before, created>> /\ program' = [program EXCEPT ![p] = Idle]
    BY <1>0, <1>6 DEF Crash, LifecycleIInv
  <2>3. CASE \A q \in Process : ~Saving(q)
    BY <1>0, <1>6, <2>1, <2>2, <2>3, QuietInv DEF Crash, LifecycleIInv
  <2>4. CASE Saving(p)
    <3>1. db' = before /\ program'[p] = Idle /\ \A q \in Process \ {p} : program'[q] = program[q]
      BY <1>0, <1>6, <2>2, <2>4 DEF Crash
    <3>2. \A q \in Process : ~Saving(q)' /\ program'[q].todo = <<>>
      BY <2>1, <2>4, <3>1, Alone DEF Saving, LifecycleIInv, LifecycleTypeOK
    <3>3. program' \in [Process -> WorkType]
      BY <1>0, <2>1, <2>2
    <3>4. LifecycleTypeOK'
      BY <1>0, <2>2, <3>1, <3>2, <3>3 DEF LifecycleTypeOK, RowType, WorkType
    <3>5. \A q \in Process : program'[q].at = "loaded" => \A f \in Defined : program'[q].memory[f] # Null
      BY <2>1, <3>1 DEF LifecycleIInv
    <3> QED
      BY <1>0, <2>2, <3>1, <3>2, <3>4, <3>5 DEF LifecycleIInv
  <2>5. CASE ~Saving(p) /\ \E q \in Process : Saving(q)
    <3>1. PICK q \in Process : Saving(q) /\ q # p
      BY <2>5
    <3>2. db' = db /\ program'[p] = Idle /\ \A r \in Process \ {p} : program'[r] = program[r]
      BY <1>0, <1>6, <2>2, <2>5 DEF Crash
    <3>3. \A r \in Process : (Saving(r)' <=> Saving(r)) /\ (r # p => program'[r] = program[r])
      BY <2>1, <2>5, <3>2 DEF Saving
    <3>4. program' \in [Process -> WorkType] /\ program[p].todo = <<>>
      BY <1>0, <2>1, <2>2, <2>5 DEF LifecycleIInv, LifecycleTypeOK
    <3>5. LifecycleTypeOK'
      BY <1>0, <2>1, <2>2, <3>2, <3>3, <3>4 DEF LifecycleTypeOK, RowType, WorkType, LifecycleIInv
    <3>6. \A r \in Process : program'[r].at = "loaded" => \A f \in Defined : program'[r].memory[f] # Null
      BY <2>1, <3>2 DEF LifecycleIInv
    <3>7. \A r \in Process : Saving(r)' => Underway(db', program'[r])
      BY <2>5, <3>2, <3>3 DEF LifecycleIInv
    <3> QED
      BY <2>2, <3>1, <3>3, <3>5, <3>6, <3>7 DEF LifecycleIInv
  <2> QED
    BY <2>3, <2>4, <2>5
<1>7. ASSUME NEW p \in Process, NEW f \in StateField, Approve(p, f)  PROVE LifecycleIInv'
  <2>1. PICK memory : memory = [program[p].memory EXCEPT ![f] = Moved[f]]
    OBVIOUS
  <2>2. program[p].memory \in States /\ program[p].at = "loaded" /\ program[p].todo = <<>>
        /\ \A g \in Defined : program[p].memory[g] # Null
    BY <1>0, <1>7, <1>a DEF Approve, WorkType, LifecycleIInv, LifecycleTypeOK
  <2>3. Moved[f] # Null
    BY LifecycleAssumption
  <2>4. memory \in States /\ \A g \in Defined : memory[g] # Null
    BY <2>1, <2>2, <2>3, LifecycleAssumption DEF States
  <2>5. PICK work : work = [program[p] EXCEPT !.memory = memory]
    OBVIOUS
  <2>6. work \in WorkType /\ work.todo = <<>> /\ work.at = "loaded" /\ work.memory = memory
    BY <1>0, <2>2, <2>4, <2>5 DEF WorkType
  <2>7. db' = SavedRow(memory) /\ UNCHANGED <<before, created>>
        /\ program' = [program EXCEPT ![p].memory[f] = Moved[f]]
    BY <1>7, <2>1 DEF Approve
  <2>8. program' = [program EXCEPT ![p] = work]
    BY <1>0, <2>1, <2>5, <2>7
  <2>9. db' \in RowType /\ Settled(db')
    BY <1>0, <1>7, <1>a, <2>4, <2>7 DEF Approve, SavedRow, RowType, Settled, ReadyRow
  <2>10. created
    BY <1>0, <2>2 DEF LifecycleIInv
  <2> QED
    BY <1>7, <1>a, <2>4, <2>6, <2>7, <2>8, <2>9, <2>10, QuietInv DEF Approve
<1>8. ASSUME Delete \/ \E p \in Process : AddHook(p)  PROVE LifecycleIInv'
  <2>1. (\A q \in Process : ~Saving(q)) /\ Settled(db)
    BY <1>8, <1>a DEF AddHook, Delete
  <2>2. db' \in RowType /\ Settled(db') /\ (db'.exists => db.exists)
    <3>1. CASE \E p \in Process : AddHook(p)
      BY <1>0, <2>1, <3>1 DEF AddHook, RowType, Settled, ReadyRow
    <3>2. CASE Delete
      BY <3>2 DEF Delete, NoRow, RowType, Settled, NoState, States
    <3> QED
      BY <1>8, <3>1, <3>2
  <2>3. UNCHANGED <<program, before, created>>
    BY <1>8 DEF AddHook, Delete
  <2>4. LifecycleTypeOK'
    BY <2>2, <2>3 DEF LifecycleIInv, LifecycleTypeOK, RowType, Saving
  <2>5. \A q \in Process : Saving(q)' <=> Saving(q)
    BY <2>3 DEF Saving
  <2> QED
    BY <2>1, <2>2, <2>3, <2>4, <2>5 DEF LifecycleIInv
<1>9. CASE UNCHANGED lifecycleVars
  BY <1>9 DEF lifecycleVars, LifecycleIInv, LifecycleTypeOK, Saving
<1> QED
  BY <1>1, <1>2, <1>3, <1>4, <1>5, <1>6, <1>7, <1>8, <1>9 DEF LifecycleNext

\* There is no object at first.
LEMMA LifecycleInitially == LifecycleInit => LifecycleIInv
<1> SUFFICES ASSUME LifecycleInit  PROVE LifecycleIInv
  OBVIOUS
<1>1. NoRow \in RowType /\ Settled(NoRow) /\ ~NoRow.exists
  BY DEF NoRow, RowType, Settled, NoState, States
<1>2. Idle \in WorkType /\ Idle.at = "idle" /\ Idle.todo = <<>>
  BY DEF Idle, WorkType, NoState, States
<1>3. program \in [Process -> WorkType] /\ \A p \in Process : program[p] = Idle
  BY <1>2 DEF LifecycleInit
<1>4. \A p \in Process : ~Saving(p) /\ program[p].todo = <<>> /\ program[p].at = "idle"
  BY <1>2, <1>3 DEF Saving
<1>5. LifecycleTypeOK
  BY <1>1, <1>3, <1>4 DEF LifecycleInit, LifecycleTypeOK, RowType, WorkType
<1> QED
  BY <1>1, <1>4, <1>5 DEF LifecycleInit, LifecycleIInv

\* With callers that save in a transaction, the handlers of a save keep the invariant, for
\* any number of processes and of fields in any order.
THEOREM LifecycleInvariance == ASSUME InTransaction  PROVE LifecycleSpec => []LifecycleIInv
<1>1. LifecycleIInv /\ [LifecycleNext]_lifecycleVars => LifecycleIInv'
  BY LifecycleSteps
<1> QED
  BY <1>1, LifecycleInitially, PTL DEF LifecycleSpec

\* With callers that save in a transaction, an object others can see has, for every field with
\* a workflow, a state and its transitions, although set_state saves the object again inside the
\* handler of the save that created it.
THEOREM CreatedReady == ASSUME InTransaction  PROVE LifecycleSpec => []CreatedIsReady
<1>1. LifecycleIInv => CreatedIsReady
  BY DEF LifecycleIInv, CreatedIsReady, Settled, ReadyRow, Ready
<1> QED
  BY <1>1, LifecycleInvariance, PTL
===============================================================================
