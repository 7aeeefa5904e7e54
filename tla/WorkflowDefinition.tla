------------------------- MODULE WorkflowDefinition -------------------------
(***************************************************************************)
(* The definition of a workflow, which administrators change at any time,  *)
(* and what of it reaches the objects: an object gets a copy of the graph  *)
(* when it is created, read level by level, while its on_final_state and   *)
(* the system checks look at the definition there is now.                  *)
(*                                                                         *)
(* How an object moves over its copy is InstanceWorkflow; here it is only  *)
(* somewhere on it.                                                        *)
(***************************************************************************)
EXTENDS Naturals, Sequences

CONSTANTS
  State, Meta, Rule, Object,
  Field,      \* the state fields of the project, <<model, name>>
  Subject,    \* the field whose graph and objects these are
  Edge        \* the edges administrators draw, <<source, destination>>

ASSUME DefinitionAssumption ==
  /\ Subject \in Field
  /\ Edge \subseteq State \X State

VARIABLES
  workflows,  \* field |-> initial state, of the Workflow rows there are
  metas,      \* meta |-> edge, of the TransitionMeta rows there are
  rules,      \* rule |-> meta, of the TransitionApprovalMeta rows there are
  parents,    \* the rows of the parents relation, <<rule, parent>>
  objects,    \* objects[o]: the object, and initialize_approvals while it runs
  seen,       \* history, seen[o]: the definition o was created from, or Several
  edited      \* history: a saved TransitionMeta or rule has been given another edge

vars == <<workflows, metas, rules, parents, objects, seen, edited>>

Row == [meta: Meta, from: State, to: State, rules: SUBSET Rule]
NoPlace == "no place"
Several == <<>>
NewObject == [at |-> "none", place |-> NoPlace, rows |-> {}, initial |-> NoPlace, processed |-> <<>>]

From(m) == metas[m][1]
To(m) == metas[m][2]

TypeOK ==
  /\ DOMAIN workflows \subseteq Field /\ \A f \in DOMAIN workflows : workflows[f] \in State
  /\ DOMAIN metas \subseteq Meta /\ \A m \in DOMAIN metas : metas[m] \in Edge
  /\ DOMAIN rules \subseteq Rule /\ \A r \in DOMAIN rules : rules[r] \in DOMAIN metas
  /\ parents \subseteq (DOMAIN rules) \X (DOMAIN rules)
  /\ objects \in [Object -> [at: {"none", "creating", "made"}, place: State \cup {NoPlace}, rows: SUBSET Row,
                             initial: State \cup {NoPlace}, processed: Seq(SUBSET Meta)]]
  /\ edited \in BOOLEAN

-----------------------------------------------------------------------------
(* Administrators.                                                         *)

Definition == <<metas, IF Subject \in DOMAIN workflows THEN workflows[Subject] ELSE NoPlace>>

\* What an object is being created from, and whether rows have been edited.
Seeing ==
  /\ seen' = [o \in Object |-> IF objects'[o].at # "creating" THEN seen[o]
                               ELSE IF objects[o].at = "none" \/ seen[o] = Definition' THEN Definition'
                               ELSE Several]
  /\ edited' = (edited \/ (\E m \in DOMAIN metas \cap DOMAIN metas' : metas'[m] # metas[m])
                       \/ (\E r \in DOMAIN rules \cap DOMAIN rules' : rules'[r] # rules[r]))

\* The table f with the row x saved, and without it.
With(f, x, value) == [y \in DOMAIN f \cup {x} |-> IF y = x THEN value ELSE f[y]]
Without(f, x) == [y \in DOMAIN f \ {x} |-> f[y]]

\* WorkflowForm: a choice of field and an initial state.
DefineWorkflow(f, s) ==
  /\ f \in DOMAIN workflows => workflows[f] # s
  /\ workflows' = With(workflows, f, s)
  /\ UNCHANGED <<metas, rules, parents, objects>>

\* unique_together: the edge is not there yet.
SaveMeta(m, edge) ==
  /\ Subject \in DOMAIN workflows
  /\ \A n \in DOMAIN metas : metas[n] # edge
  /\ metas' = With(metas, m, edge)
  /\ UNCHANGED <<workflows, rules, parents, objects>>

\* Mutant of DeleteMeta: on_delete of Transition.meta is not PROTECT.
DeleteMetaOfObjects(m) ==
  /\ m \in DOMAIN metas /\ \A r \in DOMAIN rules : rules[r] # m
  /\ metas' = Without(metas, m)
  /\ UNCHANGED <<workflows, rules, parents, objects>>

\* PROTECT: no rule and no transition of an object refers to it.
DeleteMeta(m) ==
  /\ m \in DOMAIN metas /\ \A r \in DOMAIN rules : rules[r] # m
  /\ \A o \in Object : \A row \in objects[o].rows : row.meta # m
  /\ metas' = Without(metas, m)
  /\ UNCHANGED <<workflows, rules, parents, objects>>

\* Mutant of Related: only the rule that is saved is told.
RelatedToParents(r, m) == {<<r, p>> : p \in {q \in DOMAIN rules \ {r} : To(rules[q]) = From(m)}}

\* post_save_model: the rules of the edges that lead to m are parents of r, and r
\* one of those of the edges it leads to.
Related(r, m) ==
  {<<r, p>> : p \in {q \in DOMAIN rules \ {r} : To(rules[q]) = From(m)}}
    \cup {<<c, r>> : c \in {q \in DOMAIN rules \ {r} : From(rules[q]) = To(m)}}

SaveRule(r, m) ==
  /\ m \in DOMAIN metas
  /\ r \in DOMAIN rules => rules[r] # m
  /\ rules' = With(rules, r, m)
  /\ parents' = parents \cup Related(r, m)
  /\ UNCHANGED <<workflows, metas, objects>>

\* What becomes of the approvals of the objects is DeleteRule of InstanceWorkflow.
DeleteRule(r) ==
  /\ r \in DOMAIN rules
  /\ rules' = Without(rules, r)
  /\ parents' = {pair \in parents : r \notin {pair[1], pair[2]}}
  /\ UNCHANGED <<workflows, metas, objects>>

-----------------------------------------------------------------------------
(* Objects.                                                                *)

\* The first save, with a state of the caller's choice or none: the Workflow row is read,
\* and with it the initial state.
Begin(o, given) ==
  /\ objects[o].at = "none"
  /\ Subject \in DOMAIN workflows
  /\ objects' = [objects EXCEPT ![o] = [NewObject EXCEPT !.at = "creating", !.place = given,
                                                         !.initial = workflows[Subject]]]
  /\ UNCHANGED <<workflows, metas, rules, parents>>

\* Mutant of Level: edges to a state that has been reached are left out as well.
LevelOfNewStates(o) ==
  LET level[k \in Nat] ==
        IF k = 0 THEN {m \in DOMAIN metas : From(m) = objects[o].initial}
        ELSE {m \in DOMAIN metas \ objects[o].processed[k] :
                /\ \E n \in level[k - 1] : To(n) = From(m)
                /\ \A n \in level[k - 1] : From(n) # To(m)}
  IN level[Len(objects[o].processed)]

\* transition_meta_list: a query that names the queries of the levels before it, each
\* without what had been processed when it was made, and that reads them again.
Level(o) ==
  LET level[k \in Nat] ==
        IF k = 0 THEN {m \in DOMAIN metas : From(m) = objects[o].initial}
        ELSE {m \in DOMAIN metas \ objects[o].processed[k] : \E n \in level[k - 1] : To(n) = From(m)}
  IN level[Len(objects[o].processed)]

Processed(o) == {row.meta : row \in objects[o].rows}

\* A pass of the loop of initialize_approvals.
Initialize(o) ==
  /\ objects[o].at = "creating"
  /\ Level(o) # {}
  /\ objects' = [objects EXCEPT
       ![o].rows = @ \cup {[meta |-> m, from |-> From(m), to |-> To(m),
                            rules |-> {r \in DOMAIN rules : rules[r] = m}] : m \in Level(o)},
       ![o].processed = Append(@, Processed(o) \cup Level(o))]
  /\ UNCHANGED <<workflows, metas, rules, parents>>

\* The end of the loop, and the receiver sets the initial state, read once more, of an
\* object that has none.
Initialized(o) ==
  /\ objects[o].at = "creating"
  /\ Level(o) = {}
  /\ objects' = [objects EXCEPT ![o].at = "made", ![o].initial = NoPlace, ![o].processed = <<>>,
                                ![o].place = IF @ = NoPlace THEN workflows[Subject] ELSE @]
  /\ UNCHANGED <<workflows, metas, rules, parents>>

\* approve() with the last signature of a transition.
Proceed(o, row) ==
  /\ objects[o].at = "made"
  /\ row.from = objects[o].place
  /\ row.rules # {}
  /\ objects' = [objects EXCEPT ![o].place = row.to]
  /\ UNCHANGED <<workflows, metas, rules, parents>>

Init ==
  /\ workflows = <<>> /\ metas = <<>> /\ rules = <<>> /\ parents = {}
  /\ objects = [o \in Object |-> NewObject]
  /\ seen = [o \in Object |-> Several]
  /\ edited = FALSE

Administer ==
  \/ \E f \in Field, s \in State : DefineWorkflow(f, s)
  \/ \E m \in Meta : DeleteMeta(m) \/ (\E edge \in Edge : SaveMeta(m, edge)) \/ (\E r \in Rule : SaveRule(r, m))
  \/ \E r \in Rule : DeleteRule(r)

Live(o) ==
  \/ \E given \in State \cup {NoPlace} : Begin(o, given)
  \/ Initialize(o) \/ Initialized(o) \/ \E row \in objects[o].rows : Proceed(o, row)

Next == (Administer \/ \E o \in Object : Live(o)) /\ Seeing

Spec == Init /\ [][Next]_vars

-----------------------------------------------------------------------------
(* What the code tells of the definition.                                  *)

Sources == {From(m) : m \in DOMAIN metas}
Destinations == {To(m) : m \in DOMAIN metas}

\* Mutant of FinalStates: an edge that asks for nobody is no way on.
FinalStatesOfRules == Destinations \ {From(rules[r]) : r \in DOMAIN rules}

FinalStates == Destinations \ Sources

OnFinalState(o) == objects[o].place \in FinalStates

\* W004: a state that no edge and no workflow names.
StatesWarned == State \ (Sources \cup Destinations \cup {workflows[f] : f \in DOMAIN workflows})

-----------------------------------------------------------------------------
(* Properties.                                                             *)

Made == {o \in Object : objects[o].at = "made"}
Leaving(o) == {row \in objects[o].rows : row.from = objects[o].place}

\* The edges that can be reached in a definition: their source is in every set of
\* states that has the initial one and is closed under the edges.
Reachable(graph, initial) ==
  LET Closed(S) == initial \in S /\ \A m \in DOMAIN graph : graph[m][1] \in S => graph[m][2] \in S
  IN {graph[m] : m \in {n \in DOMAIN graph : \A S \in SUBSET State : Closed(S) => graph[n][1] \in S}}

\* An object gets the part of the graph that its initial state leads to, of the one
\* definition there was while it was created, and whatever it became afterwards.
CopyIsOfOneDefinition ==
  \A o \in Made : seen[o] # Several =>
    {<<row.from, row.to>> : row \in objects[o].rows} = Reachable(seen[o][1], seen[o][2])

\* on_final_state reads the present definition.  Unless edges have been edited it never says
\* of an object that a transition leads on from that it is at its end, whatever has been
\* added and deleted; and where the object's own graph ends it says so as long as the
\* definition is that of the object.  A state given by the caller need not be in the graph.
FinalIsTheEnd ==
  \A o \in Made :
    /\ ~edited /\ OnFinalState(o) => Leaving(o) = {}
    /\ seen[o] = Definition /\ (\E row \in objects[o].rows : row.to = objects[o].place) /\ Leaving(o) = {}
         => OnFinalState(o)

\* The receiver of a rule keeps the relation of a rule to those that can come right
\* before it, in whatever order rules are made and deleted; only an edit of an edge or
\* of the edge of a rule leaves it behind.
ParentsAreThoseBefore ==
  ~edited => parents = {pair \in (DOMAIN rules) \X (DOMAIN rules) :
                          pair[1] # pair[2] /\ To(rules[pair[2]]) = From(rules[pair[1]])}

\* A state that W004 reports is in no transition of an object either, unless edges
\* have been edited.
UnusedIsUnused ==
  ~edited => \A o \in Made : \A row \in objects[o].rows : {row.from, row.to} \cap StatesWarned = {}
=============================================================================
