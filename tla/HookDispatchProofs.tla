------------------------- MODULE HookDispatchProofs -------------------------
(***************************************************************************)
(* Theorems about HookDispatch, for every chain of edges, depth of nesting *)
(* and behaviour of hooks and receivers.                                   *)
(***************************************************************************)
EXTENDS HookDispatch, TLAPS

Depth == Len(calls)
Calls == 1..Depth

Unsaved(call) == call.at \in {"enter", "entered", "save"}

\* Type correctness, with the managers a call can be at; a call that has made another did so
\* from hooks.
Placed(call) ==
  /\ Unsaved(call) => ~call.raising
  /\ call.at \in {"enter", "entered", "left"} => call.m \in 1..3

Typed ==
  /\ TypeOK
  /\ \A i \in Calls : Placed(calls[i]) /\ (i < Depth => calls[i].at \in {"entered", "left"})

\* The state of the object only grows along the calls under way, and what Python holds is
\* never behind it; a call that moves the object, or ends its workflow, holds its edge before
\* the save, and the database has it afterwards.
Grows ==
  /\ db.state <= held
  /\ \A i \in Calls :
       /\ calls[i].before.state <= db.state
       /\ calls[i].edge = calls[i].before.state + 1
       /\ \A j \in Calls : i < j => calls[i].before.state <= calls[j].before.state

Reaches(call) == ~call.raising /\ (call.transit \/ call.final)

Saved ==
  \A i \in Calls : Reaches(calls[i]) =>
    IF Unsaved(calls[i]) THEN calls[i].edge <= held
    ELSE calls[i].edge <= db.state /\ \A j \in Calls : i < j => calls[i].edge <= calls[j].before.state

SavedInv == Typed /\ Grows /\ Saved /\ PostMeansSaved

\* With strict hooks.
Settled(d) == \A e \in Edge : d.state >= e <=> d.signed[e] = Signatures[e]

Clean == \A i \in Calls : ~calls[i].raising

\* As long as no exception is on its way signatures and state agree, but for the edge that
\* the innermost call is about to take.
Agree ==
  /\ IF Unsaved(Top) /\ Top.transit
     THEN held = db.state + 1 /\ Settled([db EXCEPT !.state = @ + 1])
     ELSE held = db.state /\ Settled(db)
  /\ \A i \in Calls : i < Depth /\ Unsaved(calls[i]) => ~calls[i].transit
  /\ db.signed[calls[1].edge] > calls[1].before.signed[calls[1].edge]

Strictly ==
  IF calls = <<>> THEN Settled(db) /\ ~doomed
  ELSE /\ Settled(calls[1].before)
       /\ doomed => Top.raising
       /\ Clean => Agree

StrictInv == Strict => Strictly

-----------------------------------------------------------------------------
(* One call goes on.                                                       *)

\* A call at c may be found at d when it has neither saved nor ended in between.
Follows(c, d) ==
  /\ d.before = c.before /\ d.edge = c.edge /\ d.transit = c.transit
  /\ d.final => c.final \/ (Unsaved(d) /\ held = Final)
  /\ c.raising => d.raising
  /\ ~d.raising => (Unsaved(d) <=> Unsaved(c))

\* The edges are numbered from 1 to the final state.
LEMMA Chain == Final \in Nat /\ Edge = 1..Final /\ Strict \in BOOLEAN /\ DepthBound \in Nat \ {0}
  BY ChainAssumption DEF Final, Edge

\* The call under way is the last one of the stack.
LEMMA Tops ==
  ASSUME Typed, calls # <<>>
  PROVE  /\ Depth \in Nat \ {0} /\ Depth \in Calls /\ Top = calls[Depth] /\ Top \in Call /\ Placed(Top)
         /\ \A i \in Calls : calls[i] \in Call
         /\ Len(calls) = Depth /\ calls \in Seq(Call) /\ calls = [i \in Calls |-> calls[i]]
  BY DEF Typed, TypeOK, Depth, Calls, Top

\* What a call remembers of the database has its type.
LEMMA CallTyped ==
  ASSUME NEW c \in Call
  PROVE  /\ c.before \in Database /\ c.before.state \in Nat /\ c.edge \in Edge /\ c.edge \in Nat
         /\ c.edge <= Final
<1>1. c.before \in Database /\ c.edge \in Edge
  BY DEF Call
<1> QED
  BY <1>1, Chain DEF Database

\* A call that goes on leaves the others where they are.
LEMMA Became ==
  ASSUME Typed, calls # <<>>, NEW c \in Call, Becomes(c)
  PROVE  /\ calls' \in Seq(Call) /\ calls' # <<>> /\ Depth' = Depth /\ Calls' = Calls
         /\ Top' = c /\ calls'[Depth] = c
         /\ \A i \in Calls : i # Depth => calls'[i] = calls[i]
<1>1. calls' = [calls EXCEPT ![Depth] = c]
  BY DEF Becomes, Depth
<1>2. calls' \in Seq(Call) /\ Len(calls') = Len(calls)
  BY <1>1, Tops
<1> QED
  BY <1>1, <1>2, Tops DEF Depth, Calls, Top

\* Nothing that matters to the rows has changed from c to d.
Alike(c, d) ==
  /\ d.before = c.before /\ d.edge = c.edge /\ d.transit = c.transit /\ d.final = c.final
  /\ d.raising = c.raising /\ (Unsaved(d) <=> Unsaved(c))

\* A call whose hooks are over is further on.
LEMMA HooksOverFollows ==
  ASSUME NEW c \in Call, Placed(c), c.at \in {"enter", "exit"}, c.m > 0
  PROVE  /\ HooksOver(c) \in Call /\ Placed(HooksOver(c)) /\ Follows(c, HooksOver(c))
         /\ Alike(c, HooksOver(c)) /\ HooksOver(c).at \in {"entered", "left"}
  BY DEF Call, Placed, Follows, HooksOver, Unsaved, Alike

\* A call that raises is on its way out.
LEMMA RaisedFollows ==
  ASSUME NEW c \in Call, c.m > 0
  PROVE  /\ Raised(c) \in Call /\ Placed(Raised(c)) /\ Follows(c, Raised(c))
         /\ Raised(c).raising /\ ~Unsaved(Raised(c))
<1> DEFINE d == [c EXCEPT !.at = "exit", !.m = @ - 1, !.raising = TRUE]
<1>1. c.m - 1 \in 0..3
  BY DEF Call
<1>2. /\ d \in Call /\ d.at = "exit" /\ d.raising = TRUE /\ d.before = c.before /\ d.edge = c.edge
      /\ d.transit = c.transit /\ d.final = c.final
  BY <1>1 DEF Call
<1>3. d = Raised(c)
  BY DEF Raised
<1> HIDE DEF d
<1> QED
  BY <1>2, <1>3 DEF Placed, Follows, Unsaved

\* A call that goes on without writing keeps the invariant of strict hooks.
LEMMA StrictFollows ==
  ASSUME Typed, StrictInv, calls # <<>>, NEW c \in Call, Follows(Top, c), Becomes(c),
         UNCHANGED <<db, held>>, Strict /\ doomed' => c.raising
  PROVE  StrictInv'
<1> SUFFICES ASSUME Strict  PROVE Strictly'
  BY DEF StrictInv
<1>1. Settled(calls[1].before) /\ (Clean => Agree)
  BY DEF StrictInv, Strictly
<1>2. /\ calls' # <<>> /\ Depth' = Depth /\ Calls' = Calls /\ Top' = c /\ calls'[Depth] = c
      /\ \A i \in Calls : i # Depth => calls'[i] = calls[i]
  BY Became
<1>3. calls'[1].before = calls[1].before /\ calls'[1].edge = calls[1].edge
  BY <1>2, Tops DEF Follows, Calls
<1>4. Settled(calls[1].before)'
  BY <1>1, <1>3 DEF Settled
<1>5. ASSUME Clean'  PROVE Agree'
  <2>1. ~c.raising /\ Clean
    BY <1>2, <1>5, Tops DEF Clean, Follows
  <2>2. Agree
    BY <1>1, <2>1
  <2>3. (Unsaved(c) <=> Unsaved(Top)) /\ c.transit = Top.transit
    BY <2>1 DEF Follows
  <2>4. Top' = c /\ Unsaved(c)' = Unsaved(c)
    BY <1>2 DEF Unsaved
  <2>5. (IF Unsaved(Top) /\ Top.transit
         THEN held = db.state + 1 /\ Settled([db EXCEPT !.state = @ + 1])
         ELSE held = db.state /\ Settled(db))'
    <3>1. Settled(db)' = Settled(db) /\ Settled([db EXCEPT !.state = @ + 1])' = Settled([db EXCEPT !.state = @ + 1])
      BY DEF Settled
    <3>2. (Unsaved(Top) /\ Top.transit)' <=> Unsaved(Top) /\ Top.transit
      BY <2>3, <2>4 DEF Unsaved
    <3> QED
      BY <2>2, <3>1, <3>2 DEF Agree
  <2>6. \A i \in Calls' : i < Depth' /\ Unsaved(calls'[i]) => ~calls'[i].transit
    BY <1>2, <2>2, Tops DEF Agree, Calls
  <2>7. db'.signed[calls'[1].edge] > calls'[1].before.signed[calls'[1].edge]
    BY <1>3, <2>2 DEF Agree
  <2> QED
    BY <2>5, <2>6, <2>7 DEF Agree, Unsaved
<1> QED
  BY <1>2, <1>4, <1>5 DEF Strictly

\* An event says that what it is about has been saved, if it is the one to say so.
Tells(ev) == ev.what = "post" /\ ev.manager # "approve" => ev.edge <= ev.state

\* An event that tells the truth is added to those that do.
LEMMA Told ==
  ASSUME Typed, PostMeansSaved, NEW ev \in Event, Tells(ev), events' = Append(events, ev)
  PROVE  events' \in Seq(Event) /\ PostMeansSaved'
<1>1. events \in Seq(Event)
  BY DEF Typed, TypeOK
<1>2. events' \in Seq(Event) /\ DOMAIN events' = 1..(Len(events) + 1)
  BY <1>1
<1>3. \A k \in DOMAIN events' : events'[k] = ev \/ (k \in DOMAIN events /\ events'[k] = events[k])
  BY <1>1
<1>4. \A k \in DOMAIN events' : events'[k] \in Event
  BY <1>2
<1>5. \A e \in Event : e.edge \in Nat /\ e.state \in Nat
  BY Chain DEF Event
<1> QED
  BY <1>2, <1>3, <1>4, <1>5 DEF PostMeansSaved, Tells

\* A call that goes on without saving keeps the invariant.
LEMMA Moves ==
  ASSUME SavedInv, calls # <<>>, NEW c \in Call, Placed(c), Follows(Top, c), Becomes(c),
         UNCHANGED <<db, held, outcome>>, doomed' \in BOOLEAN,
         events' = events \/ \E ev \in Event : Tells(ev) /\ events' = Append(events, ev)
  PROVE  SavedInv'
<1>1. /\ calls' \in Seq(Call) /\ Depth' = Depth /\ Calls' = Calls /\ Top' = c /\ calls'[Depth] = c
      /\ \A i \in Calls : i # Depth => calls'[i] = calls[i]
  BY Became DEF SavedInv
<1>2. events' \in Seq(Event) /\ PostMeansSaved'
  BY Told DEF SavedInv, Typed, TypeOK, PostMeansSaved
<1>3. Typed'
  <2>1. TypeOK'
    BY <1>1, <1>2 DEF SavedInv, Typed, TypeOK, Depth
  <2>2. \A i \in Calls : Placed(calls'[i]) /\ (i < Depth => calls'[i].at \in {"entered", "left"})
    BY <1>1, Tops DEF SavedInv, Typed, Calls
  <2> QED
    BY <1>1, <2>1, <2>2 DEF Typed, Placed, Unsaved
<1>4. \A i \in Calls : calls'[i].before = calls[i].before /\ calls'[i].edge = calls[i].edge
  BY <1>1, Tops DEF Follows, SavedInv
<1>5. Grows'
  BY <1>1, <1>4 DEF SavedInv, Grows
<1>6. ASSUME NEW i \in Calls, Reaches(calls'[i])
      PROVE  IF Unsaved(calls'[i]) THEN calls'[i].edge <= held'
             ELSE calls'[i].edge <= db'.state /\ \A j \in Calls : i < j => calls'[i].edge <= calls'[j].before.state
  <2>1. CASE i # Depth
    BY <1>1, <1>4, <1>6, <2>1 DEF SavedInv, Saved
  <2>2. CASE i = Depth
    <3>1. /\ calls'[i] = c /\ calls[i] = Top /\ ~c.raising /\ ~Top.raising /\ c.edge = Top.edge
          /\ c.transit = Top.transit
          /\ Unsaved(c) <=> Unsaved(Top)
          /\ c.final => Top.final \/ (Unsaved(c) /\ held = Final)
      BY <1>1, <1>6, <2>2, Tops DEF Follows, Reaches, SavedInv
    <3>2. c.edge <= Final
      BY <1>1, Chain DEF Call
    <3>3. Reaches(Top) =>
            IF Unsaved(c) THEN c.edge <= held
            ELSE c.edge <= db.state /\ \A j \in Calls : i < j => c.edge <= calls[j].before.state
      BY <3>1 DEF SavedInv, Saved
    <3> QED
      BY <1>1, <1>4, <1>6, <3>1, <3>2, <3>3 DEF Reaches
  <2> QED
    BY <2>1, <2>2
<1>7. Saved'
  BY <1>1, <1>6 DEF Saved
<1> QED
  BY <1>2, <1>3, <1>5, <1>7 DEF SavedInv

\* The actions that do no more than this: hooks that are run and do not approve, signals, and
\* a save that the database refuses.
TellsOf(call, what) == [edge |-> call.edge, manager |-> Managers[call.m], what |-> what, state |-> db.state]

\* What the call under way sends is true when it is a post_* signal behind its save.
LEMMA TopTells ==
  ASSUME SavedInv, calls # <<>>, Top.m > 0, NEW what \in {"before", "pre", "after", "post"}, Tell(what),
         what = "post" => Top.at = "left" /\ Posts(Top)
  PROVE  \E ev \in Event : Tells(ev) /\ events' = Append(events, ev)
<1> DEFINE ev == TellsOf(Top, what)
<1>1. Top \in Call /\ db \in Database /\ Depth \in Calls /\ Top = calls[Depth]
  BY Tops DEF SavedInv, Typed, TypeOK
<1>2. Top.m \in 1..3 /\ Managers[Top.m] \in {"approve", "transit", "complete"}
  BY <1>1 DEF Call, Managers
<1>3. /\ ev \in Event /\ ev.edge = Top.edge /\ ev.manager = Managers[Top.m]
      /\ ev.what = what /\ ev.state = db.state
  BY <1>1, <1>2 DEF TellsOf, Event, Call, Database
<1>4. events' = Append(events, ev)
  BY DEF Tell, TellsOf
<1>5. what = "post" /\ Managers[Top.m] # "approve" => Reaches(Top) /\ ~Unsaved(Top)
  BY <1>2 DEF Posts, Active, Reaches, Unsaved
<1>6. Reaches(Top) /\ ~Unsaved(Top) => Top.edge <= db.state
  BY <1>1 DEF SavedInv, Saved
<1> QED
  BY <1>3, <1>4, <1>5, <1>6 DEF Tells

\* What these actions have in common.
Goes ==
  /\ calls # <<>>
  /\ \E c \in Call : Placed(c) /\ Follows(Top, c) /\ Becomes(c) /\ (Strict /\ doomed' => c.raising \/ doomed)
  /\ UNCHANGED <<db, held, outcome>> /\ doomed' \in BOOLEAN
  /\ events' = events \/ \E ev \in Event : Tells(ev) /\ events' = Append(events, ev)

\* The place of a step is that of the call under way.
LEMMA AtTop ==
  ASSUME SavedInv, NEW places, At(places)
  PROVE  /\ calls # <<>> /\ Top.at \in places /\ Top \in Call /\ Placed(Top) /\ doomed \in BOOLEAN
         /\ Top.m \in 0..3
  BY Tops DEF At, Top, SavedInv, Typed, TypeOK, Call

\* A call with an exception goes on, and with strict hooks it raises.
LEMMA RaisesOrNot ==
  ASSUME NEW c \in Call, Placed(c), c.at \in {"enter", "exit"}, c.m > 0
  PROVE  LET d == AfterException(c)
         IN d \in Call /\ Placed(d) /\ Follows(c, d) /\ (Strict => d.raising)
  BY HooksOverFollows, RaisedFollows DEF AfterException

\* A hook that returns or fails lets its call go on.
LEMMA HooksGo ==
  ASSUME SavedInv, NoHooks \/ QueryRefused \/ HooksReturn \/ HookRaises \/ HookFailsInSave
  PROVE  Goes
<1>1. /\ calls # <<>> /\ Top \in Call /\ Placed(Top) /\ Top.at \in {"enter", "exit"} /\ Top.m > 0
      /\ doomed \in BOOLEAN
  BY AtTop DEF NoHooks, QueryRefused, HooksReturn, HookRaises, HookFailsInSave, HooksRun, AtHooks
<1>2. /\ HooksOver(Top) \in Call /\ Placed(HooksOver(Top)) /\ Follows(Top, HooksOver(Top))
      /\ Raised(Top) \in Call /\ Placed(Raised(Top)) /\ Follows(Top, Raised(Top)) /\ Raised(Top).raising
  BY <1>1, HooksOverFollows, RaisedFollows
<1>3. /\ AfterException(Top) \in Call /\ Placed(AfterException(Top)) /\ Follows(Top, AfterException(Top))
      /\ Strict => AfterException(Top).raising
  BY <1>2 DEF AfterException
<1>4. CASE NoHooks
  BY <1>1, <1>2, <1>4 DEF NoHooks, Goes
<1>5. CASE QueryRefused
  BY <1>1, <1>2, <1>5 DEF QueryRefused, Goes
<1>6. ASSUME Ran  PROVE \E ev \in Event : Tells(ev) /\ events' = Append(events, ev)
  BY <1>1, <1>6, TopTells DEF Ran
<1>7. CASE HooksReturn
  BY <1>1, <1>2, <1>6, <1>7 DEF HooksReturn, Goes
<1>8. CASE HookRaises
  BY <1>1, <1>3, <1>6, <1>8 DEF HookRaises, Goes
<1>9. CASE HookFailsInSave
  BY <1>1, <1>3, <1>6, <1>9 DEF HookFailsInSave, Goes
<1> QED
  BY <1>4, <1>5, <1>7, <1>8, <1>9

\* A signal, or a save that is refused, lets its call go on.
LEMMA SignalsGo ==
  ASSUME SavedInv, PreSignal \/ PostSignal \/ ReceiverRaises \/ (Save /\ doomed)
  PROVE  Goes
<1>1. CASE PreSignal
  <2>1. calls # <<>> /\ Top \in Call /\ Placed(Top) /\ Top.at = "entered" /\ Top.m \in 1..3
        /\ doomed \in BOOLEAN /\ ~Top.raising
    BY <1>1, AtTop DEF PreSignal, Placed, Unsaved
  <2>2. events' = events \/ \E ev \in Event : Tells(ev) /\ events' = Append(events, ev)
    BY <1>1, <2>1, TopTells DEF PreSignal
  <2>3. PICK c : /\ Becomes(c)
                 /\ \/ c = [Top EXCEPT !.at = "save"]
                    \/ c = [Top EXCEPT !.at = "exit", !.raising = TRUE]
                    \/ Top.m \in 1..2 /\ c = [Top EXCEPT !.at = "enter", !.m = @ + 1,
                                                         !.final = Top.m = 2 /\ held = Final]
    BY <1>1, <2>1 DEF PreSignal
  <2>4. c \in Call /\ Placed(c) /\ Follows(Top, c)
    <3>1. CASE c = [Top EXCEPT !.at = "save"]
      BY <2>1, <3>1 DEF Call, Placed, Follows, Unsaved
    <3>2. CASE c = [Top EXCEPT !.at = "exit", !.raising = TRUE]
      BY <2>1, <3>2 DEF Call, Placed, Follows, Unsaved
    <3>3. ASSUME Top.m \in 1..2,
                 c = [Top EXCEPT !.at = "enter", !.m = @ + 1, !.final = Top.m = 2 /\ held = Final]
          PROVE  c \in Call /\ Placed(c) /\ Follows(Top, c)
      <4>1. PICK last \in BOOLEAN : last = (Top.m = 2 /\ held = Final)
        OBVIOUS
      <4>2. PICK m \in 1..3 : m = Top.m + 1
        BY <3>3
      <4>3. c = [Top EXCEPT !.at = "enter", !.m = m, !.final = last]
        BY <2>1, <3>3, <4>1, <4>2
      <4> HIDE <3>3
      <4>4. /\ c.at = "enter" /\ c.m = m /\ c.before = Top.before /\ c.edge = Top.edge
            /\ c.transit = Top.transit /\ c.raising = Top.raising
        BY <2>1, <4>3 DEF Call
      <4>6. c.final = last
        BY <2>1, <4>3 DEF Call
      <4>7. c \in Call
        <5>1. m \in 0..3
          BY <4>2
        <5>2. [Top EXCEPT !.at = "enter", !.m = m] \in Call
          BY <2>1, <5>1 DEF Call
        <5>3. c = [[Top EXCEPT !.at = "enter", !.m = m] EXCEPT !.final = last]
          BY <2>1, <4>3 DEF Call
        <5> QED
          BY <4>1, <5>2, <5>3 DEF Call
      <4>5. last => held = Final
        BY <4>1
      <4> QED
        BY <2>1, <4>4, <4>5, <4>6, <4>7 DEF Placed, Follows, Unsaved
    <3> QED
      BY <2>3, <3>1, <3>2, <3>3
  <2> QED
    BY <1>1, <2>1, <2>2, <2>3, <2>4 DEF PreSignal, Goes
<1>2. CASE PostSignal
  <2> DEFINE c == [Top EXCEPT !.at = "exit", !.m = @ - 1]
  <2>1. calls # <<>> /\ Top \in Call /\ Placed(Top) /\ Top.at = "left" /\ Top.m \in 1..3 /\ doomed \in BOOLEAN
    BY <1>2, AtTop DEF PostSignal, Placed
  <2>2. events' = events \/ \E ev \in Event : Tells(ev) /\ events' = Append(events, ev)
    BY <1>2, <2>1, TopTells DEF PostSignal
  <2>3. Top.m - 1 \in 0..3
    BY <2>1
  <2>4. c \in Call /\ Placed(c) /\ Follows(Top, c)
    BY <2>1, <2>3 DEF Call, Placed, Follows, Unsaved
  <2> QED
    BY <1>2, <2>1, <2>2, <2>4 DEF PostSignal, Goes
<1>3. CASE ReceiverRaises
  <2>1. calls # <<>> /\ Top \in Call /\ Placed(Top) /\ Top.at \in {"entered", "left"} /\ Top.m > 0
        /\ doomed \in BOOLEAN
    <3>1. At({"entered"}) \/ At({"left"})
      BY <1>3 DEF ReceiverRaises
    <3> QED
      BY <3>1, AtTop DEF Placed
  <2>2. \E ev \in Event : Tells(ev) /\ events' = Append(events, ev)
    BY <1>3, <2>1, TopTells DEF ReceiverRaises, At, Top
  <2>3. Raised(Top) \in Call /\ Placed(Raised(Top)) /\ Follows(Top, Raised(Top)) /\ Raised(Top).raising
    BY <2>1, RaisedFollows
  <2> QED
    BY <1>3, <2>1, <2>2, <2>3 DEF ReceiverRaises, Goes
<1>4. CASE Save /\ doomed
  <2> DEFINE c == [Top EXCEPT !.at = "exit", !.raising = TRUE]
  <2>1. calls # <<>> /\ Top \in Call /\ doomed \in BOOLEAN
    BY <1>4, AtTop DEF Save
  <2>2. c \in Call /\ Placed(c) /\ Follows(Top, c)
    BY <2>1 DEF Call, Placed, Follows, Unsaved
  <2> QED
    BY <1>4, <2>1, <2>2 DEF Save, Goes
<1> QED
  BY <1>1, <1>2, <1>3, <1>4

\* A call that goes on keeps both invariants.
LEMMA Going ==
  ASSUME SavedInv, Goes
  PROVE  SavedInv' /\ (StrictInv => StrictInv')
<1>1. PICK c \in Call : Placed(c) /\ Follows(Top, c) /\ Becomes(c) /\ (Strict /\ doomed' => c.raising \/ doomed)
  BY DEF Goes
<1>2. SavedInv'
  BY <1>1, Moves DEF Goes
<1>3. ASSUME StrictInv  PROVE StrictInv'
  <2>1. Strict /\ doomed => Top.raising
    BY <1>3 DEF StrictInv, Strictly, Goes
  <2>2. Strict /\ doomed' => c.raising
    BY <1>1, <2>1 DEF Follows
  <2> QED
    BY <1>1, <1>3, <2>2, StrictFollows DEF Goes, SavedInv
<1> QED
  BY <1>2, <1>3

-----------------------------------------------------------------------------
(* The save.                                                               *)

\* The save of the object keeps both invariants.
LEMMA Saves ==
  ASSUME SavedInv, Save, ~doomed
  PROVE  SavedInv' /\ (StrictInv => StrictInv')
<1>1. calls # <<>> /\ Top.at = "save" /\ Top \in Call /\ Placed(Top) /\ ~Top.raising /\ Typed
  BY AtTop DEF Save, Placed, Unsaved, SavedInv
<1>2. PICK c : c = [Top EXCEPT !.at = "exit"]
  OBVIOUS
<1>3. /\ c \in Call /\ c.at = "exit" /\ c.before = Top.before /\ c.edge = Top.edge
      /\ c.transit = Top.transit /\ c.final = Top.final /\ ~c.raising
  BY <1>1, <1>2 DEF Call
<1>4. Becomes(c) /\ db' = [db EXCEPT !.state = held] /\ UNCHANGED <<held, doomed, events, outcome>>
  BY <1>2 DEF Save
<1>5. /\ calls' \in Seq(Call) /\ calls' # <<>> /\ Depth' = Depth /\ Calls' = Calls
      /\ Top' = c /\ calls'[Depth] = c
      /\ \A i \in Calls : i # Depth => calls'[i] = calls[i]
  BY <1>1, <1>3, <1>4, Became
<1>6. Depth \in Calls /\ calls[Depth] = Top /\ Depth \in Nat \ {0} /\ Calls = 1..Depth
  BY <1>1, Tops DEF Calls
<1>7. db' \in Database /\ db'.state = held /\ db'.signed = db.signed /\ held \in Nat /\ db.state \in Nat
      /\ db.state <= held
  <2>1. db \in Database /\ held \in 0..Final /\ db.state <= held
    BY <1>1 DEF Typed, TypeOK, SavedInv, Grows
  <2>2. db' \in Database /\ db'.state = held /\ db'.signed = db.signed
    BY <1>4, <2>1 DEF Database
  <2>3. held \in Nat /\ db.state \in Nat
    BY <2>1, Chain DEF Database
  <2> QED
    BY <2>1, <2>2, <2>3
<1>8. \A i \in Calls : /\ calls'[i].before = calls[i].before /\ calls'[i].edge = calls[i].edge
                       /\ calls[i].before.state \in Nat /\ calls[i].edge \in Nat
  BY <1>1, <1>3, <1>5, <1>6, Tops, CallTyped
<1>9. Typed'
  <2>1. TypeOK'
    BY <1>1, <1>4, <1>5, <1>7 DEF Typed, TypeOK, Depth
  <2>2. \A i \in Calls : Placed(calls'[i]) /\ (i < Depth => calls'[i].at \in {"entered", "left"})
    BY <1>1, <1>3, <1>5, <1>6 DEF Typed, Placed, Unsaved
  <2> QED
    BY <1>5, <2>1, <2>2 DEF Typed, Placed, Unsaved
<1>10. Grows'
  BY <1>4, <1>5, <1>7, <1>8 DEF SavedInv, Grows
<1>11. Saved'
  <2>1. ASSUME NEW i \in Calls, Reaches(calls'[i])
        PROVE  IF Unsaved(calls'[i]) THEN calls'[i].edge <= held'
               ELSE calls'[i].edge <= db'.state /\ \A j \in Calls : i < j => calls'[i].edge <= calls'[j].before.state
    <3>1. CASE i = Depth
      <4>1. Reaches(Top) /\ Unsaved(Top) /\ ~Unsaved(c)
        BY <1>1, <1>3, <1>5, <2>1, <3>1 DEF Reaches, Unsaved
      <4>2. Top.edge <= held
        BY <1>6, <4>1 DEF SavedInv, Saved
      <4> QED
        BY <1>3, <1>5, <1>6, <1>7, <3>1, <4>1, <4>2
    <3>2. CASE i # Depth
      BY <1>4, <1>5, <1>7, <1>8, <2>1, <3>2 DEF SavedInv, Saved
    <3> QED
      BY <3>1, <3>2
  <2> QED
    BY <1>5, <2>1 DEF Saved, Reaches, Unsaved
<1>12. SavedInv'
  BY <1>4, <1>9, <1>10, <1>11 DEF SavedInv, PostMeansSaved
<1>13. ASSUME StrictInv, Strict  PROVE Strictly'
  <2>1. Settled(calls[1].before) /\ (Clean => Agree)
    BY <1>1, <1>13 DEF StrictInv, Strictly
  <2>2. calls'[1].before = calls[1].before /\ calls'[1].edge = calls[1].edge
    BY <1>6, <1>8
  <2>3. Settled(calls[1].before)'
    BY <2>1, <2>2 DEF Settled
  <2>4. ASSUME Clean'  PROVE Agree'
    <3>1. Clean
      BY <1>1, <1>5, <1>6, <2>4 DEF Clean
    <3>2. Agree
      BY <2>1, <3>1
    <3>3. Settled(db')
      BY <1>1, <1>7, <3>2 DEF Agree, Settled, Unsaved
    <3>4. \A i \in Calls' : i < Depth' /\ Unsaved(calls'[i]) => ~calls'[i].transit
      BY <1>5, <1>6, <3>2 DEF Agree
    <3>5. db'.signed[calls'[1].edge] > calls'[1].before.signed[calls'[1].edge]
      BY <1>7, <2>2, <3>2 DEF Agree
    <3>6. ~Unsaved(c) /\ held' = db'.state
      BY <1>3, <1>4, <1>7 DEF Unsaved
    <3> QED
      BY <1>5, <3>3, <3>4, <3>5, <3>6 DEF Agree, Unsaved, Settled
  <2> QED
    BY <1>4, <1>5, <2>3, <2>4 DEF Strictly
<1> QED
  BY <1>12, <1>13 DEF StrictInv

-----------------------------------------------------------------------------
(* A call begins.                                                          *)

\* The calls under way when another is made, and what Python holds then.
Under(callers, inMemory) ==
  /\ callers \in Seq(Call) /\ Len(callers) = Len(calls) /\ Len(calls) < DepthBound
  /\ \A i \in Calls : /\ Alike(calls[i], callers[i]) /\ Placed(callers[i])
                      /\ callers[i].at \in {"entered", "left"}
  /\ inMemory \in 0..Final /\ db.state <= inMemory
  /\ inMemory = IF calls = <<>> THEN db.state ELSE held

\* A call that begins has signed one edge more, the next one.
LEMMA Signing ==
  ASSUME SavedInv, CanSign, NEW callers, NEW inMemory, Under(callers, inMemory), Sign(callers, inMemory)
  PROVE  \E c \in Call, e \in Edge :
           /\ e = db.state + 1 /\ calls' = Append(callers, c) /\ calls' \in Seq(Call)
           /\ Len(callers) = Depth /\ Depth \in Nat /\ Depth' = Depth + 1 /\ calls'[Depth + 1] = c /\ Top' = c
           /\ \A i \in Calls : calls'[i] = callers[i]
           /\ c.before = db /\ c.edge = e /\ c.at = "enter" /\ c.m = 1 /\ ~c.final /\ ~c.raising
           /\ db' \in Database /\ db'.state = db.state
           /\ db'.signed[e] = db.signed[e] + 1 /\ db.signed[e] \in Nat
           /\ \A x \in Edge : x # e => db'.signed[x] = db.signed[x]
           /\ c.transit <=> db'.signed[e] = Signatures[e]
           /\ held' = IF c.transit THEN e ELSE inMemory
<1>1. db \in Database /\ db.state \in Nat /\ db.signed \in [Edge -> Nat]
  BY Chain DEF SavedInv, Typed, TypeOK, Database
<1>2. PICK e \in Edge : e = db.state + 1
  BY <1>1, Chain DEF CanSign
<1>3. PICK signed : signed = [db.signed EXCEPT ![e] = @ + 1]
  OBVIOUS
<1>4. PICK moves \in BOOLEAN : moves = (signed[e] = Signatures[e])
  OBVIOUS
<1>5. PICK c : c = [before |-> db, edge |-> e, transit |-> moves, final |-> FALSE,
                    at |-> "enter", m |-> 1, raising |-> FALSE]
  OBVIOUS
<1>6. db' = [db EXCEPT !.signed = signed] /\ held' = (IF moves THEN e ELSE inMemory)
      /\ calls' = Append(callers, c)
  BY <1>2, <1>3, <1>4, <1>5 DEF Sign
<1>7. /\ signed \in [Edge -> Nat] /\ signed[e] = db.signed[e] + 1 /\ db.signed[e] \in Nat
      /\ \A x \in Edge : x # e => signed[x] = db.signed[x]
  BY <1>1, <1>3
<1>8. db' \in Database /\ db'.state = db.state /\ db'.signed = signed
  BY <1>1, <1>6, <1>7 DEF Database
<1>9. /\ c \in Call /\ c.before = db /\ c.edge = e /\ c.at = "enter" /\ c.m = 1 /\ c.final = FALSE
      /\ c.raising = FALSE /\ c.transit = moves
  BY <1>1, <1>5 DEF Call
<1>10. callers \in Seq(Call) /\ Len(callers) = Depth /\ Depth \in Nat
  BY DEF Under, Depth, SavedInv, Typed, TypeOK
<1>11. /\ calls' \in Seq(Call) /\ Len(calls') = Depth + 1 /\ calls'[Depth + 1] = c
       /\ \A i \in Calls : calls'[i] = callers[i]
  BY <1>6, <1>9, <1>10 DEF Calls
<1>12. Depth' = Depth + 1 /\ Top' = c
  BY <1>11 DEF Depth, Top
<1>13. c.transit <=> db'.signed[e] = Signatures[e]
  BY <1>4, <1>8, <1>9
<1>14. (held' = IF c.transit THEN e ELSE inMemory) /\ ~c.final /\ ~c.raising
  BY <1>6, <1>9
<1>15. /\ c \in Call /\ c.before = db /\ c.edge = e /\ c.at = "enter" /\ c.m = 1
       /\ calls' = Append(callers, c)
  BY <1>6, <1>9
<1>16. db'.signed[e] = db.signed[e] + 1 /\ \A x \in Edge : x # e => db'.signed[x] = db.signed[x]
  BY <1>7, <1>8
<1> HIDE <1>4, <1>6, <1>9
<1> QED
  BY <1>2, <1>7, <1>8, <1>10, <1>11, <1>12, <1>13, <1>14, <1>15, <1>16

\* A call that begins keeps the invariant.
LEMMA Begins ==
  ASSUME SavedInv, CanSign, NEW callers, NEW inMemory, Under(callers, inMemory), Sign(callers, inMemory),
         events' \in Seq(Event), PostMeansSaved', doomed' \in BOOLEAN, outcome' \in {"none", "returned", "raised"}
  PROVE  SavedInv'
<1>1. PICK c \in Call, e \in Edge :
           /\ e = db.state + 1 /\ calls' \in Seq(Call)
           /\ Depth \in Nat /\ Depth' = Depth + 1 /\ calls'[Depth + 1] = c
           /\ \A i \in Calls : calls'[i] = callers[i]
           /\ c.before = db /\ c.edge = e /\ c.at = "enter" /\ c.m = 1 /\ ~c.final /\ ~c.raising
           /\ db' \in Database /\ db'.state = db.state
           /\ held' = IF c.transit THEN e ELSE inMemory
  BY Signing
<1>2. /\ Calls' = Calls \cup {Depth + 1} /\ Calls = 1..Depth
      /\ \A i \in Calls : calls[i] \in Call /\ calls'[i].before = calls[i].before /\ calls'[i].edge = calls[i].edge
                          /\ calls[i].before.state \in Nat /\ calls[i].edge \in Nat
  <2>1. Calls = 1..Depth /\ Calls' = 1..(Depth + 1)
    BY <1>1 DEF Calls
  <2>2. \A i \in Calls : calls[i] \in Call
    BY <2>1 DEF SavedInv, Typed, TypeOK, Depth
  <2>3. \A i \in Calls : calls'[i].before = calls[i].before /\ calls'[i].edge = calls[i].edge
    BY <1>1 DEF Under, Alike
  <2> QED
    BY <1>1, <2>1, <2>2, <2>3, CallTyped
<1>3. /\ db.state \in Nat /\ held \in Nat /\ inMemory \in Nat /\ e \in Nat /\ db.state <= held /\ db.state <= inMemory
      /\ e <= Final
  BY <1>1, Chain DEF SavedInv, Typed, TypeOK, Database, Grows, Under
<1>4. held' \in 0..Final /\ db'.state <= held'
  BY <1>1, <1>3, Chain DEF Under
<1>5. Typed'
  <2>1. Depth + 1 <= DepthBound
    BY <1>1, Chain DEF Under, Depth
  <2>2. TypeOK'
    BY <1>1, <1>4, <2>1 DEF TypeOK, Depth
  <2>3. \A i \in Calls' : Placed(calls'[i]) /\ (i < Depth' => calls'[i].at \in {"entered", "left"})
    BY <1>1, <1>2 DEF Under, Placed, Unsaved
  <2> QED
    BY <2>2, <2>3 DEF Typed, Placed, Unsaved
<1>6. Grows'
  <2>1. \A i \in Calls : calls[i].before.state <= db.state /\ calls[i].edge = calls[i].before.state + 1
                         /\ \A j \in Calls : i < j => calls[i].before.state <= calls[j].before.state
    BY DEF SavedInv, Grows
  <2>2. ASSUME NEW i \in Calls'
        PROVE  /\ calls'[i].before.state <= db'.state
               /\ calls'[i].edge = calls'[i].before.state + 1
               /\ \A j \in Calls' : i < j => calls'[i].before.state <= calls'[j].before.state
    <3>1. CASE i \in Calls
      BY <1>1, <1>2, <1>3, <2>1, <3>1
    <3>2. CASE i = Depth + 1
      BY <1>1, <1>2, <1>3, <3>2
    <3> QED
      BY <1>2, <3>1, <3>2
  <2> QED
    BY <1>4, <2>2 DEF Grows
<1>7. Saved'
  <2>1. ASSUME NEW i \in Calls', Reaches(calls'[i])
        PROVE  IF Unsaved(calls'[i]) THEN calls'[i].edge <= held'
               ELSE calls'[i].edge <= db'.state /\ \A j \in Calls' : i < j => calls'[i].edge <= calls'[j].before.state
    <3>1. CASE i = Depth + 1
      BY <1>1, <1>3, <2>1, <3>1 DEF Reaches, Unsaved
    <3>2. CASE i \in Calls
      <4>1. Reaches(calls[i]) /\ (Unsaved(calls'[i]) <=> Unsaved(calls[i]))
        BY <1>1, <2>1, <3>2 DEF Reaches, Under, Alike
      <4>2. calls[i].edge <= db.state + 1
        BY <1>2, <1>3, <3>2 DEF SavedInv, Grows
      <4>3. IF Unsaved(calls[i]) THEN calls[i].edge <= held
            ELSE calls[i].edge <= db.state /\ \A j \in Calls : i < j => calls[i].edge <= calls[j].before.state
        BY <3>2, <4>1 DEF SavedInv, Saved
      <4>4. inMemory = held
        BY <1>2, <3>2 DEF Under, Depth
      <4>5. CASE Unsaved(calls[i])
        BY <1>1, <1>2, <1>3, <3>2, <4>1, <4>2, <4>3, <4>4, <4>5
      <4>6. CASE ~Unsaved(calls[i])
        BY <1>1, <1>2, <1>3, <3>2, <4>1, <4>3, <4>6
      <4> QED
        BY <4>5, <4>6
    <3> QED
      BY <1>2, <3>1, <3>2
  <2> QED
    BY <2>1 DEF Saved, Reaches, Unsaved
<1> QED
  BY <1>5, <1>6, <1>7 DEF SavedInv

\* A call that begins keeps the invariant of strict hooks.
LEMMA StrictBegins ==
  ASSUME SavedInv, CanSign, NEW callers, NEW inMemory, Under(callers, inMemory), Sign(callers, inMemory),
         StrictInv, Strict => ~doomed'
  PROVE  StrictInv'
<1> SUFFICES ASSUME Strict  PROVE Strictly'
  BY DEF StrictInv
<1>1. PICK c \in Call, e \in Edge :
           /\ e = db.state + 1 /\ calls' \in Seq(Call)
           /\ Depth \in Nat /\ Depth' = Depth + 1 /\ calls'[Depth + 1] = c /\ Top' = c
           /\ \A i \in Calls : calls'[i] = callers[i]
           /\ c.before = db /\ c.edge = e /\ c.at = "enter" /\ ~c.raising
           /\ db'.state = db.state
           /\ db'.signed[e] = db.signed[e] + 1 /\ db.signed[e] \in Nat
           /\ \A x \in Edge : x # e => db'.signed[x] = db.signed[x]
           /\ c.transit <=> db'.signed[e] = Signatures[e]
           /\ held' = IF c.transit THEN e ELSE inMemory
  BY Signing
<1>2. db.state \in Nat /\ db.state \in 0..Final /\ db.signed \in [Edge -> Nat] /\ db' \in Database /\ db'.signed \in [Edge -> Nat]
  BY Chain, Signing DEF SavedInv, Typed, TypeOK, Database
<1>3. Calls = 1..Depth /\ Calls' = 1..(Depth + 1) /\ (calls = <<>> <=> Depth = 0) /\ calls' # <<>>
  BY <1>1 DEF Calls, SavedInv, Typed, TypeOK, Depth
<1>4. \A i \in Calls : Alike(calls[i], calls'[i])
  BY <1>1 DEF Under
<1>5. ASSUME calls # <<>>
      PROVE  calls[1] \in Call /\ Depth \in Calls /\ 1 \in Calls /\ Top = calls[Depth]
  BY <1>3, <1>5, Tops DEF SavedInv
<1>6. Settled(calls'[1].before)
  BY <1>1, <1>3, <1>4, <1>5 DEF StrictInv, Strictly, Alike
<1>7. ASSUME Clean'
      PROVE  /\ Settled(db) /\ inMemory = db.state
             /\ calls # <<>> => Agree /\ ~(Unsaved(Top) /\ Top.transit)
  <2>1. CASE calls = <<>>
    BY <2>1 DEF StrictInv, Strictly, Under
  <2>2. CASE calls # <<>>
    <3>1. \A i \in Calls : ~calls[i].raising
      BY <1>1, <1>3, <1>4, <1>7 DEF Clean, Alike
    <3>2. Agree
      BY <2>2, <3>1 DEF StrictInv, Strictly, Clean
    <3>3. ~(Unsaved(Top) /\ Top.transit)
      <4>1. SUFFICES ASSUME Settled([db EXCEPT !.state = @ + 1])  PROVE FALSE
        BY <3>2 DEF Agree
      <4>2. [db EXCEPT !.state = @ + 1].state = db.state + 1 /\ [db EXCEPT !.state = @ + 1].signed = db.signed
        BY DEF SavedInv, Typed, TypeOK, Database
      <4>3. db.signed[e] = Signatures[e]
        BY <1>1, <1>2, <4>1, <4>2, Chain DEF Settled
      <4> QED
        BY <1>1, <1>2, <4>3, ChainAssumption, Chain DEF CanSign
    <3> QED
      BY <2>2, <3>2, <3>3 DEF Agree, Under
  <2> QED
    BY <2>1, <2>2
<1>8. ASSUME Clean'  PROVE Agree'
  <2>1. IF Unsaved(c) /\ c.transit
        THEN held' = db'.state + 1 /\ Settled([db' EXCEPT !.state = @ + 1])
        ELSE held' = db'.state /\ Settled(db')
    <3>1. Unsaved(c)
      BY <1>1 DEF Unsaved
    <3>2. \A x \in Edge : x \in Nat /\ (db.state >= x <=> db.signed[x] = Signatures[x])
      BY <1>7, <1>8, Chain DEF Settled
    <3>3. CASE c.transit
      <4>1. [db' EXCEPT !.state = @ + 1].state = db.state + 1 /\ [db' EXCEPT !.state = @ + 1].signed = db'.signed
        BY <1>1, <1>2 DEF Database
      <4>2. \A x \in Edge : db.state + 1 >= x <=> db'.signed[x] = Signatures[x]
        BY <1>1, <1>2, <3>2, <3>3
      <4> QED
        BY <1>1, <3>1, <3>3, <4>1, <4>2 DEF Settled
    <3>4. CASE ~c.transit
      <4>1. \A x \in Edge : db.state >= x <=> db'.signed[x] = Signatures[x]
        BY <1>1, <1>2, <3>2, <3>4
      <4> QED
        BY <1>1, <1>7, <1>8, <3>4, <4>1 DEF Settled
    <3> QED
      BY <3>3, <3>4
  <2>2. \A i \in Calls' : i < Depth' /\ Unsaved(calls'[i]) => ~calls'[i].transit
    <3>1. SUFFICES ASSUME NEW i \in Calls, Unsaved(calls'[i])  PROVE ~calls'[i].transit
      BY <1>1, <1>3
    <3>2. Unsaved(calls[i]) /\ calls'[i].transit = calls[i].transit
      BY <1>4, <3>1 DEF Alike
    <3>3. calls # <<>> /\ (i < Depth \/ i = Depth)
      BY <1>1, <1>3
    <3> QED
      BY <1>5, <1>7, <1>8, <3>2, <3>3 DEF Agree
  <2>3. db'.signed[calls'[1].edge] > calls'[1].before.signed[calls'[1].edge]
    <3>1. CASE calls = <<>>
      BY <1>1, <1>3, <3>1
    <3>2. CASE calls # <<>>
      <4>1. calls'[1].edge = calls[1].edge /\ calls'[1].before = calls[1].before
        BY <1>4, <1>5, <3>2 DEF Alike
      <4>2. db.signed[calls[1].edge] > calls[1].before.signed[calls[1].edge]
        BY <1>7, <1>8, <3>2 DEF Agree
      <4>3. calls[1].edge \in Edge /\ calls[1].before.signed[calls[1].edge] \in Nat
        BY <1>5, <3>2, CallTyped DEF Database
      <4>4. db'.signed[calls[1].edge] >= db.signed[calls[1].edge]
        <5>1. PICK x \in Edge : x = calls[1].edge
          BY <4>3
        <5>2. db'.signed[x] = db.signed[x] \/ db'.signed[x] = db.signed[x] + 1
          BY <1>1
        <5> QED
          BY <1>2, <5>1, <5>2
      <4> QED
        BY <1>2, <4>1, <4>2, <4>3, <4>4
    <3> QED
      BY <3>1, <3>2
  <2>4. Settled(db)' = Settled(db') /\ Settled([db EXCEPT !.state = @ + 1])' = Settled([db' EXCEPT !.state = @ + 1])
    BY DEF Settled
  <2>5. (Unsaved(Top) /\ Top.transit)' <=> Unsaved(c) /\ c.transit
    BY <1>1 DEF Unsaved
  <2> QED
    BY <2>1, <2>2, <2>3, <2>4, <2>5 DEF Agree, Unsaved
<1> QED
  BY <1>3, <1>6, <1>8 DEF Strictly, Settled

\* A call that a hook makes keeps both invariants.
LEMMA HookBegins ==
  ASSUME SavedInv, HookApproves
  PROVE  SavedInv' /\ (StrictInv => StrictInv')
<1>1. PICK callers : callers = [calls EXCEPT ![Len(calls)] = HooksOver(Top)]
  OBVIOUS
<1>2. CanSign /\ Sign(callers, held) /\ Ran /\ UNCHANGED <<doomed, outcome>> /\ ~doomed /\ Len(calls) < DepthBound
  BY <1>1 DEF HookApproves, HooksRun
<1>3. /\ calls # <<>> /\ Top \in Call /\ Placed(Top) /\ Top.at \in {"enter", "exit"} /\ Top.m > 0 /\ Typed
      /\ doomed \in BOOLEAN
  BY AtTop DEF HookApproves, HooksRun, AtHooks, SavedInv
<1>4. /\ HooksOver(Top) \in Call /\ Placed(HooksOver(Top)) /\ Alike(Top, HooksOver(Top))
      /\ HooksOver(Top).at \in {"entered", "left"}
  BY <1>3, HooksOverFollows
<1>5. Under(callers, held)
  <2>1. /\ callers \in Seq(Call) /\ Len(callers) = Len(calls)
        /\ callers[Depth] = HooksOver(Top)
        /\ \A i \in Calls : i # Depth => callers[i] = calls[i]
    BY <1>1, <1>3, <1>4, Tops DEF Depth, Calls
  <2>2. \A i \in Calls : /\ Alike(calls[i], callers[i]) /\ Placed(callers[i])
                         /\ callers[i].at \in {"entered", "left"}
    <3>1. SUFFICES ASSUME NEW i \in Calls, i # Depth
                   PROVE  /\ Alike(calls[i], callers[i]) /\ Placed(callers[i])
                          /\ callers[i].at \in {"entered", "left"}
      BY <1>3, <1>4, <2>1, Tops
    <3>2. i < Depth /\ callers[i] = calls[i]
      BY <1>3, <2>1, <3>1, Tops DEF Calls
    <3> QED
      BY <1>3, <3>2 DEF Typed, Alike
  <2>3. held \in 0..Final /\ db.state <= held
    BY DEF SavedInv, Grows, Typed, TypeOK
  <2> QED
    BY <1>2, <1>3, <2>1, <2>2, <2>3 DEF Under
<1>6. \E ev \in Event : Tells(ev) /\ events' = Append(events, ev)
  BY <1>2, <1>3, TopTells DEF Ran
<1>7. events' \in Seq(Event) /\ PostMeansSaved'
  BY <1>6, Told DEF SavedInv
<1>8. outcome' \in {"none", "returned", "raised"}
  BY <1>2 DEF SavedInv, Typed, TypeOK
<1>9. SavedInv'
  BY <1>2, <1>3, <1>5, <1>7, <1>8, Begins
<1>10. StrictInv => StrictInv'
  BY <1>2, <1>5, StrictBegins
<1> QED
  BY <1>9, <1>10

\* A call that a caller makes keeps both invariants.
LEMMA CallerBegins ==
  ASSUME SavedInv, Approve
  PROVE  SavedInv' /\ (StrictInv => StrictInv')
<1>1. /\ CanSign /\ Sign(<<>>, db.state) /\ calls = <<>> /\ events' = <<>> /\ outcome' = "none"
      /\ UNCHANGED doomed
  BY DEF Approve
<1>2. Under(<<>>, db.state)
  <2>1. Calls = {} /\ Len(calls) = 0 /\ DepthBound > 0
    BY <1>1, Chain DEF Calls, Depth
  <2>2. db.state \in 0..Final /\ db.state <= db.state
    BY Chain DEF SavedInv, Typed, TypeOK, Database
  <2> QED
    BY <1>1, <2>1, <2>2, Chain DEF Under
<1>3. events' \in Seq(Event) /\ PostMeansSaved'
  BY <1>1 DEF PostMeansSaved
<1>4. SavedInv'
  BY <1>1, <1>2, <1>3, Begins DEF SavedInv, Typed, TypeOK
<1>5. ASSUME StrictInv  PROVE StrictInv'
  <2>1. Strict => ~doomed'
    BY <1>1, <1>5 DEF StrictInv, Strictly
  <2> QED
    BY <1>1, <1>2, <1>5, <2>1, StrictBegins
<1> QED
  BY <1>4, <1>5

-----------------------------------------------------------------------------
(* A call ends.                                                            *)

\* A call that has made another waits for it between two of its statements.
LEMMA Waiting ==
  ASSUME SavedInv, calls # <<>>, NEW i \in 1..(Depth - 1)
  PROVE  /\ calls[i] \in Call /\ calls[i].m > 0 /\ calls[i].at \in {"entered", "left"} /\ Placed(calls[i])
         /\ i < Depth /\ i \in Calls /\ Depth \in Calls
<1>1. i < Depth /\ i \in Calls /\ Depth \in Calls /\ calls[i] \in Call
  BY Tops DEF SavedInv, Calls
<1>2. calls[i].at \in {"entered", "left"} /\ Placed(calls[i])
  BY <1>1 DEF SavedInv, Typed
<1> QED
  BY <1>1, <1>2 DEF Placed

\* The calls that are left: as they were, but for an exception that the innermost may get.
LEMMA Popped ==
  ASSUME SavedInv, Return
  PROVE  /\ calls # <<>> /\ Depth \in Nat \ {0} /\ Calls = 1..Depth
         /\ Top = calls[Depth] /\ Top \in Call /\ Placed(Top)
         /\ Top.at = "exit" /\ db' \in {Top.before, db} /\ ~doomed'
         /\ ~Top.raising /\ ~doomed => db' = db
         /\ UNCHANGED <<held, events>> /\ outcome' \in {"none", "returned", "raised"}
         /\ calls' \in Seq(Call) /\ Depth' = Depth - 1 /\ Calls' = 1..(Depth - 1) /\ Calls' \subseteq Calls
         /\ \A i \in Calls' : i < Depth - 1 => calls'[i] = calls[i]
         /\ \A i \in Calls' : calls'[i] = calls[i] \/ calls'[i] = Raised(calls[i])
         /\ Top.raising /\ Strict /\ Depth > 1 => calls'[Depth - 1] = Raised(calls[Depth - 1])
<1>1. /\ calls # <<>> /\ Top.at = "exit" /\ Top \in Call /\ Placed(Top)
      /\ Depth \in Nat \ {0} /\ Top = calls[Depth] /\ Calls = 1..Depth
      /\ calls \in Seq(Call) /\ Len(calls) = Depth
  BY AtTop, Tops DEF Return, Calls, SavedInv
<1>2. /\ db' \in {Top.before, db} /\ ~doomed' /\ (~Top.raising /\ ~doomed => db' = db)
      /\ UNCHANGED <<held, events>>
  BY DEF Return, AtEnd
<1>3. PICK callers : callers = SubSeq(calls, 1, Depth - 1)
  OBVIOUS
<1>4. callers \in Seq(Call) /\ Len(callers) = Depth - 1 /\ \A i \in 1..(Depth - 1) : callers[i] = calls[i]
  BY <1>1, <1>3
<1>5. CASE Depth > 1
  <2>1. /\ calls' = IF Top.raising /\ Strict THEN [callers EXCEPT ![Depth - 1] = Raised(@)] ELSE callers
        /\ outcome' = outcome
    BY <1>3, <1>5 DEF Return, Depth
  <2>2. Depth - 1 \in 1..(Depth - 1) /\ calls[Depth - 1] \in Call /\ Placed(calls[Depth - 1])
        /\ calls[Depth - 1].at \in {"entered", "left"}
    BY <1>1, <1>5 DEF SavedInv, Typed, TypeOK
  <2>3. Raised(calls[Depth - 1]) \in Call
    BY <2>2, RaisedFollows DEF Placed
  <2>4. callers[Depth - 1] = calls[Depth - 1]
    BY <1>4, <2>2
  <2>5. calls' \in Seq(Call) /\ Len(calls') = Depth - 1
    <3>1. PICK c \in Call : c = Raised(callers[Depth - 1])
      BY <2>3, <2>4
    <3>2. calls' = [callers EXCEPT ![Depth - 1] = c] \/ calls' = callers
      BY <2>1, <3>1
    <3> QED
      BY <1>4, <3>1, <3>2
  <2>6. /\ \A i \in 1..(Depth - 1) : i < Depth - 1 => calls'[i] = calls[i]
        /\ calls'[Depth - 1] \in {calls[Depth - 1], Raised(calls[Depth - 1])}
        /\ Top.raising /\ Strict => calls'[Depth - 1] = Raised(calls[Depth - 1])
    BY <1>4, <2>1, <2>2, <2>4
  <2>7. outcome' \in {"none", "returned", "raised"}
    BY <2>1 DEF SavedInv, Typed, TypeOK
  <2>8. Depth' = Depth - 1 /\ Calls' = 1..(Depth - 1) /\ Calls' \subseteq Calls
    BY <1>1, <2>5 DEF Depth, Calls
  <2>9. \A i \in 1..(Depth - 1) : calls'[i] = calls[i] \/ calls'[i] = Raised(calls[i])
    BY <1>1, <2>6
  <2> QED
    BY <1>1, <1>2, <1>5, <2>5, <2>6, <2>7, <2>8, <2>9
<1>6. CASE Depth = 1
  <2>1. calls' = <<>> /\ outcome' \in {"returned", "raised"}
    BY <1>6 DEF Return, Depth
  <2>2. calls' \in Seq(Call) /\ Depth' = 0 /\ Calls' = {} /\ 1..(Depth - 1) = {}
    BY <1>6, <2>1 DEF Depth, Calls
  <2> QED
    BY <1>1, <1>2, <1>6, <2>1, <2>2
<1> QED
  BY <1>1, <1>5, <1>6

\* The end of a call keeps the invariant: what it takes back is behind what others have saved.
LEMMA Returns ==
  ASSUME SavedInv, Return
  PROVE  SavedInv'
<1>1. /\ calls # <<>> /\ Depth \in Nat \ {0} /\ Calls = 1..Depth
      /\ Top = calls[Depth] /\ Top \in Call
      /\ db' \in {Top.before, db} /\ ~doomed'
      /\ UNCHANGED <<held, events>> /\ outcome' \in {"none", "returned", "raised"}
      /\ calls' \in Seq(Call) /\ Depth' = Depth - 1 /\ Calls' = 1..(Depth - 1) /\ Calls' \subseteq Calls
      /\ \A i \in Calls' : i < Depth - 1 => calls'[i] = calls[i]
      /\ \A i \in Calls' : calls'[i] = calls[i] \/ calls'[i] = Raised(calls[i])
  BY Popped
<1>2. \A i \in Calls' :
        /\ calls[i] \in Call /\ calls[i].m > 0 /\ calls[i].at \in {"entered", "left"} /\ Placed(calls[i])
        /\ i < Depth /\ i \in Calls /\ Depth \in Calls
  BY <1>1, Waiting
<1>3. \A i \in Calls' :
        /\ Raised(calls[i]).before = calls[i].before /\ Raised(calls[i]).edge = calls[i].edge
        /\ Placed(Raised(calls[i])) /\ Raised(calls[i]).raising
  BY <1>2, RaisedFollows DEF Follows
<1>4. \A i \in Calls' : /\ calls'[i].before = calls[i].before /\ calls'[i].edge = calls[i].edge
                        /\ Placed(calls'[i])
                        /\ Reaches(calls'[i]) => calls'[i] = calls[i]
  BY <1>1, <1>2, <1>3 DEF Reaches
<1>5. /\ db' \in Database /\ db'.state \in Nat /\ db.state \in Nat /\ Top.before.state \in Nat
      /\ db' = Top.before \/ db' = db
  <2>1. db \in Database /\ Top.before \in Database
    BY <1>1, CallTyped DEF SavedInv, Typed, TypeOK
  <2>2. \A d \in Database : d.state \in Nat
    BY Chain DEF Database
  <2> QED
    BY <1>1, <2>1, <2>2
<1>6. Typed'
  <2>1. TypeOK'
    <3>1. Len(calls') = Depth - 1 /\ Depth <= DepthBound
      BY <1>1 DEF SavedInv, Typed, TypeOK, Depth
    <3>2. Len(calls') <= DepthBound
      BY <1>1, <3>1, Chain
    <3>3. doomed' = FALSE
      BY DEF Return
    <3> QED
      BY <1>1, <1>5, <3>2, <3>3 DEF SavedInv, Typed, TypeOK
  <2>2. \A i \in Calls' : i < Depth' => calls'[i].at \in {"entered", "left"}
    BY <1>1, <1>2
  <2> QED
    BY <1>4, <2>1, <2>2 DEF Typed, Placed, Unsaved
<1>7. \A i \in Calls : calls[i].before.state \in Nat /\ calls[i].edge \in Nat
  BY CallTyped DEF SavedInv, Typed, TypeOK, Calls, Depth
<1>8. Grows'
  <2>1. db'.state <= held
    <3>1. db.state <= held /\ held \in Nat
      BY Chain DEF SavedInv, Grows, Typed, TypeOK
    <3>2. Top.before.state <= db.state
      BY <1>1 DEF SavedInv, Grows
    <3> QED
      BY <1>5, <3>1, <3>2
  <2>2. \A i \in Calls' : calls'[i].before.state <= db'.state
    BY <1>1, <1>2, <1>4, <1>5 DEF SavedInv, Grows
  <2>3. \A i \in Calls' : /\ calls'[i].edge = calls'[i].before.state + 1
                          /\ \A j \in Calls' : i < j => calls'[i].before.state <= calls'[j].before.state
    BY <1>1, <1>4 DEF SavedInv, Grows
  <2> QED
    BY <1>1, <2>1, <2>2, <2>3 DEF Grows
<1>9. Saved'
  <2>1. ASSUME NEW i \in Calls', Reaches(calls'[i])
        PROVE  IF Unsaved(calls'[i]) THEN calls'[i].edge <= held'
               ELSE calls'[i].edge <= db'.state /\ \A j \in Calls' : i < j => calls'[i].edge <= calls'[j].before.state
    <3>1. calls'[i] = calls[i] /\ i \in Calls /\ Depth \in Calls /\ i < Depth
      BY <1>2, <1>4, <2>1
    <3>2. IF Unsaved(calls[i]) THEN calls[i].edge <= held
          ELSE calls[i].edge <= db.state /\ \A j \in Calls : i < j => calls[i].edge <= calls[j].before.state
      BY <2>1, <3>1 DEF SavedInv, Saved
    <3> QED
      BY <1>1, <1>4, <1>5, <3>1, <3>2
  <2> QED
    BY <2>1 DEF Saved, Reaches, Unsaved
<1>10. PostMeansSaved'
  BY <1>1 DEF SavedInv, PostMeansSaved
<1> QED
  BY <1>6, <1>8, <1>9, <1>10 DEF SavedInv

\* The end of a call keeps the invariant of strict hooks.
LEMMA StrictReturns ==
  ASSUME SavedInv, StrictInv, Return
  PROVE  StrictInv'
<1> SUFFICES ASSUME Strict  PROVE Strictly'
  BY DEF StrictInv
<1>1. /\ calls # <<>> /\ Depth \in Nat \ {0} /\ Calls = 1..Depth
      /\ Top = calls[Depth] /\ Top \in Call /\ Placed(Top)
      /\ Top.at = "exit" /\ db' \in {Top.before, db} /\ ~doomed'
      /\ ~Top.raising /\ ~doomed => db' = db
      /\ held' = held
      /\ calls' \in Seq(Call) /\ Depth' = Depth - 1 /\ Calls' = 1..(Depth - 1) /\ Calls' \subseteq Calls
      /\ \A i \in Calls' : i < Depth - 1 => calls'[i] = calls[i]
      /\ \A i \in Calls' : calls'[i] = calls[i] \/ calls'[i] = Raised(calls[i])
      /\ Top.raising /\ Depth > 1 => calls'[Depth - 1] = Raised(calls[Depth - 1])
  BY Popped
<1>2. Settled(calls[1].before) /\ (doomed => Top.raising) /\ (Clean => Agree)
  BY <1>1 DEF StrictInv, Strictly
<1>3. \A i \in Calls' :
        /\ calls[i] \in Call /\ calls[i].m > 0 /\ i < Depth /\ i \in Calls
        /\ calls'[i].before = calls[i].before
        /\ ~calls'[i].raising => calls'[i] = calls[i]
  <2>1. \A i \in Calls' : calls[i] \in Call /\ calls[i].m > 0 /\ i < Depth /\ i \in Calls
    BY <1>1, Waiting
  <2>2. \A i \in Calls' : Raised(calls[i]).before = calls[i].before /\ Raised(calls[i]).raising
    BY <2>1, RaisedFollows DEF Follows
  <2> QED
    BY <1>1, <2>1, <2>2
<1>4. ~Unsaved(Top) /\ calls'= <<>> <=> Depth = 1
  BY <1>1 DEF Unsaved, Depth
<1>5. CASE Depth = 1
  <2>1. Top = calls[1] /\ calls' = <<>>
    BY <1>1, <1>4, <1>5
  <2>2. CASE db' = Top.before
    BY <1>1, <1>2, <2>1, <2>2 DEF Strictly, Settled
  <2>3. CASE db' # Top.before
    <3>1. db' = db
      BY <1>1, <2>3
    <3>2. CASE Top.raising \/ doomed
      BY <2>3, <3>2 DEF Return, AtEnd
    <3>3. CASE ~Top.raising
      <4>1. Clean
        BY <1>1, <1>5, <2>1, <3>3 DEF Clean
      <4>2. Settled(db)
        BY <1>1, <1>2, <4>1 DEF Agree, Unsaved
      <4> QED
        BY <1>1, <2>1, <3>1, <4>2 DEF Strictly, Settled
    <3> QED
      BY <3>2, <3>3
  <2> QED
    BY <2>2, <2>3
<1>6. CASE Depth > 1
  <2>1. Settled(calls'[1].before) /\ calls' # <<>> /\ 1 \in Calls'
    <3>1. 1 \in Calls' /\ Len(calls') # 0
      BY <1>1, <1>6 DEF Depth
    <3>2. calls'[1].before = calls[1].before
      BY <1>3, <3>1
    <3> QED
      BY <1>2, <3>1, <3>2
  <2>2. ASSUME Clean'  PROVE Agree'
    <3>1. \A i \in Calls' : ~calls'[i].raising /\ calls'[i] = calls[i]
      BY <1>3, <2>2 DEF Clean
    <3>2. ~Top.raising /\ ~doomed
      <4>1. Depth - 1 \in Calls' /\ Raised(calls[Depth - 1]).raising
        BY <1>1, <1>3, <1>6, RaisedFollows
      <4> QED
        BY <1>1, <1>2, <1>6, <3>1, <4>1
    <3>3. Clean
      BY <1>1, <3>1, <3>2 DEF Clean
    <3>4. Agree /\ db' = db /\ held' = held
      BY <1>1, <1>2, <3>2, <3>3
    <3>5. held = db.state /\ Settled(db)
      BY <1>1, <3>4 DEF Agree, Unsaved
    <3>6. Top' = calls[Depth - 1] /\ Depth - 1 \in Calls /\ calls'[1] = calls[1]
      BY <1>1, <1>6, <2>1, <3>1 DEF Top, Depth
    <3>7. ~(Unsaved(calls[Depth - 1]) /\ calls[Depth - 1].transit)
      BY <1>1, <3>4, <3>6 DEF Agree
    <3>8. (Unsaved(Top) /\ Top.transit)' <=> Unsaved(calls[Depth - 1]) /\ calls[Depth - 1].transit
      BY <3>6 DEF Unsaved
    <3>9. \A i \in Calls' : i < Depth' /\ Unsaved(calls'[i]) => ~calls'[i].transit
      BY <1>1, <3>1, <3>4 DEF Agree
    <3>10. db'.signed[calls'[1].edge] > calls'[1].before.signed[calls'[1].edge]
      BY <3>4, <3>6 DEF Agree
    <3>11. held' = db'.state /\ Settled(db')
      BY <3>4, <3>5
    <3> QED
      BY <3>7, <3>8, <3>9, <3>10, <3>11 DEF Agree, Unsaved, Settled
  <2> QED
    BY <1>1, <2>1, <2>2 DEF Strictly, Settled
<1> QED
  BY <1>1, <1>5, <1>6

-----------------------------------------------------------------------------
(* Theorems.                                                               *)

\* Every step keeps both invariants.
LEMMA Steps ==
  ASSUME SavedInv, [Next]_vars
  PROVE  SavedInv' /\ (StrictInv => StrictInv')
<1>1. CASE Goes
  BY <1>1, Going
<1>2. CASE Save
  BY <1>1, <1>2, Saves, SignalsGo
<1>3. CASE Return
  BY <1>3, Returns, StrictReturns
<1>4. CASE UNCHANGED vars
  BY <1>4 DEF vars, SavedInv, Typed, TypeOK, Depth, Calls, Placed, Unsaved, Grows, Saved, Reaches,
     PostMeansSaved, StrictInv, Strictly, Settled, Clean, Agree, Top
<1> QED
  BY <1>1, <1>2, <1>3, <1>4, HooksGo, SignalsGo, HookBegins, CallerBegins DEF Next, Continue

\* No call is under way at first.
LEMMA Initially == Init => SavedInv /\ StrictInv
<1> SUFFICES ASSUME Init  PROVE SavedInv /\ StrictInv
  OBVIOUS
<1>1. Depth = 0 /\ Calls = {}
  BY DEF Init, Depth, Calls
<1>2. db.state = 0 /\ db.signed = [e \in Edge |-> 0] /\ db \in Database
  BY Chain DEF Init, Database
<1>3. TypeOK
  <2>1. calls = <<>> /\ Len(calls) = 0 /\ 0 <= DepthBound /\ 0 \in 0..Final
    BY Chain DEF Init
  <2>2. <<>> \in Seq(Call) /\ <<>> \in Seq(Event)
    OBVIOUS
  <2>3. held = 0 /\ doomed = FALSE /\ events = <<>> /\ outcome = "none"
    BY DEF Init
  <2> QED
    BY <1>2, <2>1, <2>2, <2>3 DEF TypeOK
<1>4. SavedInv
  BY <1>1, <1>2, <1>3 DEF Init, SavedInv, Typed, Grows, Saved, PostMeansSaved
<1>5. Settled(db)
  BY <1>2, Chain, ChainAssumption DEF Settled, Edge
<1>6. StrictInv
  BY <1>5 DEF Init, StrictInv, Strictly
<1> QED
  BY <1>4, <1>6

\* However calls nest, the calls under way never take the object back behind an edge that
\* one of them has saved.
THEOREM Invariance == Spec => [](SavedInv /\ StrictInv)
<1>1. SavedInv /\ StrictInv /\ [Next]_vars => (SavedInv /\ StrictInv)'
  BY Steps
<1> QED
  BY <1>1, Initially, PTL DEF Spec

\* The stack of calls, the database and the events have their types.
THEOREM TypeCorrect == Spec => []TypeOK
<1>1. SavedInv => TypeOK
  BY DEF SavedInv, Typed
<1> QED
  BY <1>1, Invariance, PTL

\* Whatever hooks and receivers do, strict or not, post_transition and post_on_complete are
\* sent when the object has been saved in its new state.
THEOREM PostAfterSave == Spec => []PostMeansSaved
<1>1. SavedInv => PostMeansSaved
  BY DEF SavedInv
<1> QED
  BY <1>1, Invariance, PTL

\* With strict hooks signatures and state agree whenever no call is under way.
THEOREM SignaturesDecide ==
  ASSUME Strict
  PROVE  Spec => []StateFollowsSignatures
<1>1. SavedInv /\ StrictInv => StateFollowsSignatures
  BY DEF StrictInv, Strictly, Settled, StateFollowsSignatures
<1> QED
  BY <1>1, Invariance, PTL

\* With strict hooks the outermost call returns with a signature more than it began with.
LEMMA ReturnedStep ==
  SavedInv /\ StrictInv /\ Strict /\ [Next]_vars =>
    (outcome' = "returned" /\ outcome = "none" => db'.signed # calls[1].before.signed)
<1> SUFFICES ASSUME SavedInv, StrictInv, Strict, [Next]_vars, outcome' = "returned", outcome = "none"
             PROVE  db'.signed # calls[1].before.signed
  OBVIOUS
<1>1. Return
  BY DEF Next, Continue, Approve, NoHooks, QueryRefused, HooksReturn, HookRaises, HookFailsInSave,
     HookApproves, PreSignal, PostSignal, ReceiverRaises, Save, vars
<1>2. /\ calls # <<>> /\ Depth \in Nat \ {0} /\ Calls = 1..Depth /\ Top = calls[Depth]
      /\ ~Top.raising /\ ~doomed => db' = db
  BY <1>1, Popped
<1>3. Depth = 1 /\ ~Top.raising
  <2>1. Depth = 1 \/ Depth > 1
    BY <1>2
  <2>2. Depth > 1 => outcome' = outcome
    BY <1>1 DEF Return, Depth
  <2>3. Depth = 1 => outcome' = IF Top.raising THEN "raised" ELSE "returned"
    BY <1>1 DEF Return, Depth
  <2> QED
    BY <2>1, <2>2, <2>3
<1>4. Clean /\ ~doomed
  BY <1>2, <1>3 DEF Clean, StrictInv, Strictly
<1>5. db.signed[calls[1].edge] > calls[1].before.signed[calls[1].edge]
  BY <1>2, <1>4 DEF StrictInv, Strictly, Agree
<1>6. db' = db
  BY <1>2, <1>3, <1>4
<1>7. calls[1] \in Call /\ db \in Database
  BY <1>2, Tops DEF SavedInv, Typed, TypeOK
<1>8. \A d \in Database, e \in Edge : d.signed[e] \in Nat
  BY DEF Database
<1> QED
  BY <1>5, <1>6, <1>7, <1>8, CallTyped

\* With strict hooks a call that returns has signed: what it or a call made by its hooks has
\* signed is never taken back silently.
THEOREM ReturnedSigned ==
  ASSUME Strict
  PROVE  Spec => ReturnedMeansSigned
  BY Invariance, ReturnedStep, PTL DEF Spec, ReturnedMeansSigned

=============================================================================
