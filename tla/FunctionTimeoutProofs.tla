------------------------ MODULE FunctionTimeoutProofs ------------------------
(***************************************************************************)
(* Theorems about FunctionTimeout, for every limit, depth and number of    *)
(* threads.                                                                *)
(***************************************************************************)
EXTENDS FunctionTimeout, SequenceTheorems, TLAPS

\* Only the innermost call of the main thread is at another statement than the body,
\* and every call has a limit or none has.
ShapeOf(s) ==
  \A k \in 1..Len(s) : s[k].limited = (Seconds > 0) /\ (k < Len(s) => s[k].at = "body")

\* A call whose timer is running has been running for what the timer has lost.
ArmedIn(s, left) ==
  \E k \in 1..Len(s) : s[k].at \in {"body", "disarm"} /\ s[k].age + left >= Seconds

TopIs(at) == stack[Main] # <<>> /\ Top(Main).at = at

\* The inductive invariant.
IInv ==
  /\ TypeOK /\ ~killed
  /\ ShapeOf(stack[Main])
  /\ TopIs("restore") => timer = 0
  /\ TopIs("arm") => handler # 0
  /\ timer > 0 => handler # 0 /\ ArmedIn(stack[Main], timer)

-----------------------------------------------------------------------------
(* Stacks of calls.                                                         *)

\* What is known of a stack of calls.
LEMMA StackFacts ==
  ASSUME NEW s \in Seq(Frame)
  PROVE  /\ Len(s) \in Nat /\ DOMAIN s = 1..Len(s)
         /\ s # <<>> <=> Len(s) > 0
         /\ \A k \in 1..Len(s) : s[k] \in Frame
  BY LenProperties, ElementOfSeq, EmptySeq

\* A function on 1..n is a stack of n calls.
LEMMA FunctionIsSeq ==
  ASSUME NEW n \in Nat, NEW f \in [1..n -> Frame]
  PROVE  f \in Seq(Frame) /\ Len(f) = n
  BY SeqDef, LenProperties

\* The innermost call goes on to another statement.
LEMMA UpdateFacts ==
  ASSUME NEW s \in Seq(Frame), s # <<>>, NEW frame \in Frame
  PROVE  LET new == [s EXCEPT ![Len(s)] = frame]
         IN /\ new \in Seq(Frame) /\ Len(new) = Len(s)
            /\ \A k \in 1..Len(s) : new[k] = IF k = Len(s) THEN frame ELSE s[k]
  BY StackFacts, ExceptSeq

\* The innermost call ends.
LEMMA PopFacts ==
  ASSUME NEW s \in Seq(Frame), s # <<>>
  PROVE  LET new == SubSeq(s, 1, Len(s) - 1)
         IN /\ new \in Seq(Frame) /\ Len(new) = Len(s) - 1
            /\ \A k \in 1..(Len(s) - 1) : new[k] = s[k]
<1> DEFINE n == Len(s) - 1
           new == SubSeq(s, 1, n)
<1>1. n \in Nat /\ \A k \in 1..n : s[k] \in Frame
  BY StackFacts
<1>2. /\ new \in Seq(Frame)
      /\ Len(new) = IF 1 <= n THEN n - 1 + 1 ELSE 0
      /\ \A i \in 1..(n - 1 + 1) : new[i] = s[1 + i - 1]
  BY <1>1, SubSeqProperties
<1> HIDE DEF n, new
<1>3. Len(new) = n /\ \A k \in 1..n : new[k] = s[k]
  BY <1>1, <1>2
<1> QED
  BY <1>2, <1>3 DEF n, new

\* A call begins.
LEMMA PushFacts ==
  ASSUME NEW s \in Seq(Frame), NEW frame \in Frame
  PROVE  LET new == Append(s, frame)
         IN /\ new \in Seq(Frame) /\ Len(new) = Len(s) + 1
            /\ \A k \in 1..(Len(s) + 1) : new[k] = IF k = Len(s) + 1 THEN frame ELSE s[k]
  BY StackFacts, AppendProperties

\* A second passes for every call.
LEMMA OlderFacts ==
  ASSUME TypeOK
  PROVE  /\ Older = [stack EXCEPT ![Main] = Older[Main]]
         /\ Older[Main] \in Seq(Frame) /\ Len(Older[Main]) = Len(stack[Main])
         /\ \A k \in 1..Len(stack[Main]) : Older[Main][k] = Grown(stack[Main][k])
<1>1. stack[Main] \in Seq(Frame) /\ Main \in Thread
  BY TimeoutAssumption DEF TypeOK
<1>2. \A frame \in Frame : Grown(frame) \in Frame
  BY TimeoutAssumption DEF Grown, Frame
<1>3. Older[Main] = [k \in 1..Len(stack[Main]) |-> Grown(stack[Main][k])]
  BY <1>1, StackFacts DEF Older, TypeOK
<1>4. Older[Main] \in [1..Len(stack[Main]) -> Frame]
  BY <1>1, <1>2, <1>3, StackFacts
<1> QED
  BY <1>1, <1>3, <1>4, StackFacts, FunctionIsSeq DEF Older

\* A thread's stack is replaced by another.
LEMMA ReplacedStack ==
  ASSUME TypeOK, NEW th \in Thread, NEW new \in Seq(Frame), Len(new) <= Depth,
         stack' = [stack EXCEPT ![th] = new]
  PROVE  /\ stack' \in [Thread -> Seq(Frame)]
         /\ \A t \in Thread : Len(stack'[t]) <= Depth
         /\ stack'[Main] = IF th = Main THEN new ELSE stack[Main]
  BY TimeoutAssumption DEF TypeOK

\* What is known of the calls of the main thread.
LEMMA MainStack ==
  ASSUME TypeOK
  PROVE  /\ Main \in Thread /\ stack[Main] \in Seq(Frame)
         /\ Len(stack[Main]) \in Nat /\ Len(stack[Main]) <= Depth
         /\ stack[Main] # <<>> <=> Len(stack[Main]) > 0
         /\ \A k \in 1..Len(stack[Main]) : stack[Main][k] \in Frame
         /\ \A at : TopIs(at) <=> Len(stack[Main]) > 0 /\ stack[Main][Len(stack[Main])].at = at
  BY StackFacts, TimeoutAssumption DEF TypeOK, TopIs, Top

-----------------------------------------------------------------------------
(* What the steps do to the stack of the main thread.                       *)

\* A call comes to another statement: what is below it stays.
LEMMA UpdatedMain ==
  ASSUME TypeOK, ShapeOf(stack[Main]), stack[Main] # <<>>, NEW frame \in Frame,
         frame.limited = Top(Main).limited, Update(Main, frame)
  PROVE  /\ stack' \in [Thread -> Seq(Frame)]
         /\ \A t \in Thread : Len(stack'[t]) <= Depth
         /\ ShapeOf(stack'[Main])
         /\ stack'[Main] # <<>> /\ Len(stack'[Main]) = Len(stack[Main])
         /\ Top(Main)' = frame
         /\ \A k \in 1..(Len(stack[Main]) - 1) : stack'[Main][k] = stack[Main][k]
<1> DEFINE s == stack[Main]
           new == [s EXCEPT ![Len(s)] = frame]
<1>1. /\ Main \in Thread /\ s \in Seq(Frame) /\ Len(s) \in Nat /\ Len(s) > 0 /\ Len(s) <= Depth
  BY MainStack
<1>2. /\ new \in Seq(Frame) /\ Len(new) = Len(s)
      /\ \A k \in 1..Len(s) : new[k] = IF k = Len(s) THEN frame ELSE s[k]
  BY <1>1, UpdateFacts
<1>3. stack' = [stack EXCEPT ![Main] = new]
  BY DEF Update
<1>4. /\ stack' \in [Thread -> Seq(Frame)]
      /\ \A t \in Thread : Len(stack'[t]) <= Depth
      /\ stack'[Main] = new
  BY <1>1, <1>2, <1>3, ReplacedStack
<1>5. ShapeOf(new)
  BY <1>1, <1>2 DEF ShapeOf, Top
<1>6. new # <<>>
  BY <1>1, <1>2, StackFacts
<1> QED
  BY <1>1, <1>2, <1>4, <1>5, <1>6 DEF Top

\* The innermost call ends: the body of the one below goes on.
LEMMA PoppedMain ==
  ASSUME TypeOK, ShapeOf(stack[Main]), stack[Main] # <<>>, Pop(Main)
  PROVE  /\ stack' \in [Thread -> Seq(Frame)]
         /\ \A t \in Thread : Len(stack'[t]) <= Depth
         /\ ShapeOf(stack'[Main])
         /\ \A at : TopIs(at)' => at = "body"
<1> DEFINE s == stack[Main]
           new == SubSeq(s, 1, Len(s) - 1)
<1>1. /\ Main \in Thread /\ s \in Seq(Frame) /\ Len(s) \in Nat /\ Len(s) > 0 /\ Len(s) <= Depth
  BY MainStack
<1>2. /\ new \in Seq(Frame) /\ Len(new) = Len(s) - 1
      /\ \A k \in 1..(Len(s) - 1) : new[k] = s[k]
  BY <1>1, PopFacts
<1>3. stack' = [stack EXCEPT ![Main] = new]
  BY DEF Pop
<1>4. /\ stack' \in [Thread -> Seq(Frame)]
      /\ \A t \in Thread : Len(stack'[t]) <= Depth
      /\ stack'[Main] = new
  <2>1. Len(new) <= Depth
    BY <1>1, <1>2, TimeoutAssumption
  <2> HIDE DEF new
  <2> QED
    BY <1>1, <1>2, <1>3, <2>1, ReplacedStack
<1>5. ShapeOf(new) /\ \A k \in 1..Len(new) : new[k].at = "body"
  <2>1. \A k \in 1..Len(new) : /\ k \in 1..Len(s) /\ k < Len(s) /\ new[k] = s[k]
                                /\ (k < Len(new) => k < Len(s))
    BY <1>1, <1>2
  <2>2. \A k \in 1..Len(s) : s[k].limited = (Seconds > 0) /\ (k < Len(s) => s[k].at = "body")
    BY DEF ShapeOf
  <2> HIDE DEF new, s
  <2> QED
    BY <2>1, <2>2, SMTT(30) DEF ShapeOf
<1>6. new # <<>> => Len(new) \in 1..Len(new)
  BY <1>1, <1>2, StackFacts
<1> QED
  BY <1>4, <1>5, <1>6 DEF TopIs, Top

-----------------------------------------------------------------------------
(* One lemma per action.                                                    *)

\* A call of the main thread begins in a body, a call of another has no limit.
LEMMA CallStep ==
  ASSUME IInv, NEW th \in Thread, Call(th)
  PROVE  IInv'
<1> USE TimeoutAssumption
<1> DEFINE limited == Seconds > 0 /\ SupportsAlarm(th)
           frame == [at |-> IF limited THEN "install" ELSE "body",
                     limited |-> limited, previous |-> 0, age |-> 0]
           new == Append(stack[th], frame)
<1>1. TypeOK /\ stack[th] \in Seq(Frame) /\ Len(stack[th]) \in Nat
  BY StackFacts DEF IInv, TypeOK
<1>2. frame \in Frame
  BY DEF Frame
<1>3. Len(stack[th]) < Depth
  <2>1. CASE stack[th] = <<>>
    BY <1>1, <2>1, StackFacts
  <2>2. CASE stack[th] # <<>>
    BY <2>2 DEF Call
  <2> QED
    BY <2>1, <2>2
<1>4. /\ new \in Seq(Frame) /\ Len(new) = Len(stack[th]) + 1
      /\ \A k \in 1..(Len(stack[th]) + 1) : new[k] = IF k = Len(stack[th]) + 1 THEN frame ELSE stack[th][k]
  BY <1>1, <1>2, PushFacts
<1>5. /\ stack' = [stack EXCEPT ![th] = new]
      /\ UNCHANGED <<timer, handler, raising, killed>>
      /\ warned' = (warned \/ (Seconds > 0 /\ ~limited))
  BY DEF Call
<1>6. th = Main /\ stack[Main] # <<>> => stack[Main][Len(stack[Main])].at = "body"
  BY DEF Call, CallAt, Top
<1> HIDE DEF new
<1>7. /\ stack' \in [Thread -> Seq(Frame)]
      /\ \A t \in Thread : Len(stack'[t]) <= Depth
      /\ stack'[Main] = IF th = Main THEN new ELSE stack[Main]
  <2>1. Len(new) <= Depth
    BY <1>1, <1>3, <1>4
  <2> QED
    BY <1>1, <1>4, <1>5, <2>1, ReplacedStack
<1>8. TypeOK'
  BY <1>1, <1>5, <1>7 DEF TypeOK
<1>9. CASE th # Main
  BY <1>5, <1>7, <1>8, <1>9 DEF IInv, TopIs, Top
<1>10. CASE th = Main
  <2>1. frame.limited = (Seconds > 0) /\ frame.at \notin {"arm", "restore"}
    BY <1>10 DEF SupportsAlarm
  <2> HIDE DEF frame
  <2>2. stack[Main] # <<>> <=> Len(stack[Main]) > 0
    BY <1>1, MainStack
  <2>3. ShapeOf(new)
    BY <1>1, <1>4, <1>6, <1>10, <2>1, <2>2 DEF ShapeOf, IInv
  <2>4. stack'[Main] # <<>> => stack'[Main][Len(stack'[Main])] = frame
    BY <1>1, <1>4, <1>7, <1>10
  <2>5. timer > 0 => handler # 0 /\ ArmedIn(new, timer)
    BY <1>1, <1>4, <1>10 DEF IInv, ArmedIn
  <2> QED
    BY <1>5, <1>7, <1>8, <1>10, <2>1, <2>3, <2>4, <2>5 DEF IInv, TopIs, Top
<1> QED
  BY <1>9, <1>10

\* The statements that set the handler and the timer and clear it.
LEMMA StatementStep ==
  ASSUME IInv, Install \/ Arm \/ Disarm
  PROVE  IInv'
<1> USE TimeoutAssumption
<1>1. TypeOK /\ ShapeOf(stack[Main]) /\ ~killed
  BY DEF IInv
<1>2. /\ stack[Main] # <<>> /\ Len(stack[Main]) \in Nat /\ Len(stack[Main]) > 0
      /\ Len(stack[Main]) <= Depth /\ Top(Main) \in Frame
  <2>1. stack[Main] # <<>>
    BY DEF Install, Arm, Disarm, CallAt
  <2> QED
    BY <1>1, <2>1, MainStack DEF Top
<1>3. CASE Install
  <2> DEFINE frame == [Top(Main) EXCEPT !.at = "arm", !.previous = handler]
  <2>1. /\ Update(Main, frame) /\ handler' = Len(stack[Main]) /\ Top(Main).at = "install"
        /\ UNCHANGED <<timer, raising, warned, killed>>
    BY <1>3 DEF Install, CallAt
  <2>2. frame \in Frame /\ frame.limited = Top(Main).limited /\ frame.at = "arm"
    BY <1>1, <1>2 DEF Frame, TypeOK
  <2> HIDE DEF frame
  <2>3. /\ stack' \in [Thread -> Seq(Frame)] /\ \A t \in Thread : Len(stack'[t]) <= Depth
        /\ ShapeOf(stack'[Main]) /\ Len(stack'[Main]) = Len(stack[Main])
        /\ Top(Main)' = frame
        /\ \A k \in 1..(Len(stack[Main]) - 1) : stack'[Main][k] = stack[Main][k]
    BY <1>1, <1>2, <2>1, <2>2, UpdatedMain
  <2>4. TypeOK'
    BY <1>1, <1>2, <2>1, <2>3 DEF TypeOK
  <2>5. timer' > 0 => ArmedIn(stack'[Main], timer')
    <3>1. timer > 0 => \E k \in 1..(Len(stack[Main]) - 1) :
                          stack[Main][k].at \in {"body", "disarm"} /\ stack[Main][k].age + timer >= Seconds
      BY <1>2, <2>1 DEF IInv, ArmedIn, Top
    <3> QED
      BY <1>2, <2>1, <2>3, <3>1 DEF ArmedIn
  <2> QED
    BY <1>1, <1>2, <2>1, <2>2, <2>3, <2>4, <2>5 DEF IInv, TopIs
<1>4. CASE Arm
  <2> DEFINE frame == [Top(Main) EXCEPT !.at = "body"]
  <2>1. /\ Update(Main, frame) /\ timer' = Seconds /\ TopIs("arm")
        /\ UNCHANGED <<handler, raising, warned, killed>>
    BY <1>4 DEF Arm, CallAt, TopIs
  <2>2. /\ frame \in Frame /\ frame.limited = Top(Main).limited /\ frame.at = "body"
        /\ frame.age \in Nat
    BY <1>2 DEF Frame
  <2> HIDE DEF frame
  <2>3. /\ stack' \in [Thread -> Seq(Frame)] /\ \A t \in Thread : Len(stack'[t]) <= Depth
        /\ ShapeOf(stack'[Main]) /\ Len(stack'[Main]) = Len(stack[Main])
        /\ Top(Main)' = frame
    BY <1>1, <1>2, <2>1, <2>2, UpdatedMain
  <2>4. TypeOK'
    BY <1>1, <2>1, <2>3 DEF TypeOK
  <2>5. ArmedIn(stack'[Main], timer')
    BY <1>2, <2>1, <2>2, <2>3 DEF ArmedIn, Top
  <2> QED
    BY <1>1, <2>1, <2>2, <2>3, <2>4, <2>5 DEF IInv, TopIs
<1>5. CASE Disarm
  <2> DEFINE frame == [Top(Main) EXCEPT !.at = "restore"]
  <2>1. /\ Update(Main, frame) /\ timer' = 0
        /\ UNCHANGED <<handler, raising, warned, killed>>
    BY <1>5 DEF Disarm
  <2>2. frame \in Frame /\ frame.limited = Top(Main).limited /\ frame.at = "restore"
    BY <1>2 DEF Frame
  <2> HIDE DEF frame
  <2>3. /\ stack' \in [Thread -> Seq(Frame)] /\ \A t \in Thread : Len(stack'[t]) <= Depth
        /\ ShapeOf(stack'[Main]) /\ Top(Main)' = frame
    BY <1>1, <1>2, <2>1, <2>2, UpdatedMain
  <2>4. TypeOK'
    BY <1>1, <2>1, <2>3 DEF TypeOK
  <2> QED
    BY <1>1, <2>1, <2>2, <2>3, <2>4 DEF IInv, TopIs
<1> QED
  BY <1>3, <1>4, <1>5

\* The end of a body, and the end of a call, which leaves the timer off.
LEMMA LeaveStep ==
  ASSUME IInv, NEW th \in Thread, Leave(th)
  PROVE  IInv'
<1> USE TimeoutAssumption
<1>1. /\ TypeOK /\ ShapeOf(stack[Main]) /\ ~killed
      /\ stack[th] # <<>> /\ stack[th] \in Seq(Frame) /\ Len(stack[th]) \in Nat
      /\ Len(stack[th]) > 0 /\ Len(stack[th]) <= Depth /\ Top(th) \in Frame /\ Top(th).at = "body"
      /\ UNCHANGED <<timer, handler, raising, warned, killed>>
  BY StackFacts DEF IInv, TypeOK, Leave, CallAt, Top
<1>2. CASE th # Main
  <2> DEFINE updated == [stack[th] EXCEPT ![Len(stack[th])] = [Top(th) EXCEPT !.at = "disarm"]]
             popped == SubSeq(stack[th], 1, Len(stack[th]) - 1)
  <2>1. updated \in Seq(Frame) /\ Len(updated) <= Depth
    <3>1. [Top(th) EXCEPT !.at = "disarm"] \in Frame
      BY <1>1 DEF Frame
    <3> QED
      BY <1>1, <3>1, UpdateFacts
  <2>2. popped \in Seq(Frame) /\ Len(popped) <= Depth
    <3>1. popped \in Seq(Frame) /\ Len(popped) = Len(stack[th]) - 1
      BY <1>1, PopFacts
    <3> HIDE DEF popped
    <3> QED
      BY <1>1, <3>1
  <2>3. stack' = [stack EXCEPT ![th] = updated] \/ stack' = [stack EXCEPT ![th] = popped]
    BY DEF Leave, Update, Pop
  <2> HIDE DEF updated, popped
  <2>4. /\ stack' \in [Thread -> Seq(Frame)] /\ \A t \in Thread : Len(stack'[t]) <= Depth
        /\ stack'[Main] = stack[Main]
    BY <1>1, <1>2, <2>1, <2>2, <2>3, ReplacedStack
  <2> QED
    BY <1>1, <2>4 DEF IInv, TypeOK, TopIs, Top
<1>3. CASE th = Main /\ Top(Main).limited
  <2> DEFINE frame == [Top(Main) EXCEPT !.at = "disarm"]
  <2>1. Update(Main, frame)
    BY <1>3 DEF Leave
  <2>2. /\ frame \in Frame /\ frame.limited = Top(Main).limited /\ frame.at = "disarm"
        /\ frame.age = Top(Main).age
    BY <1>1, <1>3 DEF Frame
  <2> HIDE DEF frame
  <2>3. /\ stack' \in [Thread -> Seq(Frame)] /\ \A t \in Thread : Len(stack'[t]) <= Depth
        /\ ShapeOf(stack'[Main]) /\ Len(stack'[Main]) = Len(stack[Main])
        /\ Top(Main)' = frame
        /\ \A k \in 1..(Len(stack[Main]) - 1) : stack'[Main][k] = stack[Main][k]
    BY <1>1, <1>3, <2>1, <2>2, UpdatedMain
  <2>4. ArmedIn(stack[Main], timer) => ArmedIn(stack'[Main], timer)
    <3>1. SUFFICES ASSUME NEW k \in 1..Len(stack[Main]),
                          stack[Main][k].at \in {"body", "disarm"},
                          stack[Main][k].age + timer >= Seconds
                   PROVE  ArmedIn(stack'[Main], timer)
      BY DEF ArmedIn
    <3>2. CASE k = Len(stack[Main])
      BY <2>2, <2>3, <3>1, <3>2 DEF ArmedIn, Top
    <3>3. CASE k # Len(stack[Main])
      <4>1. k \in 1..(Len(stack[Main]) - 1)
        BY <1>1, <1>3, <3>3
      <4> QED
        BY <2>3, <3>1, <4>1 DEF ArmedIn
    <3> QED
      BY <3>2, <3>3
  <2> QED
    BY <1>1, <2>2, <2>3, <2>4 DEF IInv, TypeOK, TopIs
<1>4. CASE th = Main /\ ~Top(Main).limited
  <2>1. Pop(Main)
    BY <1>4 DEF Leave
  <2>2. /\ stack' \in [Thread -> Seq(Frame)] /\ \A t \in Thread : Len(stack'[t]) <= Depth
        /\ ShapeOf(stack'[Main])
        /\ \A at : TopIs(at)' => at = "body"
    BY <1>1, <1>4, <2>1, PoppedMain
  <2>3. timer = 0
    <3>1. Len(stack[Main]) \in 1..Len(stack[Main])
      BY <1>1, <1>4
    <3>2. ~(Seconds > 0)
      BY <1>1, <1>4, <3>1, Zenon DEF ShapeOf, Top
    <3>3. timer \in 0..Seconds
      BY <1>1 DEF TypeOK
    <3> QED
      BY <3>2, <3>3
  <2> QED
    BY <1>1, <2>2, <2>3 DEF IInv, TypeOK
<1> QED
  BY <1>2, <1>3, <1>4

\* The end of a call: its handler goes, when no timer is running any more.
LEMMA RestoreStep ==
  ASSUME IInv, Restore
  PROVE  IInv'
<1>1. /\ TypeOK /\ ShapeOf(stack[Main]) /\ ~killed
      /\ stack[Main] # <<>> /\ TopIs("restore") /\ timer = 0
      /\ Pop(Main) /\ handler' = Top(Main).previous /\ raising' \in BOOLEAN
      /\ UNCHANGED <<timer, warned, killed>>
  BY DEF IInv, Restore, CallEnds, CallAt, TopIs, TypeOK
<1>2. Top(Main).previous \in 0..Depth
  BY <1>1, MainStack DEF Top, Frame
<1>3. /\ stack' \in [Thread -> Seq(Frame)] /\ \A t \in Thread : Len(stack'[t]) <= Depth
      /\ ShapeOf(stack'[Main])
      /\ \A at : TopIs(at)' => at = "body"
  BY <1>1, PoppedMain
<1> QED
  BY <1>1, <1>2, <1>3 DEF IInv, TypeOK

\* A second passes, and the timer runs.
LEMMA OlderShape ==
  ASSUME TypeOK, ShapeOf(stack[Main])
  PROVE  /\ ShapeOf(Older[Main])
         /\ \A k \in 1..Len(stack[Main]) : /\ Older[Main][k].at = stack[Main][k].at
                                           /\ Older[Main][k].limited = stack[Main][k].limited
<1>1. /\ Older[Main] \in Seq(Frame) /\ Len(Older[Main]) = Len(stack[Main])
      /\ \A k \in 1..Len(stack[Main]) : Older[Main][k] = Grown(stack[Main][k])
  BY OlderFacts
<1>2. \A k \in 1..Len(stack[Main]) : stack[Main][k] \in Frame
  BY MainStack
<1>3. \A frame \in Frame : Grown(frame).at = frame.at /\ Grown(frame).limited = frame.limited
  BY DEF Grown, Frame
<1>4. \A k \in 1..Len(stack[Main]) : /\ Older[Main][k].at = stack[Main][k].at
                                     /\ Older[Main][k].limited = stack[Main][k].limited
  BY <1>1, <1>2, <1>3
<1> QED
  BY <1>1, <1>4 DEF ShapeOf

\* A second that passes keeps the invariant.
LEMMA TickStep ==
  ASSUME IInv, Tick
  PROVE  IInv'
<1> USE TimeoutAssumption
<1> DEFINE s == stack[Main]
           new == Older[Main]
<1>1. /\ TypeOK /\ ShapeOf(s) /\ ~killed /\ timer # 1 /\ timer \in 0..Seconds
      /\ timer' = IF timer = 0 THEN 0 ELSE timer - 1
      /\ stack' = Older
      /\ UNCHANGED <<handler, raising, warned, killed>>
  BY DEF IInv, TypeOK, Tick
<1>2. /\ Older = [stack EXCEPT ![Main] = new] /\ new \in Seq(Frame) /\ Len(new) = Len(s)
      /\ \A k \in 1..Len(s) : new[k] = Grown(s[k])
  BY <1>1, OlderFacts
<1>3. /\ Main \in Thread /\ Len(s) \in Nat /\ Len(s) <= Depth /\ s \in Seq(Frame)
      /\ \A k \in 1..Len(s) : s[k] \in Frame
  BY <1>1, MainStack
<1>4. ShapeOf(new) /\ \A k \in 1..Len(s) : new[k].at = s[k].at
  BY <1>1, OlderShape
<1> HIDE DEF s, new
<1>5. /\ stack' \in [Thread -> Seq(Frame)] /\ \A t \in Thread : Len(stack'[t]) <= Depth
      /\ stack'[Main] = new
  BY <1>1, <1>2, <1>3, ReplacedStack
<1>6. TypeOK'
  BY <1>1, <1>5 DEF TypeOK
<1>7. \A at : TopIs(at)' => TopIs(at)
  <2>1. new # <<>> => s # <<>> /\ Len(s) \in 1..Len(s)
    BY <1>2, <1>3, StackFacts
  <2> QED
    BY <1>2, <1>4, <1>5, <2>1 DEF TopIs, Top, s
<1>8. timer > 0 /\ ArmedIn(s, timer) => ArmedIn(new, timer - 1)
  <2>1. SUFFICES ASSUME timer > 0, NEW k \in 1..Len(s),
                        s[k].at \in {"body", "disarm"}, s[k].age + timer >= Seconds
                 PROVE  ArmedIn(new, timer - 1)
    BY DEF ArmedIn
  <2>2. s[k].age \in Nat /\ s[k].age <= Seconds /\ s[k] \in Frame
    BY <1>3 DEF Frame
  <2>3. Grown(s[k]).age + (timer - 1) >= Seconds
    <3>1. CASE s[k].age < Seconds
      <4>1. Grown(s[k]).age = s[k].age + 1
        BY <2>1, <2>2, <3>1 DEF Grown, Frame
      <4> QED
        BY <1>1, <2>1, <2>2, <4>1
    <3>2. CASE ~(s[k].age < Seconds)
      <4>1. Grown(s[k]).age = s[k].age
        BY <3>2 DEF Grown
      <4> QED
        BY <1>1, <2>1, <2>2, <3>2, <4>1
    <3> QED
      BY <3>1, <3>2
  <2> QED
    BY <1>2, <1>4, <2>1, <2>3 DEF ArmedIn
<1>9. timer' > 0 => timer > 0 /\ timer' = timer - 1
  BY <1>1
<1> QED
  BY <1>1, <1>4, <1>5, <1>6, <1>7, <1>8, <1>9 DEF IInv, s

\* The alarm: its timer is off, and a call that was ended by it has left its handler.
LEMMA AlarmStep ==
  ASSUME IInv, Alarm
  PROVE  IInv'
<1> USE TimeoutAssumption
<1> DEFINE s == stack[Main]
           old == Older[Main]
           cut == [old EXCEPT ![Len(s)].at = "disarm"]
           popped == SubSeq(old, 1, Len(s) - 1)
<1>1. /\ TypeOK /\ ShapeOf(s) /\ ~killed /\ timer = 1 /\ handler # 0 /\ s # <<>>
  <2>1. timer = 1 /\ handler # 0 /\ ArmedIn(s, 1)
    BY DEF IInv, Alarm
  <2> QED
    BY <2>1, MainStack DEF IInv, ArmedIn
<1>2. Cut /\ timer' = 0 /\ raising' \in BOOLEAN /\ UNCHANGED <<killed, handler, warned>>
  <2>1. /\ Cut /\ timer' = 0 /\ UNCHANGED <<killed, handler, warned>>
        /\ IF CallAt(Main, "body") THEN raising' = TRUE
           ELSE \/ raising' = (Len(s) > 1)
                \/ Caught /\ raising' = FALSE
    BY <1>1 DEF Alarm
  <2>2. (Len(s) > 1) \in BOOLEAN
    OBVIOUS
  <2>3. raising' \in BOOLEAN
    BY <2>1, <2>2, Zenon
  <2> QED
    BY <2>1, <2>3
<1>3. /\ Main \in Thread /\ s \in Seq(Frame) /\ Len(s) \in Nat /\ Len(s) > 0 /\ Len(s) <= Depth
  BY <1>1, MainStack
<1>4. /\ Older = [stack EXCEPT ![Main] = old] /\ old \in Seq(Frame) /\ Len(old) = Len(s)
  BY <1>1, OlderFacts
<1>5. ShapeOf(old)
  BY <1>1, OlderShape
<1>6. stack \in [Thread -> Seq(Frame)]
  BY <1>1 DEF TypeOK
<1>7. CASE CallAt(Main, "body")
  <2>1. stack' = [stack EXCEPT ![Main] = cut]
    BY <1>2, <1>3, <1>4, <1>6, <1>7 DEF Cut
  <2> DEFINE frame == [old[Len(s)] EXCEPT !.at = "disarm"]
  <2>2. /\ frame \in Frame /\ frame.limited = old[Len(s)].limited /\ frame.at = "disarm"
    <3>1. old[Len(s)] \in Frame
      <4> HIDE DEF old
      <4> QED
        BY <1>3, <1>4, StackFacts
    <3> QED
      BY <3>1 DEF Frame
  <2>3. cut = [old EXCEPT ![Len(old)] = frame]
    BY <1>4
  <2>4. old # <<>>
    BY <1>3, <1>4, StackFacts
  <2> HIDE DEF frame, old, cut
  <2>5. /\ cut \in Seq(Frame) /\ Len(cut) = Len(old)
        /\ \A k \in 1..Len(old) : cut[k] = IF k = Len(old) THEN frame ELSE old[k]
    BY <1>4, <2>2, <2>3, <2>4, UpdateFacts
  <2>6. ShapeOf(cut)
    BY <1>3, <1>4, <1>5, <2>2, <2>5 DEF ShapeOf
  <2>7. /\ stack' \in [Thread -> Seq(Frame)] /\ \A t \in Thread : Len(stack'[t]) <= Depth
        /\ stack'[Main] = cut
    BY <1>1, <1>3, <1>4, <2>1, <2>5, ReplacedStack
  <2>8. \A at : TopIs(at)' => at = "disarm"
    BY <1>3, <1>4, <2>2, <2>5, <2>7 DEF TopIs, Top
  <2> QED
    BY <1>1, <1>2, <2>6, <2>7, <2>8 DEF IInv, TypeOK
<1>8. CASE ~CallAt(Main, "body")
  <2>1. stack' = [stack EXCEPT ![Main] = popped]
    BY <1>2, <1>3, <1>4, <1>6, <1>8 DEF Cut
  <2>2. old # <<>> /\ popped = SubSeq(old, 1, Len(old) - 1)
    BY <1>3, <1>4, StackFacts
  <2> HIDE DEF old, popped
  <2>3. /\ popped \in Seq(Frame) /\ Len(popped) = Len(old) - 1
        /\ \A k \in 1..(Len(old) - 1) : popped[k] = old[k]
    BY <1>4, <2>2, PopFacts
  <2>4. ShapeOf(popped) /\ \A k \in 1..Len(popped) : popped[k].at = "body"
    <3>1. \A k \in 1..Len(popped) : k \in 1..Len(old) /\ k < Len(old) /\ popped[k] = old[k]
      BY <1>3, <1>4, <2>3
    <3>2. \A k \in 1..Len(popped) : popped[k].limited = (Seconds > 0) /\ popped[k].at = "body"
      BY <1>5, <3>1, Zenon DEF ShapeOf
    <3> QED
      BY <3>2, Zenon DEF ShapeOf
  <2>5. /\ stack' \in [Thread -> Seq(Frame)] /\ \A t \in Thread : Len(stack'[t]) <= Depth
        /\ stack'[Main] = popped
    <3>1. Len(popped) <= Depth
      BY <1>3, <1>4, <2>3
    <3> QED
      BY <1>1, <1>3, <2>1, <2>3, <3>1, ReplacedStack
  <2>6. popped # <<>> => Len(popped) \in 1..Len(popped)
    BY <2>3, StackFacts
  <2>7. \A at : TopIs(at)' => at = "body"
    BY <2>4, <2>5, <2>6 DEF TopIs, Top
  <2> QED
    BY <1>1, <1>2, <2>4, <2>5, <2>7 DEF IInv, TypeOK
<1> QED
  BY <1>7, <1>8

\* Every step keeps the invariant.
LEMMA Steps == IInv /\ [Next]_vars => IInv'
<1>1. SUFFICES ASSUME IInv, [Next]_vars
               PROVE  IInv'
  OBVIOUS
<1>2. CASE Install \/ Arm \/ Disarm
  BY <1>1, <1>2, StatementStep
<1>3. CASE Restore
  BY <1>1, <1>3, RestoreStep
<1>4. CASE Alarm
  BY <1>1, <1>4, AlarmStep
<1>5. CASE Tick
  BY <1>1, <1>5, TickStep
<1>6. CASE \E th \in Thread : Call(th)
  BY <1>1, <1>6, CallStep
<1>7. CASE \E th \in Thread : Leave(th)
  BY <1>1, <1>7, LeaveStep
<1>8. CASE UNCHANGED vars
  BY <1>1, <1>8 DEF IInv, TypeOK, TopIs, Top, vars
<1> QED
  BY <1>1, <1>2, <1>3, <1>4, <1>5, <1>6, <1>7, <1>8, TimeoutAssumption DEF Next, Proceed

-----------------------------------------------------------------------------

\* The invariant the theorems below rest on.
THEOREM Invariance == Spec => []IInv
<1>1. Init => IInv
  <2>1. SUFFICES ASSUME Init
                 PROVE  IInv
    OBVIOUS
  <2>2. <<>> \in Seq(Frame) /\ Len(<<>>) = 0
    BY EmptySeq
  <2>3. stack[Main] = <<>> /\ stack \in [Thread -> Seq(Frame)]
    BY <2>1, <2>2, TimeoutAssumption DEF Init
  <2>4. \A th \in Thread : Len(stack[th]) <= Depth
    <3>1. \A th \in Thread : stack[th] = <<>>
      BY <2>1 DEF Init
    <3>2. \A th \in Thread : Len(stack[th]) = 0
      BY <2>2, <3>1, Zenon
    <3>3. 0 <= Depth
      BY TimeoutAssumption
    <3> QED
      BY <3>2, <3>3, Zenon
  <2>5. ShapeOf(stack[Main])
    BY <2>2, <2>3 DEF ShapeOf
  <2>6. /\ timer = 0 /\ handler = 0 /\ raising = FALSE /\ warned = FALSE /\ killed = FALSE
        /\ timer \in 0..Seconds /\ handler \in 0..Depth
    BY <2>1, TimeoutAssumption DEF Init
  <2>7. TypeOK
    BY <2>3, <2>4, <2>6 DEF TypeOK
  <2> QED
    BY <2>3, <2>5, <2>6, <2>7 DEF IInv, TopIs
<1> QED
  BY <1>1, Steps, PTL DEF Spec

\* Whatever calls nest, begin and end around it, SIGALRM meets a handler of
\* enforce_timeout and a call it can end.
THEOREM AlarmsExpected == Spec => []AlarmsAreExpected
<1>1. IInv => AlarmsAreExpected
  BY MainStack DEF IInv, AlarmsAreExpected, ArmedIn
<1> QED
  BY <1>1, Invariance, PTL

\* The timer never strikes before some call has had the time of
\* RIVER_FUNCTION_TIMEOUT_SECONDS.
THEOREM NobodyCutShort == Spec => NobodyIsCutShort
<1>1. IInv /\ Alarm => \E k \in DOMAIN stack[Main] : stack[Main][k].limited /\ stack[Main][k].age + 1 >= Seconds
  <2>1. SUFFICES ASSUME IInv, Alarm
                 PROVE  \E k \in DOMAIN stack[Main] :
                          stack[Main][k].limited /\ stack[Main][k].age + 1 >= Seconds
    OBVIOUS
  <2>2. timer = 1 /\ timer \in 0..Seconds /\ Seconds \in Nat /\ ShapeOf(stack[Main]) /\ TypeOK
    BY <2>1, TimeoutAssumption DEF IInv, TypeOK, Alarm
  <2>3. PICK k \in 1..Len(stack[Main]) : stack[Main][k].age + 1 >= Seconds
    BY <2>1, <2>2 DEF IInv, ArmedIn
  <2>4. Seconds > 0
    BY <2>2
  <2>5. stack[Main][k].limited
    BY <2>2, <2>4, Zenon DEF ShapeOf
  <2>6. DOMAIN stack[Main] = 1..Len(stack[Main])
    BY <2>2, MainStack, StackFacts
  <2> QED
    BY <2>3, <2>5, <2>6
<1> QED
  BY <1>1, Invariance, PTL DEF Spec, NobodyIsCutShort
=============================================================================
