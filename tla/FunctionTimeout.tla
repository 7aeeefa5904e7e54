--------------------------- MODULE FunctionTimeout ---------------------------
(***************************************************************************)
(* enforce_timeout of timeout.py around the bodies of database functions.  *)
(* SIGALRM has one timer and one handler in a process.  A body may approve *)
(* another object, whose hooks run functions of their own, so that calls   *)
(* nest; the alarm strikes between any two statements.                     *)
(***************************************************************************)
EXTENDS Naturals, Sequences

CONSTANTS
  Thread, Main,  \* the threads of the process
  Seconds,       \* RIVER_FUNCTION_TIMEOUT_SECONDS, 0 when it is unset
  Strict,        \* RIVER_STRICT_HOOKS
  Depth          \* bound on the nesting of calls

ASSUME TimeoutAssumption ==
  /\ Main \in Thread
  /\ Seconds \in Nat /\ Strict \in BOOLEAN /\ Depth \in Nat \ {0}

VARIABLES
  stack,    \* stack[th]: the calls th is in, the innermost last
  timer,    \* ITIMER_REAL: the seconds that are left, 0 when it is off
  handler,  \* the call whose _on_alarm handles SIGALRM, by its depth; 0 for the default
  raising,  \* a FunctionTimeoutError leaves the innermost call of the main thread
  warned,   \* _warned_unsupported
  killed    \* SIGALRM met its default handler

vars == <<stack, timer, handler, raising, warned, killed>>

\* A call: the statement of enforce_timeout it is at, previous_handler, and for how
\* long the block it wraps has been running.
Frame == [at: {"install", "arm", "body", "disarm", "restore"}, limited: BOOLEAN,
          previous: 0..Depth, age: 0..Seconds]

TypeOK ==
  /\ stack \in [Thread -> Seq(Frame)]
  /\ \A th \in Thread : Len(stack[th]) <= Depth
  /\ timer \in 0..Seconds /\ handler \in 0..Depth
  /\ raising \in BOOLEAN /\ warned \in BOOLEAN /\ killed \in BOOLEAN

-----------------------------------------------------------------------------

Top(th) == stack[th][Len(stack[th])]

CallAt(th, at) == ~killed /\ stack[th] # <<>> /\ Top(th).at = at

Update(th, frame) == stack' = [stack EXCEPT ![th] = [@ EXCEPT ![Len(@)] = frame]]

Pop(th) == stack' = [stack EXCEPT ![th] = SubSeq(@, 1, Len(@) - 1)]

\* _supports_alarm, where there is SIGALRM.
SupportsAlarm(th) == th = Main

\* A hook or a body calls what Function.get() has returned.
Call(th) ==
  /\ ~killed
  /\ stack[th] = <<>> \/ (CallAt(th, "body") /\ Len(stack[th]) < Depth)
  /\ th = Main => ~raising
  /\ LET limited == Seconds > 0 /\ SupportsAlarm(th)
     IN /\ stack' = [stack EXCEPT ![th] =
                       Append(@, [at |-> IF limited THEN "install" ELSE "body",
                                  limited |-> limited, previous |-> 0, age |-> 0])]
        /\ warned' = (warned \/ (Seconds > 0 /\ ~limited))
  /\ UNCHANGED <<timer, handler, raising, killed>>

Install ==
  /\ CallAt(Main, "install")
  /\ Update(Main, [Top(Main) EXCEPT !.at = "arm", !.previous = handler])
  /\ handler' = Len(stack[Main])
  /\ UNCHANGED <<timer, raising, warned, killed>>

\* Mutant of Arm: with the whole seconds of signal.alarm.
ArmWholeSeconds ==
  /\ CallAt(Main, "arm")
  /\ Update(Main, [Top(Main) EXCEPT !.at = "body"])
  /\ timer' = Seconds - 1
  /\ UNCHANGED <<handler, raising, warned, killed>>

Arm ==
  /\ CallAt(Main, "arm")
  /\ Update(Main, [Top(Main) EXCEPT !.at = "body"])
  /\ timer' = Seconds
  /\ UNCHANGED <<handler, raising, warned, killed>>

\* The body returns, or the error of a call inside it reaches it and leaves it.
Leave(th) ==
  /\ CallAt(th, "body")
  /\ IF Top(th).limited THEN Update(th, [Top(th) EXCEPT !.at = "disarm"]) ELSE Pop(th)
  /\ UNCHANGED <<timer, handler, raising, warned, killed>>

\* Mutant of Disarm: the finally clause only restores the handler.
DisarmNothing ==
  /\ CallAt(Main, "disarm")
  /\ Update(Main, [Top(Main) EXCEPT !.at = "restore"])
  /\ UNCHANGED <<timer, handler, raising, warned, killed>>

Disarm ==
  /\ CallAt(Main, "disarm")
  /\ Update(Main, [Top(Main) EXCEPT !.at = "restore"])
  /\ timer' = 0
  /\ UNCHANGED <<handler, raising, warned, killed>>

\* An error that leaves a nested call meets Hook.execute_now of the hook that made it.
Caught == ~Strict /\ Len(stack[Main]) > 1

\* The call ends; an error that leaves it stops in a hook or goes on.
CallEnds ==
  /\ Pop(Main)
  /\ \/ raising' = (raising /\ Len(stack[Main]) > 1)
     \/ Caught /\ raising' = FALSE

Restore ==
  /\ CallAt(Main, "restore")
  /\ CallEnds
  /\ handler' = Top(Main).previous
  /\ UNCHANGED <<timer, warned, killed>>

Grown(frame) == IF frame.at \in {"body", "disarm"} /\ frame.age < Seconds
                THEN [frame EXCEPT !.age = @ + 1] ELSE frame
Older == [stack EXCEPT ![Main] = [k \in DOMAIN @ |-> Grown(@[k])]]

\* _on_alarm raises: the body of the innermost call goes on with the finally clause.
\* Outside the try statement the error leaves the call as it is, also when the
\* finally clause has just begun.
Cut ==
  IF CallAt(Main, "body") THEN stack' = [Older EXCEPT ![Main][Len(stack[Main])].at = "disarm"]
  ELSE stack' = [Older EXCEPT ![Main] = SubSeq(@, 1, Len(@) - 1)]

Alarm ==
  /\ timer = 1 /\ ~killed
  /\ timer' = 0
  /\ IF handler = 0 \/ stack[Main] = <<>>
     THEN killed' = TRUE /\ UNCHANGED <<stack, raising>>
     ELSE /\ Cut
          /\ IF CallAt(Main, "body") THEN raising' = TRUE
             ELSE \/ raising' = (Len(stack[Main]) > 1)
                  \/ Caught /\ raising' = FALSE
          /\ UNCHANGED killed
  /\ UNCHANGED <<handler, warned>>

Tick ==
  /\ timer # 1 /\ ~killed
  /\ timer' = IF timer = 0 THEN 0 ELSE timer - 1
  /\ stack' = Older
  /\ UNCHANGED <<handler, raising, warned, killed>>

Init ==
  /\ stack = [th \in Thread |-> <<>>]
  /\ timer = 0 /\ handler = 0
  /\ raising = FALSE /\ warned = FALSE /\ killed = FALSE

\* The statements of enforce_timeout, and an error on its way out of a body.
Proceed == Install \/ Arm \/ Disarm \/ Restore \/ (raising /\ Leave(Main))

Next == Proceed \/ Alarm \/ Tick \/ \E th \in Thread : Call(th) \/ Leave(th)

Spec == Init /\ [][Next]_vars

-----------------------------------------------------------------------------
(* Properties.                                                             *)

\* The timer never runs without a handler, which would end the process, nor when no
\* call is left that it could strike.
AlarmsAreExpected == ~killed /\ (timer > 0 => handler # 0 /\ stack[Main] # <<>>)

\* The alarm strikes nobody early: when it does, a call that is running has had all its
\* time, whatever calls began and ended inside it.
NobodyIsCutShort ==
  [][Alarm => \E k \in DOMAIN stack[Main] :
                stack[Main][k].limited /\ stack[Main][k].age + 1 >= Seconds]_vars

\* The docstring of enforce_timeout: it raises "if the wrapped block is still running after
\* ``seconds``".  The innermost call that has had its time is on its way out, also when
\* others have begun and ended inside it.
LimitIsKept ==
  CallAt(Main, "body") /\ Top(Main).limited /\ Top(Main).age = Seconds => raising

=============================================================================
