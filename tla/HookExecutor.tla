---------------------------- MODULE HookExecutor ----------------------------
(***************************************************************************)
(* Hooks off the thread of the caller: RIVER_HOOK_EXECUTOR set to           *)
(* thread_pool_executor of executors.py.  Requests call approve() in a      *)
(* transaction of their own and hand its hooks to a pool of threads, which *)
(* is created by the first one that needs it.  The pool, its FIFO queue and *)
(* its end at the exit of the interpreter are those of concurrent.futures. *)
(***************************************************************************)
EXTENDS Naturals, Sequences, FiniteSets

CONSTANTS
  Request,      \* transactions that call approve()
  Hooks,        \* request |-> how many hooks it runs
  MaxWorkers,   \* threads of one pool
  HangBound,    \* bound on the hook bodies that never return
  Nothing       \* no pool

ASSUME ExecutorAssumption ==
  /\ IsFiniteSet(Request)
  /\ Hooks \in [Request -> Nat \ {0}]
  /\ MaxWorkers \in Nat \ {0}
  /\ HangBound \in Nat
  /\ Nothing \notin Nat

VARIABLES
  request,   \* request[r]: the statement r is at, the hooks it has submitted, its pool
  pool,      \* the global _pool
  created,   \* the number of ThreadPoolExecutors that were created
  queues,    \* the work queue of each of them
  busy,      \* the tasks their workers are running
  hung,      \* those of them that will not return
  finished,  \* the tasks that have run
  process    \* "up", "exiting" after the main thread has ended, or "down"

vars == <<request, pool, created, queues, busy, hung, finished, process>>

Task == UNION {{<<r, h>> : h \in 1..Hooks[r]} : r \in Request}

\* No request finds _pool unset twice.
PoolId == 1..Cardinality(Request)

TypeOK ==
  /\ request \in [Request -> [at: {"new", "get_pool", "create", "read", "submit",
                                   "committed", "rolled_back"},
                              submitted: Nat, uses: Nat \cup {Nothing}]]
  /\ pool \in PoolId \cup {Nothing}
  /\ created \in 0..Cardinality(Request)
  /\ queues \in [PoolId -> Seq(Task)]
  /\ busy \in [PoolId -> SUBSET Task]
  /\ \A k \in PoolId : Cardinality(busy[k]) <= MaxWorkers
  /\ hung \subseteq UNION {busy[k] : k \in PoolId}
  /\ finished \subseteq Task
  /\ process \in {"up", "exiting", "down"}

-----------------------------------------------------------------------------
(* A request: approve() with its hooks.                                    *)

At(r, place) == process # "down" /\ request[r].at = place
Goes(r, place) == request' = [request EXCEPT ![r].at = place]

\* approve() begins its transaction and comes to its first hook.
Begin(r) ==
  /\ process = "up"
  /\ At(r, "new")
  /\ Goes(r, "get_pool")
  /\ UNCHANGED <<pool, created, queues, busy, hung, finished, process>>

\* _get_pool: the test of _pool, ...
GetPool(r) ==
  /\ At(r, "get_pool")
  /\ Goes(r, IF pool = Nothing THEN "create" ELSE "read")
  /\ UNCHANGED <<pool, created, queues, busy, hung, finished, process>>

\* ... the new pool, which replaces one another thread has made in between, ...
CreatePool(r) ==
  /\ At(r, "create")
  /\ created' = created + 1
  /\ pool' = created + 1
  /\ Goes(r, "read")
  /\ UNCHANGED <<queues, busy, hung, finished, process>>

\* ... and the value of _pool that is returned.
ReadPool(r) ==
  /\ At(r, "read")
  /\ request' = [request EXCEPT ![r].at = "submit", ![r].uses = pool]
  /\ UNCHANGED <<pool, created, queues, busy, hung, finished, process>>

\* submit, which does not wait for the hook.
Submit(r) ==
  /\ process = "up"
  /\ At(r, "submit")
  /\ LET h == request[r].submitted + 1
     IN /\ queues' = [queues EXCEPT ![request[r].uses] = Append(@, <<r, h>>)]
        /\ request' = [request EXCEPT ![r].submitted = h,
                                      ![r].at = IF h < Hooks[r] THEN "get_pool" ELSE "submit",
                                      ![r].uses = IF h < Hooks[r] THEN @ ELSE Nothing]
  /\ request[r].uses # Nothing
  /\ UNCHANGED <<pool, created, busy, hung, finished, process>>

\* The interpreter is exiting: submit raises, and the exception fails approve(),
\* whatever RIVER_STRICT_HOOKS says.
SubmitRefused(r) ==
  /\ process = "exiting"
  /\ At(r, "submit") /\ request[r].uses # Nothing
  /\ Goes(r, "rolled_back")
  /\ UNCHANGED <<pool, created, queues, busy, hung, finished, process>>

\* All hooks are handed over and the transaction ends, one way or the other.
End(r) ==
  /\ At(r, "submit") /\ request[r].uses = Nothing
  /\ \E ending \in {"committed", "rolled_back"} : Goes(r, ending)
  /\ UNCHANGED <<pool, created, queues, busy, hung, finished, process>>

-----------------------------------------------------------------------------
(* The workers of a pool.                                                  *)

Ended(r) == request[r].at \in {"committed", "rolled_back"}

\* The task a worker takes, and what it leaves in the queue.
Take(k) == <<Head(queues[k]), Tail(queues[k])>>

\* Mutant of HasWorker: the last worker is kept back.
HasSpareWorker(k) == Cardinality(busy[k]) < MaxWorkers - 1

HasWorker(k) == Cardinality(busy[k]) < MaxWorkers

\* A worker runs a hook: execute_now, in its own thread and on its own connection.
Start(k) ==
  /\ process # "down"
  /\ queues[k] # <<>>
  /\ HasWorker(k)
  /\ LET t == Take(k)[1]
     IN /\ queues' = [queues EXCEPT ![k] = Take(k)[2]]
        /\ busy' = [busy EXCEPT ![k] = @ \cup {t}]
        /\ hung' \in {hung} \cup (IF Cardinality(hung) < HangBound THEN {hung \cup {t}} ELSE {})
  /\ UNCHANGED <<request, pool, created, finished, process>>

\* The hook returns or raises: _run logs the exception.
Finish(k) ==
  /\ process # "down"
  /\ \E t \in busy[k] \ hung :
       /\ busy' = [busy EXCEPT ![k] = @ \ {t}]
       /\ finished' = finished \cup {t}
  /\ UNCHANGED <<request, pool, created, queues, hung, process>>

\* The main thread ends: nothing is submitted any more, what was submitted runs.
Exit ==
  /\ process = "up"
  /\ process' = "exiting"
  /\ UNCHANGED <<request, pool, created, queues, busy, hung, finished>>

\* The process is killed; the database rolls its transactions back.
Crash ==
  /\ process # "down"
  /\ process' = "down"
  /\ queues' = [k \in PoolId |-> <<>>]
  /\ busy' = [k \in PoolId |-> {}]
  /\ hung' = {}
  /\ request' = [r \in Request |-> IF request[r].at = "new" \/ Ended(r) THEN request[r]
                                   ELSE [request[r] EXCEPT !.at = "rolled_back"]]
  /\ UNCHANGED <<pool, created, finished>>

Init ==
  /\ request = [r \in Request |-> [at |-> "new", submitted |-> 0, uses |-> Nothing]]
  /\ pool = Nothing
  /\ created = 0
  /\ queues = [k \in PoolId |-> <<>>]
  /\ busy = [k \in PoolId |-> {}]
  /\ hung = {} /\ finished = {}
  /\ process = "up"

GoesOn(r) == GetPool(r) \/ CreatePool(r) \/ ReadPool(r) \/ Submit(r) \/ SubmitRefused(r) \/ End(r)
Works(k) == Start(k) \/ Finish(k)

Next ==
  \/ \E r \in Request : Begin(r) \/ GoesOn(r)
  \/ \E k \in PoolId : Works(k)
  \/ Exit \/ Crash

\* Threads are scheduled: a request that has begun goes on, an idle worker takes what
\* is queued and a body that is not hung returns.  Nothing makes requests begin.
Spec ==
  /\ Init /\ [][Next]_vars
  /\ \A r \in Request : WF_vars(GoesOn(r))
  /\ \A k \in PoolId : WF_vars(Start(k)) /\ WF_vars(Finish(k))

-----------------------------------------------------------------------------
(* Properties.                                                             *)

Submitted == {t \in Task : t[2] <= request[t[1]].submitted}
Running == UNION {busy[k] : k \in PoolId}

\* Every submitted hook comes to run, as long as a worker is left that does not hang;
\* also when the process is exiting.
HooksRun == \A t \in Task : (t \in Submitted) ~> (t \in Running \cup finished \/ process = "down")

\* docs/hooking/hooking.rst: the transition "has already committed and returned to the caller
\* by the time an async hook could fail".  A hook that runs is one of a committed request.
RunningIsCommitted == \A t \in Running : request[t[1]].at = "committed"

=============================================================================
