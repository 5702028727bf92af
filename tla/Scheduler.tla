------------------------------- MODULE Scheduler -------------------------------
(***************************************************************************)
(* The threads of one execution: which of them the checker runs, and the   *)
(* mutexes, condition variables, joins and sleeps that block them.         *)
(*                                                                         *)
(* The checker runs on the stacks of the program's threads.  A thread that *)
(* performs an operation stashes it as its pending action (switch_thread); *)
(* the checker then resumes every thread that has none (getNextThread),    *)
(* and when all have one it chooses a thread and carries its action out    *)
(* (handleChosenThread, take_step), on the stack of the thread cur that    *)
(* ran last.                                                               *)
(*                                                                         *)
(* Threads are numbered from 1, the initial thread, as in the code; 0 is   *)
(* the model thread, which never runs, and stands for NULL.  The program   *)
(* does anything it may do under POSIX: it unlocks what it has locked,     *)
(* waits with a mutex it holds once, and joins other threads.              *)
(***************************************************************************)
EXTENDS Integers, FiniteSetsExt

CONSTANTS
  MaxThreads,  \* bound: threads of an execution
  Mutex,
  Recursive,   \* the mutexes of type PTHREAD_MUTEX_RECURSIVE
  Cond,        \* the condition variables
  Ops,         \* the operations the program uses
  MaxOps       \* bound: operations of an execution, those that start and end threads aside

OpType ==
  {"PTHREAD_CREATE", "PTHREAD_JOIN", "ATOMIC_LOCK", "ATOMIC_TRYLOCK", "ATOMIC_UNLOCK", "ATOMIC_WAIT",
   "ATOMIC_TIMEDWAIT", "ATOMIC_NOTIFY_ONE", "ATOMIC_NOTIFY_ALL", "THREAD_SLEEP", "THREAD_YIELD",
   "THREADONLY_FINISH", "THREAD_FINISHALL"}

ASSUME SchedulerAssumption ==
  /\ MaxThreads \in Nat \ {0}
  /\ MaxOps \in Nat
  /\ Recursive \subseteq Mutex
  /\ Ops \subseteq OpType
  /\ {"none", "start"} \cap (Mutex \cup Cond) = {}

Thread == 1 .. MaxThreads

\* A ModelAction: what it is about, its mutex, condition variable and thread.
Action ==
  [type : OpType \cup {"THREAD_START", "THREAD_FINISH"}, mutex : Mutex \cup {"none"},
   cond : Cond \cup {"none"}, thread : Thread \cup {0}]

NoAction == [type |-> "none", mutex |-> "none", cond |-> "none", thread |-> 0]


VARIABLES
  nthreads,  \* get_num_threads() - 1
  tstate,    \* Thread.state
  pending,   \* Thread.pending
  wakeup,    \* Thread.wakeup_state
  enabled,   \* Scheduler.enabled
  locked,    \* mutex_state.locked
  waiters,   \* condvar_waiters_map: the threads of the wait actions listed
  resume,    \* where a thread continues: "start", in a wait with the mutex to lock, or "none"
  cur,       \* the thread on whose stack the checker or the program runs
  curr_thread_num, thread_chosen, chosen_thread,
  asserted, isfinished,
  phase,     \* see below
  deadlock,  \* history: a deadlock was reported
  stackfreed,  \* history: the threads freeResources has freed the stacks of
  held,      \* history: how often a thread has locked a mutex and not unlocked it
  ops        \* operations so far

vars == <<nthreads, tstate, pending, wakeup, enabled, locked, waiters, resume, cur, curr_thread_num,
          thread_chosen, chosen_thread, asserted, isfinished, phase, deadlock, stackfreed, held, ops>>

program == <<resume, held, ops>>

\* "user": cur runs the program; "scan": getNextThread; "choose":
\* handleChosenThread; "done": the execution is over; "hung": a loop of the
\* checker does not end; "undefined": a thread runs on a stack that was freed.
Terminal == {"done", "hung", "undefined"}

Created == 1 .. nthreads

is_complete(t) == tstate[t] \in {"COMPLETED", "FREED"}

is_enabled(t) == enabled[t] # "DISABLED"

\* ModelExecution::check_action_enabled.
check_action_enabled(t, a) ==
  CASE a.type = "ATOMIC_LOCK"  -> locked[a.mutex] = 0 \/ (locked[a.mutex] = t /\ a.mutex \in Recursive)
    [] a.type = "PTHREAD_JOIN" -> is_complete(a.thread)
    [] OTHER                   -> TRUE

\* Thread::waiting_on, for a thread whose pending action is a.
waiting_on(a) ==
  CASE a.type = "PTHREAD_JOIN" -> a.thread
    [] a.type = "ATOMIC_LOCK"  -> locked[a.mutex]
    [] OTHER                   -> 0

\* The chain of threads is_waiting_on follows from t, when the pending actions
\* are p; 0 once it has ended.
Chain(p, t) ==
  LET f[k \in 0 .. MaxThreads] ==
        LET from == IF k = 0 THEN t ELSE f[k - 1] IN IF from = 0 THEN 0 ELSE waiting_on(p[from])
  IN  f

RelocksRecursive(p, t) ==
  waiting_on(p[t]) = t /\ p[t].type = "ATOMIC_LOCK" /\ p[t].mutex \in Recursive

\* Mutants of is_waiting_on: takes locking a recursive mutex again for waiting;
\* looks at the first thread of the chain only.
is_waiting_on_relock(p, t) == \E k \in 0 .. MaxThreads : Chain(p, t)[k] = t
is_waiting_on_direct(p, t) == ~RelocksRecursive(p, t) /\ Chain(p, t)[0] = t

\* Thread::is_waiting_on(t) of t itself.
is_waiting_on(p, t) == ~RelocksRecursive(p, t) /\ \E k \in 0 .. MaxThreads : Chain(p, t)[k] = t

\* Its loop goes round a cycle that t is not on.
LoopsForever(p, t) ==
  /\ ~RelocksRecursive(p, t)
  /\ ~is_waiting_on(p, t)
  /\ Chain(p, t)[MaxThreads] # 0

-------------------------------------------------------------------------------
Init ==
  /\ nthreads = 1
  /\ tstate = [t \in Thread |-> IF t = 1 THEN "RUNNING" ELSE "CREATED"]
  /\ pending = [t \in Thread |-> NoAction]
  /\ wakeup = [t \in Thread |-> FALSE]
  /\ enabled = [t \in Thread |-> IF t = 1 THEN "ENABLED" ELSE "DISABLED"]
  /\ locked = [m \in Mutex |-> 0]
  /\ waiters = [c \in Cond |-> {}]
  /\ resume = [t \in Thread |-> "start"]
  /\ cur = 1 /\ curr_thread_num = 1 /\ thread_chosen = FALSE /\ chosen_thread = 0
  /\ asserted = FALSE /\ isfinished = FALSE
  /\ phase = "user" /\ deadlock = FALSE
  /\ stackfreed = {}
  /\ held = [t \in Thread |-> [m \in Mutex |-> 0]]
  /\ ops = 0

-------------------------------------------------------------------------------
(* The program, on the stack of cur.                                       *)

\* ModelChecker::switch_thread up to getNextThread.
switch_thread(a) ==
  /\ pending' = [pending EXCEPT ![cur] = a]
  /\ asserted' = (asserted \/ is_waiting_on(pending', cur))
  /\ LET sleeps == is_enabled(cur) /\ ~check_action_enabled(cur, a) IN
     /\ tstate' = [tstate EXCEPT ![cur] = IF sleeps THEN "BLOCKED" ELSE "READY"]
     /\ enabled' = IF sleeps THEN [enabled EXCEPT ![cur] = "DISABLED"] ELSE enabled
  /\ phase' = IF LoopsForever(pending', cur) THEN "hung" ELSE "scan"
  /\ UNCHANGED <<nthreads, wakeup, cur, curr_thread_num, thread_chosen, chosen_thread, isfinished, deadlock,
                 stackfreed>>

Running == phase = "user" /\ resume[cur] = "none"

\* The operations on threads, mutexes and condition variables cur may perform.
Waitable == {m \in Mutex : held[cur][m] = 1}

Operation ==
  [type : {"PTHREAD_CREATE"}, mutex : {"none"}, cond : {"none"}, thread : IF nthreads < MaxThreads THEN {0} ELSE {}]
    \cup [type : {"PTHREAD_JOIN"}, mutex : {"none"}, cond : {"none"}, thread : Created \ {cur}]
    \cup [type : {"ATOMIC_LOCK", "ATOMIC_TRYLOCK"}, mutex : Mutex, cond : {"none"}, thread : {0}]
    \cup [type : {"ATOMIC_UNLOCK"}, mutex : {m \in Mutex : held[cur][m] > 0}, cond : {"none"}, thread : {0}]
    \cup [type : {"ATOMIC_WAIT", "ATOMIC_TIMEDWAIT"}, mutex : Waitable, cond : Cond, thread : {0}]
    \cup [type : {"ATOMIC_NOTIFY_ONE", "ATOMIC_NOTIFY_ALL"}, mutex : {"none"}, cond : Cond, thread : {0}]
    \cup [type : {"THREAD_SLEEP", "THREAD_YIELD", "THREADONLY_FINISH", "THREAD_FINISHALL"},
          mutex : {"none"}, cond : {"none"}, thread : {0}]

\* thread_startup and initMainThread: the first action of a thread.
Start ==
  /\ phase = "user" /\ resume[cur] = "start"
  /\ switch_thread([NoAction EXCEPT !.type = "THREAD_START"])
  /\ resume' = [resume EXCEPT ![cur] = "none"]
  /\ UNCHANGED <<locked, waiters, held, ops>>

\* An operation of the program.
Operate ==
  /\ Running
  /\ \E a \in {o \in Operation : o.type \in Ops} :
       /\ switch_thread(a)
       /\ ops' = IF a.type = "PTHREAD_CREATE" THEN ops ELSE ops + 1
       /\ resume' = IF a.type \in {"ATOMIC_WAIT", "ATOMIC_TIMEDWAIT"}
                    THEN [resume EXCEPT ![cur] = a.mutex] ELSE resume
  /\ ops' =< MaxOps
  /\ UNCHANGED <<locked, waiters, held>>

\* condition_variable::wait and pthread_cond_timedwait: the second action.
Relock ==
  /\ phase = "user" /\ resume[cur] \in Mutex
  /\ switch_thread([NoAction EXCEPT !.type = "ATOMIC_LOCK", !.mutex = resume[cur]])
  /\ resume' = [resume EXCEPT ![cur] = "none"]
  /\ UNCHANGED <<locked, waiters, held, ops>>

\* The function of the thread returns.
Return ==
  /\ Running
  /\ switch_thread([NoAction EXCEPT !.type = "THREAD_FINISH"])
  /\ UNCHANGED <<locked, waiters, program>>

-------------------------------------------------------------------------------
(* The checker.                                                            *)

\* Mutant of Blocked: only switch_thread puts threads to sleep.
BlockedBefore(over) == {}

\* Of the threads passed over, those whose actions getNextThread disables.
Blocked(over) ==
  {t \in over : is_enabled(t) /\ pending[t] # NoAction /\ ~check_action_enabled(t, pending[t])}

\* Mutant of Freed: also the stack it runs on.
FreedAny(over) == {t \in over : tstate[t] = "COMPLETED"}

\* Those it frees: not the one on whose stack it runs.
Freed(over) == {t \in over : tstate[t] = "COMPLETED" /\ t # cur}

\* Those that chooseThread lets go first.
Priority == {"PTHREAD_CREATE", "THREAD_START", "THREAD_FINISH", "THREAD_FINISHALL"}

First(over) ==
  {t \in over \ Blocked(over) :
     is_enabled(t) /\ tstate[t] # "BLOCKED" /\ pending[t].type \in Priority}

\* It passes over the threads that have ended or have a pending action, and
\* resumes the first other one.
getNextThread ==
  LET idle    == {t \in curr_thread_num .. nthreads : ~is_complete(t) /\ pending[t] = NoAction}
      over    == curr_thread_num .. (IF idle = {} THEN nthreads ELSE Min(idle) - 1)
      blocked == Blocked(over)
      freed   == Freed(over)
      first   == First(over)
  IN  /\ phase = "scan"
      /\ enabled' = [t \in Thread |-> IF t \in blocked THEN "DISABLED" ELSE enabled[t]]
      /\ tstate' = [t \in Thread |->
                      IF t \in blocked THEN "BLOCKED"
                      ELSE IF t \in freed THEN "FREED"
                      ELSE IF idle # {} /\ t = Min(idle) THEN "RUNNING"
                      ELSE tstate[t]]
      /\ stackfreed' = stackfreed \cup freed
      /\ thread_chosen' = (thread_chosen \/ first # {})
      /\ chosen_thread' = IF ~thread_chosen /\ first # {} THEN Min(first) ELSE chosen_thread
      /\ IF idle = {}
         THEN phase' = "choose" /\ UNCHANGED <<cur, curr_thread_num>>
         ELSE /\ cur' = Min(idle) /\ curr_thread_num' = Min(idle)
              /\ phase' = IF Min(idle) \in stackfreed THEN "undefined" ELSE "user"
      /\ UNCHANGED <<nthreads, pending, wakeup, locked, waiters, asserted, isfinished, deadlock, program>>

Available == {t \in Created : enabled[t] = "ENABLED"}
Sleepers  == {t \in Created : enabled[t] = "SLEEP_SET"}

\* The thread whose turn it is: the one chosen before, or select_next_thread.
Chosen(t) ==
  /\ phase = "choose" /\ ~asserted
  /\ IF chosen_thread # 0 THEN t = chosen_thread ELSE t \in Available

\* startRunExecution.
startRunExecution ==
  /\ phase' = "scan"
  /\ curr_thread_num' = 1 /\ thread_chosen' = FALSE

\* Mutant of WakeUp: leaves the sleep pending.
WakeUpToSleep(t) ==
  /\ \/ Chosen(t) /\ wakeup[t]
     \/ /\ phase = "choose" /\ ~asserted
        /\ chosen_thread = 0 /\ Available = {} /\ t \in Sleepers
  /\ enabled' = [enabled EXCEPT ![t] = "ENABLED"]
  /\ wakeup' = [wakeup EXCEPT ![t] = FALSE]
  /\ chosen_thread' = 0
  /\ startRunExecution
  /\ UNCHANGED <<nthreads, tstate, pending, locked, waiters, cur, asserted, isfinished, deadlock, stackfreed,
                 program>>

\* A thread is chosen that was woken up, or for want of others one that
\* sleeps: its sleep is over and it goes on.
WakeUp(t) ==
  /\ \/ Chosen(t) /\ wakeup[t]
     \/ /\ phase = "choose" /\ ~asserted
        /\ chosen_thread = 0 /\ Available = {} /\ t \in Sleepers
  /\ enabled' = [enabled EXCEPT ![t] = "ENABLED"]
  /\ wakeup' = [wakeup EXCEPT ![t] = FALSE]
  /\ pending' = [pending EXCEPT ![t] = NoAction]
  /\ chosen_thread' = 0
  /\ startRunExecution
  /\ UNCHANGED <<nthreads, tstate, locked, waiters, cur, asserted, isfinished, deadlock, stackfreed, program>>

\* consumeAction, take_step and check_current_action on the action of t, of
\* the given type: any sleepers whose time has come wake up (the clock
\* decides); the threads in woken are woken, t itself gets state st and status
\* en.
take_step(t, type, woken, st, en) ==
  /\ Chosen(t) /\ ~wakeup[t] /\ pending[t].type = type
  /\ \E late \in SUBSET Sleepers :
       /\ wakeup' = [u \in Thread |-> wakeup[u] \/ u \in late]
       /\ enabled' = [u \in Thread |->
                        IF u = t THEN en ELSE IF u \in late \cup woken THEN "ENABLED" ELSE enabled[u]]
  /\ tstate' = [u \in Thread |->
                  IF u = t THEN st ELSE IF u \in woken \cap Created THEN "READY" ELSE tstate[u]]
  /\ pending' = [pending EXCEPT ![t] = IF type = "THREAD_SLEEP" THEN @ ELSE NoAction]
  /\ UNCHANGED <<cur, asserted, deadlock, stackfreed, resume, ops>>

\* As most do: t stays as it is and the checker goes on.
go_on(t, type, woken) ==
  /\ take_step(t, type, woken, tstate[t], enabled[t])
  /\ chosen_thread' = 0
  /\ startRunExecution
  /\ UNCHANGED <<nthreads, isfinished>>

\* Mutant of AwaitUnlock: wakes one thread of those that wait.
AwaitUnlockFirst(t) ==
  LET wait == {u \in Created : pending[u].type = "ATOMIC_LOCK" /\ waiting_on(pending[u]) = t}
  IN  IF wait = {} THEN {} ELSE {Min(wait)}

\* The threads that wait for t to unlock some mutex, or to end.
AwaitUnlock(t) == {u \in Created : pending[u].type = "ATOMIC_LOCK" /\ waiting_on(pending[u]) = t}

AwaitEnd(t) == {u \in Created : pending[u].type = "PTHREAD_JOIN" /\ waiting_on(pending[u]) = t}

ThreadStart(t) == go_on(t, "THREAD_START", {}) /\ UNCHANGED <<locked, waiters, held>>
Yield(t)       == go_on(t, "THREAD_YIELD", {}) /\ UNCHANGED <<locked, waiters, held>>
Join(t)        == go_on(t, "PTHREAD_JOIN", {}) /\ UNCHANGED <<locked, waiters, held>>

PthreadCreate(t) ==
  LET child == nthreads + 1 IN
  /\ child \in Thread  \* bound
  /\ take_step(t, "PTHREAD_CREATE", {child}, tstate[t], enabled[t])
  /\ nthreads' = child
  /\ chosen_thread' = child
  /\ startRunExecution
  /\ UNCHANGED <<isfinished, locked, waiters, held>>

acquire(t, m) ==
  /\ locked' = [locked EXCEPT ![m] = t]
  /\ held' = [held EXCEPT ![t][m] = @ + 1]

Lock(t) ==
  /\ go_on(t, "ATOMIC_LOCK", {})
  /\ acquire(t, pending[t].mutex)
  /\ UNCHANGED waiters

\* Mutant of TryLock: any mutex may be locked again by its owner.
TryLockAgain(t) ==
  /\ go_on(t, "ATOMIC_TRYLOCK", {})
  /\ IF locked[pending[t].mutex] \in {0, t}
     THEN acquire(t, pending[t].mutex) ELSE UNCHANGED <<locked, held>>
  /\ UNCHANGED waiters

\* trylock fails on any mutex that is locked, a recursive one of t's included.
TryLock(t) ==
  /\ go_on(t, "ATOMIC_TRYLOCK", {})
  /\ IF locked[pending[t].mutex] = 0 THEN acquire(t, pending[t].mutex) ELSE UNCHANGED <<locked, held>>
  /\ UNCHANGED waiters

\* Whoever has locked it, and however often.
release(t, m) ==
  /\ locked' = [locked EXCEPT ![m] = 0]
  /\ held' = [held EXCEPT ![t][m] = @ - 1]

Unlock(t) ==
  /\ \E type \in {"ATOMIC_UNLOCK", "ATOMIC_TIMEDWAIT"} : go_on(t, type, AwaitUnlock(t))
  /\ release(t, pending[t].mutex)
  /\ UNCHANGED waiters

\* The waiter is resumed once more, disabled, to stash that it locks the mutex.
Wait(t) ==
  /\ take_step(t, "ATOMIC_WAIT", AwaitUnlock(t), "BLOCKED", "DISABLED")
  /\ release(t, pending[t].mutex)
  /\ waiters' = [waiters EXCEPT ![pending[t].cond] = @ \cup {t}]
  /\ chosen_thread' = 0
  /\ startRunExecution
  /\ UNCHANGED <<nthreads, isfinished>>

\* Those of the listed threads ws that a notification wakes.
Notified(ws) == {u \in ws : tstate[u] # "COMPLETED"}

NotifyAll(t) ==
  /\ go_on(t, "ATOMIC_NOTIFY_ALL", Notified(waiters[pending[t].cond]))
  /\ waiters' = [waiters EXCEPT ![pending[t].cond] = {}]
  /\ UNCHANGED <<locked, held>>

\* selectNotify takes any of those listed.
NotifyOne(t) ==
  LET c == pending[t].cond IN
  /\ pending[t].type = "ATOMIC_NOTIFY_ONE"
  /\ \E one \in IF waiters[c] = {} THEN {{}} ELSE {{u} : u \in waiters[c]} :
       /\ go_on(t, "ATOMIC_NOTIFY_ONE", Notified(one))
       /\ waiters' = [waiters EXCEPT ![c] = @ \ one]
  /\ UNCHANGED <<locked, held>>

ThreadSleep(t) ==
  /\ take_step(t, "THREAD_SLEEP", {}, tstate[t], "SLEEP_SET")
  /\ chosen_thread' = 0
  /\ startRunExecution
  /\ UNCHANGED <<nthreads, isfinished, locked, waiters, held>>

\* A thread ends; the initial one takes the program with it unless it called
\* pthread_exit.
ThreadFinish(t) ==
  /\ \E type \in {"THREAD_FINISH", "THREADONLY_FINISH"} :
       /\ type = "THREAD_FINISH" => t # 1
       /\ take_step(t, type, AwaitEnd(t), "COMPLETED", "DISABLED")
  /\ chosen_thread' = 0
  /\ startRunExecution
  /\ UNCHANGED <<nthreads, isfinished, locked, waiters, held>>

ProgramFinish(t) ==
  /\ \/ t = 1 /\ take_step(t, "THREAD_FINISH", {}, "COMPLETED", "DISABLED")
     \/ take_step(t, "THREAD_FINISHALL", {}, "COMPLETED", "DISABLED")
  /\ isfinished' = TRUE
  /\ phase' = "finish"
  /\ UNCHANGED <<nthreads, locked, waiters, held, curr_thread_num, thread_chosen, chosen_thread>>

\* Mutant of is_deadlocked: overlooks those waiting for a notification.
is_deadlocked_blocked ==
  Available \cup Sleepers = {} /\ \E t \in Created : pending[t] # NoAction /\ tstate[t] = "BLOCKED"

is_deadlocked == Available \cup Sleepers = {} /\ \E t \in Created : pending[t] # NoAction

\* The program ended, nothing can be chosen, or a bug was found: finish_execution.
finish_execution ==
  /\ \/ phase = "finish"
     \/ phase = "choose" /\ asserted
     \/ phase = "choose" /\ chosen_thread = 0 /\ Available \cup Sleepers = {}
  /\ phase' = "done"
  /\ deadlock' = (asserted \/ is_deadlocked)
  /\ UNCHANGED <<nthreads, tstate, pending, wakeup, enabled, locked, waiters, cur, curr_thread_num,
                 thread_chosen, chosen_thread, asserted, isfinished, stackfreed, program>>

Done == phase \in Terminal /\ UNCHANGED vars

Step(t) ==
  \/ WakeUp(t) \/ ThreadStart(t) \/ Yield(t) \/ Join(t) \/ PthreadCreate(t)
  \/ Lock(t) \/ TryLock(t) \/ Unlock(t) \/ Wait(t) \/ NotifyAll(t) \/ NotifyOne(t)
  \/ ThreadSleep(t) \/ ThreadFinish(t) \/ ProgramFinish(t)

Next ==
  \/ Start \/ Operate \/ Relock \/ Return \/ getNextThread \/ finish_execution \/ Done
  \/ \E t \in Thread : Step(t)

Spec == Init /\ [][Next]_vars /\ WF_vars(Next)
-------------------------------------------------------------------------------
(* Properties.                                                             *)

\* The type invariant.
TypeOK ==
  /\ nthreads \in Thread
  /\ tstate \in [Thread -> {"CREATED", "RUNNING", "READY", "BLOCKED", "COMPLETED", "FREED"}]
  /\ pending \in [Thread -> Action \cup {NoAction}]
  /\ wakeup \in [Thread -> BOOLEAN]
  /\ enabled \in [Thread -> {"DISABLED", "ENABLED", "SLEEP_SET"}]
  /\ locked \in [Mutex -> Thread \cup {0}]
  /\ waiters \in [Cond -> SUBSET Thread]
  /\ resume \in [Thread -> Mutex \cup {"start", "none"}]
  /\ cur \in Thread /\ curr_thread_num \in Thread
  /\ thread_chosen \in BOOLEAN /\ chosen_thread \in Thread \cup {0}
  /\ asserted \in BOOLEAN /\ isfinished \in BOOLEAN
  /\ phase \in {"user", "scan", "choose", "finish"} \cup Terminal
  /\ deadlock \in BOOLEAN
  /\ stackfreed \subseteq Thread
  /\ held \in [Thread -> [Mutex -> Nat]]
  /\ ops \in 0 .. MaxOps

\* The assertions of take_step: whatever thread may be chosen, it is ready and
\* its action can be carried out, although mutexes have changed hands and
\* threads have been woken since it stashed the action.
TakeStepAsserts ==
  \A t \in Thread : Chosen(t) /\ ~wakeup[t] =>
    pending[t] # NoAction /\ tstate[t] = "READY" /\ check_action_enabled(t, pending[t])

\* What the program is entitled to: a mutex that is not recursive is held by
\* the thread that has locked it and not unlocked it or started to wait, and
\* by no other (process_mutex).
MutualExclusion ==
  \A m \in Mutex \ Recursive, t \in Thread : held[t][m] = (IF locked[m] = t THEN 1 ELSE 0)

\* No wake-up is missed: when a thread is chosen, those kept from running
\* are those that cannot, and those waiting for a notification (which are not
\* blocked, having been resumed).  Of recursive mutexes the code says that
\* their count is still to be done.
NoMissedWakeUp ==
  phase = "choose" =>
    \A t \in Created : ~is_enabled(t) /\ ~is_complete(t) =>
      \/ tstate[t] = "READY" /\ \E c \in Cond : t \in waiters[c]
      \/ ~check_action_enabled(t, pending[t])
      \/ pending[t].mutex \in Recursive

\* t cannot go on before some thread of S does.
WaitsWithin(t, S) ==
  \/ pending[t].type = "PTHREAD_JOIN" /\ pending[t].thread \in S
  \/ /\ pending[t].type = "ATOMIC_LOCK"
     /\ locked[pending[t].mutex] \in S
     /\ ~(pending[t].mutex \in Recursive /\ locked[pending[t].mutex] = t)

\* A deadlock is found (is_waiting_on) as soon as threads wait for each other,
\* and at no other time, where the search ends.
DeadlockFound ==
  phase # "hung" => (asserted <=> \E S \in (SUBSET Created) \ {{}} : \A t \in S : WaitsWithin(t, S))

\* The search for a deadlock (is_waiting_on) goes round forever only where some
\* thread is about to lock a recursive mutex it holds.
SearchEnds == phase = "hung" => \E t \in Created : RelocksRecursive(pending, t)

\* An execution that ends otherwise than by the end of the program leaves no
\* thread behind without reporting a deadlock (is_deadlocked).
NoThreadLeftBehind ==
  phase = "done" /\ ~isfinished => (deadlock <=> \E t \in Created : ~is_complete(t))

\* The checker and the program never run on a stack that was freed
\* (getNextThread), unless a thread that had ended was woken and resumed.
OnLiveStack == phase # "undefined" => cur \notin stackfreed

\* wake() wakes a thread that was waiting: one that was freed is never resumed.
FreedIsOver == phase # "undefined"

\* Every execution ends: no thread sleeps forever while the checker may
\* wake it, and the checker runs out of work.
ExecutionEnds == <>(phase \in Terminal)
===============================================================================
