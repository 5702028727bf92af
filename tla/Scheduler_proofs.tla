---------------------------- MODULE Scheduler_proofs ----------------------------
(***************************************************************************)
(* The assertions of take_step hold, mutexes exclude, no wake-up is        *)
(* missed, the checker runs on no stack that was freed, and deadlocks are  *)
(* found when they arise and reported, for any number of threads, mutexes, *)
(* condition variables and operations; and the kernel threads below keep   *)
(* off each other's stacks (HelperThread).                                 *)
(*                                                                         *)
(* The inductive invariant says how the state of a thread, its status and  *)
(* its pending action go together, what getNextThread has seen to of the   *)
(* threads it has passed over, and what the pending releases may rely on.  *)
(***************************************************************************)
EXTENDS HelperThread, FiniteSetTheorems, NaturalsInduction, WellFoundedInduction, TLAPS

Active == phase \in {"user", "scan", "choose"}

Releases == {"ATOMIC_UNLOCK", "ATOMIC_WAIT", "ATOMIC_TIMEDWAIT"}

\* The fields an action has follow from its type.
ActionOK ==
  \A t \in Thread :
    /\ pending[t].type \in Releases \cup {"ATOMIC_LOCK", "ATOMIC_TRYLOCK"} => pending[t].mutex \in Mutex
    /\ pending[t].type \in {"ATOMIC_WAIT", "ATOMIC_NOTIFY_ONE", "ATOMIC_NOTIFY_ALL"} => pending[t].cond \in Cond
    /\ pending[t].type = "PTHREAD_JOIN" => pending[t].thread \in Thread
    /\ pending[t].type \in Releases => held[t][pending[t].mutex] > 0

StateOK ==
  \A t \in Thread :
    /\ t \notin Created => tstate[t] = "CREATED" /\ enabled[t] = "DISABLED" /\ resume[t] = "start"
    /\ tstate[t] = "CREATED" => pending[t] = NoAction
    /\ tstate[t] = "BLOCKED" => enabled[t] = "DISABLED"
    /\ is_complete(t) => enabled[t] = "DISABLED" /\ pending[t] = NoAction
    /\ tstate[t] = "RUNNING" => t = cur /\ (phase = "user" \/ phase \in Terminal)
    /\ enabled[t] = "SLEEP_SET" => pending[t].type = "THREAD_SLEEP"

WaitersOK == \A c \in Cond : waiters[c] \subseteq Created

\* The threads getNextThread has passed over.
PassedOver == IF phase = "choose" THEN Created ELSE 1 .. (curr_thread_num - 1)

ScanOK ==
  Active =>
    /\ curr_thread_num \in Created
    /\ \A t \in PassedOver :
         ~is_complete(t) => pending[t] # NoAction /\ (is_enabled(t) => check_action_enabled(t, pending[t]))
    /\ phase = "user" => cur = curr_thread_num /\ tstate[cur] = "RUNNING" /\ pending[cur] = NoAction

ChosenOK ==
  Active /\ chosen_thread # 0 =>
    /\ chosen_thread \in Created
    /\ enabled[chosen_thread] = "ENABLED" /\ ~is_complete(chosen_thread)
    /\ \/ pending[chosen_thread].type \in Priority
       \/ pending[chosen_thread] = NoAction /\ resume[chosen_thread] = "start"

IInv == TypeOK /\ ActionOK /\ StateOK /\ WaitersOK /\ ScanOK /\ ChosenOK /\ MutualExclusion
-------------------------------------------------------------------------------
(* The least element of a set of threads.                                  *)

\* Min, which the code's loops from the first thread up come to.
LEMMA LeastOf ==
  ASSUME NEW S \in SUBSET Nat, S # {}
  PROVE  Min(S) \in S /\ \A x \in S : Min(S) =< x
<1> DEFINE Less == OpToRel(<, Nat)
<1>1. IsWellFoundedOn(Less, Nat)
  BY NatLessThanWellFounded
<1>2. PICK x \in S : \A y \in S : <<y, x>> \notin Less
  <2> HIDE DEF Less
  <2>1. S \subseteq Nat
    OBVIOUS
  <2> QED
    BY <1>1, <2>1, WFMin
<1>3. \A y \in S : x =< y
  <2> SUFFICES ASSUME NEW y \in S PROVE ~(y < x)
    OBVIOUS
  <2> DEFINE pair == <<y, x>>
  <2>1. pair \in Nat \X Nat /\ pair[1] = y /\ pair[2] = x
    OBVIOUS
  <2>2. pair \notin Less
    BY <1>2
  <2>3. ~(pair[1] < pair[2])
    <3> HIDE DEF pair
    <3> QED
      BY <2>1, <2>2 DEF OpToRel
  <2> QED
    BY <2>1, <2>3
<1> QED
  BY <1>3 DEF Min

-------------------------------------------------------------------------------
(* The initial state, and the steps of the program.                        *)

USE SchedulerAssumption DEF Thread

\* startChecker makes the initial thread, which runs.
LEMMA InitInv == Init => IInv
<1> SUFFICES ASSUME Init PROVE IInv
  OBVIOUS
<1> USE DEF Init
<1>1. TypeOK
  <2>1. wakeup \in [Thread -> BOOLEAN]
    OBVIOUS
  <2>2. held \in [Thread -> [Mutex -> Nat]]
    OBVIOUS
  <2>3. pending \in [Thread -> Action \cup {NoAction}]
    OBVIOUS
  <2>4. tstate \in [Thread -> {"CREATED", "RUNNING", "READY", "BLOCKED", "COMPLETED", "FREED"}]
    OBVIOUS
  <2>5. /\ enabled \in [Thread -> {"DISABLED", "ENABLED", "SLEEP_SET"}]
        /\ locked \in [Mutex -> Thread \cup {0}]
        /\ waiters \in [Cond -> SUBSET Thread]
        /\ resume \in [Thread -> Mutex \cup {"start", "none"}]
    OBVIOUS
  <2>6. /\ thread_chosen \in BOOLEAN /\ asserted \in BOOLEAN /\ isfinished \in BOOLEAN /\ deadlock \in BOOLEAN
        /\ phase \in {"user", "scan", "choose", "finish"} \cup Terminal
        /\ stackfreed \subseteq Thread
    OBVIOUS
  <2>7. nthreads \in Thread /\ cur \in Thread /\ curr_thread_num \in Thread /\ ops \in 0 .. MaxOps
    OBVIOUS
  <2>8. chosen_thread \in Thread \cup {0}
    OBVIOUS
  <2> QED
    BY <2>1, <2>2, <2>3, <2>4, <2>5, <2>6, <2>7, <2>8, Zenon DEF TypeOK
<1>2. ActionOK
  BY DEF ActionOK, NoAction, Releases
<1>3. StateOK
  BY DEF StateOK, Created, is_complete, Terminal, NoAction
<1>4. WaitersOK
  BY DEF WaitersOK
<1>5. ScanOK
  BY DEF ScanOK, PassedOver, Created
<1>6. ChosenOK
  BY DEF ChosenOK
<1>7. MutualExclusion
  BY DEF MutualExclusion
<1> QED
  BY <1>1, <1>2, <1>3, <1>4, <1>5, <1>6, <1>7 DEF IInv

\* Whether an action can be carried out depends on the mutexes and on which
\* threads have ended.
LEMMA EnabledSame ==
  ASSUME NEW t, pending'[t] = pending[t], UNCHANGED locked,
         pending[t].type = "PTHREAD_JOIN" => pending[t].thread \in Thread,
         \A u \in Thread : is_complete(u)' <=> is_complete(u)
  PROVE  check_action_enabled(t, pending[t])' <=> check_action_enabled(t, pending[t])
<1> DEFINE a == pending[t]
<1>1. a' = a
  OBVIOUS
<1>2. CASE a.type = "PTHREAD_JOIN"
  <2>1. check_action_enabled(t, a) <=> is_complete(a.thread)
    BY <1>2 DEF check_action_enabled
  <2>2. check_action_enabled(t, a)' <=> is_complete(a.thread)'
    BY <1>1, <1>2 DEF check_action_enabled
  <2>3. is_complete(a.thread)' <=> is_complete(a.thread)
    BY <1>1, <1>2
  <2> QED
    BY <2>1, <2>2, <2>3
<1>3. CASE a.type # "PTHREAD_JOIN"
  BY <1>1, <1>3 DEF check_action_enabled
<1> QED
  BY <1>2, <1>3

\* switch_thread: cur stashes an action, after which the checker runs.
LEMMA SwitchInv ==
  ASSUME IInv, phase = "user", NEW a \in Action, switch_thread(a),
         a.type \in Releases \cup {"ATOMIC_LOCK", "ATOMIC_TRYLOCK"} => a.mutex \in Mutex,
         a.type \in {"ATOMIC_WAIT", "ATOMIC_NOTIFY_ONE", "ATOMIC_NOTIFY_ALL"} => a.cond \in Cond,
         a.type = "PTHREAD_JOIN" => a.thread \in Thread,
         a.type \in Releases => held[cur][a.mutex] > 0,
         resume[cur] = "start" => a.type = "THREAD_START",
         resume' \in [Thread -> Mutex \cup {"start", "none"}],
         \A t \in Thread \ {cur} : resume'[t] = resume[t],
         ops' \in 0 .. MaxOps,
         UNCHANGED <<locked, waiters, held>>
  PROVE  IInv'
<1> USE DEF switch_thread, IInv
<1>0. /\ cur \in Created /\ cur = curr_thread_num /\ tstate[cur] = "RUNNING" /\ pending[cur] = NoAction
      /\ cur \in Thread
  BY DEF ScanOK, Active, TypeOK
<1>1. /\ \A t \in Thread \ {cur} : pending'[t] = pending[t] /\ tstate'[t] = tstate[t] /\ enabled'[t] = enabled[t]
      /\ pending'[cur] = a
      /\ \/ tstate'[cur] = "BLOCKED" /\ enabled'[cur] = "DISABLED" /\ ~check_action_enabled(cur, a)
         \/ /\ tstate'[cur] = "READY" /\ enabled'[cur] = enabled[cur]
            /\ is_enabled(cur) => check_action_enabled(cur, a)
  BY <1>0 DEF TypeOK
<1>2. TypeOK'
  <2>1. pending' \in [Thread -> Action \cup {NoAction}]
    BY DEF TypeOK
  <2>2. tstate' \in [Thread -> {"CREATED", "RUNNING", "READY", "BLOCKED", "COMPLETED", "FREED"}]
    BY DEF TypeOK
  <2>3. enabled' \in [Thread -> {"DISABLED", "ENABLED", "SLEEP_SET"}]
    BY DEF TypeOK
  <2>4. asserted' \in BOOLEAN
    BY DEF TypeOK, is_waiting_on
  <2>5. phase' \in {"hung", "scan"}
    OBVIOUS
  <2> QED
    BY <2>1, <2>2, <2>3, <2>4, <2>5 DEF TypeOK, Terminal
<1>3. ActionOK'
  BY <1>0, <1>1 DEF ActionOK
<1>4. \A t \in Thread : is_complete(t)' <=> is_complete(t)
  BY <1>0, <1>1 DEF is_complete
<1>5. StateOK'
  <2> SUFFICES ASSUME NEW t \in Thread
               PROVE  /\ (t \notin Created => tstate[t] = "CREATED" /\ enabled[t] = "DISABLED" /\ resume[t] = "start")'
                      /\ (tstate[t] = "CREATED" => pending[t] = NoAction)'
                      /\ (tstate[t] = "BLOCKED" => enabled[t] = "DISABLED")'
                      /\ (is_complete(t) => enabled[t] = "DISABLED" /\ pending[t] = NoAction)'
                      /\ (tstate[t] # "RUNNING")'
                      /\ (enabled[t] = "SLEEP_SET" => pending[t].type = "THREAD_SLEEP")'
    BY DEF StateOK
  <2>1. CASE t = cur
    BY <2>1, <1>0, <1>1, <1>4 DEF StateOK, Created, is_complete, NoAction
  <2>2. CASE t # cur
    BY <2>2, <1>0, <1>1, <1>4 DEF StateOK, Created
  <2> QED
    BY <2>1, <2>2
<1>6. WaitersOK'
  BY DEF WaitersOK, Created
<1>7. ScanOK'
  <2> SUFFICES ASSUME NEW t \in 1 .. (curr_thread_num - 1), ~is_complete(t)
               PROVE  (pending[t] # NoAction /\ (is_enabled(t) => check_action_enabled(t, pending[t])))'
    BY <1>0, <1>4 DEF ScanOK, PassedOver, Created, Active, TypeOK
  <2>1. t \in Thread \ {cur}
    BY <1>0 DEF TypeOK
  <2>2. pending[t] # NoAction /\ (is_enabled(t) => check_action_enabled(t, pending[t]))
    BY DEF ScanOK, PassedOver, Active
  <2>3. pending[t].type = "PTHREAD_JOIN" => pending[t].thread \in Thread
    BY <2>1 DEF ActionOK
  <2>4. check_action_enabled(t, pending[t])' <=> check_action_enabled(t, pending[t])
    BY <2>1, <2>3, <1>1, <1>4, EnabledSame
  <2> QED
    BY <2>1, <2>2, <2>4, <1>1 DEF is_enabled
<1>8. ChosenOK'
  <2> SUFFICES ASSUME chosen_thread # 0 PROVE ChosenOK'
    BY DEF ChosenOK
  <2>1. /\ chosen_thread \in Created /\ chosen_thread \in Thread
        /\ enabled[chosen_thread] = "ENABLED" /\ ~is_complete(chosen_thread)
        /\ \/ pending[chosen_thread].type \in Priority
           \/ pending[chosen_thread] = NoAction /\ resume[chosen_thread] = "start"
    BY DEF ChosenOK, Active, TypeOK
  <2>2. CASE chosen_thread = cur
    <3>1. a.type = "THREAD_START"
      BY <2>1, <2>2, <1>0 DEF Priority, NoAction
    <3>2. check_action_enabled(cur, a)
      BY <3>1 DEF check_action_enabled
    <3> QED
      BY <3>1, <3>2, <2>1, <2>2, <1>1, <1>4 DEF ChosenOK, Priority, Created
  <2>3. CASE chosen_thread # cur
    BY <2>1, <2>3, <1>1, <1>4 DEF ChosenOK, Created
  <2> QED
    BY <2>2, <2>3
<1>9. MutualExclusion'
  BY DEF MutualExclusion
<1> QED
  BY <1>2, <1>3, <1>5, <1>6, <1>7, <1>8, <1>9

\* The four actions of the program.
LEMMA ProgramInv == IInv /\ (Start \/ Operate \/ Relock \/ Return) => IInv'
<1> SUFFICES ASSUME IInv, Start \/ Operate \/ Relock \/ Return PROVE IInv'
  OBVIOUS
<1>0. TypeOK /\ cur \in Thread
  BY DEF IInv, TypeOK
<1>1. CASE Start
  <2> DEFINE a == [NoAction EXCEPT !.type = "THREAD_START"]
  <2>1. a \in Action /\ a.type = "THREAD_START"
    BY DEF NoAction, Action
  <2>2. switch_thread(a) /\ phase = "user"
    BY <1>1 DEF Start
  <2>3. /\ resume' \in [Thread -> Mutex \cup {"start", "none"}]
        /\ \A t \in Thread \ {cur} : resume'[t] = resume[t]
        /\ ops' \in 0 .. MaxOps
        /\ UNCHANGED <<locked, waiters, held>>
    BY <1>0, <1>1 DEF Start, TypeOK
  <2> HIDE DEF a
  <2> QED
    BY <2>1, <2>2, <2>3, SwitchInv DEF Releases
<1>2. CASE Operate
  <2>1. PICK a \in Operation :
          /\ a.type \in Ops /\ switch_thread(a)
          /\ ops' = IF a.type = "PTHREAD_CREATE" THEN ops ELSE ops + 1
          /\ resume' = IF a.type \in {"ATOMIC_WAIT", "ATOMIC_TIMEDWAIT"}
                       THEN [resume EXCEPT ![cur] = a.mutex] ELSE resume
    BY <1>2 DEF Operate
  <2>2. /\ a \in Action
        /\ a.type \in Releases \cup {"ATOMIC_LOCK", "ATOMIC_TRYLOCK"} => a.mutex \in Mutex
        /\ a.type \in {"ATOMIC_WAIT", "ATOMIC_NOTIFY_ONE", "ATOMIC_NOTIFY_ALL"} => a.cond \in Cond
        /\ a.type = "PTHREAD_JOIN" => a.thread \in Thread
        /\ a.type \in Releases => held[cur][a.mutex] > 0
    BY <1>0 DEF Operation, Waitable, Action, Releases, OpType, Created, TypeOK
  <2>3. phase = "user" /\ resume[cur] = "none" /\ ops' =< MaxOps /\ UNCHANGED <<locked, waiters, held>>
    BY <1>2 DEF Operate, Running
  <2>4. ops' \in 0 .. MaxOps
    BY <2>1, <2>3, <1>0 DEF TypeOK
  <2>5. /\ resume' \in [Thread -> Mutex \cup {"start", "none"}]
        /\ \A t \in Thread \ {cur} : resume'[t] = resume[t]
    BY <2>1, <2>2, <1>0 DEF TypeOK, Releases
  <2> QED
    BY <2>1, <2>2, <2>3, <2>4, <2>5, SwitchInv
<1>3. CASE Relock
  <2> DEFINE a == [NoAction EXCEPT !.type = "ATOMIC_LOCK", !.mutex = resume[cur]]
  <2>1. a \in Action /\ a.type = "ATOMIC_LOCK" /\ a.mutex \in Mutex
    BY <1>3 DEF NoAction, Action, Relock, OpType
  <2>2. switch_thread(a) /\ phase = "user" /\ resume[cur] # "start" /\ UNCHANGED <<locked, waiters, held>>
    BY <1>3 DEF Relock
  <2>3. /\ resume' \in [Thread -> Mutex \cup {"start", "none"}]
        /\ \A t \in Thread \ {cur} : resume'[t] = resume[t]
        /\ ops' \in 0 .. MaxOps
    BY <1>0, <1>3 DEF Relock, TypeOK
  <2> HIDE DEF a
  <2> QED
    BY <2>1, <2>2, <2>3, SwitchInv DEF Releases
<1>4. CASE Return
  <2> DEFINE a == [NoAction EXCEPT !.type = "THREAD_FINISH"]
  <2>1. a \in Action /\ a.type = "THREAD_FINISH"
    BY DEF NoAction, Action
  <2>2. switch_thread(a) /\ phase = "user" /\ resume[cur] = "none" /\ UNCHANGED <<locked, waiters, held>>
    BY <1>4 DEF Return, Running, program
  <2>3. resume' = resume /\ ops' = ops
    BY <1>4 DEF Return, program
  <2>4. resume' \in [Thread -> Mutex \cup {"start", "none"}] /\ ops' \in 0 .. MaxOps
    BY <2>3, <1>0 DEF TypeOK
  <2> HIDE DEF a
  <2> QED
    BY <2>1, <2>2, <2>3, <2>4, SwitchInv DEF Releases
<1> QED
  BY <1>1, <1>2, <1>3, <1>4

-------------------------------------------------------------------------------
(* The steps of the checker.                                               *)

\* Whoever is chosen is a thread that is enabled and can carry out its action;
\* if its action is a notification, a join or the like, no mutex is needed.
LEMMA ChosenThread ==
  ASSUME IInv, NEW t \in Thread, Chosen(t)
  PROVE  /\ t \in Created /\ enabled[t] = "ENABLED" /\ ~is_complete(t)
         /\ pending[t] # NoAction /\ pending[t] \in Action /\ tstate[t] = "READY"
         /\ check_action_enabled(t, pending[t])
<1> USE DEF IInv, Chosen
<1>1. t \in Created /\ enabled[t] = "ENABLED"
  BY DEF ChosenOK, Active, Available
<1>2. ~is_complete(t) /\ is_enabled(t)
  BY <1>1 DEF StateOK, is_enabled
<1>3. pending[t] # NoAction /\ check_action_enabled(t, pending[t])
  BY <1>1, <1>2 DEF ScanOK, Active, PassedOver
<1>4. pending[t] \in Action
  BY <1>3 DEF TypeOK
<1>5. tstate[t] = "READY"
  <2>1. tstate[t] \in {"CREATED", "RUNNING", "READY", "BLOCKED", "COMPLETED", "FREED"}
    BY DEF TypeOK
  <2>2. tstate[t] # "RUNNING" /\ tstate[t] # "CREATED" /\ tstate[t] # "BLOCKED"
    BY <1>1, <1>3 DEF StateOK, Terminal
  <2> QED
    BY <2>1, <2>2, <1>2 DEF is_complete
<1> QED
  BY <1>1, <1>2, <1>3, <1>4, <1>5

\* The assertions of take_step follow.
LEMMA InvAsserts == IInv => TakeStepAsserts
BY ChosenThread DEF TakeStepAsserts

\* What every operation does to the threads, their states and their actions.
LEMMA TakeStepInv ==
  ASSUME IInv, NEW t \in Thread, NEW type, NEW woken, NEW st, NEW en, take_step(t, type, woken, st, en),
         nthreads' \in Thread, nthreads =< nthreads', woken \subseteq 1 .. nthreads',
         \A u \in Thread \ Created : u =< nthreads' => u \in woken,
         \/ st = tstate[t] /\ en = enabled[t]
         \/ st = "BLOCKED" /\ en = "DISABLED"
         \/ st = "COMPLETED" /\ en = "DISABLED" /\ type # "THREAD_SLEEP"
         \/ st = tstate[t] /\ en = "SLEEP_SET" /\ type = "THREAD_SLEEP",
         \A u \in Thread \ {t} : held'[u] = held[u]
  PROVE  /\ wakeup' \in [Thread -> BOOLEAN]
         /\ enabled' \in [Thread -> {"DISABLED", "ENABLED", "SLEEP_SET"}]
         /\ tstate' \in [Thread -> {"CREATED", "RUNNING", "READY", "BLOCKED", "COMPLETED", "FREED"}]
         /\ pending' \in [Thread -> Action \cup {NoAction}]
         /\ ActionOK'
         /\ StateOK'
<1> USE DEF IInv
<1>1. PICK late \in SUBSET Sleepers :
        /\ wakeup' = [u \in Thread |-> wakeup[u] \/ u \in late]
        /\ enabled' = [u \in Thread |-> IF u = t THEN en ELSE IF u \in late \cup woken THEN "ENABLED" ELSE enabled[u]]
  BY DEF take_step
<1>2. /\ Chosen(t) /\ pending[t].type = type /\ resume' = resume /\ phase = "choose"
      /\ tstate' = [u \in Thread |-> IF u = t THEN st ELSE IF u \in woken \cap Created THEN "READY" ELSE tstate[u]]
      /\ pending' = [pending EXCEPT ![t] = IF type = "THREAD_SLEEP" THEN @ ELSE NoAction]
  BY DEF take_step, Chosen
<1>3. /\ t \in Created /\ enabled[t] = "ENABLED" /\ ~is_complete(t) /\ tstate[t] = "READY"
      /\ pending[t] \in Action
  BY <1>2, ChosenThread
<1>4. wakeup' \in [Thread -> BOOLEAN]
  BY <1>1
<1>5. enabled' \in [Thread -> {"DISABLED", "ENABLED", "SLEEP_SET"}]
  BY <1>1, <1>3 DEF TypeOK
<1>6. tstate' \in [Thread -> {"CREATED", "RUNNING", "READY", "BLOCKED", "COMPLETED", "FREED"}]
  BY <1>2, <1>3 DEF TypeOK
<1>7. pending' \in [Thread -> Action \cup {NoAction}]
  BY <1>2, <1>3 DEF TypeOK
<1>8. /\ \A u \in Thread \ {t} : pending'[u] = pending[u]
      /\ type = "THREAD_SLEEP" => pending'[t] = pending[t]
      /\ type # "THREAD_SLEEP" => pending'[t] = NoAction
  BY <1>2 DEF TypeOK
<1>9. ActionOK'
  <2> SUFFICES ASSUME NEW u \in Thread
               PROVE  /\ pending'[u].type \in Releases \cup {"ATOMIC_LOCK", "ATOMIC_TRYLOCK"} => pending'[u].mutex \in Mutex
                      /\ pending'[u].type \in {"ATOMIC_WAIT", "ATOMIC_NOTIFY_ONE", "ATOMIC_NOTIFY_ALL"} => pending'[u].cond \in Cond
                      /\ pending'[u].type = "PTHREAD_JOIN" => pending'[u].thread \in Thread
                      /\ pending'[u].type \in Releases => held'[u][pending'[u].mutex] > 0
    BY DEF ActionOK
  <2>1. CASE u # t
    BY <2>1, <1>8 DEF ActionOK
  <2>2. CASE u = t
    BY <2>2, <1>2, <1>8 DEF Releases, NoAction
  <2> QED
    BY <2>1, <2>2
<1>10. StateOK'
  <2> SUFFICES ASSUME NEW u \in Thread
               PROVE  /\ u \notin Created' => tstate'[u] = "CREATED" /\ enabled'[u] = "DISABLED" /\ resume'[u] = "start"
                      /\ tstate'[u] = "CREATED" => pending'[u] = NoAction
                      /\ tstate'[u] = "BLOCKED" => enabled'[u] = "DISABLED"
                      /\ tstate'[u] \in {"COMPLETED", "FREED"} => enabled'[u] = "DISABLED" /\ pending'[u] = NoAction
                      /\ tstate'[u] # "RUNNING"
                      /\ enabled'[u] = "SLEEP_SET" => pending'[u].type = "THREAD_SLEEP"
    BY DEF StateOK, is_complete
  <2>1. tstate[u] # "RUNNING"
    BY <1>2 DEF StateOK, Terminal
  <2>2. CASE u = t
    BY <2>1, <2>2, <1>1, <1>2, <1>3, <1>8 DEF Created, TypeOK
  <2>3. CASE u # t /\ u \in woken /\ u \in Created
    <3>1. enabled'[u] = "ENABLED" /\ tstate'[u] = "READY"
      BY <2>3, <1>1, <1>2
    <3>2. u \in Created'
      BY <2>3 DEF Created, TypeOK
    <3> QED
      BY <3>1, <3>2
  <2>4. CASE u # t /\ u \notin Created
    <3>1. tstate'[u] = "CREATED" /\ resume'[u] = "start" /\ pending'[u] = NoAction
      BY <2>4, <1>2, <1>8 DEF StateOK
    <3>2. u \notin woken => enabled'[u] = "DISABLED"
      BY <2>4, <1>1 DEF StateOK, Sleepers
    <3>3. u \in woken => enabled'[u] = "ENABLED" /\ u \in Created'
      BY <2>4, <1>1 DEF Created
    <3> QED
      BY <3>1, <3>2, <3>3
  <2>5. CASE u # t /\ u \in Created /\ u \notin woken
    <3>1. tstate'[u] = tstate[u] /\ pending'[u] = pending[u] /\ u \in Created'
      BY <2>5, <1>2, <1>8 DEF Created, TypeOK
    <3>2. u \notin late => enabled'[u] = enabled[u]
      BY <2>5, <1>1
    <3>3. u \in late => enabled'[u] = "ENABLED" /\ enabled[u] = "SLEEP_SET"
      BY <2>5, <1>1 DEF Sleepers
    <3> QED
      BY <2>1, <3>1, <3>2, <3>3 DEF StateOK, is_complete
  <2> QED
    BY <2>2, <2>3, <2>4, <2>5
<1> QED
  BY <1>4, <1>5, <1>6, <1>7, <1>9, <1>10

\* The checker goes on with the first thread, or finishes the execution.
LEMMA OperationInv ==
  ASSUME IInv, NEW t \in Thread, NEW type, NEW woken, NEW st, NEW en, take_step(t, type, woken, st, en),
         nthreads' \in Thread, nthreads =< nthreads', woken \subseteq 1 .. nthreads',
         \A u \in Thread \ Created : u =< nthreads' => u \in woken,
         \/ st = tstate[t] /\ en = enabled[t]
         \/ st = "BLOCKED" /\ en = "DISABLED"
         \/ st = "COMPLETED" /\ en = "DISABLED" /\ type # "THREAD_SLEEP"
         \/ st = tstate[t] /\ en = "SLEEP_SET" /\ type = "THREAD_SLEEP",
         \A u \in Thread \ {t} : held'[u] = held[u],
         \/ startRunExecution /\ chosen_thread' \in Thread \cup {0} /\ ChosenOK'
         \/ phase' = "finish" /\ UNCHANGED <<curr_thread_num, thread_chosen, chosen_thread>>,
         isfinished' \in BOOLEAN,
         locked' \in [Mutex -> Thread \cup {0}], held' \in [Thread -> [Mutex -> Nat]], MutualExclusion',
         waiters' \in [Cond -> SUBSET Thread], WaitersOK'
  PROVE  IInv'
<1>1. /\ wakeup' \in [Thread -> BOOLEAN]
      /\ enabled' \in [Thread -> {"DISABLED", "ENABLED", "SLEEP_SET"}]
      /\ tstate' \in [Thread -> {"CREATED", "RUNNING", "READY", "BLOCKED", "COMPLETED", "FREED"}]
      /\ pending' \in [Thread -> Action \cup {NoAction}]
      /\ ActionOK' /\ StateOK'
  BY TakeStepInv
<1>2. UNCHANGED <<cur, asserted, deadlock, stackfreed, resume, ops>>
  BY DEF take_step
<1>3. /\ phase' \in {"scan", "finish"} /\ curr_thread_num' \in Thread /\ thread_chosen' \in BOOLEAN
      /\ chosen_thread' \in Thread \cup {0}
  <2>1. CASE startRunExecution /\ chosen_thread' \in Thread \cup {0}
    <3>1. phase' = "scan" /\ curr_thread_num' = 1
      BY <2>1 DEF startRunExecution
    <3>2. thread_chosen' \in BOOLEAN
      BY <2>1 DEF startRunExecution
    <3>3. 1 \in Thread
      OBVIOUS
    <3> QED
      BY <2>1, <3>1, <3>2, <3>3
  <2>2. CASE phase' = "finish" /\ UNCHANGED <<curr_thread_num, thread_chosen, chosen_thread>>
    BY <2>2 DEF IInv, TypeOK
  <2> QED
    BY <2>1, <2>2
<1>4. TypeOK'
  BY <1>1, <1>2, <1>3 DEF IInv, TypeOK
<1>5. ScanOK'
  <2>1. CASE startRunExecution
    BY <2>1, <1>4 DEF startRunExecution, ScanOK, PassedOver, Created, TypeOK
  <2>2. CASE phase' = "finish"
    BY <2>2 DEF ScanOK, Active
  <2> QED
    BY <2>1, <2>2
<1>6. ChosenOK'
  BY DEF ChosenOK, Active
<1> QED
  BY <1>1, <1>4, <1>5, <1>6 DEF IInv

\* An operation that goes on and touches no mutex and no condition variable.
LEMMA PlainInv ==
  ASSUME IInv, NEW t \in Thread, NEW type, NEW woken \in SUBSET Created, NEW st, NEW en,
         take_step(t, type, woken, st, en),
         \/ st = tstate[t] /\ en = enabled[t]
         \/ st = "COMPLETED" /\ en = "DISABLED" /\ type # "THREAD_SLEEP"
         \/ st = tstate[t] /\ en = "SLEEP_SET" /\ type = "THREAD_SLEEP",
         chosen_thread' = 0, startRunExecution, UNCHANGED <<nthreads, isfinished, locked, held>>,
         waiters' \in [Cond -> SUBSET Thread], WaitersOK'
  PROVE  IInv'
<1>1. /\ nthreads' \in Thread /\ nthreads =< nthreads' /\ woken \subseteq 1 .. nthreads'
      /\ \A u \in Thread \ Created : u =< nthreads' => u \in woken
  BY DEF IInv, TypeOK, Created
<1>2. /\ isfinished' \in BOOLEAN
      /\ locked' \in [Mutex -> Thread \cup {0}] /\ held' \in [Thread -> [Mutex -> Nat]]
  BY DEF IInv, TypeOK
<1>3. MutualExclusion' /\ ChosenOK'
  BY DEF IInv, MutualExclusion, ChosenOK
<1> QED
  BY <1>1, <1>2, <1>3, OperationInv

\* One that locks or unlocks.
LEMMA MutexInv ==
  ASSUME IInv, NEW t \in Thread, NEW type, NEW woken \in SUBSET Created, NEW st, NEW en,
         take_step(t, type, woken, st, en),
         \/ st = tstate[t] /\ en = enabled[t]
         \/ st = "BLOCKED" /\ en = "DISABLED",
         chosen_thread' = 0, startRunExecution, UNCHANGED <<nthreads, isfinished>>,
         NEW m \in Mutex,
         \/ acquire(t, m) /\ (m \notin Recursive => locked[m] = 0)
         \/ release(t, m) /\ held[t][m] > 0,
         waiters' \in [Cond -> SUBSET Thread], WaitersOK'
  PROVE  IInv'
<1> USE DEF IInv
<1>1. /\ nthreads' \in Thread /\ nthreads =< nthreads' /\ woken \subseteq 1 .. nthreads'
      /\ \A u \in Thread \ Created : u =< nthreads' => u \in woken
      /\ isfinished' \in BOOLEAN
  BY DEF TypeOK, Created
<1>2. locked \in [Mutex -> Thread \cup {0}] /\ held \in [Thread -> [Mutex -> Nat]]
  BY DEF TypeOK
<1>3. PICK n \in Thread \cup {0}, h \in Nat :
        /\ locked' = [locked EXCEPT ![m] = n] /\ held' = [held EXCEPT ![t][m] = h]
        /\ \/ n = t /\ h = held[t][m] + 1 /\ (m \notin Recursive => locked[m] = 0)
           \/ n = 0 /\ h = held[t][m] - 1 /\ held[t][m] > 0
  <2>1. CASE acquire(t, m) /\ (m \notin Recursive => locked[m] = 0)
    <3>1. held[t][m] + 1 \in Nat
      BY <1>2
    <3> QED
      BY <2>1, <3>1 DEF acquire
  <2>2. CASE release(t, m) /\ held[t][m] > 0
    <3>1. held[t][m] - 1 \in Nat
      BY <2>2, <1>2
    <3> QED
      BY <2>2, <3>1 DEF release
  <2> QED
    BY <2>1, <2>2
<1>4. locked' \in [Mutex -> Thread \cup {0}] /\ held' \in [Thread -> [Mutex -> Nat]]
  BY <1>2, <1>3
<1>5. \A u \in Thread \ {t} : held'[u] = held[u]
  BY <1>2, <1>3
<1>6. MutualExclusion'
  <2> SUFFICES ASSUME NEW k \in Mutex \ Recursive, NEW u \in Thread
               PROVE  held'[u][k] = (IF locked'[k] = u THEN 1 ELSE 0)
    BY DEF MutualExclusion
  <2>1. held[u][k] = (IF locked[k] = u THEN 1 ELSE 0)
    BY DEF MutualExclusion
  <2>2. k # m => held'[u][k] = held[u][k] /\ locked'[k] = locked[k]
    BY <1>2, <1>3
  <2>3. CASE k = m /\ u = t
    <3>1. held'[u][k] = h /\ locked'[k] = n
      BY <2>3, <1>2, <1>3
    <3> QED
      BY <2>1, <2>3, <3>1, <1>3
  <2>4. CASE k = m /\ u # t
    <3>1. held'[u][k] = held[u][k] /\ locked'[k] = n
      BY <2>4, <1>2, <1>3
    <3>2. held[t][k] = (IF locked[k] = t THEN 1 ELSE 0)
      BY DEF MutualExclusion
    <3> QED
      BY <2>1, <2>4, <3>1, <3>2, <1>3
  <2> QED
    BY <2>1, <2>2, <2>3, <2>4
<1>7. ChosenOK'
  BY DEF ChosenOK
<1> QED
  BY <1>1, <1>4, <1>5, <1>6, <1>7, OperationInv

\* An operation of t, one case for each.
LEMMA StepInv ==
  ASSUME IInv, NEW t \in Thread, Step(t)
  PROVE  IInv'
<1>0. /\ waiters \in [Cond -> SUBSET Thread] /\ WaitersOK
      /\ UNCHANGED <<nthreads, waiters>> => waiters' \in [Cond -> SUBSET Thread] /\ WaitersOK'
  BY DEF IInv, TypeOK, WaitersOK, Created
<1>1. CASE WakeUp(t)
  <2> USE DEF IInv
  <2>1. /\ enabled' = [enabled EXCEPT ![t] = "ENABLED"] /\ wakeup' = [wakeup EXCEPT ![t] = FALSE]
        /\ pending' = [pending EXCEPT ![t] = NoAction] /\ chosen_thread' = 0
        /\ phase' = "scan" /\ curr_thread_num' = 1 /\ thread_chosen' = FALSE /\ phase = "choose"
        /\ UNCHANGED <<nthreads, tstate, locked, waiters, cur, asserted, isfinished, deadlock, stackfreed,
                       resume, held, ops>>
    BY <1>1 DEF WakeUp, startRunExecution, program, Chosen
  <2>2. t \in Created /\ enabled[t] # "DISABLED"
    BY <1>1, ChosenThread DEF WakeUp, Sleepers
  <2>3. TypeOK'
    <3>1. wakeup' \in [Thread -> BOOLEAN]
      BY <2>1 DEF TypeOK
    <3>2. /\ enabled' \in [Thread -> {"DISABLED", "ENABLED", "SLEEP_SET"}]
          /\ pending' \in [Thread -> Action \cup {NoAction}]
      BY <2>1 DEF TypeOK
    <3>3. phase' \in {"user", "scan", "choose", "finish"} /\ curr_thread_num' \in Thread
      BY <2>1
    <3>4. thread_chosen' \in BOOLEAN
      BY <2>1
    <3> QED
      BY <3>1, <3>2, <3>3, <3>4, <2>1 DEF TypeOK
  <2>4. ActionOK'
    BY <2>1 DEF ActionOK, NoAction, Releases, TypeOK
  <2>5. StateOK'
    <3> SUFFICES ASSUME NEW u \in Thread
                 PROVE  /\ u \notin Created => tstate'[u] = "CREATED" /\ enabled'[u] = "DISABLED" /\ resume'[u] = "start"
                        /\ tstate'[u] = "CREATED" => pending'[u] = NoAction
                        /\ tstate'[u] = "BLOCKED" => enabled'[u] = "DISABLED"
                        /\ tstate'[u] \in {"COMPLETED", "FREED"} => enabled'[u] = "DISABLED" /\ pending'[u] = NoAction
                        /\ tstate'[u] # "RUNNING"
                        /\ enabled'[u] = "SLEEP_SET" => pending'[u].type = "THREAD_SLEEP"
      BY <2>1 DEF StateOK, is_complete, Created
    <3>1. CASE u = t
      BY <3>1, <2>1, <2>2 DEF StateOK, is_complete, Terminal, TypeOK
    <3>2. CASE u # t
      BY <3>2, <2>1 DEF StateOK, is_complete, Terminal, TypeOK
    <3> QED
      BY <3>1, <3>2
  <2>6. WaitersOK' /\ MutualExclusion' /\ ChosenOK'
    BY <2>1 DEF WaitersOK, Created, MutualExclusion, ChosenOK
  <2>7. ScanOK'
    BY <2>1, <2>3 DEF ScanOK, PassedOver, Created, TypeOK
  <2> QED
    BY <2>3, <2>4, <2>5, <2>6, <2>7
<1>2. CASE ThreadStart(t) \/ Yield(t) \/ Join(t)
  <2>1. PICK type : go_on(t, type, {}) /\ UNCHANGED <<locked, waiters, held>>
    BY <1>2 DEF ThreadStart, Yield, Join
  <2> QED
    BY <2>1, <1>0, PlainInv DEF go_on
<1>3. CASE PthreadCreate(t)
  <2> DEFINE child == nthreads + 1
  <2>1. /\ take_step(t, "PTHREAD_CREATE", {child}, tstate[t], enabled[t])
        /\ child \in Thread /\ nthreads' = child /\ chosen_thread' = child
        /\ startRunExecution /\ UNCHANGED <<isfinished, locked, waiters, held>>
    BY <1>3 DEF PthreadCreate
  <2>2. nthreads \in Thread
    BY DEF IInv, TypeOK
  <2>3. /\ nthreads' \in Thread /\ nthreads =< nthreads' /\ {child} \subseteq 1 .. nthreads'
        /\ \A u \in Thread \ Created : u =< nthreads' => u \in {child}
    BY <2>1, <2>2 DEF Created
  <2>4. /\ isfinished' \in BOOLEAN
        /\ locked' \in [Mutex -> Thread \cup {0}] /\ held' \in [Thread -> [Mutex -> Nat]] /\ MutualExclusion'
        /\ waiters' \in [Cond -> SUBSET Thread] /\ WaitersOK'
    BY <2>1, <2>2 DEF IInv, TypeOK, MutualExclusion, WaitersOK, Created
  <2>5. t \in Created /\ child \notin Created /\ t # child
    BY <2>1, <2>2, ChosenThread DEF take_step, Created
  <2>6. ChosenOK'
    <3>1. tstate[child] = "CREATED" /\ pending[child] = NoAction /\ resume[child] = "start"
      BY <2>1, <2>5 DEF IInv, StateOK
    <3>2. enabled'[child] = "ENABLED" /\ tstate'[child] = "CREATED" /\ pending'[child] = NoAction /\ resume'[child] = "start"
      BY <3>1, <2>1, <2>5 DEF take_step, IInv, TypeOK
    <3> QED
      BY <3>2, <2>1, <2>2 DEF ChosenOK, Created, is_complete
  <2> DEFINE woken == {child}
  <2>7. /\ take_step(t, "PTHREAD_CREATE", woken, tstate[t], enabled[t]) /\ woken \subseteq 1 .. nthreads'
        /\ \A u \in Thread \ Created : u =< nthreads' => u \in woken
        /\ startRunExecution /\ chosen_thread' \in Thread \cup {0}
        /\ \A u \in Thread \ {t} : held'[u] = held[u]
    BY <2>1, <2>3
  <2> HIDE DEF child, woken
  <2> QED
    BY <2>3, <2>4, <2>6, <2>7, OperationInv
<1>4. CASE Lock(t) \/ TryLock(t)
  <2> DEFINE m == pending[t].mutex
  <2>1. PICK type \in {"ATOMIC_LOCK", "ATOMIC_TRYLOCK"} :
          /\ go_on(t, type, {}) /\ waiters' = waiters
          /\ \/ acquire(t, m) /\ (type = "ATOMIC_TRYLOCK" => locked[m] = 0)
             \/ UNCHANGED <<locked, held>>
    BY <1>4 DEF Lock, TryLock
  <2>2. /\ take_step(t, type, {}, tstate[t], enabled[t]) /\ Chosen(t) /\ pending[t].type = type
        /\ chosen_thread' = 0 /\ startRunExecution /\ UNCHANGED <<nthreads, isfinished>>
    BY <2>1 DEF go_on, take_step
  <2>3. m \in Mutex
    BY <2>2 DEF IInv, ActionOK
  <2>4. CASE acquire(t, m) /\ (type = "ATOMIC_TRYLOCK" => locked[m] = 0)
    <3>1. m \notin Recursive => locked[m] = 0
      <4>1. check_action_enabled(t, pending[t])
        BY <2>2, ChosenThread
      <4>2. CASE type = "ATOMIC_LOCK"
        BY <4>1, <4>2, <2>2 DEF check_action_enabled
      <4> QED
        BY <4>2, <2>4
    <3> HIDE DEF m
    <3> QED
      BY <3>1, <2>1, <2>2, <2>3, <2>4, <1>0, MutexInv
  <2>5. CASE UNCHANGED <<locked, held>>
    BY <2>1, <2>2, <2>5, <1>0, PlainInv
  <2> QED
    BY <2>1, <2>4, <2>5
<1>5. CASE Unlock(t) \/ Wait(t)
  <2> DEFINE m == pending[t].mutex
  <2>1. PICK type \in Releases, st \in {tstate[t], "BLOCKED"}, en \in {enabled[t], "DISABLED"} :
          /\ take_step(t, type, AwaitUnlock(t), st, en)
          /\ \/ st = tstate[t] /\ en = enabled[t]
             \/ st = "BLOCKED" /\ en = "DISABLED"
          /\ release(t, m) /\ chosen_thread' = 0 /\ startRunExecution /\ UNCHANGED <<nthreads, isfinished>>
          /\ \/ waiters' = waiters
             \/ type = "ATOMIC_WAIT" /\ waiters' = [waiters EXCEPT ![pending[t].cond] = @ \cup {t}]
    <3>1. CASE Unlock(t)
      BY <3>1 DEF Unlock, go_on, Releases
    <3>2. CASE Wait(t)
      BY <3>2 DEF Wait, Releases
    <3> QED
      BY <1>5, <3>1, <3>2
  <2>2. Chosen(t) /\ pending[t].type = type
    BY <2>1 DEF take_step
  <2>3. m \in Mutex /\ held[t][m] > 0 /\ (type = "ATOMIC_WAIT" => pending[t].cond \in Cond)
    BY <2>2 DEF IInv, ActionOK, Releases
  <2>4. t \in Created
    BY <2>2, ChosenThread
  <2>5. waiters' \in [Cond -> SUBSET Thread] /\ WaitersOK'
    <3>1. CASE waiters' = waiters
      BY <3>1, <2>1, <1>0
    <3>2. CASE type = "ATOMIC_WAIT" /\ waiters' = [waiters EXCEPT ![pending[t].cond] = @ \cup {t}]
      BY <3>2, <2>1, <2>3, <2>4, <1>0 DEF WaitersOK, Created
    <3> QED
      BY <2>1, <3>1, <3>2
  <2>6. AwaitUnlock(t) \in SUBSET Created
    BY DEF AwaitUnlock
  <2> HIDE DEF m
  <2> QED
    BY <2>1, <2>3, <2>5, <2>6, MutexInv
<1>6. CASE NotifyAll(t) \/ NotifyOne(t)
  <2> DEFINE c == pending[t].cond
  <2>1. PICK type \in {"ATOMIC_NOTIFY_ONE", "ATOMIC_NOTIFY_ALL"}, ws \in SUBSET waiters[c] :
          /\ go_on(t, type, Notified(ws)) /\ waiters' = [waiters EXCEPT ![c] = @ \ ws]
          /\ UNCHANGED <<locked, held>>
    <3>1. CASE NotifyAll(t)
      <4>1. waiters' = [waiters EXCEPT ![c] = @ \ waiters[c]]
        BY <3>1 DEF NotifyAll
      <4> QED
        BY <3>1, <4>1 DEF NotifyAll
    <3>2. CASE NotifyOne(t)
      <4>1. PICK one \in IF waiters[c] = {} THEN {{}} ELSE {{u} : u \in waiters[c]} :
              /\ go_on(t, "ATOMIC_NOTIFY_ONE", Notified(one)) /\ waiters' = [waiters EXCEPT ![c] = @ \ one]
        BY <3>2 DEF NotifyOne
      <4>2. one \in SUBSET waiters[c]
        BY <4>1
      <4> QED
        BY <3>2, <4>1, <4>2 DEF NotifyOne
    <3> QED
      BY <1>6, <3>1, <3>2
  <2>2. /\ take_step(t, type, Notified(ws), tstate[t], enabled[t]) /\ pending[t].type = type
        /\ chosen_thread' = 0 /\ startRunExecution /\ UNCHANGED <<nthreads, isfinished>>
    BY <2>1 DEF go_on, take_step
  <2>3. c \in Cond
    BY <2>2 DEF IInv, ActionOK
  <2>4. waiters' \in [Cond -> SUBSET Thread] /\ WaitersOK'
    BY <2>1, <2>2, <2>3, <1>0 DEF WaitersOK, Created
  <2>5. Notified(ws) \in SUBSET Created
    BY <2>3, <1>0 DEF Notified, WaitersOK
  <2> QED
    BY <2>1, <2>2, <2>4, <2>5, PlainInv
<1>7. CASE ThreadSleep(t)
  BY <1>7, <1>0, PlainInv DEF ThreadSleep
<1>8. CASE ThreadFinish(t)
  <2>1. PICK type \in {"THREAD_FINISH", "THREADONLY_FINISH"} : take_step(t, type, AwaitEnd(t), "COMPLETED", "DISABLED")
    BY <1>8 DEF ThreadFinish
  <2>2. chosen_thread' = 0 /\ startRunExecution /\ UNCHANGED <<nthreads, isfinished, locked, waiters, held>>
    BY <1>8 DEF ThreadFinish
  <2>3. AwaitEnd(t) \in SUBSET Created
    BY DEF AwaitEnd
  <2> QED
    BY <2>1, <2>2, <2>3, <1>0, PlainInv
<1>9. CASE ProgramFinish(t)
  <2>1. PICK type \in {"THREAD_FINISH", "THREAD_FINISHALL"} : take_step(t, type, {}, "COMPLETED", "DISABLED")
    BY <1>9 DEF ProgramFinish
  <2>2. /\ isfinished' = TRUE /\ phase' = "finish"
        /\ UNCHANGED <<nthreads, locked, waiters, held, curr_thread_num, thread_chosen, chosen_thread>>
    BY <1>9 DEF ProgramFinish
  <2>3. /\ nthreads' \in Thread /\ nthreads =< nthreads'
        /\ \A u \in Thread \ Created : u =< nthreads' => u \in {}
    BY <2>2 DEF IInv, TypeOK, Created
  <2>4. /\ isfinished' \in BOOLEAN
        /\ locked' \in [Mutex -> Thread \cup {0}] /\ held' \in [Thread -> [Mutex -> Nat]] /\ MutualExclusion'
    BY <2>2 DEF IInv, TypeOK, MutualExclusion
  <2> QED
    BY <2>1, <2>2, <2>3, <2>4, <1>0, OperationInv
<1> QED
  BY <1>1, <1>2, <1>3, <1>4, <1>5, <1>6, <1>7, <1>8, <1>9 DEF Step

\* getNextThread passes over threads and resumes one, or lets one be chosen.
LEMMA ScanInv ==
  ASSUME IInv, getNextThread
  PROVE  IInv'
<1> USE DEF IInv
<1> DEFINE idle    == {t \in curr_thread_num .. nthreads : ~is_complete(t) /\ pending[t] = NoAction}
           next    == Min(idle)
           over    == curr_thread_num .. (IF idle = {} THEN nthreads ELSE next - 1)
           blocked == Blocked(over)
           freed   == Freed(over)
           first   == First(over)
<1>1. /\ phase = "scan"
      /\ enabled' = [t \in Thread |-> IF t \in blocked THEN "DISABLED" ELSE enabled[t]]
      /\ tstate' = [t \in Thread |->
                      IF t \in blocked THEN "BLOCKED"
                      ELSE IF t \in freed THEN "FREED"
                      ELSE IF idle # {} /\ t = next THEN "RUNNING"
                      ELSE tstate[t]]
      /\ stackfreed' = stackfreed \cup freed
      /\ thread_chosen' = (thread_chosen \/ first # {})
      /\ chosen_thread' = IF ~thread_chosen /\ first # {} THEN Min(first) ELSE chosen_thread
      /\ \/ idle = {} /\ phase' = "choose" /\ UNCHANGED <<cur, curr_thread_num>>
         \/ idle # {} /\ cur' = next /\ curr_thread_num' = next /\ phase' \in {"undefined", "user"}
      /\ UNCHANGED <<nthreads, pending, wakeup, locked, waiters, asserted, isfinished, deadlock, resume, held, ops>>
  BY DEF getNextThread, program
<1>2. nthreads \in Thread /\ curr_thread_num \in Created /\ Created \subseteq Thread
  BY <1>1 DEF ScanOK, Active, TypeOK, Created
<1>3. idle # {} =>
        next \in Created /\ next \in curr_thread_num .. nthreads /\ ~is_complete(next) /\ pending[next] = NoAction
        /\ \A t \in idle : next =< t
  <2>1. idle \in SUBSET Nat
    BY <1>2 DEF Created
  <2>2. idle # {} => next \in idle /\ \A t \in idle : next =< t
    <3> HIDE DEF idle
    <3> QED
      BY <2>1, LeastOf
  <2>3. next \in idle =>
          next \in Created /\ next \in curr_thread_num .. nthreads /\ ~is_complete(next) /\ pending[next] = NoAction
    <3> SUFFICES ASSUME NEW n \in idle
                 PROVE  n \in Created /\ n \in curr_thread_num .. nthreads /\ ~is_complete(n) /\ pending[n] = NoAction
      OBVIOUS
    <3> QED
      BY <1>2 DEF Created
  <2> QED
    BY <2>2, <2>3
<1>4. /\ over \subseteq Created
      /\ \A t \in over : ~is_complete(t) => pending[t] # NoAction
      /\ idle # {} => next \notin over
      /\ idle = {} => Created \subseteq 1 .. (curr_thread_num - 1) \cup over
      /\ idle # {} => 1 .. (next - 1) \subseteq 1 .. (curr_thread_num - 1) \cup over
  <2>1. CASE idle = {}
    <3>1. over = curr_thread_num .. nthreads
      BY <2>1
    <3>2. \A t \in curr_thread_num .. nthreads : ~is_complete(t) => pending[t] # NoAction
      BY <2>1
    <3> HIDE DEF over, idle
    <3> QED
      BY <2>1, <3>1, <3>2, <1>2 DEF Created
  <2>2. CASE idle # {}
    <3>1. over = curr_thread_num .. (next - 1)
      BY <2>2
    <3>2. next \in Created /\ next \in curr_thread_num .. nthreads /\ \A t \in idle : next =< t
      BY <2>2, <1>3
    <3>3. \A t \in curr_thread_num .. nthreads : t \notin idle => (~is_complete(t) => pending[t] # NoAction)
      OBVIOUS
    <3> HIDE DEF over, idle, next
    <3> QED
      BY <2>2, <3>1, <3>2, <3>3, <1>2 DEF Created
  <2> QED
    BY <2>1, <2>2
<1>5. /\ blocked = {t \in over : is_enabled(t) /\ pending[t] # NoAction /\ ~check_action_enabled(t, pending[t])}
      /\ freed = {t \in over : tstate[t] = "COMPLETED" /\ t # cur}
      /\ first = {t \in over \ blocked : is_enabled(t) /\ tstate[t] # "BLOCKED" /\ pending[t].type \in Priority}
  BY DEF Blocked, Freed, First
<1> HIDE DEF idle, next, over, blocked, freed, first
<1>6. /\ \A t \in blocked : t \in Created /\ ~is_complete(t) /\ pending[t] # NoAction
      /\ \A t \in freed : t \in Created /\ tstate[t] = "COMPLETED"
  BY <1>2, <1>4, <1>5 DEF StateOK, is_enabled
<1>7. \A t \in Thread : is_complete(t)' <=> is_complete(t)
  BY <1>1, <1>3, <1>6 DEF is_complete
<1>8. first # {} => Min(first) \in first /\ first \subseteq Created
  <2>1. first \in SUBSET Nat
    <3>1. first \subseteq over
      BY <1>5
    <3>2. first \subseteq Thread
      BY <3>1, <1>2, <1>4
    <3>3. \A t \in Thread : t \in Nat
      OBVIOUS
    <3> QED
      BY <3>2, <3>3
  <2> QED
    BY <2>1, <1>4, <1>5, LeastOf
<1>9. TypeOK'
  <2>1. /\ enabled' \in [Thread -> {"DISABLED", "ENABLED", "SLEEP_SET"}]
        /\ tstate' \in [Thread -> {"CREATED", "RUNNING", "READY", "BLOCKED", "COMPLETED", "FREED"}]
    BY <1>1 DEF TypeOK
  <2>2. stackfreed' \subseteq Thread
    BY <1>1, <1>2, <1>6 DEF TypeOK
  <2>3. thread_chosen' \in BOOLEAN
    BY <1>1
  <2>4. chosen_thread' \in Thread \cup {0}
    BY <1>1, <1>2, <1>8 DEF TypeOK
  <2>5. cur' \in Thread /\ curr_thread_num' \in Thread
    BY <1>1, <1>2, <1>3 DEF TypeOK
  <2>6. phase' \in {"user", "scan", "choose", "finish"} \cup Terminal
    BY <1>1 DEF Terminal
  <2> QED
    BY <2>1, <2>2, <2>3, <2>4, <2>5, <2>6, <1>1 DEF TypeOK
<1>10. ActionOK'
  BY <1>1 DEF ActionOK
<1>11. StateOK'
  <2> SUFFICES ASSUME NEW t \in Thread
               PROVE  /\ t \notin Created => tstate'[t] = "CREATED" /\ enabled'[t] = "DISABLED" /\ resume'[t] = "start"
                      /\ tstate'[t] = "CREATED" => pending'[t] = NoAction
                      /\ tstate'[t] = "BLOCKED" => enabled'[t] = "DISABLED"
                      /\ is_complete(t)' => enabled'[t] = "DISABLED" /\ pending'[t] = NoAction
                      /\ tstate'[t] = "RUNNING" => t = cur' /\ (phase' = "user" \/ phase' \in Terminal)
                      /\ enabled'[t] = "SLEEP_SET" => pending'[t].type = "THREAD_SLEEP"
    BY <1>1 DEF StateOK, Created
  <2>1. tstate[t] # "RUNNING"
    BY <1>1 DEF StateOK, Terminal
  <2>2. CASE t \in blocked
    BY <2>2, <1>1, <1>6, <1>7
  <2>3. CASE t \in freed /\ t \notin blocked
    BY <2>3, <1>1, <1>6, <1>7 DEF StateOK, is_complete
  <2>4. CASE t \notin freed \cup blocked /\ idle # {} /\ t = next
    BY <2>4, <1>1, <1>3, <1>7 DEF StateOK, Terminal
  <2>5. CASE t \notin freed \cup blocked /\ ~(idle # {} /\ t = next)
    BY <2>1, <2>5, <1>1, <1>7 DEF StateOK
  <2> QED
    BY <2>2, <2>3, <2>4, <2>5
<1>12. WaitersOK' /\ MutualExclusion'
  BY <1>1 DEF WaitersOK, Created, MutualExclusion
<1>13. ScanOK'
  <2>1. \A t \in Created : t \in 1 .. (curr_thread_num - 1) \cup over =>
          (~is_complete(t) => pending[t] # NoAction /\ (is_enabled(t) => check_action_enabled(t, pending[t])))'
    <3> SUFFICES ASSUME NEW t \in Created, t \in 1 .. (curr_thread_num - 1) \cup over, ~is_complete(t)
                 PROVE  (pending[t] # NoAction /\ (is_enabled(t) => check_action_enabled(t, pending[t])))'
      BY <1>2, <1>7
    <3>1. pending[t] # NoAction /\ (is_enabled(t) /\ t \notin blocked => check_action_enabled(t, pending[t]))
      BY <1>1, <1>4, <1>5 DEF ScanOK, Active, PassedOver
    <3>2. check_action_enabled(t, pending[t])' <=> check_action_enabled(t, pending[t])
      BY <1>1, <1>2, <1>7, EnabledSame DEF ActionOK
    <3>3. is_enabled(t)' => is_enabled(t) /\ t \notin blocked
      BY <1>1, <1>2 DEF is_enabled
    <3> QED
      BY <3>1, <3>2, <3>3, <1>1
  <2>2. CASE idle = {}
    BY <2>1, <2>2, <1>1, <1>2, <1>4 DEF ScanOK, PassedOver, Created
  <2>3. CASE idle # {}
    <3>1. /\ cur' = next /\ curr_thread_num' = next /\ phase' # "choose" /\ next \in Created'
          /\ pending'[next] = NoAction
      BY <2>3, <1>1, <1>3 DEF Created
    <3>2. tstate'[next] = "RUNNING"
      BY <2>3, <1>1, <1>2, <1>3, <1>4, <1>5
    <3>3. PassedOver' = 1 .. (next - 1) /\ PassedOver' \subseteq Created
      BY <3>1, <2>3, <1>3 DEF PassedOver, Created, TypeOK
    <3> QED
      BY <2>1, <2>3, <3>1, <3>2, <3>3, <1>4 DEF ScanOK
  <2> QED
    BY <2>2, <2>3
<1>14. ChosenOK'
  <2> SUFFICES ASSUME Active', chosen_thread' # 0 PROVE ChosenOK'
    BY DEF ChosenOK
  <2>1. CASE chosen_thread' = Min(first) /\ first # {}
    <3>0. PICK t \in Created : t = Min(first)
      BY <2>1, <1>8
    <3>1. t \in Created /\ t \notin blocked /\ enabled[t] # "DISABLED" /\ pending[t].type \in Priority
      BY <3>0, <2>1, <1>5, <1>8 DEF is_enabled
    <3>2. t \in Thread /\ enabled[t] = "ENABLED" /\ ~is_complete(t)
      BY <3>1, <1>2 DEF StateOK, TypeOK, Priority
    <3>3. enabled'[t] = "ENABLED" /\ ~is_complete(t)' /\ pending'[t] = pending[t] /\ t \in Created'
      BY <3>1, <3>2, <1>1, <1>7 DEF Created
    <3>4. chosen_thread' = t
      BY <3>0, <2>1
    <3> QED
      BY <3>1, <3>3, <3>4 DEF ChosenOK
  <2>2. CASE chosen_thread' = chosen_thread
    <3>0. PICK t \in Created : t = chosen_thread
      BY <2>2, <1>1 DEF ChosenOK, Active
    <3>1. /\ t \in Created /\ enabled[t] = "ENABLED" /\ ~is_complete(t)
          /\ pending[t].type \in Priority \/ (pending[t] = NoAction /\ resume[t] = "start")
      BY <3>0, <2>2, <1>1 DEF ChosenOK, Active
    <3>2. t \notin blocked
      BY <3>1, <1>5 DEF check_action_enabled, Priority, NoAction
    <3>3. enabled'[t] = "ENABLED" /\ ~is_complete(t)' /\ t \in Created'
      BY <3>1, <3>2, <1>1, <1>2, <1>7 DEF Created
    <3> QED
      BY <3>0, <3>1, <3>3, <2>2, <1>1 DEF ChosenOK
  <2> QED
    BY <2>1, <2>2, <1>1
<1> QED
  BY <1>9, <1>10, <1>11, <1>12, <1>13, <1>14

\* Every step.
LEMMA NextInv == IInv /\ [Next]_vars => IInv'
<1> SUFFICES ASSUME IInv, [Next]_vars PROVE IInv'
  OBVIOUS
<1>1. CASE Start \/ Operate \/ Relock \/ Return
  BY <1>1, ProgramInv
<1>2. CASE getNextThread
  BY <1>2, ScanInv
<1>3. CASE finish_execution
  <2>1. phase \in {"finish", "choose"} /\ phase' = "done" /\ deadlock' \in BOOLEAN
    BY <1>3 DEF finish_execution, is_deadlocked, IInv, TypeOK
  <2>2. UNCHANGED <<nthreads, tstate, pending, wakeup, enabled, locked, waiters, cur, curr_thread_num,
                    thread_chosen, chosen_thread, asserted, isfinished, stackfreed, resume, held, ops>>
    BY <1>3 DEF finish_execution, program
  <2> QED
    BY <2>1, <2>2 DEF IInv, TypeOK, ActionOK, StateOK, WaitersOK, ScanOK, ChosenOK, MutualExclusion, Active,
                      Created, is_complete, Terminal
<1>4. CASE UNCHANGED vars
  BY <1>4 DEF vars, IInv, TypeOK, ActionOK, StateOK, WaitersOK, ScanOK, ChosenOK, MutualExclusion, Active,
              Created, is_complete, is_enabled, check_action_enabled, PassedOver
<1>5. CASE \E t \in Thread : Step(t)
  BY <1>5, StepInv
<1> QED
  BY <1>1, <1>2, <1>3, <1>4, <1>5 DEF Next, Done

-------------------------------------------------------------------------------
(* The theorems.                                                           *)

\* The invariant and, with it, the shape of the state.
THEOREM TypeCorrect == Spec => []TypeOK
<1>1. IInv => TypeOK
  BY DEF IInv
<1> QED
  BY <1>1, InitInv, NextInv, PTL DEF Spec

\* The assertions of take_step never fail: however mutexes changed hands and
\* whoever was woken since an action was stashed, it is carried out only when
\* it can be, by a thread that is ready.
THEOREM TakeStepAssertsTheorem == Spec => []TakeStepAsserts
BY InitInv, NextInv, InvAsserts, PTL DEF Spec

\* A mutex that is not recursive is held by at most one thread, the one the
\* mutex names, whatever the program does with it (process_mutex).
THEOREM MutualExclusionTheorem == Spec => []MutualExclusion
<1>1. IInv => MutualExclusion
  BY DEF IInv
<1> QED
  BY <1>1, InitInv, NextInv, PTL DEF Spec

-------------------------------------------------------------------------------
(* A disabled thread that has not ended has an excuse: it is listed at a   *)
(* condition variable, or its action cannot be carried out.  Operations    *)
(* that take the excuse away from a thread enable it: an unlock those      *)
(* whose mutex it unlocks, because the thread that unlocks a mutex is the  *)
(* one the mutex names (MutualExclusion), the end of a thread those that   *)
(* join it, a notification those it takes off the list.                    *)

Listed(t) == \E c \in Cond : t \in waiters[c]

Excused(t) ==
  \/ Listed(t) /\ (tstate[t] # "BLOCKED" \/ pending[t] = NoAction)
  \/ pending[t] # NoAction /\ (~check_action_enabled(t, pending[t]) \/ pending[t].mutex \in Recursive)

AwakeOK == Active => \A t \in Created : ~is_enabled(t) /\ ~is_complete(t) => Excused(t)

\* Once every thread has an action, an excuse is what NoMissedWakeUp allows.
LEMMA AwakeEnough == IInv /\ AwakeOK => NoMissedWakeUp
<1> SUFFICES ASSUME IInv, AwakeOK, phase = "choose", NEW t \in Created, ~is_enabled(t), ~is_complete(t)
             PROVE  \/ tstate[t] = "READY" /\ \E c \in Cond : t \in waiters[c]
                    \/ ~check_action_enabled(t, pending[t])
                    \/ pending[t].mutex \in Recursive
  BY DEF NoMissedWakeUp
<1> USE DEF IInv
<1>1. Excused(t)
  BY DEF AwakeOK, Active
<1>2. t \in Thread /\ pending[t] # NoAction
  BY DEF ScanOK, Active, PassedOver, TypeOK, Created
<1>3. tstate[t] # "BLOCKED" => tstate[t] = "READY"
  BY <1>2 DEF StateOK, TypeOK, is_complete, Terminal
<1> QED
  BY <1>1, <1>2, <1>3 DEF Excused, Listed

\* An excuse lasts while the thread and its action stay the same, it stays
\* listed, and its mutex stays locked or the thread it joins goes on.
LEMMA ExcuseLasts ==
  ASSUME NEW t, Excused(t), pending'[t] = pending[t], tstate'[t] = tstate[t],
         Listed(t) => Listed(t)',
         pending[t].type = "ATOMIC_LOCK" /\ locked[pending[t].mutex] # 0 /\ pending[t].mutex \notin Recursive =>
           locked'[pending[t].mutex] # 0,
         pending[t].type = "PTHREAD_JOIN" /\ ~is_complete(pending[t].thread) => ~is_complete(pending[t].thread)'
  PROVE  Excused(t)'
<1>1. CASE Listed(t) /\ (tstate[t] # "BLOCKED" \/ pending[t] = NoAction)
  BY <1>1 DEF Excused
<1>2. CASE pending[t] # NoAction /\ pending[t].mutex \in Recursive
  BY <1>2 DEF Excused
<1>3. CASE pending[t] # NoAction /\ ~check_action_enabled(t, pending[t]) /\ pending[t].mutex \notin Recursive
  <2>1. CASE pending[t].type = "ATOMIC_LOCK"
    <3>1. locked'[pending[t].mutex] # 0
      BY <2>1, <1>3 DEF check_action_enabled
    <3>2. ~check_action_enabled(t, pending[t])'
      BY <2>1, <3>1, <1>3 DEF check_action_enabled
    <3> QED
      BY <3>2, <1>3 DEF Excused
  <2>2. CASE pending[t].type = "PTHREAD_JOIN"
    <3>1. ~is_complete(pending[t].thread)
      BY <2>2, <1>3 DEF check_action_enabled
    <3>2. ~is_complete(pending[t].thread)'
      BY <2>2, <3>1
    <3>3. pending'[t].type = "PTHREAD_JOIN"
      BY <2>2
    <3>4. ~check_action_enabled(t, pending[t])'
      BY <3>2, <3>3 DEF check_action_enabled
    <3> QED
      BY <3>4, <1>3 DEF Excused
  <2>3. check_action_enabled(t, pending[t]) \/ pending[t].type \in {"ATOMIC_LOCK", "PTHREAD_JOIN"}
    BY DEF check_action_enabled
  <2> QED
    BY <2>1, <2>2, <2>3, <1>3
<1> QED
  BY <1>1, <1>2, <1>3 DEF Excused

\* The steps of the program: cur has no action, and so it is listed if it is
\* disabled; put to sleep by switch_thread, its action cannot be carried out.
LEMMA SwitchAwake ==
  ASSUME IInv, AwakeOK, phase = "user", NEW a \in Action, switch_thread(a), a # NoAction,
         a.type = "PTHREAD_JOIN" => a.thread \in Thread,
         UNCHANGED <<locked, waiters>>
  PROVE  AwakeOK'
<1> USE DEF IInv
<1>0. /\ cur \in Created /\ tstate[cur] = "RUNNING" /\ pending[cur] = NoAction /\ cur \in Thread
      /\ nthreads' = nthreads
  BY DEF ScanOK, Active, TypeOK, switch_thread
<1>1. /\ \A t \in Thread \ {cur} : pending'[t] = pending[t] /\ tstate'[t] = tstate[t] /\ enabled'[t] = enabled[t]
      /\ pending'[cur] = a
      /\ \/ tstate'[cur] = "BLOCKED" /\ enabled'[cur] = "DISABLED" /\ ~check_action_enabled(cur, a)
         \/ tstate'[cur] = "READY" /\ enabled'[cur] = enabled[cur]
  BY <1>0 DEF TypeOK, switch_thread
<1>2. \A t \in Thread : is_complete(t)' <=> is_complete(t)
  BY <1>0, <1>1 DEF is_complete
<1> SUFFICES ASSUME NEW t \in Created, ~is_enabled(t)', ~is_complete(t)
             PROVE  Excused(t)'
  BY <1>0, <1>2 DEF AwakeOK, Created, TypeOK
<1>3. t \in Thread
  BY DEF Created, TypeOK
<1>4. CASE t # cur
  <2>1. Excused(t)
    BY <1>1, <1>3, <1>4 DEF AwakeOK, Active, is_enabled
  <2> QED
    BY <2>1, <1>1, <1>2, <1>3, <1>4, ExcuseLasts DEF Listed, ActionOK
<1>5. CASE t = cur /\ tstate'[cur] = "READY" /\ enabled'[cur] = enabled[cur]
  <2>1. Excused(cur)
    BY <1>0, <1>5 DEF AwakeOK, Active, is_enabled
  <2>2. Listed(t)'
    BY <2>1, <1>0, <1>5 DEF Excused, Listed
  <2> QED
    BY <2>2, <1>5 DEF Excused
<1>6. CASE t = cur /\ ~check_action_enabled(cur, a)
  <2>1. ~check_action_enabled(cur, pending[cur])'
    <3>1. cur' = cur
      BY DEF switch_thread
    <3>2. CASE a.type = "PTHREAD_JOIN"
      <4>1. ~is_complete(a.thread)
        BY <3>2, <1>6 DEF check_action_enabled
      <4>2. ~is_complete(pending[cur].thread)'
        BY <3>1, <3>2, <4>1, <1>1, <1>2
      <4>3. pending'[cur'].type = "PTHREAD_JOIN"
        BY <3>1, <3>2, <1>1
      <4> QED
        BY <4>2, <4>3 DEF check_action_enabled
    <3>3. CASE a.type # "PTHREAD_JOIN"
      BY <3>1, <3>3, <1>1, <1>6 DEF check_action_enabled
    <3> QED
      BY <3>2, <3>3
  <2>2. cur' = cur /\ pending'[cur] # NoAction
    BY <1>1 DEF switch_thread
  <2> QED
    BY <2>1, <2>2, <1>6 DEF Excused
<1> QED
  BY <1>1, <1>4, <1>5, <1>6

\* getNextThread disables only threads whose actions cannot be carried out; a
\* thread it resumes has no action, so that it is listed if it is disabled.
LEMMA ScanAwake ==
  ASSUME IInv, AwakeOK, getNextThread
  PROVE  AwakeOK'
<1> USE DEF IInv
<1>1. PICK over \in SUBSET Int, next \in Int :
        /\ phase = "scan" /\ UNCHANGED <<nthreads, pending, locked, waiters>>
        /\ enabled' = [t \in Thread |-> IF t \in Blocked(over) THEN "DISABLED" ELSE enabled[t]]
        /\ \A t \in Thread : tstate'[t] = IF t \in Blocked(over) THEN "BLOCKED"
                                         ELSE IF t \in Freed(over) THEN "FREED"
                                         ELSE IF t = next /\ pending[t] = NoAction /\ ~is_complete(t) THEN "RUNNING"
                                         ELSE tstate[t]
  <2> DEFINE idle == {t \in curr_thread_num .. nthreads : ~is_complete(t) /\ pending[t] = NoAction}
             over == curr_thread_num .. (IF idle = {} THEN nthreads ELSE Min(idle) - 1)
  <2>1. /\ phase = "scan" /\ UNCHANGED <<nthreads, pending, locked, waiters>>
        /\ enabled' = [t \in Thread |-> IF t \in Blocked(over) THEN "DISABLED" ELSE enabled[t]]
        /\ tstate' = [t \in Thread |-> IF t \in Blocked(over) THEN "BLOCKED"
                                       ELSE IF t \in Freed(over) THEN "FREED"
                                       ELSE IF idle # {} /\ t = Min(idle) THEN "RUNNING"
                                       ELSE tstate[t]]
    BY DEF getNextThread
  <2>2. idle \in SUBSET Nat
    <3>1. curr_thread_num \in Thread /\ nthreads \in Thread
      BY DEF TypeOK
    <3> QED
      BY <3>1
  <2>3. CASE idle = {}
    <3>0. PICK n \in Int : n = 0
      OBVIOUS
    <3>1. over \in SUBSET Int
      OBVIOUS
    <3>2. \A t \in Thread : tstate'[t] = IF t \in Blocked(over) THEN "BLOCKED"
                                         ELSE IF t \in Freed(over) THEN "FREED"
                                         ELSE IF t = n /\ pending[t] = NoAction /\ ~is_complete(t) THEN "RUNNING"
                                         ELSE tstate[t]
      <4> HIDE DEF over, idle
      <4> QED
        BY <2>1, <2>3, <3>0
    <3> HIDE DEF over, idle
    <3> QED
      BY <2>1, <3>1, <3>2
  <2>4. CASE idle # {}
    <3>1. Min(idle) \in idle
      <4> HIDE DEF idle
      <4> QED
        BY <2>2, <2>4, LeastOf
    <3>2. PICK n \in idle : n = Min(idle)
      BY <3>1
    <3>3. n \in Int /\ pending[n] = NoAction /\ ~is_complete(n)
      BY <2>2
    <3>4. over \in SUBSET Int
      OBVIOUS
    <3> HIDE DEF over, idle
    <3>5. \A t \in Thread : tstate'[t] = IF t \in Blocked(over) THEN "BLOCKED"
                                         ELSE IF t \in Freed(over) THEN "FREED"
                                         ELSE IF t = n /\ pending[t] = NoAction /\ ~is_complete(t) THEN "RUNNING"
                                         ELSE tstate[t]
      BY <2>1, <2>4, <3>2, <3>3
    <3> QED
      BY <2>1, <3>3, <3>4, <3>5
  <2> QED
    BY <2>3, <2>4
<1>2. \A t \in Thread : is_complete(t)' <=> is_complete(t)
  BY <1>1 DEF Blocked, Freed, StateOK, is_complete, is_enabled
<1> SUFFICES ASSUME NEW t \in Created, ~is_enabled(t)', ~is_complete(t)
             PROVE  Excused(t)'
  BY <1>1, <1>2 DEF AwakeOK, Created, TypeOK
<1>3. t \in Thread /\ t \notin Freed(over)
  BY DEF Created, TypeOK, Freed, is_complete
<1>4. CASE t \in Blocked(over)
  <2>1. pending[t] # NoAction /\ ~check_action_enabled(t, pending[t])
    BY <1>4 DEF Blocked
  <2>2. ~check_action_enabled(t, pending[t])'
    BY <2>1, <1>1, <1>2, <1>3, EnabledSame DEF ActionOK
  <2> QED
    BY <2>1, <2>2, <1>1 DEF Excused
<1>5. CASE t \notin Blocked(over)
  <2>1. Excused(t)
    BY <1>1, <1>3, <1>5 DEF AwakeOK, Active, is_enabled
  <2>2. CASE tstate'[t] = tstate[t]
    BY <2>1, <2>2, <1>1, <1>2, <1>3, ExcuseLasts DEF Listed, ActionOK
  <2>3. CASE tstate'[t] = "RUNNING" /\ pending[t] = NoAction
    BY <2>1, <2>3, <1>1 DEF Excused, Listed
  <2> QED
    BY <2>2, <2>3, <1>1, <1>3, <1>5
<1> QED
  BY <1>4, <1>5

\* An operation of t: it enables those in woken, and leaves the others their
\* excuses.
LEMMA StepAwake ==
  ASSUME IInv, AwakeOK, NEW t \in Thread, NEW type, NEW woken, NEW st, NEW en, take_step(t, type, woken, st, en),
         nthreads' \in Thread, nthreads =< nthreads',
         \A u \in Thread \ Created : u =< nthreads' => u \in woken,
         st \in {"READY", "BLOCKED", "COMPLETED"},
         en # "DISABLED" \/ st = "COMPLETED" \/ (pending'[t] = NoAction /\ Listed(t)'),
         \A u \in Created \ {t} : u \notin woken /\ ~is_complete(u) =>
           /\ Listed(u) => Listed(u)'
           /\ pending[u].type = "ATOMIC_LOCK" /\ locked[pending[u].mutex] # 0 /\ pending[u].mutex \notin Recursive =>
                locked'[pending[u].mutex] # 0
           /\ pending[u].type = "PTHREAD_JOIN" => st # "COMPLETED" \/ pending[u].thread # t
  PROVE  AwakeOK'
<1> USE DEF IInv
<1>1. PICK late \in SUBSET Sleepers :
        enabled' = [u \in Thread |-> IF u = t THEN en ELSE IF u \in late \cup woken THEN "ENABLED" ELSE enabled[u]]
  BY DEF take_step
<1>2. /\ Chosen(t) /\ phase = "choose"
      /\ tstate' = [u \in Thread |-> IF u = t THEN st ELSE IF u \in woken \cap Created THEN "READY" ELSE tstate[u]]
      /\ \A u \in Thread \ {t} : pending'[u] = pending[u]
  BY DEF take_step, Chosen, TypeOK
<1>3. t \in Created /\ ~is_complete(t)
  BY <1>2, ChosenThread
<1> SUFFICES ASSUME NEW u \in Created', ~is_enabled(u)', ~is_complete(u)'
             PROVE  Excused(u)'
  BY DEF AwakeOK
<1>4. u \in Thread
  BY DEF Created
<1>5. CASE u = t
  <2>1. enabled'[u] = en /\ tstate'[u] = st
    BY <1>1, <1>2, <1>4, <1>5
  <2>2. en = "DISABLED" /\ st # "COMPLETED"
    BY <2>1 DEF is_enabled, is_complete
  <2> QED
    BY <2>2, <1>5 DEF Excused
<1>6. CASE u # t
  <2>1. u \notin woken \cup late /\ enabled[u] = "DISABLED"
    BY <1>1, <1>4, <1>6 DEF is_enabled
  <2>2. u \in Created
    BY <2>1, <1>4 DEF Created
  <2>3. tstate'[u] = tstate[u] /\ pending'[u] = pending[u]
    BY <2>1, <1>2, <1>4, <1>6
  <2>4. ~is_complete(u)
    BY <2>3 DEF is_complete
  <2>5. Excused(u)
    BY <2>1, <2>2, <2>4, <1>2 DEF AwakeOK, Active, is_enabled
  <2>6. pending[u].type = "PTHREAD_JOIN" /\ ~is_complete(pending[u].thread) => ~is_complete(pending[u].thread)'
    <3> SUFFICES ASSUME pending[u].type = "PTHREAD_JOIN", NEW v \in Thread, v = pending[u].thread, ~is_complete(v)
                 PROVE  ~is_complete(v)'
      BY <2>3, <1>4 DEF ActionOK, is_complete
    <3>1. v = t => st # "COMPLETED"
      BY <2>1, <2>2, <2>4, <1>6
    <3>2. st \in {"COMPLETED", "FREED"} => st = "COMPLETED"
      OBVIOUS
    <3> QED
      BY <3>1, <3>2, <1>2 DEF is_complete
  <2> QED
    BY <2>1, <2>2, <2>3, <2>4, <2>5, <2>6, <1>6, ExcuseLasts
<1> QED
  BY <1>5, <1>6

\* One that goes on and unlocks nothing.
LEMMA GoOnAwake ==
  ASSUME IInv, AwakeOK, NEW t \in Thread, NEW type, NEW woken, go_on(t, type, woken),
         \A u \in Created \ {t} : u \notin woken /\ ~is_complete(u) =>
           /\ Listed(u) => Listed(u)'
           /\ pending[u].type = "ATOMIC_LOCK" /\ locked[pending[u].mutex] # 0 /\ pending[u].mutex \notin Recursive =>
                locked'[pending[u].mutex] # 0
  PROVE  AwakeOK'
<1>1. take_step(t, type, woken, tstate[t], enabled[t]) /\ nthreads' = nthreads
  BY DEF go_on
<1>2. enabled[t] = "ENABLED" /\ tstate[t] = "READY"
  BY <1>1, ChosenThread DEF take_step
<1>3. /\ nthreads' \in Thread /\ nthreads =< nthreads'
      /\ \A u \in Thread \ Created : u =< nthreads' => u \in woken
  BY <1>1 DEF IInv, TypeOK, Created
<1> QED
  BY <1>1, <1>2, <1>3, StepAwake

\* An unlock wakes those that wait for the mutex, since t is who locked it.
LEMMA ReleaseWakes ==
  ASSUME IInv, NEW t \in Thread, Chosen(t), pending[t].type \in Releases, release(t, pending[t].mutex),
         NEW u \in Created \ {t}, u \notin AwaitUnlock(t),
         pending[u].type = "ATOMIC_LOCK", locked[pending[u].mutex] # 0, pending[u].mutex \notin Recursive
  PROVE  locked'[pending[u].mutex] # 0
<1> USE DEF IInv
<1>1. pending[t].mutex \in Mutex /\ held[t][pending[t].mutex] > 0
  BY DEF ActionOK, Releases
<1>2. u \in Thread /\ pending[u].mutex \in Mutex
  BY DEF Created, TypeOK, ActionOK
<1>3. CASE pending[u].mutex = pending[t].mutex
  <2>1. locked[pending[t].mutex] = t
    BY <1>1, <1>3 DEF MutualExclusion
  <2>2. waiting_on(pending[u]) = t
    BY <2>1, <1>3 DEF waiting_on
  <2> QED
    BY <2>2 DEF AwaitUnlock
<1>4. CASE pending[u].mutex # pending[t].mutex
  BY <1>1, <1>2, <1>4 DEF release, TypeOK
<1> QED
  BY <1>3, <1>4

\* One case for each operation.
LEMMA OperationAwake ==
  ASSUME IInv, AwakeOK, NEW t \in Thread, Step(t)
  PROVE  AwakeOK'
<1>0. /\ locked \in [Mutex -> Thread \cup {0}] /\ waiters \in [Cond -> SUBSET Thread]
      /\ nthreads \in Thread
  BY DEF IInv, TypeOK
<1>1. CASE WakeUp(t)
  <2>1. /\ enabled' = [enabled EXCEPT ![t] = "ENABLED"] /\ pending' = [pending EXCEPT ![t] = NoAction]
        /\ phase = "choose" /\ UNCHANGED <<nthreads, tstate, locked, waiters>>
    BY <1>1 DEF WakeUp, Chosen
  <2> SUFFICES ASSUME NEW u \in Created, ~is_enabled(u)', ~is_complete(u)
               PROVE  Excused(u)'
    BY <2>1 DEF AwakeOK, Created, is_complete
  <2>2. u \in Thread
    BY <1>0 DEF Created
  <2>3. u # t /\ ~is_enabled(u)
    BY <2>1, <2>2 DEF is_enabled, IInv, TypeOK
  <2>4. Excused(u)
    BY <2>1, <2>3 DEF AwakeOK, Active
  <2> QED
    BY <2>1, <2>2, <2>3, <2>4, ExcuseLasts DEF Listed, is_complete, IInv, TypeOK
<1>2. CASE ThreadStart(t) \/ Yield(t) \/ Join(t)
  BY <1>2, GoOnAwake DEF ThreadStart, Yield, Join, Listed
<1>3. CASE PthreadCreate(t)
  <2> DEFINE child == nthreads + 1
             woken == {child}
  <2>1. /\ take_step(t, "PTHREAD_CREATE", woken, tstate[t], enabled[t])
        /\ child \in Thread /\ nthreads' = child /\ UNCHANGED <<locked, waiters>>
    BY <1>3 DEF PthreadCreate
  <2>2. enabled[t] = "ENABLED" /\ tstate[t] = "READY"
    BY <2>1, ChosenThread DEF take_step
  <2>3. /\ nthreads' \in Thread /\ nthreads =< nthreads'
        /\ \A u \in Thread \ Created : u =< nthreads' => u \in woken
    BY <2>1, <1>0 DEF Created
  <2>4. \A u \in Created : Listed(u) => Listed(u)'
    BY <2>1 DEF Listed
  <2> HIDE DEF child, woken
  <2> QED
    BY <2>1, <2>2, <2>3, <2>4, StepAwake
<1>4. CASE Lock(t) \/ TryLock(t)
  <2>1. PICK type : go_on(t, type, {}) /\ waiters' = waiters
    BY <1>4 DEF Lock, TryLock
  <2>2. acquire(t, pending[t].mutex) \/ locked' = locked
    BY <1>4 DEF Lock, TryLock
  <2>3. \A m \in Mutex : locked[m] # 0 => locked'[m] # 0
    BY <2>2, <1>0 DEF acquire
  <2>4. \A u \in Created : pending[u].type = "ATOMIC_LOCK" => pending[u].mutex \in Mutex
    BY <1>0 DEF Created, IInv, ActionOK
  <2> QED
    BY <2>1, <2>3, <2>4, GoOnAwake DEF Listed
<1>5. CASE Unlock(t)
  <2>1. PICK type \in Releases : go_on(t, type, AwaitUnlock(t)) /\ release(t, pending[t].mutex) /\ waiters' = waiters
    BY <1>5 DEF Unlock, Releases
  <2>2. Chosen(t) /\ pending[t].type = type
    BY <2>1 DEF go_on, take_step
  <2> QED
    BY <2>1, <2>2, GoOnAwake, ReleaseWakes DEF Listed
<1>6. CASE Wait(t)
  <2>1. /\ take_step(t, "ATOMIC_WAIT", AwaitUnlock(t), "BLOCKED", "DISABLED") /\ release(t, pending[t].mutex)
        /\ waiters' = [waiters EXCEPT ![pending[t].cond] = @ \cup {t}] /\ nthreads' = nthreads
    BY <1>6 DEF Wait
  <2>2. Chosen(t) /\ pending[t].type = "ATOMIC_WAIT" /\ pending' = [pending EXCEPT ![t] = NoAction]
    BY <2>1 DEF take_step
  <2>3. pending[t].cond \in Cond /\ pending'[t] = NoAction
    BY <2>2 DEF IInv, ActionOK, TypeOK
  <2>4. Listed(t)' /\ \A u \in Created : Listed(u) => Listed(u)'
    BY <2>1, <2>3, <1>0 DEF Listed
  <2>5. /\ nthreads' \in Thread /\ nthreads =< nthreads'
        /\ \A u \in Thread \ Created : u =< nthreads' => u \in AwaitUnlock(t)
    BY <2>1, <1>0 DEF Created
  <2> QED
    BY <2>1, <2>2, <2>3, <2>4, <2>5, StepAwake, ReleaseWakes DEF Releases
<1>7. CASE NotifyAll(t) \/ NotifyOne(t)
  <2> DEFINE c == pending[t].cond
  <2>1. PICK type \in {"ATOMIC_NOTIFY_ONE", "ATOMIC_NOTIFY_ALL"}, ws \in SUBSET waiters[c] :
          /\ go_on(t, type, Notified(ws)) /\ waiters' = [waiters EXCEPT ![c] = @ \ ws]
          /\ UNCHANGED <<locked, held>>
    <3>1. CASE NotifyAll(t)
      <4>1. waiters' = [waiters EXCEPT ![c] = @ \ waiters[c]]
        BY <3>1 DEF NotifyAll
      <4> QED
        BY <3>1, <4>1 DEF NotifyAll
    <3>2. CASE NotifyOne(t)
      <4>1. PICK one \in IF waiters[c] = {} THEN {{}} ELSE {{u} : u \in waiters[c]} :
              /\ go_on(t, "ATOMIC_NOTIFY_ONE", Notified(one)) /\ waiters' = [waiters EXCEPT ![c] = @ \ one]
        BY <3>2 DEF NotifyOne
      <4>2. one \in SUBSET waiters[c]
        BY <4>1
      <4> QED
        BY <3>2, <4>1, <4>2 DEF NotifyOne
    <3> QED
      BY <1>7, <3>1, <3>2
  <2>2. ASSUME NEW u \in Created \ {t}, u \notin Notified(ws), ~is_complete(u), Listed(u)
        PROVE  Listed(u)'
    <3>1. u \notin ws
      BY <2>2 DEF Notified, is_complete
    <3> QED
      BY <3>1, <2>1, <2>2, <1>0 DEF Listed
  <2> HIDE DEF c
  <2> QED
    BY <2>1, <2>2, GoOnAwake
<1>8. CASE ThreadSleep(t)
  <2>1. /\ take_step(t, "THREAD_SLEEP", {}, tstate[t], "SLEEP_SET") /\ UNCHANGED <<nthreads, locked, waiters>>
    BY <1>8 DEF ThreadSleep
  <2>2. tstate[t] = "READY"
    BY <2>1, ChosenThread DEF take_step
  <2>3. /\ nthreads' \in Thread /\ nthreads =< nthreads'
        /\ \A u \in Thread \ Created : u =< nthreads' => u \in {}
    BY <2>1, <1>0 DEF Created
  <2> QED
    BY <2>1, <2>2, <2>3, StepAwake DEF Listed
<1>9. CASE ThreadFinish(t)
  <2>1. PICK type : /\ take_step(t, type, AwaitEnd(t), "COMPLETED", "DISABLED")
                    /\ UNCHANGED <<nthreads, locked, waiters>>
    BY <1>9 DEF ThreadFinish
  <2>2. /\ nthreads' \in Thread /\ nthreads =< nthreads'
        /\ \A u \in Thread \ Created : u =< nthreads' => u \in AwaitEnd(t)
    BY <2>1, <1>0 DEF Created
  <2>3. \A u \in Created : u \notin AwaitEnd(t) /\ pending[u].type = "PTHREAD_JOIN" => pending[u].thread # t
    BY DEF AwaitEnd, waiting_on
  <2> QED
    BY <2>1, <2>2, <2>3, StepAwake DEF Listed
<1>10. CASE ProgramFinish(t)
  BY <1>10 DEF ProgramFinish, AwakeOK, Active
<1> QED
  BY <1>1, <1>2, <1>3, <1>4, <1>5, <1>6, <1>7, <1>8, <1>9, <1>10 DEF Step

LEMMA NextAwake == IInv /\ AwakeOK /\ [Next]_vars => AwakeOK'
<1> SUFFICES ASSUME IInv, AwakeOK, [Next]_vars PROVE AwakeOK'
  OBVIOUS
<1>1. CASE Start \/ Operate \/ Relock \/ Return
  <2>1. CASE Start
    <3> DEFINE a == [NoAction EXCEPT !.type = "THREAD_START"]
    <3>1. a \in Action /\ a.type = "THREAD_START" /\ a # NoAction
      BY DEF NoAction, Action
    <3>2. switch_thread(a) /\ phase = "user" /\ UNCHANGED <<locked, waiters>>
      BY <2>1 DEF Start
    <3> HIDE DEF a
    <3> QED
      BY <3>1, <3>2, SwitchAwake
  <2>2. CASE Operate
    <3>1. PICK a \in Operation : switch_thread(a)
      BY <2>2 DEF Operate
    <3>2. a \in Action /\ a # NoAction /\ (a.type = "PTHREAD_JOIN" => a.thread \in Thread)
      BY DEF Operation, Waitable, Action, OpType, NoAction, Created, IInv, TypeOK
    <3>3. phase = "user" /\ UNCHANGED <<locked, waiters>>
      BY <2>2 DEF Operate, Running
    <3> QED
      BY <3>1, <3>2, <3>3, SwitchAwake
  <2>3. CASE Relock
    <3> DEFINE a == [NoAction EXCEPT !.type = "ATOMIC_LOCK", !.mutex = resume[cur]]
    <3>1. a \in Action /\ a.type = "ATOMIC_LOCK" /\ a # NoAction
      BY <2>3 DEF NoAction, Action, Relock, OpType
    <3>2. switch_thread(a) /\ phase = "user" /\ UNCHANGED <<locked, waiters>>
      BY <2>3 DEF Relock
    <3> HIDE DEF a
    <3> QED
      BY <3>1, <3>2, SwitchAwake
  <2>4. CASE Return
    <3> DEFINE a == [NoAction EXCEPT !.type = "THREAD_FINISH"]
    <3>1. a \in Action /\ a.type = "THREAD_FINISH" /\ a # NoAction
      BY DEF NoAction, Action
    <3>2. switch_thread(a) /\ phase = "user" /\ UNCHANGED <<locked, waiters>>
      BY <2>4 DEF Return, Running
    <3> HIDE DEF a
    <3> QED
      BY <3>1, <3>2, SwitchAwake
  <2> QED
    BY <1>1, <2>1, <2>2, <2>3, <2>4
<1>2. CASE getNextThread
  BY <1>2, ScanAwake
<1>3. CASE finish_execution
  BY <1>3 DEF finish_execution, AwakeOK, Active
<1>4. CASE UNCHANGED vars
  BY <1>4 DEF vars, AwakeOK, Active, Created, is_enabled, is_complete, Excused, Listed, check_action_enabled
<1>5. CASE \E t \in Thread : Step(t)
  BY <1>5, OperationAwake
<1> QED
  BY <1>1, <1>2, <1>3, <1>4, <1>5 DEF Next, Done

LEMMA InitAwake == Init => AwakeOK
BY DEF Init, AwakeOK, Created, is_enabled

-------------------------------------------------------------------------------
(* The theorems.                                                           *)

\* No wake-up is missed: whenever a thread is chosen, those kept from running
\* cannot run or wait for a notification (process_mutex, process_thread_action,
\* getNextThread).
THEOREM NoMissedWakeUpTheorem == Spec => []NoMissedWakeUp
BY InitInv, NextInv, InitAwake, NextAwake, AwakeEnough, PTL DEF Spec

\* getNextThread frees stacks, but neither the one it runs on nor that of a
\* thread it resumes.
THEOREM OnLiveStackTheorem == Spec => []OnLiveStack
<1>1. Init => OnLiveStack
  BY DEF Init, OnLiveStack
<1>2. IInv /\ OnLiveStack /\ [Next]_vars => OnLiveStack'
  <2> SUFFICES ASSUME IInv, OnLiveStack, [Next]_vars, phase' # "undefined"
               PROVE  cur' \notin stackfreed'
    BY DEF OnLiveStack
  <2>1. CASE getNextThread
    <3> DEFINE idle == {t \in curr_thread_num .. nthreads : ~is_complete(t) /\ pending[t] = NoAction}
               over == curr_thread_num .. (IF idle = {} THEN nthreads ELSE Min(idle) - 1)
    <3>1. /\ phase = "scan" /\ stackfreed' = stackfreed \cup Freed(over)
          /\ idle = {} => cur' = cur
          /\ idle # {} => cur' = Min(idle) /\ Min(idle) \notin stackfreed
      BY <2>1 DEF getNextThread
    <3>2. cur \notin stackfreed /\ cur \notin Freed(over)
      BY <3>1 DEF OnLiveStack, Freed
    <3>3. idle # {} => Min(idle) \notin Freed(over)
      <4>1. idle \in SUBSET Nat
        <5>1. curr_thread_num \in Thread /\ nthreads \in Thread
          BY DEF IInv, TypeOK
        <5> QED
          BY <5>1
      <4>2. \A t \in idle : tstate[t] # "COMPLETED"
        BY DEF is_complete
      <4> HIDE DEF idle
      <4> QED
        BY <4>1, <4>2, LeastOf DEF Freed
    <3> HIDE DEF idle, over
    <3> QED
      BY <3>1, <3>2, <3>3
  <2>2. CASE ~getNextThread
    <3>1. UNCHANGED <<cur, stackfreed>>
      BY <2>2, ZenonT(60) DEF Next, vars, Start, Operate, Relock, Return, switch_thread, finish_execution, Done, Step, WakeUp,
                  ThreadStart, Yield, Join, PthreadCreate, Lock, TryLock, Unlock, Wait, NotifyAll, NotifyOne,
                  ThreadSleep, ThreadFinish, ProgramFinish, go_on, take_step
    <3>2. phase # "undefined"
      <4>1. CASE UNCHANGED vars
        BY <4>1 DEF vars
      <4>2. CASE Start \/ Operate \/ Relock \/ Return \/ finish_execution
        BY <4>2 DEF Start, Operate, Relock, Return, Running, finish_execution
      <4>3. CASE \E t \in Thread : Step(t)
        <5>1. PICK t \in Thread : Step(t)
          BY <4>3
        <5>2. phase = "choose"
          BY <5>1 DEF Step, WakeUp, ThreadStart, Yield, Join, PthreadCreate, Lock, TryLock, Unlock, Wait, NotifyAll,
                      NotifyOne, ThreadSleep, ThreadFinish, ProgramFinish, go_on, take_step, Chosen
        <5> QED
          BY <5>2
      <4> QED
        BY <2>2, <4>1, <4>2, <4>3 DEF Next, Done
    <3> QED
      BY <3>1, <3>2 DEF OnLiveStack
  <2> QED
    BY <2>1, <2>2
<1> QED
  BY <1>1, <1>2, InitInv, NextInv, PTL DEF Spec

-------------------------------------------------------------------------------
(* Deadlocks.  Threads wait for each other when they form a closed set:    *)
(* each waits for another of the set.  A closed set comes about only when  *)
(* a thread of it stashes its action, and then the chain is_waiting_on     *)
(* follows from that thread stays within the set.  The chain of a thread   *)
(* outside the set might go round the set forever; but after a deadlock    *)
(* was found no thread is left to stash an action that waits, because      *)
(* between two choices of the checker only the thread that was chosen does.*)

\* Threads that wait for each other.
Closed(S) == S # {} /\ S \subseteq Created /\ \A t \in S : WaitsWithin(t, S)

\* The threads that actions and mutexes name have been created.
RefsOK ==
  /\ \A t \in Thread : pending[t].type = "PTHREAD_JOIN" => pending[t].thread \in Created
  /\ \A m \in Mutex : locked[m] \in Created \cup {0}

FreedOK == \A t \in Thread : tstate[t] = "FREED" => t \in stackfreed

\* The threads that are about to run on, new ones and those on a stack that was
\* freed aside.
Idle == {t \in Created : ~is_complete(t) /\ pending[t] = NoAction /\ resume[t] # "start" /\ t \notin stackfreed}

IdleOK == Active => (\A t, u \in Idle : t = u) /\ (asserted => Idle = {})

FinishOK == phase = "finish" => isfinished

DInv ==
  /\ IInv /\ RefsOK /\ FreedOK /\ IdleOK /\ FinishOK
  /\ DeadlockFound /\ SearchEnds /\ NoThreadLeftBehind

-------------------------------------------------------------------------------
(* The chain is_waiting_on follows.                                        *)

\* One turn of its loop, when the pending actions are p.
Follow(p, u) == IF u = 0 THEN 0 ELSE waiting_on(p[u])

\* A chain of n + 1 threads from t.
IsChain(c, p, t, n) == c = [k \in 0 .. n |-> Follow(p, IF k = 0 THEN t ELSE c[k - 1])]

\* Chains of every length can be built, one thread at a time.
LEMMA ChainExists ==
  ASSUME NEW p, NEW t
  PROVE  \A n \in Nat : \E c : IsChain(c, p, t, n)
<1> DEFINE Bad == {n \in Nat : ~\E c : IsChain(c, p, t, n)}
<1> SUFFICES ASSUME Bad # {} PROVE FALSE
  OBVIOUS
<1>1. PICK n \in Bad : \A m \in Bad : n =< m
  <2>1. Bad \in SUBSET Nat
    OBVIOUS
  <2> HIDE DEF Bad
  <2> QED  BY <2>1, LeastOf
<1>2. n \in Nat /\ ~\E c : IsChain(c, p, t, n)
  OBVIOUS
<1>3. CASE n = 0
  <2> DEFINE c == [k \in 0 .. 0 |-> Follow(p, t)]
  <2>1. \A k \in 0 .. 0 : k = 0
    OBVIOUS
  <2>2. c = [k \in 0 .. 0 |-> Follow(p, IF k = 0 THEN t ELSE c[k - 1])]
    BY <2>1
  <2>3. IsChain(c, p, t, 0)
    BY <2>2 DEF IsChain
  <2> QED  BY <1>2, <1>3, <2>3
<1>4. CASE n # 0
  <2>1. n - 1 \in Nat /\ n - 1 \notin Bad
    BY <1>1, <1>2, <1>4
  <2>2. PICK c : IsChain(c, p, t, n - 1)
    BY <2>1
  <2> DEFINE d == [k \in 0 .. n |-> IF k = n THEN Follow(p, c[n - 1]) ELSE c[k]]
  <2>3. \A k \in 0 .. n : k # 0 => d[k - 1] = c[k - 1]
    BY <1>2
  <2>4. \A k \in 0 .. n : d[k] = Follow(p, IF k = 0 THEN t ELSE d[k - 1])
    <3> SUFFICES ASSUME NEW k \in 0 .. n PROVE d[k] = Follow(p, IF k = 0 THEN t ELSE d[k - 1])
      OBVIOUS
    <3>1. CASE k = n
      BY <1>2, <1>4, <2>3, <3>1
    <3>2. CASE k # n
      <4>1. k \in 0 .. (n - 1) /\ d[k] = c[k]
        BY <1>2, <3>2
      <4>2. c[k] = Follow(p, IF k = 0 THEN t ELSE c[k - 1])
        BY <2>2, <4>1 DEF IsChain
      <4> QED  BY <2>3, <4>1, <4>2
    <3> QED  BY <3>1, <3>2
  <2>5. d = [k \in 0 .. n |-> Follow(p, IF k = 0 THEN t ELSE d[k - 1])]
    BY <2>4
  <2>6. IsChain(d, p, t, n)
    BY <2>5 DEF IsChain
  <2> QED  BY <1>2, <2>6
<1> QED  BY <1>3, <1>4

\* The links of Chain.
LEMMA ChainLinks ==
  ASSUME NEW p, NEW t
  PROVE  /\ Chain(p, t)[0] = Follow(p, t)
         /\ \A k \in 0 .. (MaxThreads - 1) : Chain(p, t)[k + 1] = Follow(p, Chain(p, t)[k])
<1> DEFINE c == Chain(p, t)
<1>1. IsChain(c, p, t, MaxThreads)
  <2>1. PICK d : IsChain(d, p, t, MaxThreads)
    BY ChainExists
  <2>2. \E f : f = [k \in 0 .. MaxThreads |->
                     LET from == IF k = 0 THEN t ELSE f[k - 1]
                     IN  IF from = 0 THEN 0 ELSE waiting_on(p[from])]
    BY <2>1 DEF IsChain, Follow
  <2>3. c = [k \in 0 .. MaxThreads |->
              LET from == IF k = 0 THEN t ELSE c[k - 1]
              IN  IF from = 0 THEN 0 ELSE waiting_on(p[from])]
    BY <2>2 DEF Chain
  <2> QED  BY <2>3 DEF IsChain, Follow
<1> HIDE DEF c
<1>2. c[0] = Follow(p, t)
  <2>1. 0 \in 0 .. MaxThreads
    OBVIOUS
  <2> QED  BY <1>1, <2>1 DEF IsChain
<1>3. ASSUME NEW k \in 0 .. (MaxThreads - 1) PROVE c[k + 1] = Follow(p, c[k])
  <2>1. k + 1 \in 0 .. MaxThreads /\ k + 1 # 0 /\ (k + 1) - 1 = k
    OBVIOUS
  <2>2. c[k + 1] = Follow(p, IF k + 1 = 0 THEN t ELSE c[(k + 1) - 1])
    BY <1>1, <2>1 DEF IsChain
  <2> QED  BY <2>1, <2>2
<1> QED  BY <1>2, <1>3 DEF c

\* A chain that is in a set it cannot leave stays there.
LEMMA ChainStays ==
  ASSUME NEW p, NEW t, NEW S, \A u \in S : Follow(p, u) \in S,
         NEW i \in 0 .. MaxThreads, Chain(p, t)[i] \in S, NEW j \in i .. MaxThreads
  PROVE  Chain(p, t)[j] \in S
<1> DEFINE c == Chain(p, t)
           Out == {k \in i .. MaxThreads : c[k] \notin S}
<1> SUFFICES ASSUME Out # {} PROVE FALSE
  OBVIOUS
<1>1. PICK k \in Out : \A m \in Out : k =< m
  <2>1. Out \in SUBSET Nat
    OBVIOUS
  <2> HIDE DEF Out
  <2> QED  BY <2>1, LeastOf
<1>2. k \in i .. MaxThreads /\ c[k] \notin S /\ k # i
  OBVIOUS
<1>3. k - 1 \in i .. MaxThreads /\ k - 1 \in 0 .. (MaxThreads - 1) /\ (k - 1) + 1 = k
  BY <1>2
<1>4. c[k - 1] \in S
  <2>1. k - 1 \notin Out
    BY <1>1, <1>2
  <2> QED  BY <1>3, <2>1
<1>5. c[k] = Follow(p, c[k - 1])
  <2>1. PICK m \in 0 .. (MaxThreads - 1) : m = k - 1
    BY <1>3
  <2>2. c[m + 1] = Follow(p, c[m])
    BY ChainLinks
  <2> QED  BY <1>3, <2>1, <2>2
<1> QED  BY <1>2, <1>4, <1>5

\* Threads that wait for each other when the pending actions are p.
Cycle(p, S) ==
  /\ S # {} /\ S \subseteq Created
  /\ \A u \in S : waiting_on(p[u]) \in S /\ ~RelocksRecursive(p, u)

LEMMA ClosedIsCycle ==
  ASSUME nthreads \in Nat, NEW S
  PROVE  Closed(S) <=> Cycle(pending, S)
<1> SUFFICES ASSUME 0 \notin S, NEW u \in S
             PROVE  WaitsWithin(u, S) <=> waiting_on(pending[u]) \in S /\ ~RelocksRecursive(pending, u)
  BY DEF Closed, Cycle, Created
<1>1. CASE pending[u].type = "PTHREAD_JOIN"
  BY <1>1 DEF WaitsWithin, waiting_on, RelocksRecursive
<1>2. CASE pending[u].type = "ATOMIC_LOCK"
  BY <1>2 DEF WaitsWithin, waiting_on, RelocksRecursive
<1>3. CASE pending[u].type \notin {"PTHREAD_JOIN", "ATOMIC_LOCK"}
  BY <1>3 DEF WaitsWithin, waiting_on, RelocksRecursive
<1> QED  BY <1>1, <1>2, <1>3

\* Every turn of the loop leads to a thread that has been created, or ends.
Followable(p) == \A u \in Created : waiting_on(p[u]) \in Created \cup {0}

\* A thread that is found to wait for itself is one of several that wait for
\* each other, all those on its way.
LEMMA WaitingIsCycle ==
  ASSUME nthreads \in Nat, NEW p, Followable(p), NEW t \in Created, is_waiting_on(p, t)
  PROVE  \E S : Cycle(p, S)
<1> DEFINE c == Chain(p, t)
<1>1. PICK n \in 0 .. MaxThreads : c[n] = t
  BY DEF is_waiting_on
<1>2. ~RelocksRecursive(p, t) /\ t # 0 /\ 0 \notin Created
  BY DEF is_waiting_on, Created
<1>3. c[0] = waiting_on(p[t]) /\ \A k \in 0 .. (MaxThreads - 1) : c[k + 1] = Follow(p, c[k])
  BY <1>2, ChainLinks DEF Follow
<1>4. \A k \in 0 .. MaxThreads : c[k] \in Created \cup {0}
  <2>1. \A u \in Created \cup {0} : Follow(p, u) \in Created \cup {0}
    BY DEF Follow, Followable
  <2>2. c[0] \in Created \cup {0} /\ 0 \in 0 .. MaxThreads
    BY <1>3 DEF Followable
  <2> HIDE DEF c
  <2> QED  BY <2>1, <2>2, ChainStays DEF c
<1> HIDE DEF c
<1>5. \A k \in 0 .. n : c[k] # 0
  <2> SUFFICES ASSUME NEW k \in 0 .. n, c[k] \in {0} PROVE FALSE
    OBVIOUS
  <2>1. \A u \in {0} : Follow(p, u) \in {0}
    BY DEF Follow
  <2>2. k \in 0 .. MaxThreads /\ n \in k .. MaxThreads
    OBVIOUS
  <2>3. c[n] \in {0}
    BY <2>1, <2>2, ChainStays DEF c
  <2> QED  BY <1>1, <1>2, <2>3
<1>6. \A k \in 0 .. n : ~RelocksRecursive(p, c[k])
  <2> SUFFICES ASSUME NEW k \in 0 .. n, NEW u, u = c[k], RelocksRecursive(p, u) PROVE FALSE
    OBVIOUS
  <2>1. u # 0 /\ waiting_on(p[u]) = u
    BY <1>5 DEF RelocksRecursive
  <2>2. \A v \in {u} : Follow(p, v) \in {u}
    BY <2>1 DEF Follow
  <2>3. k \in 0 .. MaxThreads /\ n \in k .. MaxThreads /\ c[k] \in {u}
    OBVIOUS
  <2>4. c[n] \in {u}
    BY <2>2, <2>3, ChainStays DEF c
  <2> QED  BY <1>1, <1>2, <2>4
<1> DEFINE S == {c[k] : k \in 0 .. n}
<1>7. S # {} /\ S \subseteq Created
  <2>1. 0 \in 0 .. n
    OBVIOUS
  <2> QED  BY <2>1, <1>4, <1>5
<1>8. ASSUME NEW k \in 0 .. n PROVE waiting_on(p[c[k]]) \in S
  <2>1. CASE k = n
    BY <1>1, <1>3, <2>1
  <2>2. CASE k # n
    <3>1. k \in 0 .. (MaxThreads - 1) /\ k + 1 \in 0 .. n
      BY <2>2
    <3>2. c[k + 1] = waiting_on(p[c[k]])
      BY <1>3, <1>5, <3>1 DEF Follow
    <3> QED  BY <3>1, <3>2
  <2> QED  BY <2>1, <2>2
<1>9. \A u \in S : waiting_on(p[u]) \in S /\ ~RelocksRecursive(p, u)
  BY <1>6, <1>8
<1> HIDE DEF S
<1> QED  BY <1>7, <1>9 DEF Cycle

\* A thread of several that wait for each other is found to wait for itself,
\* unless the loop goes on forever.
LEMMA CycleIsFound ==
  ASSUME nthreads \in Nat, NEW p, NEW S, Cycle(p, S), NEW t \in S
  PROVE  is_waiting_on(p, t) \/ LoopsForever(p, t)
<1> DEFINE c == Chain(p, t)
<1>1. 0 \notin S /\ ~RelocksRecursive(p, t) /\ \A u \in S : Follow(p, u) \in S
  BY DEF Cycle, Created, Follow
<1>2. c[0] \in S
  BY <1>1, ChainLinks
<1>3. 0 \in 0 .. MaxThreads /\ MaxThreads \in 0 .. MaxThreads
  OBVIOUS
<1>4. c[MaxThreads] \in S
  BY <1>1, <1>2, <1>3, ChainStays
<1> QED  BY <1>1, <1>4 DEF LoopsForever

\* The loop can only go on forever round threads that wait for each other, or
\* at one that is about to lock a recursive mutex it holds.
LEMMA LoopIsCycle ==
  ASSUME nthreads \in Thread, NEW p, Followable(p), NEW t \in Created, LoopsForever(p, t)
  PROVE  \/ \E S : Cycle(p, S) /\ t \notin S
         \/ \E u \in Created : RelocksRecursive(p, u)
<1> SUFFICES ASSUME \A u \in Created : ~RelocksRecursive(p, u) PROVE \E S : Cycle(p, S) /\ t \notin S
  OBVIOUS
<1> DEFINE c == Chain(p, t)
<1>1. /\ t # 0 /\ 0 \notin Created /\ c[MaxThreads] # 0
      /\ \A k \in 0 .. MaxThreads : c[k] # t
  BY DEF LoopsForever, is_waiting_on, Created
<1>2. c[0] = waiting_on(p[t]) /\ \A k \in 0 .. (MaxThreads - 1) : c[k + 1] = Follow(p, c[k])
  BY <1>1, ChainLinks DEF Follow
<1>3. \A k \in 0 .. MaxThreads : c[k] \in Created \cup {0}
  <2>1. \A u \in Created \cup {0} : Follow(p, u) \in Created \cup {0}
    BY DEF Follow, Followable
  <2>2. c[0] \in Created \cup {0} /\ 0 \in 0 .. MaxThreads
    BY <1>2 DEF Followable
  <2> HIDE DEF c
  <2> QED  BY <2>1, <2>2, ChainStays DEF c
<1> HIDE DEF c
<1>4. \A k \in 0 .. MaxThreads : c[k] \in Created
  <2> SUFFICES ASSUME NEW k \in 0 .. MaxThreads, c[k] \in {0} PROVE FALSE
    BY <1>3
  <2>1. \A u \in {0} : Follow(p, u) \in {0}
    BY DEF Follow
  <2>2. MaxThreads \in k .. MaxThreads
    OBVIOUS
  <2>3. c[MaxThreads] \in {0}
    BY <2>1, <2>2, ChainStays DEF c
  <2> QED  BY <1>1, <2>3
\* It is longer than there are threads, and so it meets some thread twice.
<1>5. PICK i, j \in 0 .. MaxThreads : i < j /\ c[i] = c[j]
  <2> DEFINE f == [k \in 0 .. MaxThreads |-> c[k]]
  <2>1. f \in [0 .. MaxThreads -> Created]
    BY <1>4
  <2>2. IsFiniteSet(0 .. MaxThreads) /\ Cardinality(0 .. MaxThreads) = MaxThreads + 1
    BY FS_Interval
  <2>3. IsFiniteSet(Created) /\ Cardinality(Created) = nthreads
    BY FS_Interval DEF Created
  <2>4. Cardinality(Created) < Cardinality(0 .. MaxThreads)
    BY <2>2, <2>3
  <2> HIDE DEF f
  <2>5. \E x, y \in 0 .. MaxThreads : x # y /\ f[x] = f[y]
    BY <2>1, <2>2, <2>3, <2>4, FS_PigeonHole
  <2>6. PICK x, y \in 0 .. MaxThreads : x # y /\ c[x] = c[y]
    BY <2>5 DEF f
  <2>7. x < y \/ y < x
    BY <2>6
  <2> QED  BY <2>6, <2>7
<1> DEFINE S == {c[k] : k \in i .. (j - 1)}
<1>6. S # {} /\ S \subseteq Created /\ t \notin S
  <2>1. i \in i .. (j - 1) /\ \A k \in i .. (j - 1) : k \in 0 .. MaxThreads
    BY <1>5
  <2> QED  BY <2>1, <1>1, <1>4
<1>7. ASSUME NEW k \in i .. (j - 1) PROVE waiting_on(p[c[k]]) \in S
  <2>1. k \in 0 .. (MaxThreads - 1) /\ k \in 0 .. MaxThreads
    BY <1>5
  <2>2. c[k + 1] = waiting_on(p[c[k]])
    BY <1>1, <1>2, <1>4, <2>1 DEF Follow
  <2>3. CASE k + 1 = j
    <3>1. i \in i .. (j - 1)
      BY <1>5
    <3> QED  BY <1>5, <2>2, <2>3, <3>1
  <2>4. CASE k + 1 # j
    <3>1. k + 1 \in i .. (j - 1)
      BY <2>4
    <3> QED  BY <2>2, <3>1
  <2> QED  BY <2>3, <2>4
<1>8. \A u \in S : waiting_on(p[u]) \in S /\ ~RelocksRecursive(p, u)
  BY <1>6, <1>7
<1> HIDE DEF S
<1> QED  BY <1>6, <1>8 DEF Cycle

\* A thread that waits for nobody is not found to wait.
LEMMA NobodyWaitsForStart ==
  ASSUME NEW p, NEW t \in Thread, waiting_on(p[t]) = 0
  PROVE  ~is_waiting_on(p, t) /\ ~LoopsForever(p, t)
<1>1. t # 0 /\ Chain(p, t)[0] \in {0}
  BY ChainLinks DEF Follow
<1>2. \A u \in {0} : Follow(p, u) \in {0}
  BY DEF Follow
<1>3. \A k \in 0 .. MaxThreads : Chain(p, t)[k] \in {0}
  <2>1. 0 \in 0 .. MaxThreads
    OBVIOUS
  <2> QED  BY <1>1, <1>2, <2>1, ChainStays
<1>4. MaxThreads \in 0 .. MaxThreads
  OBVIOUS
<1> QED  BY <1>1, <1>3, <1>4 DEF is_waiting_on, LoopsForever

-------------------------------------------------------------------------------
(* The program stashes an action.                                          *)

\* What the four actions of the program have in common.
Stashes(a) ==
  /\ phase = "user" /\ switch_thread(a) /\ UNCHANGED <<locked, held>>
  /\ a \in Action /\ a # NoAction
  /\ a.type = "PTHREAD_JOIN" => a.thread \in Created
  /\ a.type = "ATOMIC_LOCK" => a.mutex \in Mutex
  /\ resume[cur] = "start" => a.type = "THREAD_START"
  /\ \A u \in Thread \ {cur} : resume'[u] = resume[u]

LEMMA ProgramStashes ==
  ASSUME IInv, Start \/ Operate \/ Relock \/ Return
  PROVE  \E a : Stashes(a)
<1>0. TypeOK /\ cur \in Thread /\ resume \in [Thread -> Mutex \cup {"start", "none"}]
  BY DEF IInv, TypeOK
<1>1. CASE Start
  <2> DEFINE a == [NoAction EXCEPT !.type = "THREAD_START"]
  <2>1. a \in Action /\ a.type = "THREAD_START" /\ a # NoAction
    BY DEF NoAction, Action
  <2>2. /\ switch_thread(a) /\ phase = "user" /\ UNCHANGED <<locked, held>>
        /\ \A u \in Thread \ {cur} : resume'[u] = resume[u]
    BY <1>0, <1>1 DEF Start
  <2> HIDE DEF a
  <2> QED  BY <2>1, <2>2 DEF Stashes
<1>2. CASE Operate
  <2>1. PICK a \in Operation :
          /\ switch_thread(a)
          /\ resume' = IF a.type \in {"ATOMIC_WAIT", "ATOMIC_TIMEDWAIT"}
                       THEN [resume EXCEPT ![cur] = a.mutex] ELSE resume
    BY <1>2 DEF Operate
  <2>2. /\ a \in Action /\ a # NoAction
        /\ a.type = "PTHREAD_JOIN" => a.thread \in Created
        /\ a.type = "ATOMIC_LOCK" => a.mutex \in Mutex
    BY <1>0 DEF Operation, Waitable, Action, OpType, NoAction, Created, TypeOK
  <2>3. phase = "user" /\ resume[cur] = "none" /\ UNCHANGED <<locked, held>>
    BY <1>2 DEF Operate, Running
  <2>4. \A u \in Thread \ {cur} : resume'[u] = resume[u]
    BY <1>0, <2>1
  <2> QED  BY <2>1, <2>2, <2>3, <2>4 DEF Stashes
<1>3. CASE Relock
  <2> DEFINE a == [NoAction EXCEPT !.type = "ATOMIC_LOCK", !.mutex = resume[cur]]
  <2>1. a \in Action /\ a.type = "ATOMIC_LOCK" /\ a.mutex \in Mutex /\ a # NoAction
    BY <1>3 DEF NoAction, Action, Relock, OpType
  <2>2. /\ switch_thread(a) /\ phase = "user" /\ resume[cur] # "start" /\ UNCHANGED <<locked, held>>
        /\ \A u \in Thread \ {cur} : resume'[u] = resume[u]
    <3>1. resume[cur] # "start"
      BY <1>3 DEF Relock
    <3> QED  BY <1>0, <1>3, <3>1 DEF Relock
  <2> HIDE DEF a
  <2> QED  BY <2>1, <2>2 DEF Stashes
<1>4. CASE Return
  <2> DEFINE a == [NoAction EXCEPT !.type = "THREAD_FINISH"]
  <2>1. a \in Action /\ a.type = "THREAD_FINISH" /\ a # NoAction
    BY DEF NoAction, Action
  <2>2. /\ switch_thread(a) /\ phase = "user" /\ resume[cur] = "none" /\ UNCHANGED <<locked, held>>
        /\ resume' = resume
    BY <1>4 DEF Return, Running, program
  <2> HIDE DEF a
  <2> QED  BY <2>1, <2>2 DEF Stashes
<1> QED  BY <1>1, <1>2, <1>3, <1>4

\* What changes, with the new pending actions as p.
LEMMA StashShape ==
  ASSUME IInv, RefsOK, NEW a, Stashes(a), NEW p, p = pending'
  PROVE  /\ cur \in Created /\ cur \in Thread /\ nthreads \in Nat /\ Created \subseteq Thread
         /\ tstate[cur] = "RUNNING" /\ pending[cur] = NoAction /\ p[cur] = a
         /\ \A u \in Thread \ {cur} : p[u] = pending[u] /\ tstate'[u] = tstate[u]
         /\ tstate'[cur] \in {"BLOCKED", "READY"}
         /\ RefsOK' /\ Followable(p)
         /\ Created' = Created /\ UNCHANGED <<nthreads, locked, stackfreed, isfinished>>
         /\ asserted' = (asserted \/ is_waiting_on(p, cur))
         /\ phase' = IF LoopsForever(p, cur) THEN "hung" ELSE "scan"
<1>1. /\ cur \in Created /\ cur \in Thread /\ nthreads \in Thread
      /\ tstate[cur] = "RUNNING" /\ pending[cur] = NoAction
      /\ pending \in [Thread -> Action \cup {NoAction}] /\ DOMAIN tstate = Thread
  BY DEF IInv, ScanOK, Active, TypeOK, Stashes
<1>2. /\ pending' = [pending EXCEPT ![cur] = a] /\ a \in Action
      /\ UNCHANGED <<nthreads, locked, stackfreed, isfinished>>
      /\ asserted' = (asserted \/ is_waiting_on(pending', cur))
      /\ phase' = IF LoopsForever(pending', cur) THEN "hung" ELSE "scan"
      /\ \E x \in {"BLOCKED", "READY"} : tstate' = [tstate EXCEPT ![cur] = x]
  BY DEF Stashes, switch_thread
<1>3. /\ Created \subseteq Thread /\ Created' = Created /\ nthreads \in Nat
  BY <1>1, <1>2 DEF Created
<1>4. p[cur] = a /\ \A u \in Thread \ {cur} : p[u] = pending[u]
  BY <1>1, <1>2
<1>5. \A u \in Thread :
        /\ p[u].type = "PTHREAD_JOIN" => p[u].thread \in Created
        /\ p[u].type = "ATOMIC_LOCK" => p[u].mutex \in Mutex
  BY <1>4 DEF Stashes, RefsOK, IInv, ActionOK
<1>6. RefsOK'
  BY <1>2, <1>3, <1>5 DEF RefsOK
<1>7. Followable(p)
  BY <1>3, <1>5 DEF Followable, waiting_on, RefsOK
<1> QED  BY <1>1, <1>2, <1>3, <1>4, <1>6, <1>7

\* DeadlockFound speaks of closed sets.
LEMMA FoundIsClosed == DeadlockFound <=> (phase # "hung" => (asserted <=> \E S : Closed(S)))
<1>1. (\E S \in (SUBSET Created) \ {{}} : \A t \in S : WaitsWithin(t, S)) <=> \E S : Closed(S)
  BY DEF Closed
<1> QED  BY <1>1 DEF DeadlockFound

LEMMA ClosedIsCycleNext ==
  ASSUME NEW p, p = pending', locked' = locked, nthreads' = nthreads, nthreads \in Nat, NEW S
  PROVE  Closed(S)' <=> Cycle(p, S)
<1> SUFFICES ASSUME 0 \notin S, NEW u \in S
             PROVE  WaitsWithin(u, S)' <=> waiting_on(p[u]) \in S /\ ~RelocksRecursive(p, u)
  BY DEF Closed, Cycle, Created
<1>1. CASE p[u].type = "PTHREAD_JOIN"
  BY <1>1 DEF WaitsWithin, waiting_on, RelocksRecursive
<1>2. CASE p[u].type = "ATOMIC_LOCK"
  BY <1>2 DEF WaitsWithin, waiting_on, RelocksRecursive
<1>3. CASE p[u].type \notin {"PTHREAD_JOIN", "ATOMIC_LOCK"}
  BY <1>3 DEF WaitsWithin, waiting_on, RelocksRecursive
<1> QED  BY <1>1, <1>2, <1>3

\* The threads that wait for each other are others than cur, unless cur joins
\* them with its new action; then is_waiting_on finds it.
LEMMA StashDInv ==
  ASSUME DInv, OnLiveStack, IInv', NEW a, Stashes(a)
  PROVE  DInv'
<1>0. PICK p : p = pending'
  OBVIOUS
<1>1. IInv /\ RefsOK /\ Active /\ phase = "user" /\ cur \notin stackfreed /\ a # NoAction
  BY DEF DInv, Stashes, Active, OnLiveStack
<1>2. /\ cur \in Created /\ cur \in Thread /\ nthreads \in Nat /\ Created \subseteq Thread
      /\ tstate[cur] = "RUNNING" /\ pending[cur] = NoAction /\ p[cur] = a
      /\ \A u \in Thread \ {cur} : p[u] = pending[u] /\ tstate'[u] = tstate[u]
      /\ tstate'[cur] \in {"BLOCKED", "READY"}
      /\ RefsOK' /\ Followable(p)
      /\ Created' = Created /\ UNCHANGED <<nthreads, locked, stackfreed, isfinished>>
      /\ asserted' = (asserted \/ is_waiting_on(p, cur))
      /\ phase' = IF LoopsForever(p, cur) THEN "hung" ELSE "scan"
  BY <1>0, <1>1, StashShape
<1>3. resume[cur] = "start" => ~is_waiting_on(p, cur) /\ ~LoopsForever(p, cur)
  <2> SUFFICES ASSUME resume[cur] = "start" PROVE waiting_on(p[cur]) = 0
    BY <1>2, NobodyWaitsForStart
  <2>1. a.type = "THREAD_START"
    BY DEF Stashes
  <2> QED  BY <2>1, <1>2 DEF waiting_on
<1>4. resume[cur] # "start" => ~asserted /\ \A u \in Idle : u = cur
  <2> SUFFICES ASSUME resume[cur] # "start" PROVE ~asserted /\ \A u \in Idle : u = cur
    OBVIOUS
  <2>1. cur \in Idle
    BY <1>1, <1>2 DEF Idle, is_complete
  <2>2. IdleOK
    BY DEF DInv
  <2> HIDE DEF Idle
  <2> QED  BY <1>1, <2>1, <2>2 DEF IdleOK
<1>5. \A u \in Idle' : u # cur /\ u \in Idle
  <2> SUFFICES ASSUME NEW u \in Created', ~is_complete(u)', p[u] = NoAction, resume'[u] # "start", u \notin stackfreed'
               PROVE  u # cur /\ u \in Idle
    BY <1>0 DEF Idle
  <2>1. u # cur /\ u \in Thread
    BY <1>1, <1>2
  <2>2. pending[u] = NoAction /\ tstate'[u] = tstate[u] /\ resume'[u] = resume[u]
    BY <1>2, <2>1 DEF Stashes
  <2> QED  BY <1>2, <2>1, <2>2 DEF Idle, is_complete
<1>6. IdleOK'
  <2>1. \A t, u \in Idle' : t = u
    BY <1>1, <1>5 DEF DInv, IdleOK
  <2>2. ASSUME asserted' PROVE Idle' = {}
    <3>1. CASE asserted
      <4>1. Idle = {}
        BY <1>1, <3>1 DEF DInv, IdleOK
      <4> QED  BY <4>1, <1>5
    <3>2. CASE is_waiting_on(p, cur)
      BY <1>3, <1>4, <1>5, <3>2
    <3> QED  BY <1>2, <2>2, <3>1, <3>2
  <2> QED  BY <2>1, <2>2 DEF IdleOK
<1>7. ASSUME NEW S, cur \notin S PROVE Cycle(p, S) <=> Cycle(pending, S)
  <2>1. S \subseteq Created => \A u \in S : p[u] = pending[u]
    BY <1>2, <1>7
  <2> QED  BY <2>1 DEF Cycle, RelocksRecursive
<1>8. ASSUME NEW S, Cycle(pending, S) PROVE cur \notin S
  <2>1. waiting_on(pending[cur]) = 0
    BY <1>2 DEF waiting_on, NoAction
  <2>2. 0 \notin S
    BY <1>2, <1>8 DEF Cycle, Created
  <2> QED  BY <1>8, <2>1, <2>2 DEF Cycle
<1>9. asserted <=> \E S : Cycle(pending, S)
  BY <1>1, <1>2, ClosedIsCycle, FoundIsClosed DEF DInv
<1>10. DeadlockFound'
  <2>1. ASSUME phase' # "hung", asserted' PROVE \E S : Cycle(p, S)
    <3>1. CASE asserted
      BY <1>7, <1>8, <1>9, <3>1
    <3>2. CASE is_waiting_on(p, cur)
      BY <1>2, <3>2, WaitingIsCycle
    <3> QED  BY <1>2, <2>1, <3>1, <3>2
  <2>2. ASSUME phase' # "hung", NEW S, Cycle(p, S) PROVE asserted'
    <3>1. CASE cur \in S
      BY <1>2, <2>2, <3>1, CycleIsFound
    <3>2. CASE cur \notin S
      BY <1>2, <1>7, <1>9, <2>2, <3>2
    <3> QED  BY <3>1, <3>2
  <2>3. \A S : Closed(S)' <=> Cycle(p, S)
    BY <1>0, <1>2, ClosedIsCycleNext
  <2>4. phase' # "hung" => (asserted' <=> \E S : Closed(S)')
    BY <2>1, <2>2, <2>3
  <2>5. (\E S \in ((SUBSET Created) \ {{}})' : \A t \in S : WaitsWithin(t, S)') <=> \E S : Closed(S)'
    BY DEF Closed
  <2> QED  BY <2>4, <2>5 DEF DeadlockFound
<1>11. SearchEnds'
  <2> SUFFICES ASSUME phase' = "hung" PROVE \E u \in Created' : RelocksRecursive(pending, u)'
    BY DEF SearchEnds
  <2>1. LoopsForever(p, cur) /\ ~asserted
    BY <1>2, <1>3, <1>4
  <2>2. \A S : cur \notin S => ~Cycle(p, S)
    BY <1>7, <1>9, <2>1
  <2>3. nthreads \in Thread
    BY <1>1 DEF IInv, TypeOK
  <2>4. PICK u \in Created : RelocksRecursive(p, u)
    BY <1>2, <2>1, <2>2, <2>3, LoopIsCycle
  <2>5. RelocksRecursive(pending, u)'
    BY <1>0, <1>2, <2>4 DEF RelocksRecursive, waiting_on
  <2> QED  BY <1>2, <2>5
<1>12. FreedOK' /\ FinishOK' /\ NoThreadLeftBehind'
  <2>1. phase' \in {"hung", "scan"}
    BY <1>2
  <2>2. FreedOK'
    BY <1>2 DEF DInv, FreedOK
  <2> QED  BY <2>1, <2>2 DEF FinishOK, NoThreadLeftBehind
<1> QED  BY <1>2, <1>6, <1>10, <1>11, <1>12 DEF DInv

-------------------------------------------------------------------------------
(* The checker passes over threads, and ends the execution.                *)

\* getNextThread leaves actions, mutexes and what it found of deadlocks alone.
LEMMA ScanDInv ==
  ASSUME DInv, IInv', getNextThread
  PROVE  DInv'
<1> DEFINE idle == {t \in curr_thread_num .. nthreads : ~is_complete(t) /\ pending[t] = NoAction}
           over == curr_thread_num .. (IF idle = {} THEN nthreads ELSE Min(idle) - 1)
<1>1. /\ UNCHANGED <<nthreads, pending, locked, asserted, isfinished, resume>>
      /\ phase = "scan" /\ phase' \in {"choose", "undefined", "user"}
  BY DEF getNextThread, program
<1>2. /\ stackfreed' = stackfreed \cup Freed(over)
      /\ \A t \in Thread :
           tstate'[t] = IF t \in Blocked(over) THEN "BLOCKED"
                        ELSE IF t \in Freed(over) THEN "FREED"
                        ELSE IF idle # {} /\ t = Min(idle) THEN "RUNNING"
                        ELSE tstate[t]
  BY DEF getNextThread
<1>3. idle # {} => ~is_complete(Min(idle))
  <2>1. idle \in SUBSET Nat
    <3>1. curr_thread_num \in Thread /\ nthreads \in Thread
      BY DEF DInv, IInv, TypeOK
    <3> QED  BY <3>1
  <2>2. \A t \in idle : ~is_complete(t)
    OBVIOUS
  <2> HIDE DEF idle
  <2> QED  BY <2>1, <2>2, LeastOf
<1> HIDE DEF idle, over
<1>4. \A t \in Thread : is_complete(t)' <=> is_complete(t)
  <2>1. \A t \in Blocked(over) : t \in Thread => ~is_complete(t)
    BY DEF Blocked, is_enabled, DInv, IInv, StateOK
  <2>2. \A t \in Freed(over) : is_complete(t)
    BY DEF Freed, is_complete
  <2> QED  BY <1>2, <1>3, <2>1, <2>2 DEF is_complete
<1>5. RefsOK'
  BY <1>1 DEF DInv, RefsOK, Created
<1>6. FreedOK'
  BY <1>2 DEF DInv, FreedOK
<1>7. IdleOK'
  <2>1. \A t \in Idle' : t \in Idle
    <3> SUFFICES ASSUME NEW t \in Created, ~is_complete(t)', pending[t] = NoAction, resume[t] # "start", t \notin stackfreed'
                 PROVE  t \in Idle
      BY <1>1 DEF Idle, Created
    <3>1. t \in Thread
      BY DEF DInv, IInv, TypeOK, Created
    <3> QED  BY <1>2, <1>4, <3>1 DEF Idle
  <2> QED  BY <1>1, <2>1 DEF DInv, IdleOK, Active
<1>8. DeadlockFound'
  <2>1. nthreads \in Nat
    BY DEF DInv, IInv, TypeOK
  <2>2. \A S : Closed(S)' <=> Closed(S)
    BY <1>1, <2>1, ClosedIsCycleNext, ClosedIsCycle
  <2>3. asserted <=> \E S : Closed(S)
    BY <1>1, FoundIsClosed DEF DInv
  <2>4. (\E S \in ((SUBSET Created) \ {{}})' : \A t \in S : WaitsWithin(t, S)') <=> \E S : Closed(S)'
    BY DEF Closed
  <2> QED  BY <1>1, <2>2, <2>3, <2>4 DEF DeadlockFound
<1> QED  BY <1>1, <1>5, <1>6, <1>7, <1>8 DEF DInv, FinishOK, SearchEnds, NoThreadLeftBehind

\* Which threads have no action when all have been passed over.
LEMMA AllPassedOver ==
  ASSUME IInv, phase = "choose", NEW t \in Created
  PROVE  t \in Thread /\ (is_complete(t) <=> pending[t] = NoAction)
<1>1. t \in Thread
  BY DEF IInv, TypeOK, Created
<1> QED  BY <1>1 DEF IInv, ScanOK, StateOK, Active, PassedOver

\* What is reported agrees with who is left.
LEMMA FinishDInv ==
  ASSUME DInv, IInv', finish_execution
  PROVE  DInv'
<1>1. /\ phase \in {"choose", "finish"} /\ phase' = "done" /\ deadlock' = (asserted \/ is_deadlocked)
      /\ phase = "choose" => asserted \/ Available \cup Sleepers = {}
      /\ UNCHANGED <<nthreads, tstate, pending, locked, asserted, isfinished, stackfreed, resume>>
  BY DEF finish_execution, program
<1>2. NoThreadLeftBehind'
  <2> SUFFICES ASSUME ~isfinished PROVE deadlock' <=> \E t \in Created' : ~is_complete(t)'
    BY <1>1 DEF NoThreadLeftBehind
  <2>1. phase = "choose"
    BY <1>1 DEF DInv, FinishOK
  <2>2. \A t \in Created : is_complete(t) <=> pending[t] = NoAction
    BY <2>1, AllPassedOver DEF DInv
  <2>3. asserted => \E t \in Created : pending[t] # NoAction
    <3> SUFFICES ASSUME asserted PROVE \E t \in Created : pending[t] # NoAction
      OBVIOUS
    <3>1. PICK S : Closed(S)
      BY <2>1, FoundIsClosed DEF DInv
    <3>2. PICK t \in S : t \in Created /\ WaitsWithin(t, S)
      BY <3>1 DEF Closed
    <3> QED  BY <3>2 DEF WaitsWithin, NoAction
  <2>4. deadlock' <=> \E t \in Created : pending[t] # NoAction
    BY <1>1, <2>1, <2>3 DEF is_deadlocked
  <2> QED  BY <1>1, <2>2, <2>4 DEF Created, is_complete
<1>3. DeadlockFound'
  <2>1. nthreads \in Nat
    BY DEF DInv, IInv, TypeOK
  <2>2. \A S : Closed(S)' <=> Closed(S)
    BY <1>1, <2>1, ClosedIsCycleNext, ClosedIsCycle
  <2>3. asserted <=> \E S : Closed(S)
    BY <1>1, FoundIsClosed DEF DInv
  <2>4. (\E S \in ((SUBSET Created) \ {{}})' : \A t \in S : WaitsWithin(t, S)') <=> \E S : Closed(S)'
    BY DEF Closed
  <2> QED  BY <1>1, <2>2, <2>3, <2>4 DEF DeadlockFound
<1>4. RefsOK' /\ FreedOK'
  BY <1>1 DEF DInv, RefsOK, FreedOK, Created
<1> QED  BY <1>1, <1>2, <1>3, <1>4 DEF DInv, FinishOK, SearchEnds, IdleOK, Active

-------------------------------------------------------------------------------
(* A thread is chosen and its action carried out.                          *)

\* What the operations of t have in common: of the pending actions only that of
\* t changes, mutexes are locked by t or unlocked, and who has ended is not
\* woken unless its stack was freed.
Moves(t) ==
  /\ phase = "choose" /\ ~asserted /\ ~asserted'
  /\ phase' \in {"scan", "finish"} /\ (phase' = "finish" => isfinished')
  /\ t \in Created /\ Created \subseteq Created'
  /\ UNCHANGED <<resume, stackfreed>>
  /\ \A u \in Thread \ {t} : pending'[u] = pending[u] /\ (tstate[u] = "COMPLETED" => tstate'[u] = "COMPLETED")
  /\ pending'[t] = NoAction \/ pending'[t].type = "THREAD_SLEEP"
  /\ \A u \in Thread : tstate'[u] = "FREED" => tstate[u] = "FREED"
  /\ \A m \in Mutex : locked'[m] \in {locked[m], 0, t}

LEMMA TakeStepMoves ==
  ASSUME IInv, NEW t \in Thread, NEW type, NEW woken, NEW st, NEW en, take_step(t, type, woken, st, en),
         st \in {tstate[t], "BLOCKED", "COMPLETED"},
         \A u \in woken : u \in Created => tstate[u] # "COMPLETED",
         nthreads' \in {nthreads, nthreads + 1},
         \A m \in Mutex : locked'[m] \in {locked[m], 0, t},
         phase' \in {"scan", "finish"}, phase' = "finish" => isfinished'
  PROVE  Moves(t)
<1>1. /\ t \in Created /\ phase = "choose" /\ ~asserted /\ ~asserted'
      /\ pending[t].type = type /\ UNCHANGED <<resume, stackfreed>>
      /\ pending' = [pending EXCEPT ![t] = IF type = "THREAD_SLEEP" THEN @ ELSE NoAction]
      /\ tstate' = [u \in Thread |->
                      IF u = t THEN st ELSE IF u \in woken \cap Created THEN "READY" ELSE tstate[u]]
  BY ChosenThread DEF take_step, Chosen
<1>2. /\ \A u \in Thread \ {t} : pending'[u] = pending[u]
      /\ pending'[t] = NoAction \/ pending'[t].type = "THREAD_SLEEP"
  BY <1>1 DEF IInv, TypeOK
<1>3. /\ \A u \in Thread \ {t} : tstate[u] = "COMPLETED" => tstate'[u] = "COMPLETED"
      /\ \A u \in Thread : tstate'[u] = "FREED" => tstate[u] = "FREED"
  BY <1>1
<1>4. Created \subseteq Created'
  BY DEF Created, IInv, TypeOK
<1> QED  BY <1>1, <1>2, <1>3, <1>4 DEF Moves

\* One that goes on, whichever threads it wakes that have not ended.
LEMMA GoOnMoves ==
  ASSUME IInv, NEW t \in Thread, NEW type, NEW woken, go_on(t, type, woken),
         \A u \in woken : u \in Created => tstate[u] # "COMPLETED",
         \A m \in Mutex : locked'[m] \in {locked[m], 0, t}
  PROVE  Moves(t)
<1>1. /\ take_step(t, type, woken, tstate[t], enabled[t])
      /\ nthreads' = nthreads /\ phase' = "scan"
  BY DEF go_on, startRunExecution
<1> QED  BY <1>1, TakeStepMoves

\* Threads that wait for a mutex or for another's end have not ended.
LEMMA WaitersGoOn ==
  ASSUME IInv, NEW t
  PROVE  \A u \in AwaitUnlock(t) \cup AwaitEnd(t) : tstate[u] # "COMPLETED"
<1> SUFFICES ASSUME NEW u \in Created, pending[u].type \in {"ATOMIC_LOCK", "PTHREAD_JOIN"}
             PROVE  tstate[u] # "COMPLETED"
  BY DEF AwaitUnlock, AwaitEnd
<1>1. u \in Thread /\ pending[u] # NoAction
  BY DEF IInv, TypeOK, Created, NoAction
<1> QED  BY <1>1 DEF IInv, StateOK, is_complete

LEMMA StepMoves ==
  ASSUME IInv, NEW t \in Thread, Step(t)
  PROVE  Moves(t)
<1>0. /\ locked \in [Mutex -> Thread \cup {0}] /\ nthreads \in Thread /\ nthreads' \in Thread
      /\ pending \in [Thread -> Action \cup {NoAction}]
  <2>1. nthreads' \in Thread
    BY StepInv DEF IInv, TypeOK
  <2> QED  BY <2>1 DEF IInv, TypeOK
<1>1. CASE WakeUp(t)
  <2>1. t \in Created
    BY <1>1, ChosenThread DEF WakeUp, Sleepers
  <2>2. /\ phase = "choose" /\ ~asserted /\ ~asserted' /\ phase' = "scan" /\ Created' = Created
        /\ UNCHANGED <<resume, stackfreed, tstate, locked>>
        /\ pending' = [pending EXCEPT ![t] = NoAction]
    BY <1>1 DEF WakeUp, Chosen, startRunExecution, program, Created
  <2> QED  BY <1>0, <2>1, <2>2 DEF Moves
<1>2. CASE ThreadStart(t) \/ Yield(t) \/ Join(t)
  BY <1>2, GoOnMoves DEF ThreadStart, Yield, Join
<1>3. CASE PthreadCreate(t)
  <2>1. nthreads + 1 \notin Created
    BY <1>0 DEF Created
  <2>2. /\ take_step(t, "PTHREAD_CREATE", {nthreads + 1}, tstate[t], enabled[t])
        /\ nthreads' = nthreads + 1 /\ phase' = "scan" /\ locked' = locked
    BY <1>3 DEF PthreadCreate, startRunExecution
  <2> QED  BY <2>1, <2>2, TakeStepMoves
<1>4. CASE Lock(t)
  <2>1. go_on(t, "ATOMIC_LOCK", {}) /\ locked' = [locked EXCEPT ![pending[t].mutex] = t]
    BY <1>4 DEF Lock, acquire
  <2> QED  BY <1>0, <2>1, GoOnMoves
<1>5. CASE TryLock(t)
  <2>1. /\ go_on(t, "ATOMIC_TRYLOCK", {})
        /\ locked' = [locked EXCEPT ![pending[t].mutex] = t] \/ locked' = locked
    BY <1>5 DEF TryLock, acquire
  <2> QED  BY <1>0, <2>1, GoOnMoves
<1>6. CASE Unlock(t)
  <2>1. PICK type : go_on(t, type, AwaitUnlock(t))
    BY <1>6 DEF Unlock
  <2>2. locked' = [locked EXCEPT ![pending[t].mutex] = 0]
    BY <1>6 DEF Unlock, release
  <2> QED  BY <1>0, <2>1, <2>2, GoOnMoves, WaitersGoOn
<1>7. CASE Wait(t)
  <2>1. /\ take_step(t, "ATOMIC_WAIT", AwaitUnlock(t), "BLOCKED", "DISABLED")
        /\ locked' = [locked EXCEPT ![pending[t].mutex] = 0]
        /\ nthreads' = nthreads /\ phase' = "scan"
    BY <1>7 DEF Wait, release, startRunExecution
  <2> QED  BY <1>0, <2>1, TakeStepMoves, WaitersGoOn
<1>8. CASE NotifyAll(t)
  <2>1. go_on(t, "ATOMIC_NOTIFY_ALL", Notified(waiters[pending[t].cond])) /\ locked' = locked
    BY <1>8 DEF NotifyAll
  <2>2. \A u \in Notified(waiters[pending[t].cond]) : tstate[u] # "COMPLETED"
    BY DEF Notified
  <2> QED  BY <2>1, <2>2, GoOnMoves
<1>9. CASE NotifyOne(t)
  <2>1. PICK one : go_on(t, "ATOMIC_NOTIFY_ONE", Notified(one))
    BY <1>9 DEF NotifyOne
  <2>2. locked' = locked
    BY <1>9 DEF NotifyOne
  <2>3. \A u \in Notified(one) : tstate[u] # "COMPLETED"
    BY DEF Notified
  <2> QED  BY <2>1, <2>2, <2>3, GoOnMoves
<1>10. CASE ThreadSleep(t)
  <2>1. /\ take_step(t, "THREAD_SLEEP", {}, tstate[t], "SLEEP_SET")
        /\ nthreads' = nthreads /\ phase' = "scan" /\ locked' = locked
    BY <1>10 DEF ThreadSleep, startRunExecution
  <2> QED  BY <2>1, TakeStepMoves
<1>11. CASE ThreadFinish(t)
  <2>1. PICK type : take_step(t, type, AwaitEnd(t), "COMPLETED", "DISABLED")
    BY <1>11 DEF ThreadFinish
  <2>2. nthreads' = nthreads /\ phase' = "scan" /\ locked' = locked
    BY <1>11 DEF ThreadFinish, startRunExecution
  <2> QED  BY <2>1, <2>2, TakeStepMoves, WaitersGoOn
<1>12. CASE ProgramFinish(t)
  <2>1. PICK type : take_step(t, type, {}, "COMPLETED", "DISABLED")
    BY <1>12 DEF ProgramFinish
  <2>2. nthreads' = nthreads /\ phase' = "finish" /\ isfinished' /\ locked' = locked
    BY <1>12 DEF ProgramFinish
  <2> QED  BY <2>1, <2>2, TakeStepMoves
<1> QED
  BY <1>1, <1>2, <1>3, <1>4, <1>5, <1>6, <1>7, <1>8, <1>9, <1>10, <1>11, <1>12 DEF Step

\* t has nothing left to wait for, and nobody begins to wait.
LEMMA StepDInv ==
  ASSUME DInv, IInv', NEW t \in Thread, Moves(t)
  PROVE  DInv'
<1>0. /\ nthreads \in Nat /\ nthreads' \in Nat /\ Created \subseteq Thread /\ Created' \subseteq Thread
      /\ t # 0 /\ 0 \notin Created'
  BY DEF DInv, IInv, TypeOK, Created
<1>1. RefsOK'
  <2>1. ASSUME NEW u \in Thread, pending'[u].type = "PTHREAD_JOIN" PROVE pending'[u].thread \in Created'
    <3>1. u # t
      BY <2>1 DEF Moves, NoAction
    <3>2. pending'[u] = pending[u]
      BY <3>1 DEF Moves
    <3> QED  BY <2>1, <3>2 DEF DInv, RefsOK, Moves
  <2>2. \A m \in Mutex : locked'[m] \in Created' \cup {0}
    BY DEF DInv, RefsOK, Moves
  <2> QED  BY <2>1, <2>2 DEF RefsOK
<1>2. FreedOK'
  BY DEF DInv, FreedOK, Moves
<1>3. IdleOK'
  <2>1. ASSUME NEW u \in Created', ~is_complete(u)', pending'[u] = NoAction, resume'[u] # "start", u \notin stackfreed'
        PROVE  u = t
    <3> SUFFICES ASSUME u # t PROVE FALSE
      OBVIOUS
    <3>1. u \in Thread /\ pending[u] = NoAction /\ resume[u] # "start" /\ u \notin stackfreed
      BY <1>0, <2>1 DEF Moves
    <3>2. u \in Created
      BY <3>1 DEF DInv, IInv, StateOK
    <3>3. is_complete(u)
      BY <3>1, <3>2, AllPassedOver DEF DInv, Moves
    <3>4. tstate[u] # "FREED"
      BY <3>1 DEF DInv, FreedOK
    <3>5. tstate'[u] = "COMPLETED"
      BY <3>1, <3>3, <3>4 DEF is_complete, Moves
    <3> QED  BY <2>1, <3>5 DEF is_complete
  <2>2. \A u \in Idle' : u = t
    BY <2>1 DEF Idle
  <2> QED  BY <2>2 DEF IdleOK, Moves
<1>4. ASSUME NEW S, Closed(S)' PROVE FALSE
  <2>1. S # {} /\ S \subseteq Created' /\ \A u \in S : WaitsWithin(u, S)'
    BY <1>4 DEF Closed
  <2>2. t \notin S
    <3>1. ~WaitsWithin(t, S)'
      BY DEF WaitsWithin, Moves, NoAction
    <3> QED  BY <2>1, <3>1
  <2>3. ASSUME NEW u \in S PROVE u \in Created /\ WaitsWithin(u, S)
    <3>1. u \in Thread /\ u # t /\ pending'[u] = pending[u] /\ 0 \notin S
      BY <1>0, <2>1, <2>2 DEF Moves
    <3>2. \/ pending[u].type = "PTHREAD_JOIN" /\ pending[u].thread \in S
          \/ /\ pending[u].type = "ATOMIC_LOCK"
             /\ locked'[pending[u].mutex] \in S
             /\ ~(pending[u].mutex \in Recursive /\ locked'[pending[u].mutex] = u)
      BY <2>1, <3>1 DEF WaitsWithin
    <3>3. u \in Created
      BY <3>1, <3>2 DEF DInv, IInv, StateOK, NoAction
    <3>4. pending[u].type = "ATOMIC_LOCK" => pending[u].mutex \in Mutex
      BY <3>1 DEF DInv, IInv, ActionOK
    <3>5. pending[u].type = "ATOMIC_LOCK" /\ locked'[pending[u].mutex] \in S =>
            locked'[pending[u].mutex] = locked[pending[u].mutex]
      BY <2>2, <3>1, <3>4 DEF Moves
    <3> QED  BY <3>2, <3>3, <3>5 DEF WaitsWithin
  <2>4. Closed(S)
    BY <2>1, <2>3 DEF Closed
  <2> QED  BY <2>4, FoundIsClosed DEF DInv, Moves
<1>5. DeadlockFound'
  <2>1. (\E S \in ((SUBSET Created) \ {{}})' : \A u \in S : WaitsWithin(u, S)') => \E S : Closed(S)'
    BY DEF Closed
  <2> QED  BY <1>4, <2>1 DEF DeadlockFound, Moves
<1>6. FinishOK' /\ SearchEnds' /\ NoThreadLeftBehind'
  BY DEF Moves, FinishOK, SearchEnds, NoThreadLeftBehind
<1> QED  BY <1>1, <1>2, <1>3, <1>5, <1>6 DEF DInv

-------------------------------------------------------------------------------
(* The theorems.                                                           *)

LEMMA InitDInv == Init => DInv
<1> SUFFICES ASSUME Init PROVE DInv
  OBVIOUS
<1>1. IInv
  BY InitInv
<1>2. RefsOK /\ FreedOK /\ FinishOK /\ SearchEnds /\ NoThreadLeftBehind
  BY DEF Init, RefsOK, FreedOK, FinishOK, SearchEnds, NoThreadLeftBehind, NoAction
<1>3. IdleOK
  BY DEF Init, IdleOK, Idle, Created
<1>4. DeadlockFound
  <2>1. \A t \in Created : pending[t] = NoAction
    BY DEF Init, Created
  <2>2. \A S : ~Closed(S)
    BY <2>1 DEF Closed, WaitsWithin, NoAction
  <2> QED  BY <2>2, FoundIsClosed DEF Init
<1> QED  BY <1>1, <1>2, <1>3, <1>4 DEF DInv

LEMMA NextDInv == DInv /\ OnLiveStack /\ [Next]_vars => DInv'
<1> SUFFICES ASSUME DInv, OnLiveStack, [Next]_vars PROVE DInv'
  OBVIOUS
<1>0. IInv /\ IInv'
  BY NextInv DEF DInv
<1>1. CASE Start \/ Operate \/ Relock \/ Return
  BY <1>0, <1>1, ProgramStashes, StashDInv
<1>2. CASE getNextThread
  BY <1>0, <1>2, ScanDInv
<1>3. CASE finish_execution
  BY <1>0, <1>3, FinishDInv
<1>4. CASE \E t \in Thread : Step(t)
  BY <1>0, <1>4, StepMoves, StepDInv
<1>5. CASE UNCHANGED vars
  <2>1. RefsOK' /\ FreedOK' /\ IdleOK' /\ FinishOK'
    BY <1>5 DEF DInv, vars, RefsOK, FreedOK, IdleOK, Idle, FinishOK, Active, Created, is_complete
  <2>2. DeadlockFound' /\ SearchEnds' /\ NoThreadLeftBehind'
    BY <1>5 DEF DInv, vars, DeadlockFound, SearchEnds, NoThreadLeftBehind, Created, is_complete, WaitsWithin,
                RelocksRecursive, waiting_on
  <2> QED  BY <1>0, <2>1, <2>2 DEF DInv
<1> QED
  BY <1>1, <1>2, <1>3, <1>4, <1>5 DEF Next, Done

LEMMA SpecDInv == Spec => []DInv
BY InitDInv, NextDInv, OnLiveStackTheorem, PTL DEF Spec

\* A deadlock is found (is_waiting_on) as soon as threads wait for each other,
\* and at no other time, where the search ends.
THEOREM DeadlockFoundTheorem == Spec => []DeadlockFound
<1>1. DInv => DeadlockFound
  BY DEF DInv
<1> QED  BY <1>1, SpecDInv, PTL

\* The search (the loop of is_waiting_on) goes round forever only where some
\* thread is about to lock a recursive mutex it holds.
THEOREM SearchEndsTheorem == Spec => []SearchEnds
<1>1. DInv => SearchEnds
  BY DEF DInv
<1> QED  BY <1>1, SpecDInv, PTL

\* An execution that ends otherwise than by the end of the program reports a
\* deadlock exactly when it leaves a thread behind (is_deadlocked).
THEOREM NoThreadLeftBehindTheorem == Spec => []NoThreadLeftBehind
<1>1. DInv => NoThreadLeftBehind
  BY DEF DInv
<1> QED  BY <1>1, SpecDInv, PTL

-------------------------------------------------------------------------------
(* Kernel threads.                                                         *)

\* Only a thread that has left setup_context does anything but start, so that it has a
\* helper when it ends; one that was freed is never resumed.
EndsOK ==
  /\ phase # "undefined" /\ cur \notin stackfreed
  /\ \A t \in Thread :
       /\ t \in stackfreed => tstate[t] = "FREED"
       /\ is_complete(t) => t \in booted
       /\ pending[t].type \notin {"none", "THREAD_START"} => t \in booted

\* The thread that is creating its helper.
SetUp(t) == cur = t /\ phase = "user" /\ resume[t] = "none" /\ joining = {}

Places == {"none", "entered", "finalizing", "waiting", "back", "gone"}

\* Where a helper is, by how far its thread has got.
HelperOK(t) ==
  /\ helper[t] \in Places
  /\ helper[t] = "none" => t \notin tls \cup booted \cup mutex2
  /\ helper[t] \in {"entered", "finalizing"} =>
       SetUp(t) /\ t \in mutex2 /\ t \notin tls \cup booted
  /\ helper[t] \in {"waiting", "back", "gone"} => t \in tls
  /\ helper[t] = "waiting" /\ t \notin booted => SetUp(t)
  /\ helper[t] \in {"back", "gone"} => t \in (joining \cup released) \ mutex2
  /\ t \in booted \ (joining \cup released) => helper[t] = "waiting"
  /\ t \in mutex2 => t \notin released
  /\ t \notin booted \cup joining \cup released => t \in mutex2 \/ helper[t] = "none"
  /\ t \in joining \cup released => helper[t] \in {"waiting", "back", "gone"}
  /\ t \in released \ unjoined => helper[t] = "gone"
  /\ t \in tls /\ t \notin joining \cup released => t \in mutex2
  /\ fs = t => t \in tls /\ t \notin released \ unjoined

JoinsOK ==
  /\ joining \cup released \subseteq stackfreed
  /\ stackfreed \ {1} \subseteq joining \cup released
  /\ joining \cap released = {} /\ 1 \notin joining /\ unjoined \subseteq released
  /\ on \in Thread /\ on \notin stackfreed
  /\ joining = {} \/ phase = "choose" => on = cur
  /\ joining # {} => phase \in {"user", "choose"}
  /\ 1 \in booted /\ helper[1] = "none" /\ tls \subseteq Thread /\ fs \in Thread

KInv == /\ IInv /\ EndsOK /\ JoinsOK
        /\ helper \in [Thread -> Places]
        /\ \A t \in Thread \ {1} : HelperOK(t)

LEMMA KernelSchedules == KernelNext => [Next]_vars
<1> SUFFICES ASSUME KernelNext PROVE [Next]_vars
  OBVIOUS
<1>1. CASE Check
  BY <1>1 DEF Check, Next, Step
<1>2. CASE Scan
  BY <1>2 DEF Scan, Next
<1>3. CASE CreateHelper \/ TakeOver
  BY <1>3 DEF CreateHelper, TakeOver
<1>4. ASSUME NEW t \in Thread,
             UnlockMutex2(t) \/ JoinHelper(t) \/ SaveContext(t) \/ Publish(t) \/ SetContext(t) \/ Exit(t)
      PROVE  UNCHANGED vars
  BY <1>4 DEF UnlockMutex2, JoinHelper, SaveContext, Publish, SetContext, Exit
<1> QED  BY <1>1, <1>2, <1>3, <1>4 DEF KernelNext

LEMMA KInitially == KernelInit => KInv
<1> SUFFICES ASSUME KernelInit PROVE KInv
  OBVIOUS
<1>1. IInv
  BY InitInv DEF KernelInit
<1>2. EndsOK
  BY DEF KernelInit, Init, EndsOK, is_complete, NoAction
<1>3. JoinsOK
  <2>1. 1 \in Thread
    OBVIOUS
  <2>2. /\ joining = {} /\ released = {} /\ unjoined = {} /\ stackfreed = {} /\ booted = {1} /\ tls = {1}
        /\ on = 1 /\ cur = 1 /\ fs = 1 /\ helper = [t \in Thread |-> "none"]
    BY DEF KernelInit, Init
  <2> QED  BY <2>1, <2>2 DEF JoinsOK
<1>4. helper \in [Thread -> Places]
  BY DEF KernelInit, Places
<1>5. \A t \in Thread \ {1} : HelperOK(t)
  BY DEF KernelInit, Places, HelperOK
<1> QED  BY <1>1, <1>2, <1>3, <1>4, <1>5 DEF KInv

\* What stays as it is when the scheduler does nothing.
LEMMA SchedulerRests ==
  ASSUME KInv, UNCHANGED vars, booted \subseteq booted'
  PROVE  IInv' /\ EndsOK' /\ \A t : (joining' = joining => SetUp(t)' = SetUp(t))
<1>1. IInv'
  BY NextInv DEF KInv
<1>2. /\ phase' = phase /\ cur' = cur /\ tstate' = tstate /\ pending' = pending
      /\ resume' = resume /\ stackfreed' = stackfreed
  BY DEF vars, program
<1>3. EndsOK'
  BY <1>2 DEF KInv, EndsOK, is_complete
<1> QED  BY <1>1, <1>2, <1>3 DEF SetUp

-------------------------------------------------------------------------------

\* A thread that stashes an action has left setup_context, or starts.
LEMMA StashEnds ==
  ASSUME KInv, NEW a, switch_thread(a), phase = "user", a.type = "THREAD_START" \/ cur \in booted, booted' = booted
  PROVE  EndsOK'
<1>1. /\ cur \in Thread /\ tstate[cur] = "RUNNING"
      /\ tstate \in [Thread -> {"CREATED", "RUNNING", "READY", "BLOCKED", "COMPLETED", "FREED"}]
      /\ pending \in [Thread -> Action \cup {NoAction}]
  BY DEF KInv, IInv, TypeOK, ScanOK, Active
<1>2. /\ stackfreed' = stackfreed /\ cur' = cur /\ phase' \in {"hung", "scan"}
      /\ tstate'[cur] \in {"BLOCKED", "READY"} /\ pending'[cur] = a
      /\ \A t \in Thread \ {cur} : tstate'[t] = tstate[t] /\ pending'[t] = pending[t]
  BY <1>1 DEF switch_thread
<1>3. cur \notin stackfreed
  BY DEF KInv, EndsOK
<1> SUFFICES ASSUME NEW t \in Thread
             PROVE  /\ t \in stackfreed' => tstate'[t] = "FREED"
                    /\ is_complete(t)' => t \in booted'
                    /\ pending'[t].type \notin {"none", "THREAD_START"} => t \in booted'
  BY <1>2, <1>3 DEF EndsOK
<1>4. CASE t = cur
  BY <1>2, <1>3, <1>4 DEF is_complete
<1>5. CASE t # cur
  BY <1>2, <1>5 DEF KInv, EndsOK, is_complete
<1> QED  BY <1>4, <1>5

\* A thread that ends has left it.
LEMMA CarriedOutEnds ==
  ASSUME KInv, NEW t \in Thread, NEW type, NEW woken, NEW st, NEW en,
         take_step(t, type, woken, st, en), type # "none",
         type = "THREAD_START" => st = tstate[t],
         phase' \in {"scan", "finish"}, booted' = booted,
         \A u \in woken \cap Created : ~is_complete(u)
  PROVE  EndsOK'
<1>1. /\ tstate \in [Thread -> {"CREATED", "RUNNING", "READY", "BLOCKED", "COMPLETED", "FREED"}]
      /\ pending \in [Thread -> Action \cup {NoAction}]
      /\ pending[t].type = type
  BY DEF KInv, IInv, TypeOK, take_step
<1>2. /\ stackfreed' = stackfreed /\ cur' = cur /\ tstate'[t] = st
      /\ \A u \in Thread \ {t} : tstate'[u] = IF u \in woken \cap Created THEN "READY" ELSE tstate[u]
      /\ \A u \in Thread : pending'[u] = pending[u] \/ pending'[u].type = "none"
  BY <1>1 DEF take_step, NoAction
<1>3. ~is_complete(t)
  BY <1>1 DEF KInv, IInv, StateOK, NoAction
<1> SUFFICES ASSUME NEW u \in Thread
             PROVE  /\ u \in stackfreed' => tstate'[u] = "FREED"
                    /\ is_complete(u)' => u \in booted'
                    /\ pending'[u].type \notin {"none", "THREAD_START"} => u \in booted'
  BY <1>2 DEF KInv, EndsOK
<1>4. pending'[u].type \notin {"none", "THREAD_START"} => u \in booted'
  BY <1>2 DEF KInv, EndsOK
<1>5. u \in stackfreed => is_complete(u)
  BY DEF KInv, EndsOK, is_complete
<1>6. CASE u = t
  <2>1. u \notin stackfreed
    BY <1>3, <1>5, <1>6
  <2>2. CASE type = "THREAD_START"
    BY <1>2, <1>3, <1>4, <1>6, <2>1, <2>2 DEF is_complete
  <2>3. CASE type # "THREAD_START"
    BY <1>1, <1>2, <1>4, <1>6, <2>1, <2>3 DEF KInv, EndsOK
  <2> QED  BY <2>2, <2>3
<1>7. CASE u # t /\ u \in woken \cap Created
  BY <1>2, <1>4, <1>5, <1>7 DEF is_complete
<1>8. CASE u # t /\ u \notin woken \cap Created
  <2>1. tstate'[u] = tstate[u]
    BY <1>2, <1>8
  <2> QED  BY <1>2, <1>4, <2>1 DEF KInv, EndsOK, is_complete
<1> QED  BY <1>6, <1>7, <1>8

LEMMA CheckEnds ==
  ASSUME KInv, Check
  PROVE  EndsOK' /\ stackfreed' = stackfreed /\ cur' = cur
<1>0. booted' = booted
  BY DEF Check, kernelVars
<1>1. ASSUME Start PROVE EndsOK' /\ stackfreed' = stackfreed /\ cur' = cur
  <2>1. switch_thread([NoAction EXCEPT !.type = "THREAD_START"]) /\ phase = "user"
    BY <1>1 DEF Start
  <2>2. [NoAction EXCEPT !.type = "THREAD_START"].type = "THREAD_START"
    BY DEF NoAction
  <2> QED  BY <1>0, <2>1, <2>2, StashEnds DEF switch_thread
<1>2. ASSUME Operate \/ Return, cur \in booted PROVE EndsOK' /\ stackfreed' = stackfreed /\ cur' = cur
  <2>1. PICK a : switch_thread(a) /\ phase = "user"
    BY <1>2 DEF Operate, Return, Running
  <2> QED  BY <1>0, <1>2, <2>1, StashEnds DEF switch_thread
<1>3. CASE finish_execution
  BY <1>0, <1>3 DEF finish_execution, KInv, EndsOK, is_complete
<1>4. ASSUME NEW t \in Thread, ThreadStart(t) \/ Yield(t) \/ Join(t) \/ PthreadCreate(t) \/ ThreadFinish(t) \/ ProgramFinish(t)
      PROVE  EndsOK' /\ stackfreed' = stackfreed /\ cur' = cur
  <2>1. ASSUME NEW type \in {"THREAD_START", "THREAD_YIELD", "PTHREAD_JOIN"}, go_on(t, type, {})
        PROVE  EndsOK' /\ stackfreed' = stackfreed /\ cur' = cur
    <3>1. take_step(t, type, {}, tstate[t], enabled[t]) /\ phase' = "scan"
      BY <2>1 DEF go_on, startRunExecution
    <3>2. EndsOK'
      BY <1>0, <3>1, CarriedOutEnds
    <3> QED  BY <3>1, <3>2 DEF take_step
  <2>2. CASE PthreadCreate(t)
    <3>1. /\ take_step(t, "PTHREAD_CREATE", {nthreads + 1}, tstate[t], enabled[t]) /\ phase' = "scan"
      BY <2>2 DEF PthreadCreate, startRunExecution
    <3>2. {nthreads + 1} \cap Created = {}
      <4>1. nthreads \in Nat
        BY DEF KInv, IInv, TypeOK
      <4> QED  BY <4>1 DEF Created
    <3>3. EndsOK'
      BY <1>0, <3>1, <3>2, CarriedOutEnds
    <3> QED  BY <3>1, <3>3 DEF take_step
  <2>3. CASE ThreadFinish(t)
    <3>1. PICK type \in {"THREAD_FINISH", "THREADONLY_FINISH"} :
            take_step(t, type, AwaitEnd(t), "COMPLETED", "DISABLED")
      BY <2>3 DEF ThreadFinish
    <3>2. phase' = "scan"
      BY <2>3 DEF ThreadFinish, startRunExecution
    <3>3. ASSUME NEW u \in AwaitEnd(t) \cap Created PROVE ~is_complete(u)
      <4>1. u \in Thread /\ pending[u].type = "PTHREAD_JOIN"
        <5>1. nthreads \in Thread
          BY DEF KInv, IInv, TypeOK
        <5> QED  BY <5>1 DEF AwaitEnd, Created
      <4> QED  BY <4>1 DEF KInv, IInv, StateOK, NoAction
    <3>4. EndsOK'
      BY <1>0, <3>1, <3>2, <3>3, CarriedOutEnds
    <3> QED  BY <3>1, <3>4 DEF take_step
  <2>4. CASE ProgramFinish(t)
    <3>1. PICK type \in {"THREAD_FINISH", "THREAD_FINISHALL"} :
            take_step(t, type, {}, "COMPLETED", "DISABLED")
      BY <2>4 DEF ProgramFinish
    <3>2. phase' = "finish"
      BY <2>4 DEF ProgramFinish
    <3>3. EndsOK'
      BY <1>0, <3>1, <3>2, CarriedOutEnds
    <3> QED  BY <3>1, <3>3 DEF take_step
  <2> QED  BY <1>4, <2>1, <2>2, <2>3, <2>4 DEF ThreadStart, Yield, Join
<1> QED  BY <1>1, <1>2, <1>3, <1>4 DEF Check

\* While a thread is in setup_context the scheduler has nothing to do.
LEMMA CheckWaits ==
  ASSUME NEW t, SetUp(t), t \notin booted, Check
  PROVE  FALSE
<1>1. phase = "user" /\ resume[cur] = "none" /\ cur \notin booted
  BY DEF SetUp
<1>2. ~Start /\ ~finish_execution
  BY <1>1 DEF Start, finish_execution
<1>3. ASSUME NEW u, NEW type, NEW woken, NEW st, NEW en, take_step(u, type, woken, st, en)
      PROVE  FALSE
  BY <1>1, <1>3 DEF take_step, Chosen
<1>4. ASSUME NEW u, NEW type, go_on(u, type, {}) PROVE FALSE
  BY <1>3, <1>4 DEF go_on
<1> QED  BY <1>1, <1>2, <1>3, <1>4 DEF Check, ThreadStart, Yield, Join, PthreadCreate, ThreadFinish, ProgramFinish

LEMMA CheckKeeps == KInv /\ Check => KInv'
<1> SUFFICES ASSUME KInv, Check PROVE KInv'
  OBVIOUS
<1>1. EndsOK' /\ stackfreed' = stackfreed /\ cur' = cur
  BY CheckEnds
<1>2. IInv'
  <2>1. [Next]_vars
    BY KernelSchedules DEF KernelNext
  <2> QED  BY <2>1, NextInv DEF KInv
<1>3. /\ on' = on /\ fs' = fs /\ tls' = tls /\ mutex2' = mutex2 /\ helper' = helper
      /\ booted' = booted /\ joining' = joining /\ released' = released /\ unjoined' = unjoined
      /\ joining = {}
  BY DEF Check, kernelVars
<1>4. JoinsOK'
  BY <1>1, <1>3 DEF KInv, JoinsOK
<1>5. ASSUME NEW t \in Thread \ {1} PROVE HelperOK(t)'
  <2>1. HelperOK(t)
    BY DEF KInv
  <2>2. ~(SetUp(t) /\ t \notin booted)
    BY CheckWaits
  <2> QED  BY <1>3, <2>1, <2>2 DEF HelperOK
<1> QED  BY <1>1, <1>2, <1>3, <1>4, <1>5 DEF KInv

-------------------------------------------------------------------------------

\* The threads getNextThread frees have ended, and had a helper.
LEMMA ScanKeeps == KInv /\ Scan => KInv'
<1> SUFFICES ASSUME KInv, Scan PROVE KInv'
  OBVIOUS
<1> DEFINE idle == {t \in curr_thread_num .. nthreads : ~is_complete(t) /\ pending[t] = NoAction}
           over == curr_thread_num .. (IF idle = {} THEN nthreads ELSE Min(idle) - 1)
           freed == Freed(over)
<1>1. IInv'
  <2>1. [Next]_vars
    BY KernelSchedules DEF KernelNext
  <2> QED  BY <2>1, NextInv DEF KInv
<1>2. /\ phase = "scan" /\ stackfreed' = stackfreed \cup freed
      /\ pending' = pending
      /\ tstate' = [t \in Thread |->
                      IF t \in Blocked(over) THEN "BLOCKED"
                      ELSE IF t \in freed THEN "FREED"
                      ELSE IF idle # {} /\ t = Min(idle) THEN "RUNNING"
                      ELSE tstate[t]]
      /\ idle = {} => phase' = "choose" /\ cur' = cur
      /\ idle # {} => /\ cur' = Min(idle)
                      /\ phase' = IF Min(idle) \in stackfreed THEN "undefined" ELSE "user"
  BY DEF Scan, getNextThread, program
<1>3. idle # {} => Min(idle) \in idle
  <2>1. idle \in SUBSET Nat
    BY DEF KInv, IInv, TypeOK
  <2> HIDE DEF idle
  <2> QED  BY <2>1, LeastOf
<1>4. \A t \in Thread : t \in stackfreed => is_complete(t) /\ tstate[t] = "FREED"
  BY DEF KInv, EndsOK, is_complete
<1>5. \A t \in Thread : is_complete(t) => t \in booted
  BY DEF KInv, EndsOK
<1>6. idle # {} => Min(idle) \notin stackfreed /\ Min(idle) \notin freed /\ Min(idle) \in Thread
  <2>1. idle # {} => Min(idle) \in Thread /\ ~is_complete(Min(idle))
    <3>1. curr_thread_num \in Thread /\ nthreads \in Thread
      BY DEF KInv, IInv, TypeOK
    <3> QED  BY <1>3, <3>1
  <2> HIDE DEF idle, over
  <2> QED  BY <1>4, <2>1 DEF Freed, is_complete
<1>7. freed \subseteq Thread /\ \A t \in freed : tstate[t] = "COMPLETED" /\ t # cur /\ t \in booted /\ t \notin stackfreed
  <2>1. over \subseteq Thread
    <3>1. curr_thread_num \in Thread /\ nthreads \in Thread
      BY DEF KInv, IInv, TypeOK
    <3>2. idle # {} => Min(idle) \in curr_thread_num .. nthreads
      BY <1>3
    <3>3. idle # {} => Min(idle) - 1 =< nthreads /\ Min(idle) - 1 \in Int
      BY <3>1, <3>2
    <3> HIDE DEF idle
    <3> QED  BY <3>1, <3>3
  <2> HIDE DEF over
  <2> QED  BY <1>4, <1>5, <2>1 DEF Freed, is_complete
<1>8. \A t \in Blocked(over) : pending[t] # NoAction
  BY DEF Blocked
<1> HIDE DEF idle, over, freed
<1>9. phase' \in {"user", "choose"} /\ cur' \notin stackfreed'
  BY <1>2, <1>6, <1>7 DEF KInv, EndsOK
<1>10. EndsOK'
  <2> SUFFICES ASSUME NEW t \in Thread
               PROVE  /\ t \in stackfreed' => tstate'[t] = "FREED"
                      /\ is_complete(t)' => t \in booted'
                      /\ pending'[t].type \notin {"none", "THREAD_START"} => t \in booted'
    BY <1>9 DEF EndsOK
  <2>1. booted' = booted
    BY DEF Scan
  <2>2. is_complete(t) => t \notin Blocked(over)
    BY <1>8 DEF KInv, IInv, StateOK
  <2>3. t \in stackfreed' => tstate'[t] = "FREED"
    <3>1. CASE t \in freed
      <4>1. is_complete(t)
        BY <1>7, <3>1 DEF is_complete
      <4> QED  BY <1>2, <2>2, <3>1, <4>1
    <3>2. CASE t \in stackfreed /\ t \notin freed
      BY <1>2, <1>4, <1>6, <2>2, <3>2
    <3> QED  BY <1>2, <3>1, <3>2
  <2>4. is_complete(t)' => is_complete(t)
    BY <1>2, <1>7 DEF is_complete
  <2> QED  BY <1>2, <1>5, <2>1, <2>3, <2>4 DEF KInv, EndsOK
<1>11. /\ joining = {} /\ joining' = freed \ {1} /\ on = cur
       /\ \/ on' = on /\ fs' = fs /\ ~(joining' = {} /\ phase' = "user")
          \/ on' = cur' /\ fs' = (IF cur' \in tls THEN cur' ELSE fs) /\ joining' = {} /\ phase' = "user"
       /\ tls' = tls /\ mutex2' = mutex2 /\ helper' = helper /\ booted' = booted
       /\ released' = released /\ unjoined' = unjoined
  <2>1. joining = {} /\ joining' = (stackfreed' \ stackfreed) \ {1} /\ swap(joining', cur', phase')
    BY DEF Scan
  <2>2. stackfreed' \ stackfreed = freed
    BY <1>2, <1>7
  <2>3. on = cur
    BY <2>1 DEF KInv, JoinsOK
  <2> QED  BY <2>1, <2>2, <2>3 DEF Scan, swap
<1>12. cur' \in Thread /\ cur' # cur => idle # {}
  BY <1>1, <1>2 DEF IInv, TypeOK
<1>13. on' \in Thread /\ on' \notin stackfreed' /\ (joining' = {} \/ phase' = "choose" => on' = cur')
  <2>1. cur' \in Thread /\ cur \in Thread
    BY <1>1 DEF KInv, IInv, TypeOK
  <2>2. cur \notin stackfreed'
    BY <1>2, <1>7 DEF KInv, EndsOK
  <2>3. phase' = "choose" => cur' = cur
    BY <1>2, <1>6
  <2> QED  BY <1>9, <1>11, <2>1, <2>2, <2>3
<1>14. JoinsOK'
  <2>1. joining' \cup released' \subseteq stackfreed' /\ stackfreed' \ {1} \subseteq joining' \cup released'
    BY <1>2, <1>11 DEF KInv, JoinsOK
  <2>2. joining' \cap released' = {}
    BY <1>7, <1>11 DEF KInv, JoinsOK
  <2>3. fs' \in Thread
    BY <1>11 DEF KInv, JoinsOK
  <2> QED  BY <1>9, <1>11, <1>13, <2>1, <2>2, <2>3 DEF KInv, JoinsOK
<1>15. ASSUME NEW t \in Thread \ {1} PROVE HelperOK(t)'
  <2>1. HelperOK(t) /\ ~SetUp(t)
    BY <1>2 DEF KInv, SetUp
  <2>2. fs' = t => t \in tls /\ t \notin released \ unjoined
    <3>1. CASE fs' = fs
      BY <2>1, <3>1 DEF HelperOK
    <3>2. CASE fs' = cur' /\ cur' \in tls
      <4>1. cur' \notin released'
        BY <1>9, <1>14 DEF JoinsOK
      <4> QED  BY <1>11, <3>2, <4>1
    <3> QED  BY <1>11, <3>1, <3>2
  <2>3. t \in joining' => t \in booted /\ t \notin joining \cup released
    <3>1. t \in joining' => t \in freed
      BY <1>11
    <3> QED  BY <1>7, <1>11, <3>1 DEF KInv, JoinsOK
  <2>4. t \in joining' => helper[t] = "waiting"
    BY <2>1, <2>3 DEF HelperOK
  <2> QED  BY <1>11, <2>1, <2>2, <2>3, <2>4 DEF HelperOK
<1> QED  BY <1>1, <1>10, <1>11, <1>14, <1>15 DEF KInv

\* freeResources.
LEMMA JoinKeeps ==
  ASSUME KInv, NEW t \in Thread, UnlockMutex2(t) \/ JoinHelper(t)
  PROVE  KInv'
<1>1. joining # {} /\ t = Min(joining) /\ UNCHANGED vars /\ booted' = booted /\ tls' = tls /\ helper' = helper
  BY DEF UnlockMutex2, JoinHelper
<1>2. IInv' /\ EndsOK'
  BY <1>1, SchedulerRests
<1>3. /\ cur' = cur /\ phase' = phase /\ stackfreed' = stackfreed
  BY <1>1 DEF vars
<1>4. t \in joining /\ t \in stackfreed /\ t # 1 /\ t # cur /\ t \notin released
  <2>1. joining \in SUBSET Nat
    <3>1. joining \subseteq stackfreed
      BY DEF KInv, JoinsOK
    <3>2. stackfreed \subseteq Thread
      BY DEF KInv, IInv, TypeOK
    <3> QED  BY <3>1, <3>2
  <2>2. t \in joining
    BY <1>1, <2>1, LeastOf
  <2> QED  BY <2>2 DEF KInv, JoinsOK, EndsOK
<1>5. \A u : ~SetUp(u)
  BY <1>1 DEF SetUp
<1>6. cur \in Thread /\ cur \notin stackfreed
  BY DEF KInv, IInv, TypeOK, EndsOK
<1>7. CASE UnlockMutex2(t)
  <2>1. /\ mutex2' = mutex2 \ {t} /\ on' = on /\ fs' = fs /\ joining' = joining
        /\ released' = released /\ unjoined' = unjoined
    BY <1>7 DEF UnlockMutex2
  <2>2. JoinsOK'
    BY <1>1, <1>3, <2>1 DEF KInv, JoinsOK
  <2>3. ASSUME NEW u \in Thread \ {1} PROVE HelperOK(u)'
    <3>1. HelperOK(u)
      BY DEF KInv
    <3>2. SetUp(u)' = SetUp(u)
      BY <1>1, <2>1, SchedulerRests
    <3> QED  BY <1>1, <1>4, <2>1, <3>1, <3>2 DEF HelperOK
  <2> QED  BY <1>1, <1>2, <2>2, <2>3 DEF KInv
<1>8. CASE JoinHelper(t)
  <2>1. /\ t \notin mutex2 /\ mutex2' = mutex2
        /\ helper[t] = "gone" \/ fs = t
        /\ joining' = joining \ {t} /\ released' = released \cup {t}
        /\ unjoined' = IF fs = t THEN unjoined \cup {t} ELSE unjoined
        /\ swap(joining', cur, phase)
    BY <1>8 DEF JoinHelper
  <2>2. \/ on' = on /\ fs' = fs /\ ~(joining' = {} /\ phase = "user")
        \/ on' = cur /\ fs' = (IF cur \in tls THEN cur ELSE fs) /\ joining' = {} /\ phase = "user"
    BY <2>1 DEF swap
  <2>3. JoinsOK'
    <3>1. phase \in {"user", "choose"} /\ (phase = "choose" => on = cur)
      BY <1>1 DEF KInv, JoinsOK
    <3>2. on' \in Thread /\ on' \notin stackfreed' /\ (joining' = {} \/ phase' = "choose" => on' = cur')
      BY <1>3, <1>6, <2>2, <3>1 DEF KInv, JoinsOK
    <3>3. fs' \in Thread
      BY <1>6, <2>2 DEF KInv, JoinsOK
    <3>4. unjoined' \subseteq released' /\ joining' \cap released' = {}
      BY <1>4, <2>1 DEF KInv, JoinsOK
    <3> QED  BY <1>1, <1>3, <1>4, <2>1, <3>1, <3>2, <3>3, <3>4 DEF KInv, JoinsOK
  <2>4. ASSUME NEW u \in Thread \ {1} PROVE HelperOK(u)'
    <3>1. HelperOK(u) /\ ~SetUp(u)
      BY <1>5 DEF KInv
    <3>2. joining' \cup released' = joining \cup released
      BY <1>4, <2>1
    <3>3. u \in released' \ unjoined' => helper[u] = "gone"
      BY <1>4, <2>1, <3>1 DEF HelperOK
    <3>4. fs' = u => u \in tls /\ u \notin released' \ unjoined'
      <4>1. CASE fs' = fs
        BY <1>4, <2>1, <3>1, <4>1 DEF HelperOK
      <4>2. CASE fs' = cur /\ cur \in tls
        <5>1. cur \notin released'
          BY <1>3, <1>6, <2>3 DEF JoinsOK
        <5> QED  BY <4>2, <5>1
      <4> QED  BY <2>2, <4>1, <4>2
    <3> QED  BY <1>1, <2>1, <3>1, <3>2, <3>3, <3>4 DEF HelperOK
  <2> QED  BY <1>1, <1>2, <2>3, <2>4 DEF KInv
<1> QED  BY <1>7, <1>8

\* setup_context in the thread and in its helper.
LEMMA SetUpKeeps ==
  ASSUME KInv, CreateHelper \/ TakeOver
  PROVE  KInv'
<1>1. UNCHANGED vars /\ joining' = joining /\ tls' = tls /\ on' = on /\ released' = released /\ unjoined' = unjoined
  BY DEF CreateHelper, TakeOver
<1>2. booted \subseteq booted' /\ cur \in Thread /\ 1 \in booted
  BY DEF CreateHelper, TakeOver, KInv, JoinsOK, IInv, TypeOK
<1>3. IInv' /\ EndsOK' /\ \A t : SetUp(t)' = SetUp(t)
  BY <1>1, <1>2, SchedulerRests
<1>4. cur' = cur /\ phase' = phase /\ stackfreed' = stackfreed
  BY <1>1 DEF vars
<1>5. SetUp(cur) /\ cur \notin booted /\ cur \notin stackfreed /\ cur # 1 /\ cur \in Thread
  BY <1>2 DEF CreateHelper, TakeOver, InSetup, SetUp, KInv, EndsOK
<1>6. cur \notin joining \cup released
  BY <1>5 DEF KInv, JoinsOK
<1>7. CASE CreateHelper
  <2>1. /\ helper[cur] = "none" /\ mutex2' = mutex2 \cup {cur} /\ helper' = [helper EXCEPT ![cur] = "entered"]
        /\ fs' = fs /\ booted' = booted
    BY <1>7 DEF CreateHelper
  <2>2. helper' \in [Thread -> Places] /\ helper'[cur] = "entered" /\ \A t \in Thread \ {cur} : helper'[t] = helper[t]
    <3>1. helper \in [Thread -> Places]
      BY DEF KInv
    <3> QED  BY <1>5, <2>1, <3>1 DEF Places
  <2>3. JoinsOK'
    BY <1>1, <1>4, <1>5, <2>1, <2>2 DEF KInv, JoinsOK
  <2>4. ASSUME NEW t \in Thread \ {1} PROVE HelperOK(t)'
    <3>1. HelperOK(t)
      BY DEF KInv
    <3>2. CASE t = cur
      BY <1>1, <1>3, <1>5, <1>6, <2>1, <2>2, <3>1, <3>2 DEF HelperOK
    <3>3. CASE t # cur
      BY <1>1, <1>3, <2>1, <2>2, <3>1, <3>3 DEF HelperOK
    <3> QED  BY <3>2, <3>3
  <2> QED  BY <1>3, <2>2, <2>3, <2>4 DEF KInv
<1>8. CASE TakeOver
  <2>1. cur \in tls /\ fs' = cur /\ booted' = booted \cup {cur} /\ helper' = helper /\ mutex2' = mutex2
    BY <1>8 DEF TakeOver
  <2>2. JoinsOK'
    BY <1>1, <1>2, <1>4, <2>1 DEF KInv, JoinsOK
  <2>3. ASSUME NEW t \in Thread \ {1} PROVE HelperOK(t)'
    <3>1. HelperOK(t)
      BY DEF KInv
    <3>2. CASE t = cur
      <4>1. helper[t] = "waiting" /\ t \in mutex2
        BY <1>5, <1>6, <2>1, <3>1, <3>2 DEF HelperOK, Places
      <4> QED  BY <1>1, <1>3, <1>6, <2>1, <3>1, <3>2, <4>1 DEF HelperOK
    <3>3. CASE t # cur
      BY <1>1, <1>3, <2>1, <3>1, <3>3 DEF HelperOK
    <3> QED  BY <3>2, <3>3
  <2> QED  BY <1>3, <2>1, <2>2, <2>3 DEF KInv
<1> QED  BY <1>7, <1>8

LEMMA HelperKeeps ==
  ASSUME KInv, NEW t \in Thread, SaveContext(t) \/ Publish(t) \/ SetContext(t) \/ Exit(t)
  PROVE  KInv'
<1>1. /\ UNCHANGED vars /\ joining' = joining /\ on' = on /\ fs' = fs /\ mutex2' = mutex2 /\ booted' = booted
      /\ released' = released /\ unjoined' = unjoined
  BY DEF SaveContext, Publish, SetContext, Exit
<1>2. IInv' /\ EndsOK' /\ \A u : SetUp(u)' = SetUp(u)
  BY <1>1, SchedulerRests
<1>3. cur' = cur /\ phase' = phase /\ stackfreed' = stackfreed
  BY <1>1 DEF vars
<1>4. t # 1 /\ t \in Thread \ {1} /\ HelperOK(t)
  BY DEF SaveContext, Publish, SetContext, Exit, KInv, JoinsOK
<1>5. PICK place \in Places : helper' = [helper EXCEPT ![t] = place]
  BY DEF SaveContext, Publish, SetContext, Exit, Places
<1>6. helper' \in [Thread -> Places] /\ helper'[t] = place /\ \A u \in Thread \ {t} : helper'[u] = helper[u]
  BY <1>5 DEF KInv
<1>7. tls' = tls \/ (helper[t] = "finalizing" /\ tls' = tls \cup {t})
  <2>1. CASE Publish(t)
    <3>1. helper[t] = "finalizing" /\ tls' = tls \cup {cur}
      BY <2>1 DEF Publish
    <3>2. cur = t
      BY <1>4, <3>1 DEF HelperOK, SetUp
    <3> QED  BY <3>1, <3>2
  <2> QED  BY <2>1 DEF SaveContext, SetContext, Exit
<1>8. JoinsOK'
  <2>1. tls' \subseteq Thread /\ helper'[1] = helper[1]
    <3>1. tls \subseteq Thread
      BY DEF KInv, JoinsOK
    <3>2. 1 \in Thread \ {t}
      BY <1>4
    <3> QED  BY <1>6, <1>7, <3>1, <3>2
  <2> QED  BY <1>1, <1>3, <2>1 DEF KInv, JoinsOK
<1>9. HelperOK(t)'
  <2>1. CASE SaveContext(t)
    <3>1. helper[t] = "entered" /\ helper'[t] = "finalizing" /\ tls' = tls
      BY <1>6, <2>1 DEF SaveContext, KInv
    <3> QED  BY <1>1, <1>2, <1>4, <3>1 DEF HelperOK, Places
  <2>2. CASE Publish(t)
    <3>1. helper[t] = "finalizing" /\ helper'[t] = "waiting"
      BY <1>6, <2>2 DEF Publish, KInv
    <3>2. tls' = tls \cup {t}
      BY <1>4, <2>2, <3>1 DEF Publish, HelperOK, SetUp
    <3> QED  BY <1>1, <1>2, <1>4, <3>1, <3>2 DEF HelperOK, Places
  <2>3. CASE SetContext(t)
    <3>1. helper[t] = "waiting" /\ t \notin mutex2 /\ helper'[t] = "back" /\ tls' = tls
      BY <1>6, <2>3 DEF SetContext, KInv
    <3> QED  BY <1>1, <1>2, <1>4, <3>1 DEF HelperOK, Places
  <2>4. CASE Exit(t)
    <3>1. helper[t] = "back" /\ helper'[t] = "gone" /\ tls' = tls
      BY <1>6, <2>4 DEF Exit, KInv
    <3> QED  BY <1>1, <1>2, <1>4, <3>1 DEF HelperOK, Places
  <2> QED  BY <2>1, <2>2, <2>3, <2>4
<1>10. ASSUME NEW u \in Thread \ {1}, u # t PROVE HelperOK(u)'
  <2>1. HelperOK(u) /\ helper'[u] = helper[u] /\ (u \in tls' <=> u \in tls)
    BY <1>6, <1>7, <1>10 DEF KInv
  <2> QED  BY <1>1, <1>2, <2>1 DEF HelperOK
<1> QED  BY <1>2, <1>6, <1>8, <1>9, <1>10 DEF KInv

LEMMA KNext == KInv /\ [KernelNext]_<<vars, kernelVars>> => KInv'
<1> SUFFICES ASSUME KInv, [KernelNext]_<<vars, kernelVars>> PROVE KInv'
  OBVIOUS
<1>1. CASE KernelNext
  BY <1>1, CheckKeeps, ScanKeeps, JoinKeeps, SetUpKeeps, HelperKeeps DEF KernelNext
<1>2. CASE UNCHANGED <<vars, kernelVars>>
  <2>1. /\ UNCHANGED vars /\ on' = on /\ fs' = fs /\ tls' = tls /\ mutex2' = mutex2 /\ helper' = helper
        /\ booted' = booted /\ joining' = joining /\ released' = released /\ unjoined' = unjoined
    BY <1>2 DEF kernelVars
  <2>2. IInv' /\ EndsOK' /\ \A u : SetUp(u)' = SetUp(u)
    BY <2>1, SchedulerRests
  <2>3. cur' = cur /\ phase' = phase /\ stackfreed' = stackfreed
    BY <2>1 DEF vars
  <2>4. JoinsOK'
    BY <2>1, <2>3 DEF KInv, JoinsOK
  <2>5. \A t \in Thread \ {1} : HelperOK(t)'
    BY <2>1, <2>2 DEF KInv, HelperOK
  <2> QED  BY <2>1, <2>2, <2>4, <2>5 DEF KInv
<1> QED  BY <1>1, <1>2

\* Two kernel threads never run on one stack or with one TLS, and freeResources waits for
\* helpers that can go on, with the deviation named at the property.
THEOREM KernelThreadsTheorem == KernelSpec => []KernelThreadsApart
<1>1. KInv => KernelThreadsApart
  <2> SUFFICES ASSUME KInv, NEW t \in Thread \ {1}
               PROVE  /\ ~(MainOn(t) /\ OnOwnStack(t))
                      /\ fs = t /\ t \notin joining \cup unjoined => helper[t] # "gone"
                      /\ t \in released \ unjoined => ~OnHelperStack(t)
                      /\ t \in joining => helper[t] \in {"waiting", "back", "gone"} /\ on # t
    BY DEF KernelThreadsApart
  <2>1. HelperOK(t) /\ on \notin stackfreed /\ joining \cup released \subseteq stackfreed
    BY DEF KInv, JoinsOK
  <2>2. ~(MainOn(t) /\ OnOwnStack(t))
    BY <2>1 DEF HelperOK, MainOn, OnOwnStack
  <2>3. t \in released \ unjoined => ~OnHelperStack(t)
    BY <2>1 DEF HelperOK, OnHelperStack
  <2> QED  BY <2>1, <2>2, <2>3 DEF HelperOK
<1>2. KernelSpec => []KInv
  BY KInitially, KNext, PTL DEF KernelSpec
<1> QED  BY <1>1, <1>2, PTL

===============================================================================
