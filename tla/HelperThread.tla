----------------------------- MODULE HelperThread -----------------------------
(***************************************************************************)
(* The kernel threads below Scheduler.  One of them, the main one, runs    *)
(* the checker and the program's threads, on one stack after another.  So  *)
(* that a program thread has thread-local storage of its own, and its      *)
(* destructors, setup_context creates a second kernel thread for it, the   *)
(* helper, which publishes its TLS and lends its stack: the main one runs  *)
(* the program thread there, while the helper waits on another stack for   *)
(* mutex2.  When the thread has ended, freeResources lets the helper       *)
(* return to its own stack, exit there, and be joined.                     *)
(*                                                                         *)
(* The program creates threads, joins them and yields; they end by         *)
(* returning.  The critical sections of Thread.mutex are one step each.    *)
(***************************************************************************)
EXTENDS Scheduler

VARIABLES
  on,       \* the thread whose context the main kernel thread runs
  fs,       \* the thread whose TLS it has in its fs register
  tls,      \* the threads with Thread.tls
  mutex2,   \* the threads whose Thread.mutex2 is locked
  helper,   \* where each helper is, see below
  booted,   \* the threads that have left setup_context
  joining,  \* the threads that freeResources still has to join, in a scan
  released, \* history: those it has, and freed the helper_stack of
  unjoined  \* history: those of them it has not waited for

kernelVars == <<on, fs, tls, mutex2, helper, booted, joining, released, unjoined>>

\* "none": not created; "entered": in helper_thread, on its own stack;
\* "finalizing" and "waiting": on helper_stack, in finalize_helper_thread;
\* "back": on its own stack again; "gone": exited.
OnOwnStack(t)    == helper[t] \in {"entered", "back"}
OnHelperStack(t) == helper[t] \in {"finalizing", "waiting"}

\* setTLS: the initial thread runs on the main kernel thread's own stack.
KernelInit ==
  /\ Init
  /\ on = 1 /\ fs = 1 /\ tls = {1} /\ booted = {1}
  /\ mutex2 = {} /\ joining = {} /\ released = {} /\ unjoined = {}
  /\ helper = [t \in Thread |-> "none"]

-------------------------------------------------------------------------------
(* The main kernel thread.                                                 *)

\* Thread::swap, once no thread is left to join, to the one that is to run (in
\* phase ph). One without TLS yet goes on with that of the last one.
swap(left, t, ph) ==
  IF left = {} /\ ph = "user"
  THEN on' = t /\ fs' = IF t \in tls THEN t ELSE fs
  ELSE UNCHANGED <<on, fs>>

\* getNextThread, up to the first join. The initial thread has no helper.
Scan ==
  /\ joining = {} /\ getNextThread
  /\ joining' = (stackfreed' \ stackfreed) \ {1}
  /\ swap(joining', cur', phase')
  /\ UNCHANGED <<tls, mutex2, helper, booted, released, unjoined>>

\* freeResources lets the helper go ...
UnlockMutex2(t) ==
  /\ joining # {} /\ t = Min(joining) /\ t \in mutex2
  /\ mutex2' = mutex2 \ {t}
  /\ UNCHANGED <<vars, on, fs, tls, helper, booted, joining, released, unjoined>>

\* ... and joins it. pthread_join refuses (EDEADLK) to wait for the thread it
\* takes for its caller, by fs, which the code does not look at.
JoinHelper(t) ==
  /\ joining # {} /\ t = Min(joining) /\ t \notin mutex2
  /\ helper[t] = "gone" \/ fs = t
  /\ joining' = joining \ {t}
  /\ released' = released \cup {t}
  /\ unjoined' = IF fs = t THEN unjoined \cup {t} ELSE unjoined
  /\ swap(joining', cur, phase)
  /\ UNCHANGED <<vars, tls, mutex2, helper, booted>>

InSetup == phase = "user" /\ resume[cur] = "none" /\ cur \notin booted /\ joining = {}

\* Mutant of CreateHelper: mutex2 is left unlocked.
CreateHelperUnlocked ==
  /\ InSetup /\ helper[cur] = "none"
  /\ helper' = [helper EXCEPT ![cur] = "entered"]
  /\ UNCHANGED <<vars, on, mutex2, fs, tls, booted, joining, released, unjoined>>

\* setup_context, resumed after THREAD_START: mutex2 is locked for the helper
\* to wait for, and the helper is created.
CreateHelper ==
  /\ InSetup /\ helper[cur] = "none"
  /\ mutex2' = mutex2 \cup {cur}
  /\ helper' = [helper EXCEPT ![cur] = "entered"]
  /\ UNCHANGED <<vars, on, fs, tls, booted, joining, released, unjoined>>

\* Its loop finds the TLS and it goes on in helper_thread, on the helper's stack.
TakeOver ==
  /\ InSetup /\ cur \in tls
  /\ fs' = cur
  /\ booted' = booted \cup {cur}
  /\ UNCHANGED <<vars, on, tls, mutex2, helper, joining, released, unjoined>>

\* All else that Scheduler does; a thread's function is called by thread_startup
\* and THREAD_FINISH stashed by tlsdestructor.
Check ==
  /\ joining = {}
  /\ \/ Start
     \/ cur \in booted /\ (Operate \/ Return)
     \/ finish_execution
     \/ \E t \in Thread :
          ThreadStart(t) \/ Yield(t) \/ Join(t) \/ PthreadCreate(t) \/ ThreadFinish(t) \/ ProgramFinish(t)
  /\ UNCHANGED kernelVars

-------------------------------------------------------------------------------
(* A helper. thread_current() is that of the checker, cur, whoever asks.   *)

\* helper_thread up to model_swapcontext, which leaves in Thread.context where
\* the main kernel thread will take over.
SaveContext(t) ==
  /\ helper[t] = "entered"
  /\ helper' = [helper EXCEPT ![t] = "finalizing"]
  /\ UNCHANGED <<vars, on, fs, tls, mutex2, booted, joining, released, unjoined>>

\* finalize_helper_thread publishes its TLS as the current thread's ...
Publish(t) ==
  /\ helper[t] = "finalizing"
  /\ tls' = tls \cup {cur}
  /\ helper' = [helper EXCEPT ![t] = "waiting"]
  /\ UNCHANGED <<vars, on, fs, mutex2, booted, joining, released, unjoined>>

\* ... waits for mutex2, and continues where the thread was left, on its stack.
SetContext(t) ==
  /\ helper[t] = "waiting" /\ t \notin mutex2
  /\ helper' = [helper EXCEPT ![t] = "back"]
  /\ UNCHANGED <<vars, on, fs, tls, mutex2, booted, joining, released, unjoined>>

\* It returns from the switch_thread of tlsdestructor, and exits.
Exit(t) ==
  /\ helper[t] = "back"
  /\ helper' = [helper EXCEPT ![t] = "gone"]
  /\ UNCHANGED <<vars, on, fs, tls, mutex2, booted, joining, released, unjoined>>

KernelNext ==
  \/ Check \/ Scan \/ CreateHelper \/ TakeOver
  \/ \E t \in Thread :
       UnlockMutex2(t) \/ JoinHelper(t) \/ SaveContext(t) \/ Publish(t) \/ SetContext(t) \/ Exit(t)

KernelSpec == KernelInit /\ [][KernelNext]_<<vars, kernelVars>>

-------------------------------------------------------------------------------
(* Properties.                                                             *)

\* The main kernel thread is on the stack of helper t.
MainOn(t) == on = t /\ t \in booted

\* Two kernel threads never run on one stack, or with the TLS of one that has
\* exited; a helper_stack is freed only when its helper has left it; and those
\* freeResources waits for can go on (threads.cc, finalize_helper_thread,
\* setup_context and freeResources). Known deviation: a thread that has just been
\* created runs with the TLS of the last one; if that one's end is carried out
\* meanwhile, it is "joined" with its own TLS, which does not wait.
KernelThreadsApart ==
  \A t \in Thread \ {1} :
    /\ ~(MainOn(t) /\ OnOwnStack(t))
    /\ fs = t /\ t \notin joining \cup unjoined => helper[t] # "gone"
    /\ t \in released \ unjoined => ~OnHelperStack(t)
    /\ t \in joining => helper[t] \in {"waiting", "back", "gone"} /\ on # t

===============================================================================
