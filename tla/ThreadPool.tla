----------------------------- MODULE ThreadPool -----------------------------
(***************************************************************************)
(* The thread pool of Code/liuting1/lt_thread_pool (thread_pool.c, with    *)
(* the list of queue.c), driven as its main.c does: start, push the tasks, *)
(* stop, destroy, return.                                                  *)
(*                                                                         *)
(* The mutex guards the queue.  is_start is written and tested outside it, *)
(* so each access to it is a step of its own.  Tasks are numbered in the   *)
(* order in which they are pushed.                                         *)
(***************************************************************************)
EXTENDS Integers, Sequences

CONSTANTS ThreadCount,  \* thread_pool_init(thread_count)
          TaskCount     \* the calls of thread_pool_pushtask in main

\* thread_pool_destroy joins threads[0] and threads[1].
ASSUME CountAssumption == ThreadCount \in Nat \ {0, 1} /\ TaskCount \in Nat

Threads == 0..(ThreadCount - 1)
Tasks == 1..TaskCount

Nobody == -1
Main == -2

VARIABLES is_start,
          queue,      \* the tasks between head and end
          mutex,      \* who holds it
          tpc, task,  \* of each thread: where it is, and its local `task'
          mpc,        \* where main is
          next,       \* main's loop counter: threads created, tasks pushed, threads joined
          runs        \* how often the callback of a task has been called

vars == <<is_start, queue, mutex, tpc, task, mpc, next, runs>>
threadVars == <<tpc, task, runs>>

Init ==
  /\ is_start = 0
  /\ queue = << >>
  /\ mutex = Nobody
  /\ tpc = [t \in Threads |-> "none"]
  /\ task = [t \in Threads |-> 0]
  /\ mpc = "start"
  /\ next = 0
  /\ runs = [k \in Tasks |-> 0]

-----------------------------------------------------------------------------
(* thread_work                                                             *)

\* The process ends with main, or when a thread follows a NULL pointer.
Alive == mpc # "end" /\ \A t \in Threads : tpc[t] # "crash"

At(t, p) == Alive /\ tpc[t] = p
Goto(t, p) == tpc' = [tpc EXCEPT ![t] = p]

\* (fault: the mutex is taken without waiting for it)
Barge(me) == mutex' = me

Acquire(me) == mutex = Nobody /\ mutex' = me

\* while(pool->is_start)
Test(t) == /\ At(t, "test")
           /\ Goto(t, IF is_start = 1 THEN "lock" ELSE "done")
           /\ UNCHANGED <<is_start, queue, mutex, task, mpc, next, runs>>

\* pthread_mutex_lock, and the end of pthread_cond_wait.
Lock(t) == /\ At(t, "lock")
           /\ Acquire(t)
           /\ Goto(t, "check")
           /\ UNCHANGED <<is_start, queue, task, mpc, next, runs>>

\* (fault: the size is compared with 0)
NeverWaits == Len(queue) < 0 /\ is_start = 1

\* Queue_size(pool->queue) < 1 && pool->is_start
MustWait == Len(queue) < 1 /\ is_start = 1

Check(t) == /\ At(t, "check")
            /\ Goto(t, IF MustWait THEN "wait" ELSE "leave")
            /\ UNCHANGED <<is_start, queue, mutex, task, mpc, next, runs>>

\* pthread_cond_wait gives the mutex back and falls asleep in one.
Wait(t) == /\ At(t, "wait")
           /\ mutex' = Nobody
           /\ Goto(t, "sleep")
           /\ UNCHANGED <<is_start, queue, task, mpc, next, runs>>

\* pthread_cond_wait may return without a reason.
Spurious(t) == /\ At(t, "sleep")
               /\ Goto(t, "lock")
               /\ UNCHANGED <<is_start, queue, mutex, task, mpc, next, runs>>

\* is_start is read once more: exit, or Queue_pop begins with p = head->next.
Leave(t) == /\ At(t, "leave")
            /\ \/ /\ is_start = 0
                  /\ mutex' = Nobody
                  /\ Goto(t, "done")
                  /\ UNCHANGED task
               \/ /\ is_start = 1
                  /\ task' = [task EXCEPT ![t] = IF queue = << >> THEN 0 ELSE Head(queue)]
                  /\ Goto(t, IF queue = << >> THEN "crash" ELSE "pop")
                  /\ UNCHANGED mutex
            /\ UNCHANGED <<is_start, queue, mpc, next, runs>>

\* queue->head->next = p->next; free(p); pthread_mutex_unlock.  After
\* Queue_destory there is no head.
Pop(t) == /\ At(t, "pop")
          /\ Goto(t, IF queue = << >> THEN "crash" ELSE "run")
          /\ queue' = IF queue = << >> THEN queue ELSE Tail(queue)
          /\ mutex' = Nobody
          /\ UNCHANGED <<is_start, task, mpc, next, runs>>

\* task->callback(task->args); free(task);
Run(t) == /\ At(t, "run")
          /\ runs' = [runs EXCEPT ![task[t]] = @ + 1]
          /\ Goto(t, "test")
          /\ UNCHANGED <<is_start, queue, mutex, task, mpc, next>>

-----------------------------------------------------------------------------
(* main                                                                    *)

\* thread_pool_start: is_start = 1, then pthread_create one by one.
Start == /\ mpc = "start"
         /\ is_start' = 1
         /\ mpc' = "create"
         /\ UNCHANGED <<queue, mutex, next, threadVars>>

Create == /\ mpc = "create"
          /\ \/ /\ next \in Threads
                /\ Goto(next, "test")
                /\ next' = next + 1
                /\ UNCHANGED mpc
             \/ /\ next \notin Threads
                /\ mpc' = "push"
                /\ next' = 0
                /\ UNCHANGED tpc
          /\ UNCHANGED <<is_start, queue, mutex, task, runs>>

\* thread_pool_pushtask: lock ...
PushLock == /\ mpc = "push"
            /\ next < TaskCount
            /\ Acquire(Main)
            /\ mpc' = "pushing"
            /\ UNCHANGED <<is_start, queue, next, threadVars>>

\* ... Queue_push, unlock ...
Push == /\ mpc = "pushing"
        /\ queue' = Append(queue, next + 1)
        /\ mutex' = Nobody
        /\ mpc' = "signal"
        /\ UNCHANGED <<is_start, next, threadVars>>

Sleeping == {t \in Threads : tpc[t] = "sleep"}

\* (fault: no signal is sent)
SignalNobody == UNCHANGED tpc

\* pthread_cond_signal wakes one of the threads that sleep, if any.
WakeOne == \/ Sleeping = {} /\ UNCHANGED tpc
           \/ \E t \in Sleeping : Goto(t, "lock")

\* ... and signal, after the unlock.
Signal == /\ mpc = "signal"
          /\ WakeOne
          /\ next' = next + 1
          /\ mpc' = "push"
          /\ UNCHANGED <<is_start, queue, mutex, task, runs>>

\* sleep(2) promises nothing about the threads: thread_pool_stop, from main
\* and again from thread_pool_destroy.
Stop == /\ mpc = "push"
        /\ next = TaskCount
        /\ is_start' = 0
        /\ mpc' = "broadcast"
        /\ next' = 0
        /\ UNCHANGED <<queue, mutex, threadVars>>

\* pthread_cond_broadcast wakes all of them.
WakeAll == tpc' = [t \in Threads |-> IF t \in Sleeping THEN "lock" ELSE tpc[t]]

\* thread_pool_destroy broadcasts without the mutex.
Broadcast == /\ mpc = "broadcast"
             /\ WakeAll
             /\ mpc' = "join"
             /\ UNCHANGED <<is_start, queue, mutex, task, next, runs>>

\* for(int i = 0; i < 2; ++i), whatever thread_count is.
Join == /\ mpc = "join"
        /\ next < 2
        /\ tpc[next] = "done"
        /\ next' = next + 1
        /\ UNCHANGED <<is_start, queue, mutex, mpc, threadVars>>

\* Queue_destory, pthread_mutex_destroy, pthread_cond_destroy.
Destroy == /\ mpc = "join"
           /\ next = 2
           /\ queue' = << >>
           /\ mpc' = "return"
           /\ UNCHANGED <<is_start, mutex, next, threadVars>>

\* return 0
Return == /\ mpc = "return"
          /\ mpc' = "end"
          /\ UNCHANGED <<is_start, queue, mutex, next, threadVars>>

-----------------------------------------------------------------------------
thread_work(t) == Test(t) \/ Lock(t) \/ Check(t) \/ Wait(t) \/ Leave(t) \/ Pop(t) \/ Run(t)

main == /\ Alive
        /\ \/ Start \/ Create \/ PushLock \/ Push \/ Signal
           \/ Stop \/ Broadcast \/ Join \/ Destroy \/ Return

Next == main \/ \E t \in Threads : thread_work(t) \/ Spurious(t)

Spec == Init /\ [][Next]_vars

\* The scheduler runs every thread that can run, and a mutex that is free
\* again and again is got in the end.  When, and if, a program stops its pool is
\* its own affair.
FairSpec == /\ Spec
            /\ WF_vars(main /\ ~Stop) /\ SF_vars(Alive /\ PushLock)
            /\ \A t \in Threads : WF_vars(thread_work(t)) /\ SF_vars(Lock(t))

-----------------------------------------------------------------------------
(* Properties                                                              *)

\* A callback is called once at most, and never for a task that is still in
\* the queue or in the hands of another thread: threads that pop at the same
\* time, woken by the same signal, do not share a task.
TasksOnce ==
  /\ \A k \in Tasks : runs[k] <= 1
  /\ \A i, j \in DOMAIN queue : i # j => queue[i] # queue[j]
  /\ \A i \in DOMAIN queue : runs[queue[i]] = 0
  /\ \A t \in Threads : tpc[t] = "run" =>
       /\ runs[task[t]] = 0
       /\ \A i \in DOMAIN queue : queue[i] # task[t]
       /\ \A u \in Threads : tpc[u] = "run" /\ task[u] = task[t] => u = t

\* Queue_pop finds a task, although signals, spurious wakeups and stop race
\* with the other threads: the one way to a crash is the thread that popped
\* while thread_pool_destroy, which does not join it, freed the queue.
PopFindsTask == \A t \in Threads : tpc[t] = "crash" => mpc = "return"

\* A task that was pushed is run, unless the pool is stopped before: the
\* signal that follows the unlock is not lost.
TasksServed == \A k \in Tasks :
                 (mpc = "push" /\ next >= k /\ is_start = 1) ~> (runs[k] = 1 \/ is_start = 0)

\* thread_pool_destroy comes to its end whenever no thread is between its look
\* at is_start and its pthread_cond_wait when the broadcast comes.  A thread
\* that is there sleeps after the broadcast, and pthread_join waits for ever:
\* stop and broadcast do not take the mutex that would keep it out.
DestroyReturns == (mpc = "broadcast" /\ \A t \in Threads : tpc[t] # "wait") ~> ~Alive
=============================================================================
