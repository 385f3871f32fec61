-------------------------- MODULE ThreadPoolProofs --------------------------
(***************************************************************************)
(* The thread pool, proved for every number of threads and tasks: no task  *)
(* is run twice, and Queue_pop fails only after thread_pool_destroy.       *)
(***************************************************************************)
EXTENDS ThreadPool, SequenceTheorems, TLAPS

\* The types of main's and the threads' variables.
TypeOK ==
  /\ is_start \in {0, 1}
  /\ queue \in Seq(Tasks)
  /\ mutex \in Threads \cup {Nobody, Main}
  /\ tpc \in [Threads -> {"none", "test", "lock", "check", "wait", "sleep", "leave",
                          "pop", "run", "done", "crash"}]
  /\ task \in [Threads -> Tasks \cup {0}]
  /\ mpc \in {"start", "create", "push", "pushing", "signal", "broadcast", "join",
              "return", "end"}
  /\ next \in Nat
  /\ runs \in [Tasks -> Nat]

\* How many tasks main has pushed.
Pushed == CASE mpc \in {"start", "create"} -> 0
            [] mpc \in {"push", "pushing"} -> next
            [] mpc = "signal" -> next + 1
            [] OTHER -> TaskCount

\* Who is between lock and unlock holds the mutex.
Exclusive ==
  /\ \A t \in Threads : tpc[t] \in {"check", "wait", "leave", "pop"} => mutex = t
  /\ mpc = "pushing" => mutex = Main /\ next < TaskCount

\* Tasks main has not pushed are nowhere.
Fresh ==
  /\ \A i \in DOMAIN queue : queue[i] <= Pushed
  /\ \A k \in Tasks : k > Pushed => runs[k] = 0
  /\ \A t \in Threads : tpc[t] = "run" => task[t] \in Tasks /\ task[t] <= Pushed

\* A thread inside Queue_pop looks at the first task, unless the queue is gone.
Popping ==
  /\ mpc = "start" => \A t \in Threads : tpc[t] = "none"
  /\ \A t \in Threads : tpc[t] = "pop" => queue = << >> \/ task[t] = Head(queue)
  /\ mpc \in {"broadcast", "join", "return", "end"} => is_start = 0
  /\ \A t \in Threads : tpc[t] = "pop" /\ queue = << >> => mpc \in {"return", "end"}
  /\ \A t \in Threads : tpc[t] = "leave" /\ queue = << >> => is_start = 0

PoolInv == TypeOK /\ Exclusive /\ Fresh /\ Popping /\ TasksOnce /\ PopFindsTask
-----------------------------------------------------------------------------
(* The steps                                                               *)

\* What the queue holds after a task was taken from its front.
LEMMA TailQueue ==
  ASSUME NEW q \in Seq(Tasks), q # << >>
  PROVE  /\ Tail(q) \in Seq(Tasks) /\ Head(q) \in Tasks /\ Head(q) = q[1]
         /\ DOMAIN q = 1..Len(q) /\ Len(q) \in Nat \ {0} /\ 1 \in DOMAIN q
         /\ DOMAIN Tail(q) = 1..(Len(q) - 1)
         /\ \A i \in DOMAIN Tail(q) : i + 1 \in DOMAIN q /\ i + 1 # 1 /\ Tail(q)[i] = q[i + 1]
<1>1. Len(q) \in Nat /\ Len(q) # 0 /\ DOMAIN q = 1..Len(q)
  BY EmptySeq, LenProperties
<1>2. /\ Tail(q) \in Seq(Tasks) /\ Head(q) \in Tasks /\ Head(q) = q[1]
      /\ Len(Tail(q)) = Len(q) - 1 /\ \A i \in 1..Len(Tail(q)) : Tail(q)[i] = q[i + 1]
  BY HeadTailProperties, <1>1
<1>3. DOMAIN Tail(q) = 1..(Len(q) - 1)
  BY <1>2, LenProperties
<1> QED BY <1>1, <1>2, <1>3

\* What the queue holds after a push.
LEMMA AppendQueue ==
  ASSUME NEW q \in Seq(Tasks), NEW k \in Tasks
  PROVE  /\ Append(q, k) \in Seq(Tasks) /\ Append(q, k) # << >>
         /\ q # << >> => Head(Append(q, k)) = Head(q)
         /\ \A i \in DOMAIN Append(q, k) :
              \/ i \in DOMAIN q /\ Append(q, k)[i] = q[i]
              \/ i = Len(q) + 1 /\ Append(q, k)[i] = k
<1>1. /\ Append(q, k) \in Seq(Tasks) /\ Len(Append(q, k)) = Len(q) + 1
      /\ Append(q, k)[Len(q) + 1] = k
      /\ \A i \in 1..Len(q) : Append(q, k)[i] = q[i]
  BY AppendProperties
<1>2. Len(q) \in Nat /\ DOMAIN q = 1..Len(q) /\ DOMAIN Append(q, k) = 1..(Len(q) + 1)
  BY <1>1, LenProperties
<1>3. Append(q, k) # << >>
  <2>1. Len(Append(q, k)) = Len(q) + 1 /\ Len(q) \in Nat
    BY <1>1, <1>2
  <2> QED BY <2>1
<1>4. q # << >> => Head(Append(q, k)) = Head(q)
  <2> SUFFICES ASSUME q # << >> PROVE Head(Append(q, k)) = Head(q)
    OBVIOUS
  <2>1. Len(q) # 0
    BY EmptySeq
  <2>2. Append(q, k)[1] = q[1]
    BY <1>1, <1>2, <2>1
  <2> QED BY <1>1, <1>3, <2>2, HeadTailProperties
<1> QED BY <1>1, <1>2, <1>3, <1>4

\* The steps of a thread keep the types.
LEMMA ThreadType ==
  ASSUME PoolInv, NEW t \in Threads, thread_work(t) \/ Spurious(t)
  PROVE  TypeOK'
<1> USE DEF PoolInv, TypeOK, At, Goto, Nobody, Main
<1>1. CASE Test(t) BY <1>1 DEF Test
<1>2. CASE Lock(t) BY <1>2 DEF Lock, Acquire
<1>3. CASE Check(t) BY <1>3 DEF Check
<1>4. CASE Wait(t) BY <1>4 DEF Wait
<1>5. CASE Spurious(t) BY <1>5 DEF Spurious
<1>6. CASE Leave(t)
  <2>1. queue # << >> => Head(queue) \in Tasks
    BY TailQueue
  <2> QED BY <1>6, <2>1 DEF Leave
<1>7. CASE Pop(t)
  <2>1. queue # << >> => Tail(queue) \in Seq(Tasks)
    BY TailQueue
  <2> QED BY <1>7, <2>1 DEF Pop
<1>8. CASE Run(t)
  <2>1. task[t] \in Tasks
    BY <1>8 DEF Run, Fresh
  <2> QED BY <1>8, <2>1 DEF Run
<1> QED BY <1>1, <1>2, <1>3, <1>4, <1>5, <1>6, <1>7, <1>8 DEF thread_work

\* The steps of main keep the types.
LEMMA MainType ==
  ASSUME PoolInv, main
  PROVE  TypeOK'
<1> USE CountAssumption DEF PoolInv, TypeOK, Goto, Nobody, Main, threadVars
<1>1. CASE Start BY <1>1 DEF Start
<1>2. CASE Create BY <1>2 DEF Create
<1>3. CASE PushLock BY <1>3 DEF PushLock, Acquire
<1>4. CASE Push
  <2>1. next + 1 \in Tasks
    BY <1>4 DEF Push, Exclusive, Tasks
  <2>2. Append(queue, next + 1) \in Seq(Tasks)
    BY <2>1, AppendQueue
  <2> QED BY <1>4, <2>2 DEF Push
<1>5. CASE Signal BY <1>5 DEF Signal, WakeOne, Sleeping
<1>6. CASE Stop BY <1>6 DEF Stop
<1>7. CASE Broadcast BY <1>7 DEF Broadcast, WakeAll
<1>8. CASE Join BY <1>8 DEF Join
<1>9. CASE Destroy BY <1>9 DEF Destroy
<1>10. CASE Return BY <1>10 DEF Return
<1> QED BY <1>1, <1>2, <1>3, <1>4, <1>5, <1>6, <1>7, <1>8, <1>9, <1>10 DEF main

\* Lock and unlock are taken in pairs: mutual exclusion.
LEMMA StepExclusive ==
  ASSUME PoolInv, [Next]_vars
  PROVE  Exclusive'
<1> USE DEF PoolInv, TypeOK, Exclusive, Nobody, Main, Goto, threadVars
<1>1. ASSUME NEW t \in Threads, thread_work(t) \/ Spurious(t) PROVE Exclusive'
  <2> USE DEF At, Threads
  <2>1. CASE Test(t) BY <2>1 DEF Test
  <2>2. CASE Lock(t) BY <2>2 DEF Lock, Acquire
  <2>3. CASE Check(t) BY <2>3 DEF Check
  <2>4. CASE Wait(t) BY <2>4 DEF Wait
  <2>5. CASE Spurious(t) BY <2>5 DEF Spurious
  <2>6. CASE Leave(t)
    <3>1. CASE tpc' = [tpc EXCEPT ![t] = "done"] BY <2>6, <3>1 DEF Leave
    <3>2. CASE is_start = 1 /\ mutex' = mutex BY <2>6, <3>2 DEF Leave
    <3> QED BY <2>6, <3>1, <3>2 DEF Leave
  <2>7. CASE Pop(t) BY <2>7 DEF Pop
  <2>8. CASE Run(t) BY <2>8 DEF Run
  <2> QED BY <1>1, <2>1, <2>2, <2>3, <2>4, <2>5, <2>6, <2>7, <2>8 DEF thread_work
<1>2. CASE main
  <2> USE DEF Threads
  <2>1. CASE Start BY <2>1 DEF Start
  <2>2. CASE Create BY <2>2 DEF Create
  <2>3. CASE PushLock BY <2>3 DEF PushLock, Acquire
  <2>4. CASE Push BY <2>4 DEF Push
  <2>5. CASE Signal BY <2>5 DEF Signal, WakeOne, Sleeping
  <2>6. CASE Stop \/ Broadcast BY <2>6 DEF Stop, Broadcast, WakeAll, Sleeping
  <2>7. CASE Join \/ Destroy \/ Return BY <2>7 DEF Join, Destroy, Return
  <2> QED BY <1>2, <2>1, <2>2, <2>3, <2>4, <2>5, <2>6, <2>7 DEF main
<1>3. CASE UNCHANGED vars
  BY <1>3 DEF vars
<1> QED BY <1>1, <1>2, <1>3 DEF Next

\* The steps of the threads take tasks only from the queue and main pushes the
\* next number: what main has not pushed stays untouched.
LEMMA StepFresh ==
  ASSUME PoolInv, [Next]_vars
  PROVE  Fresh'
<1> USE DEF PoolInv, TypeOK, Fresh, Goto, threadVars
<1>1. ASSUME NEW t \in Threads, thread_work(t) \/ Spurious(t) PROVE Fresh'
  <2> USE DEF At
  <2>0. mpc' = mpc /\ next' = next /\ Pushed' = Pushed
    BY <1>1 DEF thread_work, Test, Lock, Check, Wait, Leave, Pop, Run, Spurious, Pushed
  <2>1. CASE Test(t) BY <2>0, <2>1 DEF Test
  <2>2. CASE Lock(t) BY <2>0, <2>2 DEF Lock
  <2>3. CASE Check(t) BY <2>0, <2>3 DEF Check
  <2>4. CASE Wait(t) BY <2>0, <2>4 DEF Wait
  <2>5. CASE Spurious(t) BY <2>0, <2>5 DEF Spurious
  <2>6. CASE Leave(t) BY <2>0, <2>6 DEF Leave
  <2>7. CASE Pop(t)
    <3>1. CASE queue = << >> BY <2>0, <2>7, <3>1 DEF Pop
    <3>2. CASE queue # << >>
      <4>1. task[t] \in Tasks /\ task[t] <= Pushed
        BY <2>7, <3>2, TailQueue DEF Pop, Popping
      <4>2. \A i \in DOMAIN Tail(queue) : Tail(queue)[i] <= Pushed
        BY <3>2, TailQueue
      <4> QED BY <2>0, <2>7, <3>2, <4>1, <4>2 DEF Pop
    <3> QED BY <3>1, <3>2
  <2>8. CASE Run(t)
    <3>1. task[t] \in Tasks /\ task[t] <= Pushed
      BY <2>8 DEF Run
    <3>2. Pushed \in Int
      BY CountAssumption DEF Pushed
    <3>3. \A k \in Tasks : k > Pushed => k # task[t]
      BY <3>1, <3>2 DEF Tasks
    <3> QED BY <2>0, <2>8, <3>3 DEF Run
  <2> QED BY <1>1, <2>1, <2>2, <2>3, <2>4, <2>5, <2>6, <2>7, <2>8 DEF thread_work
<1>2. ASSUME UNCHANGED <<queue, runs, task>>, Pushed' >= Pushed, Pushed \in Int, Pushed' \in Int,
             \A t \in Threads : tpc'[t] = "run" => tpc[t] = "run"
      PROVE  Fresh'
  BY <1>2 DEF Tasks
<1>3. CASE main
  <2> USE CountAssumption DEF Pushed
  <2>1. CASE Start BY <1>2, <2>1 DEF Start
  <2>2. CASE Create BY <1>2, <2>2 DEF Create
  <2>3. CASE PushLock BY <1>2, <2>3 DEF PushLock
  <2>4. CASE Push
    <3>1. Pushed = next /\ Pushed' = next + 1 /\ next \in Nat
      BY <2>4 DEF Push
    <3>2. next + 1 \in Tasks
      BY <2>4 DEF Push, Exclusive, Tasks
    <3> HIDE DEF Pushed
    <3>3. \A i \in DOMAIN queue' : queue'[i] <= next + 1
      <4>1. \A i \in DOMAIN queue : queue[i] \in Tasks /\ queue[i] <= next
        BY <3>1, LenProperties, ElementOfSeq
      <4> QED BY <2>4, <3>1, <3>2, <4>1, AppendQueue DEF Push, Tasks
    <3>4. /\ \A k \in Tasks : k > next + 1 => runs'[k] = 0
          /\ \A t \in Threads : tpc'[t] = "run" => task'[t] \in Tasks /\ task'[t] <= next + 1
      BY <2>4, <3>1 DEF Push, Tasks
    <3> QED BY <3>1, <3>3, <3>4
  <2>5. CASE Signal BY <1>2, <2>5 DEF Signal, WakeOne, Sleeping
  <2>6. CASE Stop
    <3>1. Pushed = TaskCount /\ Pushed' = TaskCount
      BY <2>6 DEF Stop
    <3> QED BY <1>2, <2>6, <3>1 DEF Stop
  <2>7. CASE Broadcast BY <1>2, <2>7 DEF Broadcast, WakeAll, Sleeping
  <2>8. CASE Join BY <1>2, <2>8 DEF Join
  <2>9. CASE Destroy
    <3>1. Pushed' = Pushed
      BY <2>9 DEF Destroy
    <3> QED BY <2>9, <3>1 DEF Destroy
  <2>10. CASE Return BY <1>2, <2>10 DEF Return
  <2> QED BY <1>3, <2>1, <2>2, <2>3, <2>4, <2>5, <2>6, <2>7, <2>8, <2>9, <2>10 DEF main
<1>4. CASE UNCHANGED vars
  BY <1>4 DEF vars, Pushed
<1> QED BY <1>1, <1>3, <1>4 DEF Next

\* A thread that is past its check pops a task that is there, or finds the
\* queue destroyed.
LEMMA StepPopping ==
  ASSUME PoolInv, [Next]_vars
  PROVE  Popping' /\ PopFindsTask'
<1> USE DEF PoolInv, TypeOK, Popping, PopFindsTask, Goto, threadVars
<1>1. ASSUME NEW t \in Threads, thread_work(t) \/ Spurious(t) PROVE Popping' /\ PopFindsTask'
  <2> USE DEF At, Alive
  <2>0. tpc[t] # "none" /\ mpc # "start"
    BY <1>1 DEF thread_work, Test, Lock, Check, Wait, Leave, Pop, Run, Spurious
  <2>1. CASE Test(t) BY <2>0, <2>1 DEF Test
  <2>2. CASE Lock(t) BY <2>0, <2>2 DEF Lock
  <2>3. CASE Check(t)
    <3>1. queue = << >> => Len(queue) < 1
      OBVIOUS
    <3> QED BY <2>0, <2>3, <3>1 DEF Check, MustWait
  <2>4. CASE Wait(t) BY <2>0, <2>4 DEF Wait
  <2>5. CASE Spurious(t) BY <2>0, <2>5 DEF Spurious
  <2>6. CASE Leave(t) BY <2>0, <2>6 DEF Leave
  <2>7. CASE Pop(t)
    <3>1. CASE queue = << >> BY <2>0, <2>7, <3>1 DEF Pop
    <3>2. CASE queue # << >>
      <4>1. \A u \in Threads : tpc[u] \in {"leave", "pop"} => u = t
        BY <2>7 DEF Pop, Exclusive, Threads
      <4> QED BY <2>0, <2>7, <3>2, <4>1 DEF Pop
    <3> QED BY <3>1, <3>2
  <2>8. CASE Run(t) BY <2>0, <2>8 DEF Run
  <2> QED BY <1>1, <2>1, <2>2, <2>3, <2>4, <2>5, <2>6, <2>7, <2>8 DEF thread_work
<1>2. CASE main
  <2>0. Alive
    BY <1>2 DEF main
  <2>1. CASE Start BY <2>0, <2>1 DEF Start, Alive
  <2>2. CASE Create BY <2>0, <2>2 DEF Create, Alive
  <2>3. CASE PushLock BY <2>0, <2>3 DEF PushLock, Alive
  <2>4. CASE Push
    <3>1. next + 1 \in Tasks
      BY <2>4, CountAssumption DEF Push, Exclusive, Tasks
    <3>2. \A u \in Threads : tpc[u] \notin {"leave", "pop"}
      BY <2>4 DEF Push, Exclusive, Threads, Main
    <3> QED BY <2>0, <2>4, <3>1, <3>2 DEF Push, Alive
  <2>5. CASE Signal BY <2>0, <2>5 DEF Signal, WakeOne, Sleeping, Alive
  <2>6. CASE Stop BY <2>0, <2>6 DEF Stop, Alive
  <2>7. CASE Broadcast BY <2>0, <2>7 DEF Broadcast, WakeAll, Sleeping, Alive
  <2>8. CASE Join BY <2>0, <2>8 DEF Join, Alive
  <2>9. CASE Destroy BY <2>0, <2>9 DEF Destroy, Alive
  <2>10. CASE Return BY <2>0, <2>10 DEF Return, Alive
  <2> QED BY <1>2, <2>1, <2>2, <2>3, <2>4, <2>5, <2>6, <2>7, <2>8, <2>9, <2>10 DEF main
<1>3. CASE UNCHANGED vars
  BY <1>3 DEF vars
<1> QED BY <1>1, <1>2, <1>3 DEF Next

\* A step that takes nothing from the queue and starts no callback.
LEMMA IdleOnce ==
  ASSUME PoolInv, UNCHANGED <<queue, runs>>,
         \A t \in Threads : tpc'[t] = "run" => tpc[t] = "run" /\ task'[t] = task[t]
  PROVE  TasksOnce'
BY DEF PoolInv, TasksOnce

\* No step makes a second owner for a task.
LEMMA StepOnce ==
  ASSUME PoolInv, [Next]_vars
  PROVE  TasksOnce'
<1> USE DEF PoolInv, TypeOK, Goto, threadVars
<1>1. ASSUME NEW t \in Threads, thread_work(t) \/ Spurious(t) PROVE TasksOnce'
  <2> USE DEF At
  <2>1. CASE Test(t) \/ Lock(t) \/ Check(t) BY <2>1, IdleOnce DEF Test, Lock, Check
  <2>2. CASE Wait(t) \/ Spurious(t) BY <2>2, IdleOnce DEF Wait, Spurious
  <2>3. CASE Leave(t) BY <2>3, IdleOnce DEF Leave
  <2>4. CASE Pop(t)
    <3>1. CASE queue = << >> BY <2>4, <3>1, IdleOnce DEF Pop
    <3>2. CASE queue # << >>
      <4>1. /\ task[t] = queue[1] /\ task[t] \in Tasks /\ 1 \in DOMAIN queue
            /\ \A i \in DOMAIN Tail(queue) : /\ i + 1 \in DOMAIN queue /\ i + 1 # 1
                                             /\ Tail(queue)[i] = queue[i + 1]
            /\ DOMAIN Tail(queue) \subseteq Int
        BY <2>4, <3>2, TailQueue DEF Pop, Popping
      <4>2. /\ queue' = Tail(queue) /\ tpc' = [tpc EXCEPT ![t] = "run"]
            /\ UNCHANGED <<task, runs>>
        BY <2>4, <3>2 DEF Pop
      <4>3. \A i, j \in DOMAIN queue' : i # j => queue'[i] # queue'[j]
        <5> SUFFICES ASSUME NEW i \in DOMAIN Tail(queue), NEW j \in DOMAIN Tail(queue), i # j
                     PROVE  Tail(queue)[i] # Tail(queue)[j]
          BY <4>2
        <5>1. i + 1 # j + 1
          BY <4>1
        <5> QED BY <4>1, <5>1 DEF TasksOnce
      <4>4. \A i \in DOMAIN queue' : runs'[queue'[i]] = 0 /\ queue'[i] # task[t]
        BY <4>1, <4>2 DEF TasksOnce
      <4>5. runs'[task[t]] = 0 /\ \A u \in Threads : tpc[u] = "run" => task[u] # task[t]
        BY <4>1, <4>2 DEF TasksOnce
      <4>6. \A u \in Threads : tpc'[u] = "run" =>
              /\ runs'[task'[u]] = 0
              /\ \A i \in DOMAIN queue' : queue'[i] # task'[u]
              /\ \A v \in Threads : tpc'[v] = "run" /\ task'[v] = task'[u] => v = u
        <5> SUFFICES ASSUME NEW u \in Threads, tpc'[u] = "run"
                     PROVE  /\ runs'[task'[u]] = 0
                            /\ \A i \in DOMAIN queue' : queue'[i] # task'[u]
                            /\ \A v \in Threads : tpc'[v] = "run" /\ task'[v] = task'[u] => v = u
          OBVIOUS
        <5>1. CASE u = t BY <4>2, <4>4, <4>5, <5>1
        <5>2. CASE u # t
          <6>1. tpc[u] = "run"
            BY <4>2, <5>2
          <6>2. \A i \in DOMAIN queue' : queue'[i] # task[u]
            BY <4>1, <4>2, <6>1 DEF TasksOnce
          <6> QED BY <4>2, <4>5, <5>2, <6>1, <6>2 DEF TasksOnce
        <5> QED BY <5>1, <5>2
      <4> QED BY <4>2, <4>3, <4>4, <4>6 DEF TasksOnce
    <3> QED BY <3>1, <3>2
  <2>5. CASE Run(t)
    <3>1. task[t] \in Tasks
      BY <2>5 DEF Run, Fresh
    <3>2. /\ queue' = queue /\ task' = task /\ tpc' = [tpc EXCEPT ![t] = "test"]
          /\ \A k \in Tasks : k # task[t] => runs'[k] = runs[k]
          /\ runs[task[t]] = 0 /\ runs'[task[t]] = 1
      BY <2>5, <3>1 DEF Run, TasksOnce
    <3>3. \A i \in DOMAIN queue : queue[i] \in Tasks
      BY LenProperties, ElementOfSeq
    <3>4. \A k \in Tasks : runs'[k] <= 1
      BY <3>1, <3>2 DEF TasksOnce
    <3>5. \A i \in DOMAIN queue' : runs'[queue'[i]] = 0
      BY <2>5, <3>2, <3>3 DEF Run, TasksOnce
    <3>6. \A u \in Threads : tpc'[u] = "run" => tpc[u] = "run" /\ u # t
      BY <3>2
    <3>7. \A u \in Threads : tpc'[u] = "run" => runs'[task'[u]] = 0
      BY <2>5, <3>2, <3>6 DEF Run, TasksOnce, Fresh
    <3> QED BY <3>2, <3>4, <3>5, <3>6, <3>7 DEF TasksOnce
  <2> QED BY <1>1, <2>1, <2>2, <2>3, <2>4, <2>5 DEF thread_work
<1>2. CASE main
  <2>1. CASE Start \/ Create \/ PushLock BY <2>1, IdleOnce DEF Start, Create, PushLock
  <2>2. CASE Signal BY <2>2, IdleOnce DEF Signal, WakeOne, Sleeping
  <2>3. CASE Stop \/ Broadcast BY <2>3, IdleOnce DEF Stop, Broadcast, WakeAll, Sleeping
  <2>4. CASE Join \/ Return BY <2>4, IdleOnce DEF Join, Return
  <2>5. CASE Destroy
    <3>1. queue' = << >> /\ DOMAIN queue' = {} /\ UNCHANGED <<runs, tpc, task>>
      BY <2>5 DEF Destroy
    <3> QED BY <3>1 DEF TasksOnce
  <2>6. CASE Push
    <3> DEFINE k == next + 1
    <3>1. k \in Tasks /\ Pushed = next /\ k > Pushed
      BY <2>6, CountAssumption DEF Push, Exclusive, Tasks, Pushed
    <3>2. queue' = Append(queue, k) /\ UNCHANGED <<runs, tpc, task>>
      BY <2>6 DEF Push
    <3>3. /\ runs[k] = 0 /\ \A i \in DOMAIN queue : queue[i] # k
          /\ \A t \in Threads : tpc[t] = "run" => task[t] # k
      <4>1. \A n \in Int : n <= Pushed => n # k
        BY <3>1
      <4>2. \A i \in DOMAIN queue : queue[i] \in Tasks
        BY LenProperties, ElementOfSeq
      <4> QED BY <3>1, <4>1, <4>2 DEF Fresh, Tasks
    <3> HIDE DEF k
    <3>4. \A i \in DOMAIN queue' : \/ i \in DOMAIN queue /\ queue'[i] = queue[i]
                                   \/ i = Len(queue) + 1 /\ queue'[i] = k
      BY <3>1, <3>2, AppendQueue
    <3>5. \A i, j \in DOMAIN queue' : i # j => queue'[i] # queue'[j]
      BY <3>3, <3>4 DEF TasksOnce
    <3> QED BY <3>2, <3>3, <3>4, <3>5 DEF TasksOnce
  <2> QED BY <1>2, <2>1, <2>2, <2>3, <2>4, <2>5, <2>6 DEF main
<1>3. CASE UNCHANGED vars
  BY <1>3, IdleOnce DEF vars
<1> QED BY <1>1, <1>2, <1>3 DEF Next

\* The inductive invariant of the pool, for every number of threads and tasks.
LEMMA PoolInductive == Spec => []PoolInv
<1>1. Init => PoolInv
  BY CountAssumption DEF Init, PoolInv, TypeOK, Exclusive, Fresh, Popping, TasksOnce, PopFindsTask,
                         Pushed, Nobody
<1>2. PoolInv /\ [Next]_vars => PoolInv'
  <2> SUFFICES ASSUME PoolInv, [Next]_vars PROVE PoolInv'
    OBVIOUS
  <2>1. TypeOK'
    <3>1. CASE UNCHANGED vars BY <3>1 DEF PoolInv, TypeOK, vars
    <3> QED BY <3>1, ThreadType, MainType DEF Next
  <2> QED BY <2>1, StepExclusive, StepFresh, StepPopping, StepOnce DEF PoolInv
<1> QED BY <1>1, <1>2, PTL DEF Spec

\* However many threads share the queue, a task's callback is called once at
\* most.
THEOREM NoTaskTwice == Spec => []TasksOnce
BY PoolInductive, PTL DEF PoolInv

\* Queue_pop runs on an empty queue only in a thread that thread_pool_destroy
\* did not wait for.
THEOREM PopSafe == Spec => []PopFindsTask
BY PoolInductive, PTL DEF PoolInv
=============================================================================
