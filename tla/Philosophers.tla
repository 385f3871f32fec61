---------------------------- MODULE Philosophers ----------------------------
(***************************************************************************)
(* The dining philosophers of Code/huqingwei/test/zhexuejia.c: a thread    *)
(* per philosopher, a mutex per chopstick.  Philosopher A is 1, B is 2 and *)
(* so on; the right chopstick of p has the number p.                       *)
(***************************************************************************)
EXTENDS Integers

CONSTANT N   \* philosophers, and chopsticks

ASSUME NAssumption == N \in Nat \ {0, 1}

VARIABLES pc,        \* where eat_think is, by philosopher
          chopstick  \* who has locked it, 0 for nobody

vars == <<pc, chopstick>>

Phils == 1..N

\* get: the left chopstick; A's is the last one.
left(p) == IF p = 1 THEN N ELSE p - 1
right(p) == p

\* pthread_mutex_lock
FetchLeft(p) ==
  /\ pc[p] = "think" /\ chopstick[left(p)] = 0
  /\ chopstick' = [chopstick EXCEPT ![left(p)] = p]
  /\ pc' = [pc EXCEPT ![p] = "hungry"]

\* (fault: the result of trylock is not looked at)
NeverBusy(p) == FALSE

\* EBUSY
Busy(p) == chopstick[right(p)] # 0

\* (fault: the left chopstick is kept for the next attempt)
TryAgain == "hungry"

AfterBusy == "busy"

\* pthread_mutex_trylock
TryRight(p) ==
  /\ pc[p] = "hungry"
  /\ IF Busy(p) THEN pc' = [pc EXCEPT ![p] = AfterBusy] /\ chopstick' = chopstick
                ELSE /\ chopstick' = [chopstick EXCEPT ![right(p)] = p]
                     /\ pc' = [pc EXCEPT ![p] = "eat"]

\* unlock and continue
GiveUp(p) ==
  /\ pc[p] = "busy"
  /\ chopstick' = [chopstick EXCEPT ![left(p)] = 0]
  /\ pc' = [pc EXCEPT ![p] = "think"]

ReleaseLeft(p) ==
  /\ pc[p] = "eat"
  /\ chopstick' = [chopstick EXCEPT ![left(p)] = 0]
  /\ pc' = [pc EXCEPT ![p] = "sated"]

ReleaseRight(p) ==
  /\ pc[p] = "sated"
  /\ chopstick' = [chopstick EXCEPT ![right(p)] = 0]
  /\ pc' = [pc EXCEPT ![p] = "think"]

Proceed(p) == TryRight(p) \/ GiveUp(p) \/ ReleaseLeft(p) \/ ReleaseRight(p)

Init == pc = [p \in Phils |-> "think"] /\ chopstick = [c \in Phils |-> 0]

Next == \E p \in Phils : FetchLeft(p) \/ Proceed(p)

Spec == Init /\ [][Next]_vars

\* A thread that is not blocked runs.  Nothing is assumed of who gets a
\* chopstick for which several wait.
FairSpec == Spec /\ \A p \in Phils : WF_vars(Proceed(p))

-----------------------------------------------------------------------------
(* Properties                                                              *)

States == {"think", "hungry", "busy", "eat", "sated"}

TypeOK == pc \in [Phils -> States] /\ chopstick \in [Phils -> 0..N]

\* The chopsticks that p has in its hands.
Holding(p) == (IF pc[p] \in {"hungry", "busy", "eat"} THEN {left(p)} ELSE {})
              \cup (IF pc[p] \in {"eat", "sated"} THEN {right(p)} ELSE {})

\* A mutex is locked exactly by the one who has the chopstick: none is lost and
\* none is unlocked for somebody else (eat_think).
LocksMatchHands == \A c, p \in Phils : chopstick[c] = p <=> c \in Holding(p)

\* Neighbours never eat at the same time.
Exclusion == \A p, q \in Phils : left(q) = right(p) => ~(pc[p] = "eat" /\ pc[q] = "eat")

\* Whoever has taken a chopstick puts it back, although the neighbour may do the
\* same for ever: everybody may go hungry, nobody gets stuck (trylock).
PutBack == \A p \in Phils : (pc[p] = "hungry") ~> (pc[p] = "think")
=============================================================================
