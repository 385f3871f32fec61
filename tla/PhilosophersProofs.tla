------------------------- MODULE PhilosophersProofs -------------------------
(***************************************************************************)
(* Mutual exclusion of the dining philosophers, for any number of them.    *)
(***************************************************************************)
EXTENDS Philosophers, TLAPS

\* The inductive invariant: every mutex is held by the one who has the
\* chopstick in its hands.
IInv == TypeOK /\ LocksMatchHands

\* Both chopsticks of a philosopher have a number, and they are two.
LEMMA TwoChopsticks ==
  ASSUME NEW p \in Phils
  PROVE  left(p) \in Phils /\ right(p) \in Phils /\ left(p) # right(p)
BY NAssumption DEF Phils, left, right

\* Before the threads are created nobody holds anything.
LEMMA InitLocks == Init => IInv
BY NAssumption DEF Init, IInv, TypeOK, LocksMatchHands, Holding, States, Phils

\* No step of a philosopher takes a chopstick out of another one's hands, or
\* leaves its mutex locked when it is put down.
LEMMA StepLocks == IInv /\ [Next]_vars => IInv'
<1> SUFFICES ASSUME IInv, [Next]_vars PROVE IInv'
  OBVIOUS
<1> USE NAssumption DEF IInv
<1>1. CASE UNCHANGED vars
  BY <1>1 DEF vars, TypeOK, LocksMatchHands, Holding
<1>2. ASSUME NEW p \in Phils, FetchLeft(p) \/ Proceed(p) PROVE IInv'
  <2>1. left(p) \in Phils /\ right(p) \in Phils /\ left(p) # right(p)
    BY TwoChopsticks
  <2>2. CASE FetchLeft(p)
    <3>1. TypeOK'
      BY <2>1, <2>2 DEF FetchLeft, TypeOK, States, Phils
    <3>2. LocksMatchHands'
      BY <2>1, <2>2 DEF FetchLeft, TypeOK, States, LocksMatchHands, Holding, Phils
    <3> QED BY <3>1, <3>2
  <2>3. CASE TryRight(p)
    <3>1. TypeOK'
      BY <2>1, <2>3 DEF TryRight, AfterBusy, TypeOK, States, Phils
    <3>2. LocksMatchHands'
      BY <2>1, <2>3, SMTT(30) DEF TryRight, Busy, AfterBusy, TypeOK, States, LocksMatchHands, Holding, Phils
    <3> QED BY <3>1, <3>2
  <2>4. CASE GiveUp(p)
    <3>1. TypeOK'
      BY <2>1, <2>4 DEF GiveUp, TypeOK, States, Phils
    <3>2. LocksMatchHands'
      BY <2>1, <2>4 DEF GiveUp, TypeOK, States, LocksMatchHands, Holding, Phils
    <3> QED BY <3>1, <3>2
  <2>5. CASE ReleaseLeft(p)
    <3>1. TypeOK'
      BY <2>1, <2>5 DEF ReleaseLeft, TypeOK, States, Phils
    <3>2. LocksMatchHands'
      BY <2>1, <2>5 DEF ReleaseLeft, TypeOK, States, LocksMatchHands, Holding, Phils
    <3> QED BY <3>1, <3>2
  <2>6. CASE ReleaseRight(p)
    <3>1. TypeOK'
      BY <2>1, <2>6 DEF ReleaseRight, TypeOK, States, Phils
    <3>2. LocksMatchHands'
      BY <2>1, <2>6 DEF ReleaseRight, TypeOK, States, LocksMatchHands, Holding, Phils
    <3> QED BY <3>1, <3>2
  <2> QED BY <1>2, <2>2, <2>3, <2>4, <2>5, <2>6 DEF Proceed
<1> QED BY <1>1, <1>2 DEF Next

\* The locks of zhexuejia.c always agree with the chopsticks in the hands, for
\* every number of philosophers.
THEOREM LocksSafe == Spec => []LocksMatchHands
<1>1. IInv => LocksMatchHands
  BY DEF IInv
<1> QED BY <1>1, InitLocks, StepLocks, PTL DEF Spec

\* Two philosophers who share a chopstick never eat together: the one mutex
\* would have two owners.
THEOREM ExclusionSafe == Spec => []Exclusion
<1>1. IInv => Exclusion
  <2> SUFFICES ASSUME IInv, NEW p \in Phils, NEW q \in Phils, left(q) = right(p),
                      pc[p] = "eat", pc[q] = "eat"
               PROVE  FALSE
    BY DEF Exclusion
  <2>1. chopstick[right(p)] = p
    BY TwoChopsticks DEF IInv, LocksMatchHands, Holding
  <2>2. chopstick[left(q)] = q
    BY TwoChopsticks DEF IInv, LocksMatchHands, Holding
  <2>3. p = q
    BY <2>1, <2>2
  <2> QED BY <2>3, TwoChopsticks
<1> QED BY <1>1, InitLocks, StepLocks, PTL DEF Spec
=============================================================================
