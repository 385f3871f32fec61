----------------------------- MODULE ShellProofs -----------------------------
(***************************************************************************)
(* What the three shells promise of their processes and pipes, proved for  *)
(* any number of commands, words and blocks.                               *)
(***************************************************************************)
EXTENDS Shell, FiniteSetTheorems, SequenceTheorems, WellFoundedInduction, TLAPS

-----------------------------------------------------------------------------
(* The inductive invariant                                                 *)

\* The file and what was read from it are sequences of numbers of commands; a
\* block that nobody has written is 0.
Blocks == Seq(0..MaxCmds)

\* A line is read only when there is room for its command.
Room == sh = "do" => last < MaxCmds

PipeTypes == tmp \in Blocks /\ input \in [Cmds -> Blocks]

\* A command has a state exactly when it was started, and its pipe a writer
\* only when it has a state.
Numbered ==
  \A p \in Cmds : /\ state[p] = "none" <=> p > last
                  /\ writer[p] # "none" => state[p] # "none"

\* What the shell waits for is the last command, which is in the foreground.
Waiting == sh = "wait" => last \in Cmds /\ background[last] = FALSE /\ state[last] # "none"

Reaped(b) == Started(b) \ Unreaped(b)

\* The commands in the foreground that nobody has waited for: one for each wait
\* that took a command of the background, and the one that is waited for now.
Counted == Cardinality(Unreaped(FALSE)) = IF sh = "wait" THEN Cardinality(Reaped(TRUE)) + 1
                                                         ELSE Cardinality(Reaped(TRUE))

\* With waitpid that is the last command alone.
OnlyLast == author # "huqingwei" => Unreaped(FALSE) = IF sh = "wait" THEN {last} ELSE {}

\* huqingwei: what arrives through a pipe comes from its own writer, and no file
\* is written.
OwnPipe == author = "huqingwei" =>
  /\ tmp = << >>
  /\ \A p \in Cmds : \A i \in DOMAIN input[p] : input[p][i] = p

\* The others: the second process stays behind until the writer is gone, and has
\* read nothing until then.
Behind == author # "huqingwei" => \A p \in Cmds :
  /\ writer[p] \in {"forked", "run"} => state[p] = "pipe"
  /\ writer[p] \in {"none", "forked"} => offset[p] = 0
  /\ state[p] \in {"none", "pipe"} => input[p] = << >>
  /\ state[p] = "forked" => writer[p] = "none"
  /\ state[p] = "read" => writer[p] = "gone"

\* Two pipes whose file is in use at the same time know of each other.
Known == author # "huqingwei" => \A p, q \in InUse : p # q => p \in overlap

\* While the file is in use by one pipe alone, it begins with all that this pipe
\* has written, and holds nothing else when it was truncated or was not longer;
\* and what the pipe's reader has is the beginning of it.
Own(p) ==
  /\ offset[p] <= Len(tmp)
  /\ \A i \in 1..offset[p] : tmp[i] = p
  /\ author = "wuxinyue" \/ (writer[p] = "gone" /\ p \notin stale) => Len(tmp) = offset[p]
  /\ Len(input[p]) <= Len(tmp)
  /\ \A i \in DOMAIN input[p] : input[p][i] = tmp[i]

FileOwn == author # "huqingwei" => \A p \in InUse \ overlap : Own(p)

-----------------------------------------------------------------------------
(* Types                                                                   *)

\* A plan says whether the command goes to the background.
LEMMA CutBackground ==
  ASSUME NEW p, p.background \in BOOLEAN, NEW w
  PROVE  CutAt(p, w).background \in BOOLEAN
<1>1. Refuse.background \in BOOLEAN
  BY DEF Refuse, Plan
<1>2. Cut(p.arg, w, p.background).background \in BOOLEAN
  BY DEF Cut, Plan
<1> QED BY <1>1, <1>2 DEF CutAt

LEMMA PlanBackground ==
  ASSUME NEW a \in Authors, NEW l
  PROVE  do_cmd(a, l).background \in BOOLEAN
<1>1. ASSUME NEW b, NEW bg \in BOOLEAN
      PROVE  OneOperator(b, bg).background \in BOOLEAN
  BY DEF OneOperator, Cut, Plan
<1>2. \A s, w : Has(s, w) \in BOOLEAN
  BY DEF Has
<1>3. /\ Refuse.background \in BOOLEAN
      /\ Die.background \in BOOLEAN
      /\ ChangeDir.background \in BOOLEAN
  BY DEF Refuse, Die, ChangeDir, Plan
<1>4. PlanHu(l).background \in BOOLEAN
  BY <1>1, <1>2, <1>3 DEF PlanHu
<1>5. PlanWu(l).background \in BOOLEAN
  BY <1>1, <1>2, <1>3 DEF PlanWu
<1>6. PlanLt(l).background \in BOOLEAN
  <2> DEFINE f == Fields(l)
             p0 == Plan("run", NoAmp(f), << >>, Has(f, "&"))
             p == CutAt(CutAt(CutAt(CutAt(p0, ">"), ">>"), "<"), "|")
  <2>1. p0.background \in BOOLEAN
    BY <1>2 DEF Plan
  <2>2. p.background \in BOOLEAN
    <3> HIDE DEF p0
    <3> QED BY <2>1, CutBackground
  <2> HIDE DEF p
  <2>3. PlanLt(l) \in {Refuse, Die, p, ChangeDir}
    BY DEF PlanLt, p
  <2> QED BY <1>3, <2>2, <2>3
<1> QED
  BY <1>3, <1>4, <1>5, <1>6 DEF do_cmd, Authors

\* A block in a file of blocks.
LEMMA PutBlock ==
  ASSUME NEW f \in Blocks, NEW k \in Nat \ {0}, NEW p \in Cmds
  PROVE  /\ Put(f, k, p) \in Blocks
         /\ Len(Put(f, k, p)) = IF k > Len(f) THEN k ELSE Len(f)
         /\ Put(f, k, p)[k] = p
         /\ \A i \in 1..Len(f) : i # k => Put(f, k, p)[i] = f[i]
<1> DEFINE n == IF k > Len(f) THEN k ELSE Len(f)
<1> DEFINE S == 0..MaxCmds
<1>0. Blocks = Seq(S)
  BY DEF Blocks
<1> HIDE DEF S
<1>1. Len(f) \in Nat /\ DOMAIN f = 1..Len(f) /\ \A i \in 1..Len(f) : f[i] \in S
  BY <1>0, LenProperties
<1>2. n \in Nat /\ k \in 1..n /\ 1..Len(f) \subseteq 1..n
  BY <1>1
<1>3. p \in S /\ 0 \in S
  BY ShellBounds DEF Cmds, S
<1> HIDE DEF n
<1>4. Put(f, k, p) = [i \in 1..n |-> IF i = k THEN p ELSE IF i \in DOMAIN f THEN f[i] ELSE 0]
  BY DEF Put, n
<1>5. Put(f, k, p) \in [1..n -> S]
  BY <1>1, <1>3, <1>4
<1>6. Put(f, k, p) \in Blocks /\ Len(Put(f, k, p)) = n
  <2>1. Put(f, k, p) \in Seq(S)
    BY <1>2, <1>5, SeqDef
  <2> QED BY <1>0, <1>2, <1>5, <2>1, LenProperties
<1> QED
  BY <1>1, <1>2, <1>4, <1>6 DEF n

\* A block behind a file of blocks.
LEMMA AppendBlock ==
  ASSUME NEW f \in Blocks, NEW b \in 0..MaxCmds
  PROVE  /\ Append(f, b) \in Blocks /\ Len(f) \in Nat /\ Len(Append(f, b)) = Len(f) + 1
         /\ DOMAIN f = 1..Len(f) /\ DOMAIN Append(f, b) = 1..(Len(f) + 1)
         /\ \A i \in 1..Len(f) : Append(f, b)[i] = f[i]
         /\ Append(f, b)[Len(f) + 1] = b
<1> DEFINE S == 0..MaxCmds
<1>1. f \in Seq(S) /\ b \in S
  BY DEF Blocks
<1> HIDE DEF S
<1>2. /\ Append(f, b) \in Seq(S) /\ Len(Append(f, b)) = Len(f) + 1
      /\ \A i \in 1..Len(f) : Append(f, b)[i] = f[i]
      /\ Append(f, b)[Len(f) + 1] = b
  BY <1>1, AppendProperties
<1>3. Len(f) \in Nat /\ DOMAIN f = 1..Len(f)
  BY <1>1, LenProperties
<1>4. DOMAIN Append(f, b) = 1..(Len(f) + 1)
  BY <1>2, LenProperties
<1> QED BY <1>2, <1>3, <1>4 DEF S, Blocks

Types == TypeOK /\ PipeTypes /\ Room

\* What a read does.
LEMMA ReadBlocks ==
  ASSUME Types, NEW p \in Cmds, ReadBlock(p)
  PROVE  /\ state[p] = "read" /\ UNCHANGED <<author, sh, last, background, writer, offset, tmp, overlap, stale>>
         /\ \/ /\ state' = state /\ Len(input[p]) + 1 \in 1..Len(tmp)
               /\ tmp[Len(input[p]) + 1] \in 0..MaxCmds
               /\ input' = [input EXCEPT ![p] = Append(input[p], tmp[Len(input[p]) + 1])]
            \/ /\ state' = [state EXCEPT ![p] = "run"] /\ input' = input
               /\ Len(input[p]) >= Len(tmp)
<1> DEFINE S == 0..MaxCmds
<1>1. tmp \in Seq(S) /\ input[p] \in Seq(S)
  BY DEF Types, PipeTypes, Blocks
<1> HIDE DEF S
<1>2. Len(tmp) \in Nat /\ Len(input[p]) \in Nat /\ \A i \in 1..Len(tmp) : tmp[i] \in S
  BY <1>1, LenProperties, ElementOfSeq
<1>3. PICK k \in Nat : k = Len(input[p]) + 1 /\ k > 0 /\ (k > Len(tmp) => Len(input[p]) >= Len(tmp))
  BY <1>2
<1>4. /\ state[p] = "read" /\ UNCHANGED <<author, sh, last, background, writer, offset, tmp, overlap, stale>>
      /\ \/ k <= Len(tmp) /\ input' = [input EXCEPT ![p] = Append(input[p], tmp[k])] /\ state' = state
         \/ k > Len(tmp) /\ state' = [state EXCEPT ![p] = "run"] /\ input' = input
  BY <1>3 DEF ReadBlock
<1>5. k <= Len(tmp) => k \in 1..Len(tmp)
  BY <1>2, <1>3
<1> QED BY <1>2, <1>3, <1>4, <1>5 DEF S

LEMMA InitTypes == Init => Types
<1> SUFFICES ASSUME Init PROVE Types
  OBVIOUS
<1>1. << >> \in Lines /\ << >> \in Blocks
  BY ShellBounds DEF Lines, Blocks
<1>2. TypeOK
  BY <1>1, ShellBounds DEF Init, TypeOK, Refuse, Plan
<1>3. PipeTypes
  BY <1>1, ShellBounds DEF Init, PipeTypes
<1>4. Room
  BY ShellBounds DEF Init, Room
<1> QED BY <1>2, <1>3, <1>4 DEF Types

\* Every step keeps the types.
LEMMA StepTypes == Types /\ [Next]_vars => Types'
<1> SUFFICES ASSUME Types, [Next]_vars PROVE Types'
  OBVIOUS
<1> USE DEF Types, Room
<1>0. /\ << >> \in Lines /\ Refuse.background \in BOOLEAN
      /\ << >> \in Blocks /\ Len(<< >>) = 0
  BY ShellBounds DEF Lines, Refuse, Plan, Blocks
<1>1. CASE Read
  BY <1>1, PlanBackground DEF Read, TypeOK, PipeTypes, procVars, pipeVars
<1>2. CASE Exit
  BY <1>2 DEF Exit, TypeOK, PipeTypes, procVars, pipeVars
<1>3. CASE NoFork
  BY <1>0, <1>3 DEF NoFork, TypeOK, PipeTypes, procVars, pipeVars
<1>4. CASE Fork
  <2>0. last + 1 \in Cmds
    BY <1>4, ShellBounds DEF Fork, TypeOK, Cmds
  <2>1. last' \in 0..MaxCmds /\ state' \in [Cmds -> {"none", "pipe", "forked", "read", "run", "zombie", "reaped"}]
    BY <1>4, <2>0, ShellBounds DEF Fork, TypeOK, Cmds
  <2>2. background' \in [Cmds -> BOOLEAN] /\ sh' \in {"prompt", "do", "wait", "exit", "dead"}
    BY <1>4 DEF Fork, TypeOK
  <2> QED BY <1>0, <1>4, <2>1, <2>2 DEF Fork, TypeOK, PipeTypes, pipeVars
<1>5. ASSUME NEW p \in Cmds, Wait(p) PROVE Types'
  BY <1>5 DEF Wait, TypeOK, PipeTypes, pipeVars
<1>6. CASE Interrupt
  BY <1>6 DEF Interrupt, Stopped, StoppedWriters, Filling, TypeOK, PipeTypes
<1>7. ASSUME NEW p \in Cmds, Exec(p) \/ NotFound(p) \/ End(p) PROVE Types'
  BY <1>7 DEF Exec, NotFound, End, TypeOK, PipeTypes, pipeVars
<1>8. ASSUME NEW p \in Cmds, PipeFork(p) PROVE Types'
  BY <1>8 DEF PipeFork, TypeOK, PipeTypes
<1>9. ASSUME NEW p \in Cmds, WriterExec(p) PROVE Types'
  <2>1. writer' \in [Cmds -> {"none", "forked", "run", "gone", "missing"}]
    BY <1>9 DEF WriterExec, TypeOK
  <2>2. tmp' \in Blocks /\ Len(tmp') <= MaxOut
    BY <1>0, <1>9, ShellBounds DEF WriterExec, Opened, TypeOK, PipeTypes
  <2>3. overlap' \subseteq Cmds
    BY <1>9 DEF WriterExec, InUse, TypeOK
  <2> QED BY <1>9, <2>1, <2>2, <2>3 DEF WriterExec, TypeOK, PipeTypes, procVars
<1>10. ASSUME NEW p \in Cmds, Write(p) PROVE Types'
  <2>1. offset' \in [Cmds -> 0..MaxOut] /\ offset'[p] \in Nat \ {0} /\ offset'[p] <= MaxOut
    BY <1>10, ShellBounds DEF Write, TypeOK
  <2>2. input' \in [Cmds -> Blocks]
    <3>1. Append(input[p], p) \in Blocks
      <4>1. p \in 0..MaxCmds /\ input[p] \in Seq(0..MaxCmds)
        BY ShellBounds DEF PipeTypes, Blocks, Cmds
      <4> DEFINE S == 0..MaxCmds
      <4> HIDE DEF S
      <4>2. p \in S /\ input[p] \in Seq(S)
        BY <4>1 DEF S
      <4>3. Append(input[p], p) \in Seq(S)
        BY <4>2, AppendProperties
      <4> QED BY <4>3 DEF S, Blocks
    <3> QED BY <1>10, <3>1 DEF Write, PipeTypes
  <2>3. tmp' \in Blocks /\ Len(tmp') <= MaxOut
    <3>1. CASE author = "huqingwei"
      BY <1>10, <3>1 DEF Write, TypeOK, PipeTypes
    <3>2. CASE author # "huqingwei"
      <4>1. tmp' = Put(tmp, offset'[p], p)
        BY <1>10, <3>2 DEF Write
      <4>2. PICK k \in Nat \ {0} : k = offset'[p] /\ k <= MaxOut
        BY <2>1
      <4>3. tmp \in Blocks
        BY DEF PipeTypes
      <4>4. Put(tmp, k, p) \in Blocks /\ Len(Put(tmp, k, p)) = IF k > Len(tmp) THEN k ELSE Len(tmp)
        BY <4>3, PutBlock
      <4> QED BY <4>1, <4>2, <4>4 DEF TypeOK
    <3> QED BY <3>1, <3>2
  <2> QED BY <1>10, <2>1, <2>2, <2>3 DEF Write, TypeOK, PipeTypes, procVars
<1>11. ASSUME NEW p \in Cmds, WriterEnd(p) PROVE Types'
  BY <1>11 DEF WriterEnd, TypeOK, PipeTypes, procVars
<1>12. ASSUME NEW p \in Cmds, PipeRead(p) PROVE Types'
  BY <1>12 DEF PipeRead, TypeOK, PipeTypes, pipeVars
<1>13. ASSUME NEW p \in Cmds, PipeFail(p) PROVE Types'
  <2>1. state' \in [Cmds -> {"none", "pipe", "forked", "read", "run", "zombie", "reaped"}]
    BY <1>13 DEF PipeFail, TypeOK
  <2>2. tmp' \in Blocks /\ Len(tmp') <= MaxOut /\ overlap' \subseteq Cmds
    BY <1>0, <1>13, ShellBounds DEF PipeFail, InUse, TypeOK, PipeTypes
  <2> QED BY <1>13, <2>1, <2>2 DEF PipeFail, TypeOK, PipeTypes
<1>14. ASSUME NEW p \in Cmds, ReadBlock(p) PROVE Types'
  <2>1. state' \in [Cmds -> {"none", "pipe", "forked", "read", "run", "zombie", "reaped"}]
    BY <1>14 DEF ReadBlock, TypeOK
  <2>2. input' \in [Cmds -> Blocks]
    <3>1. input \in [Cmds -> Blocks] /\ \/ input' = input
                                        \/ \E b \in 0..MaxCmds : input' = [input EXCEPT ![p] = Append(input[p], b)]
      BY <1>14, ReadBlocks DEF PipeTypes, TypeOK
    <3>2. \A b \in 0..MaxCmds : Append(input[p], b) \in Blocks
      BY <3>1, AppendBlock
    <3> QED BY <3>1, <3>2
  <2> QED BY <1>14, <2>1, <2>2 DEF ReadBlock, TypeOK, PipeTypes
<1>15. CASE UNCHANGED vars
  BY <1>15 DEF vars, TypeOK, PipeTypes, procVars, pipeVars
<1> QED
  BY <1>1, <1>2, <1>3, <1>4, <1>5, <1>6, <1>7, <1>8, <1>9, <1>10, <1>11, <1>12, <1>13, <1>14, <1>15
  DEF Next, Shell, Starting
\* The shell's own variables are in no state that the model has no name for.
THEOREM TypeCorrect == Spec => []TypeOK
<1>1. Types => TypeOK
  BY DEF Types
<1> QED BY <1>1, InitTypes, StepTypes, PTL DEF Spec

-----------------------------------------------------------------------------
(* Waiting                                                                 *)

\* A process takes one step of its own; the shell looks at it only when it has
\* ended.
Live == {"pipe", "forked", "read", "run", "zombie"}

\* The steps of commands: no state comes or goes, none is reaped.
Keeps == /\ UNCHANGED <<author, sh, last, background>>
         /\ \A p \in Cmds : state'[p] = state[p] \/ (state[p] \in Live /\ state'[p] \in Live)
         /\ \A p \in Cmds : writer[p] = "none" /\ writer'[p] # "none" => state[p] # "none"

LEMMA CommandsKeep ==
  ASSUME Types, NEW p \in Cmds,
         Starting(p) \/ Write(p) \/ WriterEnd(p) \/ ReadBlock(p) \/ End(p)
  PROVE  Keeps
<1> USE DEF Types, TypeOK, Live
<1>1. CASE Exec(p) \/ NotFound(p) \/ End(p)
  BY <1>1 DEF Exec, NotFound, End, Keeps, pipeVars
<1>2. CASE PipeFork(p)
  BY <1>2 DEF PipeFork, Keeps
<1>3. CASE WriterExec(p)
  BY <1>3 DEF WriterExec, Keeps, procVars
<1>4. CASE Write(p)
  BY <1>4 DEF Write, Keeps, procVars
<1>5. CASE WriterEnd(p)
  BY <1>5 DEF WriterEnd, Keeps, procVars
<1>6. CASE PipeRead(p)
  BY <1>6 DEF PipeRead, Keeps, pipeVars
<1>7. CASE PipeFail(p)
  BY <1>7 DEF PipeFail, Keeps
<1>8. CASE ReadBlock(p)
  BY <1>8 DEF ReadBlock, Keeps
<1> QED BY <1>1, <1>2, <1>3, <1>4, <1>5, <1>6, <1>7, <1>8 DEF Starting

LEMMA InterruptKeeps ==
  ASSUME Types, Interrupt
  PROVE  Keeps
BY DEF Types, TypeOK, Interrupt, Stopped, StoppedWriters, Filling, Keeps, Live

\* What the shell leaves alone when it neither forks nor waits.
Idle == /\ UNCHANGED <<author, last, state, background, writer>>
        /\ sh' = "wait" <=> sh = "wait"

LEMMA ShellIdle ==
  ASSUME Read \/ Exit \/ NoFork \/ UNCHANGED vars
  PROVE  Idle
BY DEF Read, Exit, NoFork, vars, procVars, pipeVars, Idle

\* The number of commands in the two groups does not depend on what the commands
\* do by themselves.
LEMMA GroupsKept ==
  ASSUME Types, Keeps \/ Idle, NEW b \in BOOLEAN
  PROVE  Unreaped(b)' = Unreaped(b) /\ Reaped(b)' = Reaped(b)
<1>1. last' = last /\ background' = background /\ 1..last \subseteq Cmds
  BY ShellBounds DEF Types, TypeOK, Keeps, Idle, Cmds
<1>2. \A p \in Cmds : state'[p] = "reaped" <=> state[p] = "reaped"
  BY DEF Keeps, Idle, Live
<1>3. Started(b)' = Started(b)
  BY <1>1 DEF Started
<1>4. Unreaped(b)' = Unreaped(b)
  BY <1>1, <1>2, <1>3 DEF Unreaped, Started
<1> QED BY <1>3, <1>4 DEF Reaped

LEMMA GroupsFinite ==
  ASSUME Types, NEW b \in BOOLEAN
  PROVE  IsFiniteSet(Unreaped(b)) /\ IsFiniteSet(Reaped(b)) /\ IsFiniteSet(Started(b))
<1>1. IsFiniteSet(1..last)
  BY FS_Interval DEF Types, TypeOK
<1>2. Started(b) \subseteq 1..last /\ Unreaped(b) \subseteq 1..last /\ Reaped(b) \subseteq 1..last
  BY DEF Started, Unreaped, Reaped
<1> QED BY <1>1, <1>2, FS_Subset

Procs == Numbered /\ Waiting /\ Counted /\ OnlyLast

LEMMA InitProcs == Init => Procs
<1> SUFFICES ASSUME Init PROVE Procs
  OBVIOUS
<1>1. last = 0 /\ sh = "prompt" /\ 1..last = {}
  BY DEF Init
<1>2. Unreaped(FALSE) = {} /\ Reaped(TRUE) = {}
  BY <1>1 DEF Unreaped, Started, Reaped
<1>3. Counted /\ OnlyLast /\ Waiting
  <2>1. Cardinality({}) = 0
    BY FS_EmptySet
  <2>2. Counted
    BY <1>1, <1>2, <2>1 DEF Counted
  <2>3. OnlyLast /\ Waiting
    BY <1>1, <1>2 DEF OnlyLast, Waiting
  <2> QED BY <2>2, <2>3
<1>4. Numbered
  BY <1>1, ShellBounds DEF Init, Numbered, Cmds
<1> QED BY <1>3, <1>4 DEF Procs
\* Neither the commands nor an idle shell change who has been waited for.
LEMMA KeptProcs ==
  ASSUME Types, Procs, Keeps \/ Idle
  PROVE  Procs'
<1>1. /\ author' = author /\ last' = last /\ background' = background
      /\ sh' = "wait" <=> sh = "wait"
  BY DEF Keeps, Idle
<1>2. \A p \in Cmds : state'[p] = "none" <=> state[p] = "none"
  BY DEF Keeps, Idle, Live
<1>3. Numbered'
  BY <1>1, <1>2 DEF Procs, Numbered, Keeps, Idle
<1>4. Waiting'
  BY <1>1, <1>2 DEF Procs, Waiting
<1>5. Unreaped(FALSE)' = Unreaped(FALSE) /\ Reaped(TRUE)' = Reaped(TRUE)
  BY GroupsKept
<1>6. Counted'
  BY <1>1, <1>5 DEF Procs, Counted
<1>7. OnlyLast'
  BY <1>1, <1>5 DEF Procs, OnlyLast
<1> QED BY <1>3, <1>4, <1>6, <1>7 DEF Procs

\* A fork adds one command to its group.
LEMMA ForkProcs ==
  ASSUME Types, Procs, Fork
  PROVE  Procs'
<1> DEFINE p == last + 1
<1>1. /\ p \in Cmds /\ last' = p /\ author' = author /\ writer' = writer
      /\ state' = [state EXCEPT ![p] = IF plan.how = "|" THEN "pipe" ELSE "forked"]
      /\ background' = [background EXCEPT ![p] = plan.background]
      /\ sh = "do" /\ sh' = IF plan.background THEN "prompt" ELSE "wait"
  BY ShellBounds DEF Fork, pipeVars, Types, Room, TypeOK, Cmds
<1>2. /\ state \in [Cmds -> {"none", "pipe", "forked", "read", "run", "zombie", "reaped"}]
      /\ background \in [Cmds -> BOOLEAN] /\ plan.background \in BOOLEAN
      /\ last \in Nat /\ 1..last \subseteq Cmds /\ 1..p = 1..last \cup {p} /\ p \notin 1..last
      /\ p > last
  BY <1>1, ShellBounds DEF Types, TypeOK, Cmds
<1> HIDE DEF p
<1>3. /\ state'[p] \in {"pipe", "forked"} /\ background'[p] = plan.background
      /\ \A q \in 1..last : state'[q] = state[q] /\ background'[q] = background[q]
  BY <1>1, <1>2
<1>4. ASSUME NEW b \in BOOLEAN
      PROVE  /\ Unreaped(b)' = IF plan.background = b THEN Unreaped(b) \cup {p} ELSE Unreaped(b)
             /\ Reaped(b)' = Reaped(b)
  <2>1. Started(b)' = IF plan.background = b THEN Started(b) \cup {p} ELSE Started(b)
    BY <1>1, <1>2, <1>3 DEF Started
  <2>2. p \notin Started(b) /\ Started(b) \subseteq 1..last
    BY <1>2 DEF Started
  <2>3. Unreaped(b)' = {q \in Started(b)' : state'[q] # "reaped"}
    BY DEF Unreaped
  <2>4. Unreaped(b)' = IF plan.background = b THEN Unreaped(b) \cup {p} ELSE Unreaped(b)
    BY <1>3, <2>1, <2>2, <2>3 DEF Unreaped
  <2>5. p \notin Unreaped(b) /\ Unreaped(b) \subseteq Started(b)
    BY <2>2 DEF Unreaped
  <2>6. Reaped(b)' = Started(b)' \ Unreaped(b)'
    BY DEF Reaped
  <2>7. Reaped(b)' = Reaped(b)
    BY <2>1, <2>2, <2>4, <2>5, <2>6 DEF Reaped
  <2> QED BY <2>4, <2>7
<1>5. Numbered'
  <2> SUFFICES ASSUME NEW q \in Cmds
               PROVE  /\ state'[q] = "none" <=> q > last'
                      /\ writer'[q] # "none" => state'[q] # "none"
    BY DEF Numbered
  <2>1. CASE q = p
    BY <1>1, <1>2, <1>3, <2>1
  <2>2. CASE q # p
    <3>1. q \in Nat /\ (q > last <=> q > p)
      BY <1>2, <2>2 DEF p, Cmds
    <3>2. state'[q] = state[q]
      BY <1>1, <1>2, <2>2
    <3> QED BY <1>1, <3>1, <3>2 DEF Procs, Numbered
  <2> QED BY <2>1, <2>2
<1>6. Waiting'
  BY <1>1, <1>2, <1>3 DEF Waiting
<1>7. Counted'
  <2>1. Cardinality(Unreaped(FALSE)) = Cardinality(Reaped(TRUE))
    BY <1>1 DEF Procs, Counted
  <2>2. Reaped(TRUE)' = Reaped(TRUE)
    BY <1>4
  <2>3. p \notin Unreaped(FALSE) /\ IsFiniteSet(Unreaped(FALSE))
    BY <1>2, GroupsFinite DEF Unreaped, Started
  <2>4. CASE plan.background
    <3>1. Unreaped(FALSE)' = Unreaped(FALSE)
      BY <1>4, <2>4
    <3>2. sh' # "wait"
      BY <1>1, <2>4
    <3>3. Cardinality(Unreaped(FALSE)) \in Nat
      BY <2>3, FS_CardinalityType
    <3> QED BY <2>1, <2>2, <3>1, <3>2, <3>3 DEF Counted
  <2>5. CASE ~plan.background
    <3>1. Unreaped(FALSE)' = Unreaped(FALSE) \cup {p}
      BY <1>2, <1>4, <2>5
    <3>2. sh' = "wait"
      BY <1>1, <2>5
    <3>3. Cardinality(Unreaped(FALSE) \cup {p}) = Cardinality(Unreaped(FALSE)) + 1
      BY <2>3, FS_AddElement
    <3> QED BY <2>1, <2>2, <3>1, <3>2, <3>3 DEF Counted
  <2> QED BY <2>4, <2>5
<1>8. OnlyLast'
  <2>1. author # "huqingwei" => Unreaped(FALSE) = {}
    BY <1>1 DEF Procs, OnlyLast
  <2> QED BY <1>1, <1>2, <1>4, <2>1 DEF OnlyLast
<1> QED BY <1>5, <1>6, <1>7, <1>8 DEF Procs
\* A wait takes one command out of its group: with waitpid the one that the
\* shell waits for, with wait perhaps one of the background.
LEMMA WaitProcs ==
  ASSUME Types, Procs, NEW p \in Cmds, Wait(p)
  PROVE  Procs'
<1>1. /\ last' = last /\ author' = author /\ writer' = writer /\ background' = background
      /\ state' = [state EXCEPT ![p] = "reaped"]
      /\ sh = "wait" /\ sh' = "prompt" /\ state[p] = "zombie"
      /\ author = "huqingwei" \/ p = last
  BY DEF Wait, pipeVars, Reaps
<1>2. /\ state \in [Cmds -> {"none", "pipe", "forked", "read", "run", "zombie", "reaped"}]
      /\ background \in [Cmds -> BOOLEAN]
      /\ last \in Nat /\ 1..last \subseteq Cmds
  BY ShellBounds DEF Types, TypeOK, Cmds
<1>3. p \in 1..last
  BY <1>1, <1>2 DEF Procs, Numbered, Cmds
<1>4. state'[p] = "reaped" /\ \A q \in Cmds : q # p => state'[q] = state[q]
  BY <1>1, <1>2
<1>5. ASSUME NEW b \in BOOLEAN
      PROVE  /\ background[p] = b  => Unreaped(b)' = Unreaped(b) \ {p} /\ p \in Unreaped(b)
             /\ background[p] # b => Unreaped(b)' = Unreaped(b)
             /\ background[p] = b  => Reaped(b)' = Reaped(b) \cup {p} /\ p \notin Reaped(b)
             /\ background[p] # b => Reaped(b)' = Reaped(b)
  <2>1. Started(b)' = Started(b) /\ Started(b) \subseteq 1..last
    BY <1>1 DEF Started
  <2>2. p \in Started(b) <=> background[p] = b
    BY <1>3 DEF Started
  <2>3. Unreaped(b)' = {q \in Started(b) : state'[q] # "reaped"}
    BY <2>1 DEF Unreaped
  <2>4. /\ background[p] = b  => Unreaped(b)' = Unreaped(b) \ {p} /\ p \in Unreaped(b)
        /\ background[p] # b => Unreaped(b)' = Unreaped(b)
    BY <1>1, <1>2, <1>4, <2>1, <2>2, <2>3 DEF Unreaped
  <2>5. Unreaped(b) \subseteq Started(b)
    BY DEF Unreaped
  <2>6. Reaped(b)' = Started(b) \ Unreaped(b)'
    BY <2>1 DEF Reaped
  <2> QED BY <2>2, <2>4, <2>5, <2>6 DEF Reaped
<1>6. Numbered'
  BY <1>1, <1>2, <1>4 DEF Procs, Numbered
<1>7. Waiting'
  BY <1>1 DEF Waiting
<1>8. Counted'
  <2>1. Cardinality(Unreaped(FALSE)) = Cardinality(Reaped(TRUE)) + 1
    BY <1>1 DEF Procs, Counted
  <2>2. /\ IsFiniteSet(Unreaped(FALSE)) /\ IsFiniteSet(Reaped(TRUE))
        /\ Cardinality(Reaped(TRUE)) \in Nat
    BY GroupsFinite, FS_CardinalityType
  <2>3. SUFFICES Cardinality(Unreaped(FALSE)') = Cardinality(Reaped(TRUE)')
    BY <1>1 DEF Counted
  <2>4. CASE background[p] = TRUE
    <3>1. Unreaped(FALSE)' = Unreaped(FALSE)
      BY <1>5, <2>4
    <3>2. Reaped(TRUE)' = Reaped(TRUE) \cup {p} /\ p \notin Reaped(TRUE)
      BY <1>5, <2>4
    <3>3. Cardinality(Reaped(TRUE) \cup {p}) = Cardinality(Reaped(TRUE)) + 1
      BY <2>2, <3>2, FS_AddElement
    <3> QED BY <2>1, <3>1, <3>2, <3>3
  <2>5. CASE background[p] = FALSE
    <3>1. Reaped(TRUE)' = Reaped(TRUE)
      BY <1>5, <2>5
    <3>2. Unreaped(FALSE)' = Unreaped(FALSE) \ {p} /\ p \in Unreaped(FALSE)
      BY <1>5, <2>5
    <3>3. Cardinality(Unreaped(FALSE) \ {p}) = Cardinality(Unreaped(FALSE)) - 1
      BY <2>2, <3>2, FS_RemoveElement
    <3>4. \A m, n \in Nat : m = n + 1 => m - 1 = n
      OBVIOUS
    <3>5. Cardinality(Unreaped(FALSE)) \in Nat
      BY <2>2, FS_CardinalityType
    <3>6. Cardinality(Unreaped(FALSE)) - 1 = Cardinality(Reaped(TRUE))
      BY <2>1, <2>2, <3>4, <3>5, Zenon
    <3> QED BY <3>1, <3>2, <3>3, <3>6
  <2> QED BY <1>2, <2>4, <2>5
<1>9. OnlyLast'
  <2>1. author # "huqingwei" => Unreaped(FALSE) = {last} /\ p = last /\ background[p] = FALSE
    BY <1>1 DEF Procs, OnlyLast, Waiting
  <2>2. author # "huqingwei" => Unreaped(FALSE)' = Unreaped(FALSE) \ {p}
    BY <1>5, <2>1
  <2> QED BY <1>1, <2>1, <2>2 DEF OnlyLast
<1> QED BY <1>6, <1>7, <1>8, <1>9 DEF Procs

LEMMA StepProcs == Types /\ Procs /\ [Next]_vars => Procs'
<1> SUFFICES ASSUME Types, Procs, [Next]_vars PROVE Procs'
  OBVIOUS
<1>1. CASE Read \/ Exit \/ NoFork \/ UNCHANGED vars
  BY <1>1, ShellIdle, KeptProcs
<1>2. CASE Fork
  BY <1>2, ForkProcs
<1>3. ASSUME NEW p \in Cmds, Wait(p) PROVE Procs'
  BY <1>3, WaitProcs
<1>4. CASE Interrupt
  BY <1>4, InterruptKeeps, KeptProcs
<1>5. ASSUME NEW p \in Cmds, Starting(p) \/ Write(p) \/ WriterEnd(p) \/ ReadBlock(p) \/ End(p)
      PROVE  Procs'
  BY <1>5, CommandsKeep, KeptProcs
<1> QED BY <1>1, <1>2, <1>3, <1>4, <1>5 DEF Next, Shell

\* When the prompt is back, the commands in the foreground that nobody has waited
\* for are as many as the commands of the background that a wait has taken, and
\* with the waitpid of liuting and wuxinyue there are none: for any number of
\* commands, in any order of their ends and with any number of ^C.
THEOREM Foreground == Spec => []ForegroundWaitedFor
<1>1. Procs => ForegroundWaitedFor
  <2> SUFFICES ASSUME Procs, sh = "prompt"
               PROVE  /\ Cardinality(Unreaped(FALSE)) = Cardinality(Reaped(TRUE))
                      /\ author # "huqingwei" => Unreaped(FALSE) = {}
    BY DEF ForegroundWaitedFor, Reaped
  <2> QED BY DEF Procs, Counted, OnlyLast
<1> QED BY <1>1, InitTypes, StepTypes, InitProcs, StepProcs, PTL DEF Spec
-----------------------------------------------------------------------------
(* Pipes                                                                   *)

Pipes == OwnPipe /\ Behind /\ Known /\ FileOwn /\ PipeOwnData

LEMMA InitPipes == Init => Pipes
<1> SUFFICES ASSUME Init PROVE Pipes
  OBVIOUS
<1>1. /\ tmp = << >>
      /\ \A p \in Cmds : input[p] = << >> /\ writer[p] = "none" /\ offset[p] = 0 /\ state[p] = "none"
  BY DEF Init
<1>2. InUse = {}
  BY <1>1 DEF InUse
<1>3. Behind /\ Known /\ FileOwn
  BY <1>1, <1>2 DEF Behind, Known, FileOwn
<1>4. DOMAIN << >> = {}
  OBVIOUS
<1>5. OwnPipe
  BY <1>1, <1>4, Zenon DEF OwnPipe
<1>6. PipeOwnData
  BY <1>1, <1>4, Zenon DEF PipeOwnData
<1> QED BY <1>3, <1>5, <1>6 DEF Pipes

\* huqingwei's pipes need no file, and no more than OwnPipe.
LEMMA PipeOfTwo == author = "huqingwei" /\ OwnPipe => Pipes
BY DEF OwnPipe, Pipes, Behind, Known, FileOwn, PipeOwnData

LEMMA AuthorStays == [Next]_vars => author' = author
BY DEF Next, Shell, Starting, Read, Exit, NoFork, Fork, Wait, Exec, NotFound, End, PipeFork,
       WriterExec, Write, WriterEnd, PipeRead, ReadBlock, PipeFail, Interrupt, vars

\* At huqingwei only a write changes what was read, and nothing the file.
LEMMA StepOwnPipe == Types /\ OwnPipe /\ [Next]_vars => OwnPipe'
<1> SUFFICES ASSUME Types, OwnPipe, [Next]_vars, author = "huqingwei" PROVE OwnPipe'
  BY AuthorStays DEF OwnPipe
<1>1. tmp = << >> /\ \A p \in Cmds : \A i \in DOMAIN input[p] : input[p][i] = p
  BY DEF OwnPipe
<1>2. CASE UNCHANGED <<tmp, input>>
  BY <1>1, <1>2 DEF OwnPipe
<1>3. ASSUME NEW p \in Cmds, Write(p) PROVE OwnPipe'
  <2>1. tmp' = tmp /\ input' = [input EXCEPT ![p] = Append(@, p)]
    BY <1>3 DEF Write
  <2>2. input \in [Cmds -> Blocks]
    BY DEF Types, PipeTypes
  <2>3. \A i \in DOMAIN Append(input[p], p) : Append(input[p], p)[i] = p
    <3>1. PICK b \in 0..MaxCmds, f \in Blocks : b = p /\ f = input[p]
      BY <2>2, ShellBounds DEF Cmds
    <3>2. /\ Len(f) \in Nat /\ DOMAIN f = 1..Len(f) /\ DOMAIN Append(f, b) = 1..(Len(f) + 1)
          /\ \A i \in 1..Len(f) : Append(f, b)[i] = f[i]
          /\ Append(f, b)[Len(f) + 1] = b
      BY AppendBlock
    <3>3. \A n \in Nat : 1..(n + 1) = 1..n \cup {n + 1}
      OBVIOUS
    <3> QED BY <1>1, <3>1, <3>2, <3>3
  <2>4. \A q \in Cmds : input'[q] = IF q = p THEN Append(input[p], p) ELSE input[q]
    BY <2>1, <2>2
  <2> QED BY <1>1, <2>1, <2>3, <2>4 DEF OwnPipe
<1>4. ASSUME NEW p \in Cmds, ReadBlock(p) PROVE OwnPipe'
  <2>1. Len(tmp) = 0
    BY <1>1
  <2>2. UNCHANGED <<tmp, input>>
    BY <1>4, <2>1, ReadBlocks
  <2> QED BY <1>2, <2>2
<1>5. CASE Read \/ Exit \/ NoFork \/ Fork \/ Interrupt \/ UNCHANGED vars
  BY <1>2, <1>5 DEF Read, Exit, NoFork, Fork, Interrupt, vars, pipeVars
<1>6. ASSUME NEW p \in Cmds, \/ Wait(p) \/ Exec(p) \/ NotFound(p) \/ End(p)
                              \/ PipeFork(p) \/ WriterEnd(p) \/ PipeRead(p)
      PROVE  OwnPipe'
  BY <1>2, <1>6 DEF Wait, Exec, NotFound, End, PipeFork, WriterEnd, PipeRead, pipeVars
<1>7. ASSUME NEW p \in Cmds, WriterExec(p) \/ PipeFail(p) PROVE OwnPipe'
  BY <1>2, <1>7 DEF WriterExec, PipeFail
<1> QED BY <1>3, <1>4, <1>5, <1>6, <1>7 DEF Next, Shell, Starting

\* The pipes of the other two: a step that changes no file, and with which a pipe
\* may stop using it.
LEMMA QuietPipes ==
  ASSUME Pipes, UNCHANGED <<author, pipeVars>>, InUse' \subseteq InUse,
         \A p \in Cmds : state'[p] = "run" /\ writer[p] = "gone" => state[p] = "run"
  PROVE  Known' /\ FileOwn' /\ PipeOwnData'
<1>1. UNCHANGED <<author, writer, offset, tmp, input, overlap, stale>>
  BY DEF pipeVars
<1>2. \A p : Own(p)' = Own(p)
  BY <1>1 DEF Own
<1>3. Known' /\ FileOwn'
  BY <1>1, <1>2 DEF Pipes, Known, FileOwn
<1>4. PipeOwnData'
  BY <1>1 DEF Pipes, PipeOwnData
<1> QED BY <1>3, <1>4

\* A command that is not waiting for its writer changes its state.
LEMMA StatePipes ==
  ASSUME Types, Pipes, author # "huqingwei", UNCHANGED <<author, pipeVars>>,
         NEW p \in Cmds, NEW s \in {"run", "zombie", "reaped"}, s = "run" => state[p] = "forked",
         state[p] \notin {"none", "pipe"}, state' = [state EXCEPT ![p] = s]
  PROVE  Behind' /\ Known' /\ FileOwn' /\ PipeOwnData'
<1>1. state \in [Cmds -> {"none", "pipe", "forked", "read", "run", "zombie", "reaped"}]
  BY DEF Types, TypeOK
<1>2. \A q \in Cmds : state'[q] = IF q = p THEN s ELSE state[q]
  BY <1>1
<1>3. writer' = writer /\ offset' = offset /\ input' = input /\ author' = author
  BY DEF pipeVars
<1>4. InUse' \subseteq InUse
  BY <1>2, <1>3 DEF InUse
<1>5. Behind'
  BY <1>2, <1>3 DEF Pipes, Behind
<1>6. \A q \in Cmds : state'[q] = "run" /\ writer[q] = "gone" => state[q] = "run"
  BY <1>2 DEF Pipes, Behind
<1> QED BY <1>4, <1>5, <1>6, QuietPipes

LEMMA ForkPipes ==
  ASSUME Types, Procs, Pipes, author # "huqingwei", Fork
  PROVE  Behind' /\ Known' /\ FileOwn' /\ PipeOwnData'
<1> DEFINE p == last + 1
<1>1. /\ p \in Cmds /\ p > last
      /\ state \in [Cmds -> {"none", "pipe", "forked", "read", "run", "zombie", "reaped"}]
      /\ state' = [state EXCEPT ![p] = IF plan.how = "|" THEN "pipe" ELSE "forked"]
      /\ UNCHANGED <<author, pipeVars>>
  BY ShellBounds DEF Fork, pipeVars, Types, Room, TypeOK, Cmds
<1> HIDE DEF p
<1>2. state[p] = "none" /\ writer[p] = "none"
  BY <1>1 DEF Procs, Numbered
<1>3. /\ \A q \in Cmds : q # p => state'[q] = state[q]
      /\ state'[p] \in {"pipe", "forked"}
  BY <1>1
<1>4. writer' = writer /\ offset' = offset /\ input' = input /\ author' = author
  BY <1>1 DEF pipeVars
<1>5. InUse' \subseteq InUse
  BY <1>2, <1>3, <1>4 DEF InUse
<1>6. Behind'
  BY <1>2, <1>3, <1>4 DEF Pipes, Behind
<1>7. \A q \in Cmds : state'[q] = "run" /\ writer[q] = "gone" => state[q] = "run"
  BY <1>3
<1> QED BY <1>1, <1>5, <1>6, <1>7, QuietPipes

LEMMA PipeForkPipes ==
  ASSUME Types, Pipes, author # "huqingwei", NEW p \in Cmds, PipeFork(p)
  PROVE  Behind' /\ Known' /\ FileOwn' /\ PipeOwnData'
<1>1. /\ state[p] = "pipe" /\ writer[p] = "none"
      /\ writer' = [writer EXCEPT ![p] = "forked"]
      /\ state' = [state EXCEPT ![p] = "pipe"]
      /\ UNCHANGED <<author, offset, tmp, input, overlap, stale>>
      /\ state \in [Cmds -> {"none", "pipe", "forked", "read", "run", "zombie", "reaped"}]
      /\ writer \in [Cmds -> {"none", "forked", "run", "gone", "missing"}]
  BY DEF PipeFork, Types, TypeOK
<1>2. /\ \A q \in Cmds : state'[q] = state[q]
      /\ \A q \in Cmds : writer'[q] = IF q = p THEN "forked" ELSE writer[q]
  BY <1>1
<1>3. InUse' = InUse
  BY <1>1, <1>2 DEF InUse
<1>4. Behind'
  BY <1>1, <1>2 DEF Pipes, Behind
<1>5. Known' /\ PipeOwnData'
  BY <1>1, <1>2, <1>3 DEF Pipes, Known, PipeOwnData
<1>6. FileOwn'
  <2>1. \A q \in InUse : Own(q) => Own(q)'
    BY <1>1, <1>2 DEF InUse, Own
  <2> QED BY <1>1, <1>3, <2>1 DEF Pipes, FileOwn
<1> QED BY <1>4, <1>5, <1>6

\* A writer that opens the file is alone with it, or the others are told.
LEMMA WriterExecPipes ==
  ASSUME Types, Pipes, author # "huqingwei", NEW p \in Cmds, WriterExec(p)
  PROVE  Behind' /\ Known' /\ FileOwn' /\ PipeOwnData'
<1>1. /\ UNCHANGED <<author, state, offset, input, stale>>
      /\ writer[p] = "forked" /\ state[p] = "pipe" /\ offset[p] = 0 /\ input[p] = << >>
      /\ writer \in [Cmds -> {"none", "forked", "run", "gone", "missing"}]
  BY DEF WriterExec, procVars, Types, TypeOK, Pipes, Behind
<1>2. PICK w \in {"run", "missing"} : writer' = [writer EXCEPT ![p] = w]
  BY DEF WriterExec
<1>3. \A q \in Cmds : writer'[q] = IF q = p THEN w ELSE writer[q]
  BY <1>1, <1>2
<1>4. Behind'
  BY <1>1, <1>3 DEF Pipes, Behind
<1>5. p \notin InUse
  BY <1>1 DEF InUse
<1>6. overlap \subseteq overlap'
  BY DEF WriterExec
<1>7. PipeOwnData'
  BY <1>1, <1>3, <1>6 DEF Pipes, PipeOwnData
<1>8. CASE w = "missing"
  <2>1. InUse' = InUse
    BY <1>1, <1>3, <1>8 DEF InUse
  <2>2. tmp' = tmp /\ overlap' = overlap
    BY <1>3, <1>8 DEF WriterExec
  <2>3. Known'
    BY <1>1, <2>1, <2>2 DEF Pipes, Known
  <2>4. FileOwn'
    <3>1. \A q \in InUse : q \in Cmds /\ writer'[q] = writer[q]
      BY <1>3, <1>5 DEF InUse
    <3>2. \A q \in InUse : Own(q) => Own(q)'
      BY <1>1, <2>2, <3>1 DEF Own
    <3> QED BY <1>1, <2>1, <2>2, <3>2 DEF Pipes, FileOwn
  <2> QED BY <1>4, <1>7, <2>3, <2>4
<1>9. CASE w = "run"
  <2>1. InUse' = InUse \cup {p}
    BY <1>1, <1>3, <1>9 DEF InUse
  <2>2. /\ tmp' = Opened
        /\ overlap' = overlap \cup (IF InUse # {} THEN InUse \cup {p} ELSE {})
    BY <1>3, <1>9 DEF WriterExec
  <2>3. Known'
    <3> SUFFICES ASSUME NEW q \in InUse', NEW r \in InUse', q # r PROVE q \in overlap'
      BY DEF Known
    <3>1. CASE InUse = {}
      BY <2>1, <3>1
    <3>2. CASE InUse # {}
      BY <2>1, <2>2, <3>2
    <3> QED BY <3>1, <3>2
  <2>4. FileOwn'
    <3> SUFFICES ASSUME NEW q \in InUse' \ overlap' PROVE Own(q)'
      BY DEF FileOwn
    <3>1. InUse = {} /\ q = p
      BY <2>1, <2>2
    <3>2. offset'[q] = 0 /\ writer'[q] = "run" /\ input'[q] = << >>
      BY <1>1, <1>3, <1>9, <3>1
    <3>3. Len(tmp') \in Nat /\ (author' = "wuxinyue" => Len(tmp') = 0)
      <4>1. Len(tmp) \in Nat
        BY DEF Types, PipeTypes, Blocks
      <4> QED BY <1>1, <2>2, <4>1 DEF Opened
    <3>4. Len(<< >>) = 0 /\ DOMAIN << >> = {}
      OBVIOUS
    <3> QED BY <3>2, <3>3, <3>4 DEF Own
  <2> QED BY <1>4, <1>7, <2>3, <2>4
<1> QED BY <1>8, <1>9
\* A write of the only pipe that uses the file makes its part longer by one block.
LEMMA WritePipes ==
  ASSUME Types, Pipes, author # "huqingwei", NEW p \in Cmds, Write(p)
  PROVE  Behind' /\ Known' /\ FileOwn' /\ PipeOwnData'
<1>1. /\ UNCHANGED <<author, state, writer, input, overlap, stale>>
      /\ writer[p] = "run" /\ state[p] = "pipe" /\ input[p] = << >>
      /\ offset \in [Cmds -> 0..MaxOut]
      /\ offset' = [offset EXCEPT ![p] = offset[p] + 1]
      /\ tmp' = Put(tmp, offset'[p], p)
  BY DEF Write, procVars, Types, TypeOK, Pipes, Behind
<1>2. PICK k \in Nat : k = offset[p]
  BY <1>1, ShellBounds
<1>3. \A q \in Cmds : offset'[q] = IF q = p THEN k + 1 ELSE offset[q]
  BY <1>1, <1>2
<1>4. Behind'
  BY <1>1, <1>3 DEF Pipes, Behind
<1>5. InUse' = InUse /\ p \in InUse
  BY <1>1 DEF InUse
<1>6. Known'
  BY <1>1, <1>5 DEF Pipes, Known
<1>7. PipeOwnData'
  <2>1. \A q \in Cmds : state[q] = "run" => offset'[q] = offset[q]
    BY <1>1, <1>3
  <2> QED BY <1>1, <2>1 DEF Pipes, PipeOwnData
<1>8. FileOwn'
  <2> SUFFICES ASSUME NEW q \in InUse \ overlap PROVE Own(q)'
    BY <1>1, <1>5 DEF FileOwn
  <2>1. q = p
    BY <1>5 DEF Pipes, Known
  <2>2. /\ k <= Len(tmp) /\ \A i \in 1..k : tmp[i] = p
        /\ author = "wuxinyue" => Len(tmp) = k
    BY <1>2, <2>1 DEF Pipes, FileOwn, Own
  <2>3. offset'[p] = k + 1 /\ k + 1 \in Nat \ {0} /\ tmp' = Put(tmp, k + 1, p)
    BY <1>1, <1>3
  <2>4. tmp \in Blocks /\ Len(tmp) \in Nat
    BY DEF Types, PipeTypes, Blocks
  <2>5. /\ Len(tmp') = IF k + 1 > Len(tmp) THEN k + 1 ELSE Len(tmp)
        /\ tmp'[k + 1] = p
        /\ \A i \in 1..Len(tmp) : i # k + 1 => tmp'[i] = tmp[i]
    <3>1. PICK m \in Nat \ {0} : m = k + 1
      BY <2>3
    <3>2. /\ Len(Put(tmp, m, p)) = IF m > Len(tmp) THEN m ELSE Len(tmp)
          /\ Put(tmp, m, p)[m] = p
          /\ \A i \in 1..Len(tmp) : i # m => Put(tmp, m, p)[i] = tmp[i]
      BY <2>4, PutBlock
    <3> QED BY <2>3, <3>1, <3>2
  <2>6. k + 1 <= Len(tmp') /\ (author = "wuxinyue" => Len(tmp') = k + 1)
    BY <2>2, <2>4, <2>5
  <2>7. ASSUME NEW i \in 1..(k + 1) PROVE tmp'[i] = p
    <3>1. CASE i = k + 1
      BY <2>5, <3>1
    <3>2. CASE i # k + 1
      <4>1. i \in 1..k /\ i \in 1..Len(tmp)
        BY <2>2, <2>4, <3>2
      <4> QED BY <2>2, <2>5, <3>2, <4>1
    <3> QED BY <3>1, <3>2
  <2>8. Len(<< >>) = 0 /\ DOMAIN << >> = {} /\ Len(tmp') >= 0 /\ Len(tmp') \in Nat
    BY <2>4, <2>5
  <2>9. /\ offset'[q] <= Len(tmp') /\ \A i \in 1..offset'[q] : tmp'[i] = q
        /\ author' = "wuxinyue" \/ (writer'[q] = "gone" /\ q \notin stale') => Len(tmp') = offset'[q]
    BY <1>1, <2>1, <2>3, <2>6, <2>7
  <2>10. Len(input'[q]) <= Len(tmp') /\ \A i \in DOMAIN input'[q] : input'[q][i] = tmp'[i]
    BY <1>1, <2>1, <2>8
  <2> QED BY <2>9, <2>10 DEF Own
<1> QED BY <1>4, <1>6, <1>7, <1>8

\* What ends writers: the end of a command, or ^C.  Those whose file is longer
\* than what they wrote are noted.
Ending(E) ==
  /\ UNCHANGED <<author, offset, tmp, input, overlap>>
  /\ E \in SUBSET Filling
  /\ writer' = [p \in Cmds |-> IF p \in E THEN "gone" ELSE writer[p]]
  /\ stale' = stale \cup {p \in E : Len(tmp) > offset[p]}
  /\ \A p \in Cmds : state'[p] = state[p] \/ (state[p] \in {"run", "read"} /\ state'[p] = "zombie")

LEMMA EndingPipes ==
  ASSUME Types, Pipes, author # "huqingwei", NEW E, Ending(E)
  PROVE  Behind' /\ Known' /\ FileOwn' /\ PipeOwnData'
<1>1. /\ UNCHANGED <<author, offset, tmp, input, overlap>>
      /\ \A p \in E : p \in Cmds /\ writer[p] = "run" /\ state[p] = "pipe"
      /\ \A p \in Cmds : writer'[p] = IF p \in E THEN "gone" ELSE writer[p]
      /\ stale' = stale \cup {p \in E : Len(tmp) > offset[p]}
      /\ \A p \in Cmds : state'[p] = state[p] \/ (state[p] \in {"run", "read"} /\ state'[p] = "zombie")
  BY DEF Ending, Filling, Pipes, Behind
<1>2. Behind'
  BY <1>1 DEF Pipes, Behind
<1>3. InUse' \subseteq InUse
  BY <1>1 DEF InUse
<1>4. Known'
  BY <1>1, <1>3 DEF Pipes, Known
<1>5. PipeOwnData'
  <2>1. \A p \in Cmds : state'[p] = "run" /\ writer'[p] = "gone" => state[p] = "run" /\ writer[p] = "gone"
    BY <1>1
  <2>2. stale \subseteq stale'
    BY <1>1
  <2> QED BY <1>1, <2>1, <2>2 DEF Pipes, PipeOwnData
<1>6. FileOwn'
  <2> SUFFICES ASSUME NEW p \in InUse \ overlap
               PROVE  Own(p)'
    BY <1>1, <1>3 DEF FileOwn
  <2>1. /\ offset[p] <= Len(tmp) /\ p \in Cmds
        /\ \A i \in 1..offset[p] : tmp[i] = p
        /\ author = "wuxinyue" \/ (writer[p] = "gone" /\ p \notin stale) => Len(tmp) = offset[p]
        /\ Len(input[p]) <= Len(tmp) /\ \A i \in DOMAIN input[p] : input[p][i] = tmp[i]
    BY DEF Pipes, FileOwn, Own, InUse
  <2>2. ASSUME writer'[p] = "gone", p \notin stale' PROVE Len(tmp) = offset[p]
    <3>1. CASE p \in E
      <4>1. ~(Len(tmp) > offset[p])
        BY <1>1, <2>2, <3>1
      <4>2. Len(tmp) \in Nat /\ offset[p] \in Nat
        BY <2>1, ShellBounds DEF Types, TypeOK, PipeTypes, Blocks
      <4> QED BY <2>1, <4>1, <4>2
    <3>2. CASE p \notin E
      BY <1>1, <2>1, <2>2, <3>2
    <3> QED BY <3>1, <3>2
  <2> QED BY <1>1, <2>1, <2>2 DEF Own
<1> QED BY <1>2, <1>4, <1>5, <1>6

\* The second process opens the file that its own writer has left.
LEMMA PipeReadPipes ==
  ASSUME Types, Pipes, author # "huqingwei", NEW p \in Cmds, PipeRead(p)
  PROVE  Behind' /\ Known' /\ FileOwn' /\ PipeOwnData'
<1>1. /\ UNCHANGED <<author, pipeVars>> /\ UNCHANGED <<writer, offset, input>>
      /\ state[p] = "pipe" /\ writer[p] = "gone"
      /\ state' = [state EXCEPT ![p] = "read"]
      /\ state \in [Cmds -> {"none", "pipe", "forked", "read", "run", "zombie", "reaped"}]
  BY DEF PipeRead, WriterGone, Types, TypeOK, pipeVars
<1>2. \A q \in Cmds : state'[q] = IF q = p THEN "read" ELSE state[q]
  BY <1>1
<1>3. InUse' \subseteq InUse
  BY <1>1, <1>2 DEF InUse
<1>4. Behind'
  BY <1>1, <1>2 DEF Pipes, Behind
<1>5. \A q \in Cmds : state'[q] = "run" /\ writer[q] = "gone" => state[q] = "run"
  BY <1>2
<1> QED BY <1>1, <1>3, <1>4, <1>5, QuietPipes

\* What a pipe has read that uses the file alone is its own.
ReadsOwn == \A p \in Cmds : author # "huqingwei" /\ Own(p) /\ writer[p] = "gone" =>
  \/ \A i \in DOMAIN input[p] : input[p][i] = p
  \/ author = "liuting" /\ p \in stale

LEMMA OwnRead == Types => ReadsOwn
<1> SUFFICES ASSUME Types, NEW p \in Cmds, author # "huqingwei", Own(p), writer[p] = "gone"
             PROVE  \/ \A i \in DOMAIN input[p] : input[p][i] = p
                    \/ author = "liuting" /\ p \in stale
  BY DEF ReadsOwn
<1>1. author \in {"liuting", "wuxinyue"}
  BY DEF Types, TypeOK, Authors
<1> SUFFICES ASSUME author = "wuxinyue" \/ p \notin stale
             PROVE  \A i \in DOMAIN input[p] : input[p][i] = p
  BY <1>1
<1>2. /\ Len(input[p]) <= Len(tmp) /\ Len(tmp) = offset[p]
      /\ \A i \in DOMAIN input[p] : input[p][i] = tmp[i]
      /\ \A i \in 1..offset[p] : tmp[i] = p
  BY DEF Own
<1>3. DOMAIN input[p] = 1..Len(input[p]) /\ Len(input[p]) \in Nat /\ offset[p] \in Nat
  <2>1. input[p] \in Seq(0..MaxCmds)
    BY DEF Types, PipeTypes, Blocks
  <2>2. offset[p] \in Nat
    BY ShellBounds DEF Types, TypeOK
  <2> QED BY <2>1, <2>2, LenProperties
<1>4. \A i \in 1..Len(input[p]) : i \in 1..offset[p]
  BY <1>2, <1>3
<1> QED BY <1>2, <1>3, <1>4

\* It reads the next block, or has read them all.
LEMMA ReadBlockPipes ==
  ASSUME Types, Types', Pipes, author # "huqingwei", NEW p \in Cmds, ReadBlock(p)
  PROVE  Behind' /\ Known' /\ FileOwn' /\ PipeOwnData'
<1>0. /\ state[p] = "read" /\ UNCHANGED <<author, writer, offset, tmp, overlap, stale>>
      /\ state \in [Cmds -> {"none", "pipe", "forked", "read", "run", "zombie", "reaped"}]
      /\ input \in [Cmds -> Blocks]
  BY ReadBlocks DEF Types, TypeOK, PipeTypes
<1>1. p \in InUse /\ writer[p] = "gone" /\ (p \notin overlap => Own(p))
  BY <1>0 DEF InUse, Pipes, Behind, FileOwn
<1>2. CASE state' = [state EXCEPT ![p] = "run"] /\ input' = input /\ Len(input[p]) >= Len(tmp)
  <2>1. \A q \in Cmds : state'[q] = IF q = p THEN "run" ELSE state[q]
    BY <1>0, <1>2
  <2>2. InUse' = InUse \ {p}
    BY <1>0, <2>1 DEF InUse
  <2>3. Behind'
    BY <1>0, <1>1, <1>2, <2>1 DEF Pipes, Behind
  <2>4. \A q : Own(q)' = Own(q)
    BY <1>0, <1>2 DEF Own
  <2>5. Known' /\ FileOwn'
    BY <1>0, <2>2, <2>4 DEF Pipes, Known, FileOwn
  <2>6. p \notin overlap => Len(input[p]) >= offset[p]
    <3>1. Len(tmp) \in Nat /\ Len(input[p]) \in Nat /\ offset[p] \in Nat
      BY ShellBounds DEF Types, TypeOK, PipeTypes, Blocks
    <3> QED BY <1>1, <1>2, <3>1 DEF Own
  <2>7. PipeOwnData'
    BY <1>0, <1>2, <2>1, <2>6 DEF Pipes, PipeOwnData
  <2> QED BY <2>3, <2>5, <2>7
<1>3. CASE /\ state' = state /\ Len(input[p]) + 1 \in 1..Len(tmp)
           /\ tmp[Len(input[p]) + 1] \in 0..MaxCmds
           /\ input' = [input EXCEPT ![p] = Append(input[p], tmp[Len(input[p]) + 1])]
  <2>1. PICK f \in Blocks, b \in 0..MaxCmds : f = input[p] /\ b = tmp[Len(f) + 1]
    BY <1>0, <1>3
  <2>2. \A q \in Cmds : input'[q] = IF q = p THEN Append(f, b) ELSE input[q]
    BY <1>0, <1>3, <2>1
  <2>3. InUse' = InUse
    BY <1>0, <1>3 DEF InUse
  <2>4. Behind' /\ Known'
    BY <1>0, <1>3, <2>2, <2>3 DEF Pipes, Behind, Known
  <2>5. Own(p) => Own(p)'
    <3> SUFFICES ASSUME Own(p) PROVE Own(p)'
      OBVIOUS
    <3>1. /\ Len(f) \in Nat /\ Len(Append(f, b)) = Len(f) + 1
          /\ DOMAIN f = 1..Len(f) /\ DOMAIN Append(f, b) = 1..(Len(f) + 1)
          /\ \A i \in 1..Len(f) : Append(f, b)[i] = f[i]
          /\ Append(f, b)[Len(f) + 1] = b
      BY AppendBlock
    <3>2. \A n \in Nat : 1..(n + 1) = 1..n \cup {n + 1}
      OBVIOUS
    <3>3. \A i \in 1..Len(f) : f[i] = tmp[i]
      BY <2>1, <3>1 DEF Own
    <3>4. \A i \in DOMAIN Append(f, b) : Append(f, b)[i] = tmp[i]
      BY <2>1, <3>1, <3>2, <3>3
    <3>5. Len(f) + 1 <= Len(tmp)
      <4>1. Len(tmp) \in Nat
        BY DEF Types, PipeTypes, Blocks
      <4> QED BY <1>3, <2>1, <3>1, <4>1
    <3>6. input'[p] = Append(f, b)
      BY <2>2
    <3> QED BY <1>0, <3>1, <3>4, <3>5, <3>6 DEF Own
  <2>6. \A q \in InUse : q # p => (Own(q) => Own(q)')
    BY <1>0, <2>2 DEF Own, InUse
  <2>7. FileOwn'
    BY <1>0, <2>3, <2>5, <2>6 DEF Pipes, FileOwn
  <2>8. p \notin overlap => \/ \A i \in DOMAIN input'[p] : input'[p][i] = p
                            \/ author = "liuting" /\ p \in stale
    <3>1. p \notin overlap => Own(p)'
      BY <1>1, <2>5
    <3>2. Types' /\ author' # "huqingwei" /\ writer'[p] = "gone"
      BY <1>0, <1>1
    <3>3. (Types => ReadsOwn)'
      BY OwnRead, PTL
    <3>4. ReadsOwn'
      BY <3>2, <3>3
    <3> QED BY <1>0, <3>1, <3>2, <3>4 DEF ReadsOwn
  <2>9. PipeOwnData'
    BY <1>0, <1>3, <2>2, <2>8 DEF Pipes, PipeOwnData
  <2> QED BY <2>4, <2>7, <2>9
<1> QED BY <1>2, <1>3, ReadBlocks

\* A second command that does not exist leaves the file, and wuxinyue removes
\* it, of which the others that use it are told.
LEMMA PipeFailPipes ==
  ASSUME Types, Pipes, author # "huqingwei", NEW p \in Cmds, PipeFail(p)
  PROVE  Behind' /\ Known' /\ FileOwn' /\ PipeOwnData'
<1>1. /\ UNCHANGED <<author, writer, offset, input, stale>>
      /\ state[p] = "pipe" /\ writer[p] \in {"gone", "missing"}
      /\ state' = [state EXCEPT ![p] = "zombie"]
      /\ state \in [Cmds -> {"none", "pipe", "forked", "read", "run", "zombie", "reaped"}]
      /\ \/ UNCHANGED <<tmp, overlap>>
         \/ overlap' = overlap \cup (InUse \ {p})
  BY DEF PipeFail, WriterGone, Types, TypeOK
<1>2. \A q \in Cmds : state'[q] = IF q = p THEN "zombie" ELSE state[q]
  BY <1>1
<1>3. InUse' = InUse \ {p}
  BY <1>1, <1>2 DEF InUse
<1>4. Behind'
  BY <1>1, <1>2 DEF Pipes, Behind
<1>5. overlap \subseteq overlap'
  BY <1>1
<1>6. Known'
  BY <1>1, <1>3, <1>5 DEF Pipes, Known
<1>7. PipeOwnData'
  BY <1>1, <1>2, <1>5 DEF Pipes, PipeOwnData
<1>8. FileOwn'
  <2>1. CASE UNCHANGED <<tmp, overlap>>
    <3>1. \A q : Own(q)' = Own(q)
      BY <1>1, <2>1 DEF Own
    <3> QED BY <1>1, <1>3, <2>1, <3>1 DEF Pipes, FileOwn
  <2>2. CASE overlap' = overlap \cup (InUse \ {p})
    <3>1. InUse' \ overlap' = {}
      BY <1>3, <2>2
    <3> QED BY <3>1 DEF FileOwn
  <2> QED BY <1>1, <2>1, <2>2
<1> QED BY <1>4, <1>6, <1>7, <1>8

LEMMA StepPipes == Types /\ Procs /\ Pipes /\ [Next]_vars => Pipes'
<1> SUFFICES ASSUME Types, Procs, Pipes, [Next]_vars PROVE Pipes'
  OBVIOUS
<1>0. OwnPipe' /\ author' = author
  BY StepOwnPipe, AuthorStays DEF Pipes
<1>1. CASE author = "huqingwei"
  <2>1. (author = "huqingwei" /\ OwnPipe => Pipes)'
    BY PipeOfTwo, PTL
  <2> QED BY <1>0, <1>1, <2>1
<1>2. CASE author # "huqingwei"
  <2> DEFINE Good == Behind' /\ Known' /\ FileOwn' /\ PipeOwnData'
  <2> SUFFICES Good
    BY <1>0 DEF Pipes
  <2>1. CASE Read \/ Exit \/ NoFork \/ UNCHANGED vars
    <3>1. UNCHANGED <<author, state, pipeVars>>
      BY <2>1 DEF Read, Exit, NoFork, vars, procVars, pipeVars
    <3>2. InUse' = InUse /\ Behind'
      BY <3>1 DEF InUse, pipeVars, Pipes, Behind
    <3> QED BY <3>1, <3>2, QuietPipes
  <2>2. CASE Fork
    BY <1>2, <2>2, ForkPipes
  <2>3. ASSUME NEW p \in Cmds, Wait(p) \/ Exec(p) \/ NotFound(p) \/ End(p) PROVE Good
    <3>1. /\ UNCHANGED <<author, pipeVars>> /\ state[p] \notin {"none", "pipe"}
          /\ \E s \in {"run", "zombie", "reaped"} :
               (s = "run" => state[p] = "forked") /\ state' = [state EXCEPT ![p] = s]
      BY <2>3 DEF Wait, Exec, NotFound, End
    <3> QED BY <1>2, <3>1, StatePipes
  <2>4. CASE Interrupt
    <3>1. Ending(StoppedWriters)
      BY <1>2, <2>4 DEF Interrupt, Ending, Stopped, StoppedWriters, Filling
    <3> QED BY <1>2, <3>1, EndingPipes
  <2>5. ASSUME NEW p \in Cmds, WriterEnd(p) PROVE Good
    <3>1. writer' = [q \in Cmds |-> IF q \in {p} THEN "gone" ELSE writer[q]]
      BY <2>5 DEF WriterEnd, Types, TypeOK
    <3>2. stale' = stale \cup {q \in {p} : Len(tmp) > offset[q]}
      BY <1>2, <2>5 DEF WriterEnd
    <3>3. Ending({p})
      BY <2>5, <3>1, <3>2 DEF WriterEnd, Ending, Filling, procVars
    <3> QED BY <1>2, <3>3, EndingPipes
  <2>6. ASSUME NEW p \in Cmds, PipeFork(p) PROVE Good
    BY <1>2, <2>6, PipeForkPipes
  <2>7. ASSUME NEW p \in Cmds, WriterExec(p) PROVE Good
    BY <1>2, <2>7, WriterExecPipes
  <2>8. ASSUME NEW p \in Cmds, Write(p) PROVE Good
    BY <1>2, <2>8, WritePipes
  <2>9. ASSUME NEW p \in Cmds, PipeRead(p) PROVE Good
    BY <1>2, <2>9, PipeReadPipes
  <2>10. ASSUME NEW p \in Cmds, PipeFail(p) PROVE Good
    BY <1>2, <2>10, PipeFailPipes
  <2>11. ASSUME NEW p \in Cmds, ReadBlock(p) PROVE Good
    BY <1>2, <2>11, ReadBlockPipes, StepTypes
  <2> HIDE DEF Good
  <2> QED BY <2>1, <2>2, <2>3, <2>4, <2>5, <2>6, <2>7, <2>8, <2>9, <2>10, <2>11
          DEF Next, Shell, Starting
<1> QED BY <1>1, <1>2

\* The second command of a pipe reads all that the first one wrote and nothing
\* else, unless the file of liuting or wuxinyue was in use by two pipes at once
\* or, at liuting, was longer than the output: for any number of pipes, in the
\* foreground or not, and any length of their output.
THEOREM OwnData == Spec => []PipeOwnData
<1>1. Pipes => PipeOwnData
  BY DEF Pipes
<1> QED BY <1>1, InitTypes, StepTypes, InitProcs, StepProcs, InitPipes, StepPipes, PTL DEF Spec
-----------------------------------------------------------------------------
(* What a line becomes                                                     *)

\* A set of numbers that is not empty has a least one.
LEMMA Smallest ==
  ASSUME NEW T \in SUBSET Nat, T # {}
  PROVE  \E n \in T : \A m \in T : n <= m
<1> DEFINE R == OpToRel(<, Nat)
<1>1. IsWellFoundedOn(R, Nat)
  BY NatLessThanWellFounded, Zenon
<1>2. R = {ss \in Nat \X Nat : ss[1] < ss[2]}
  BY DEF OpToRel
<1> HIDE DEF R
<1>3. PICK n \in T : \A m \in T : ~(<<m, n>> \in R)
  BY <1>1, WFMin
<1>4. ASSUME NEW m \in T PROVE n <= m
  <2>1. <<m, n>> \in Nat \X Nat /\ <<m, n>>[1] = m /\ <<m, n>>[2] = n
    OBVIOUS
  <2>2. ~(m < n)
    BY <1>2, <1>3, <2>1
  <2> QED BY <2>2
<1> QED BY <1>4

\* The search for a word ends at its first place, or behind the last word.
LEMMA FirstPlace ==
  ASSUME NEW S, NEW s \in Seq(S), NEW w
  PROVE  /\ First(s, w) \in 1..(Len(s) + 1)
         /\ First(s, w) <= Len(s) => s[First(s, w)] = w
         /\ \A j \in 1..(First(s, w) - 1) : s[j] # w
<1> DEFINE T == {i \in 1..(Len(s) + 1) : i <= Len(s) => s[i] = w}
<1>0. Len(s) \in Nat
  BY LenProperties
<1>1. T \in SUBSET Nat /\ Len(s) + 1 \in T
  BY <1>0
<1>2. PICK i \in T : \A m \in T : i <= m
  <2> HIDE DEF T
  <2> QED BY <1>1, Smallest
<1>3. ASSUME NEW j \in 1..(i - 1) PROVE s[j] # w
  <2>1. j \in 1..Len(s) /\ ~(i <= j)
    BY <1>0, <1>2
  <2> QED BY <1>0, <1>2, <2>1
<1>4. \E x \in 1..(Len(s) + 1) : /\ x <= Len(s) => s[x] = w
                                 /\ \A j \in 1..(x - 1) : s[j] # w
  BY <1>2, <1>3
<1> QED BY <1>4 DEF First

\* The words before the nth one, and those after it.
LEMMA TakeDrop ==
  ASSUME NEW S, NEW s \in Seq(S), NEW n \in 0..Len(s)
  PROVE  /\ Take(s, n) \in Seq(S) /\ Len(Take(s, n)) = n
         /\ \A i \in 1..n : Take(s, n)[i] = s[i]
         /\ Drop(s, n) \in Seq(S) /\ Len(Drop(s, n)) = Len(s) - n
         /\ \A i \in 1..(Len(s) - n) : Drop(s, n)[i] = s[n + i]
<1>0. Len(s) \in Nat /\ \A i \in 1..Len(s) : s[i] \in S
  BY LenProperties
<1>1. \A i \in 1..n : s[i] \in S
  BY <1>0
<1>2. \A i \in (n + 1)..Len(s) : s[i] \in S
  BY <1>0
<1>3. Take(s, n) \in Seq(S) /\ Len(Take(s, n)) = n /\ \A i \in 1..n : Take(s, n)[i] = s[i]
  BY <1>0, <1>1, SubSeqProperties DEF Take
<1>4. Drop(s, n) \in Seq(S) /\ Len(Drop(s, n)) = Len(s) - n
  BY <1>0, <1>2, SubSeqProperties DEF Drop
<1>5. \A i \in 1..(Len(s) - n) : Drop(s, n)[i] = s[n + i]
  BY <1>0, <1>2, SubSeqProperties DEF Drop
<1> QED BY <1>3, <1>4, <1>5
\* The words of a line without its blanks, word by word.
Blank(l, i) == l[i] = "_"

IsKept(w, l, n) ==
  w = [i \in 0..n |-> IF i = 0 THEN << >>
                      ELSE IF Blank(l, i) THEN w[i - 1] ELSE Append(w[i - 1], l[i])]

LEMMA KeptExists ==
  ASSUME NEW l, NEW n \in Nat
  PROVE  \E w : IsKept(w, l, n)
<1> DEFINE Bad == {m \in Nat : ~\E w : IsKept(w, l, m)}
<1> SUFFICES Bad = {}
  OBVIOUS
<1> SUFFICES ASSUME Bad # {} PROVE FALSE
  OBVIOUS
<1>0. Bad \in SUBSET Nat
  OBVIOUS
<1>1. PICK m \in Bad : \A k \in Bad : m <= k
  <2> HIDE DEF Bad
  <2> QED BY <1>0, Smallest
<1>2. CASE m = 0
  <2> DEFINE w == [i \in 0..0 |-> << >>]
  <2>1. IsKept(w, l, 0)
    BY DEF IsKept
  <2> QED BY <1>2, <2>1
<1>3. CASE m # 0
  <2>1. m - 1 \in Nat /\ m - 1 \notin Bad
    BY <1>1, <1>3
  <2>2. PICK h : IsKept(h, l, m - 1)
    BY <2>1
  <2> DEFINE w == [i \in 0..m |-> IF i < m THEN h[i] ELSE
                     IF Blank(l, m) THEN h[m - 1] ELSE Append(h[m - 1], l[m])]
  <2>3. h = [i \in 0..(m - 1) |-> IF i = 0 THEN << >>
               ELSE IF Blank(l, i) THEN h[i - 1] ELSE Append(h[i - 1], l[i])]
    BY <2>2 DEF IsKept
  <2>4. ASSUME NEW i \in 0..(m - 1)
        PROVE  w[i] = IF i = 0 THEN << >>
                      ELSE IF Blank(l, i) THEN w[i - 1] ELSE Append(w[i - 1], l[i])
    <3>1. w[i] = h[i] /\ (i # 0 => w[i - 1] = h[i - 1])
      BY <1>3, <2>1
    <3> HIDE DEF w
    <3>2. h[i] = IF i = 0 THEN << >>
                 ELSE IF Blank(l, i) THEN h[i - 1] ELSE Append(h[i - 1], l[i])
      BY <2>3
    <3> QED BY <3>1, <3>2
  <2>5. w[m] = IF Blank(l, m) THEN w[m - 1] ELSE Append(w[m - 1], l[m])
    BY <1>3, <2>1
  <2>6. w = [i \in 0..m |-> w[i]]
    OBVIOUS
  <2> HIDE DEF w
  <2>7. IsKept(w, l, m)
    <3>1. ASSUME NEW i \in 0..m
          PROVE  w[i] = IF i = 0 THEN << >>
                        ELSE IF Blank(l, i) THEN w[i - 1] ELSE Append(w[i - 1], l[i])
      BY <1>3, <2>1, <2>4, <2>5
    <3> QED BY <2>6, <3>1 DEF IsKept
  <2> QED BY <2>7
<1> QED BY <1>2, <1>3

LEMMA FieldsType ==
  ASSUME NEW S, NEW l \in Seq(S)
  PROVE  Fields(l) \in Seq(S)
<1> DEFINE n == Len(l)
           h == CHOOSE k : IsKept(k, l, n)
           Bad == {i \in 0..n : h[i] \notin Seq(S)}
<1>0. n \in Nat /\ \A i \in 1..n : l[i] \in S
  BY LenProperties, ElementOfSeq
<1>1. Fields(l) = h[n]
  BY Zenon DEF Fields, IsKept, Blank
<1>2. IsKept(h, l, n)
  BY <1>0, KeptExists, Zenon
<1> HIDE DEF h, n
<1>3. ASSUME NEW i \in 0..n
      PROVE  h[i] = IF i = 0 THEN << >>
                    ELSE IF Blank(l, i) THEN h[i - 1] ELSE Append(h[i - 1], l[i])
  BY <1>2, Zenon DEF IsKept
<1>4. ASSUME NEW i \in 1..n, h[i - 1] \in Seq(S) PROVE h[i] \in Seq(S)
  <2>1. i \in 0..n /\ i # 0
    BY <1>0
  <2>2. h[i] = IF Blank(l, i) THEN h[i - 1] ELSE Append(h[i - 1], l[i])
    BY <1>3, <2>1
  <2> QED BY <1>0, <1>4, <2>2, AppendProperties
<1>5. Bad = {}
  <2> SUFFICES ASSUME Bad # {} PROVE FALSE
    OBVIOUS
  <2>0. Bad \in SUBSET Nat
    BY <1>0
  <2>1. PICK m \in Bad : \A k \in Bad : m <= k
    <3> HIDE DEF Bad
    <3> QED BY <2>0, Smallest
  <2>2. m # 0
    <3>1. 0 \in 0..n
      BY <1>0
    <3>2. h[0] = << >>
      BY <1>3, <3>1, Zenon
    <3> QED BY <3>2, EmptySeq
  <2>3. m \in 1..n /\ m - 1 \in 0..n
    BY <1>0, <2>2
  <2>4. m - 1 \notin Bad
    <3>1. m \in Nat /\ ~(m <= m - 1)
      BY <2>3
    <3> HIDE DEF Bad
    <3> QED BY <2>1, <3>1
  <2> QED BY <1>4, <2>3, <2>4
<1> QED BY <1>0, <1>1, <1>5
Marks == Operators \cup {"&"}

\* An argument vector that execvp may get.
Plain(s) == \A w \in Marks : ~Has(s, w)

\* The places of a word.
At(a, w) == {i \in DOMAIN a : a[i] = w}

LEMMA AtCount ==
  ASSUME NEW S, NEW a \in Seq(S), NEW w
  PROVE  /\ Cardinality(At(a, w)) \in Nat
         /\ \A i \in At(a, w) : Cardinality(At(a, w)) >= 1
         /\ \A i, j \in At(a, w) : i # j => Cardinality(At(a, w)) >= 2
<1>1. DOMAIN a = 1..Len(a) /\ Len(a) \in Nat
  BY LenProperties
<1>2. At(a, w) \subseteq 1..Len(a) /\ IsFiniteSet(1..Len(a))
  BY <1>1, FS_Interval DEF At
<1>3. IsFiniteSet(At(a, w)) /\ Cardinality(At(a, w)) \in Nat
  BY <1>2, FS_Subset, FS_CardinalityType
<1>4. ASSUME NEW i \in At(a, w) PROVE Cardinality(At(a, w)) >= 1
  <2>1. IsFiniteSet({i}) /\ Cardinality({i}) = 1 /\ {i} \subseteq At(a, w)
    BY FS_Singleton
  <2>2. Cardinality({i}) <= Cardinality(At(a, w))
    BY <1>3, <2>1, FS_Subset
  <2>3. \A m, n \in Nat : m = 1 /\ m <= n => n >= 1
    OBVIOUS
  <2>4. Cardinality({i}) \in Nat
    BY <2>1, FS_CardinalityType
  <2> QED BY <1>3, <2>1, <2>2, <2>3, <2>4, Zenon
<1>5. ASSUME NEW i \in At(a, w), NEW j \in At(a, w), i # j PROVE Cardinality(At(a, w)) >= 2
  <2>1. IsFiniteSet({i}) /\ Cardinality({i}) = 1
    BY FS_Singleton
  <2>2. IsFiniteSet({i} \cup {j}) /\ Cardinality({i} \cup {j}) = Cardinality({i}) + 1
    BY <1>5, <2>1, FS_AddElement
  <2>3. {i} \cup {j} \subseteq At(a, w)
    OBVIOUS
  <2>4. Cardinality({i} \cup {j}) <= Cardinality(At(a, w))
    BY <1>3, <2>3, FS_Subset
  <2>5. \A k, m, n \in Nat : k = 1 /\ m = k + 1 /\ m <= n => n >= 2
    OBVIOUS
  <2>6. Cardinality({i}) \in Nat /\ Cardinality({i} \cup {j}) \in Nat
    BY <2>1, <2>2, FS_CardinalityType
  <2> QED BY <1>3, <2>1, <2>2, <2>4, <2>5, <2>6, Zenon
<1> QED BY <1>3, <1>4, <1>5

\* A vector without a wrong flag has at most one operator.
LEMMA AtMostOne ==
  ASSUME NEW S, NEW a \in Seq(S), NEW first, NEW final, ~WrongFlags(a, first, final),
         NEW i \in DOMAIN a, NEW j \in DOMAIN a, a[i] \in Operators, a[j] \in Operators
  PROVE  i = j
<1> SUFFICES ASSUME i # j PROVE FALSE
  OBVIOUS
<1> DEFINE N(w) == Cardinality(At(a, w))
           at(k, W) == IF a # << >> /\ a[k] \in W THEN 1 ELSE 0
<1>1. Flags(a, first, final) = N(">") + N(">>") + N("<") + N("|") + at(1, first) + at(Len(a), final)
  BY DEF Flags, At
<1>2. /\ N(">") \in Nat /\ N(">>") \in Nat /\ N("<") \in Nat /\ N("|") \in Nat
  BY AtCount
<1>3. at(1, first) \in {0, 1} /\ at(Len(a), final) \in {0, 1}
  OBVIOUS
<1>4. i \in At(a, a[i]) /\ j \in At(a, a[j])
  BY DEF At
<1>5. N(a[i]) >= 1 /\ N(a[j]) >= 1
  BY <1>4, AtCount
<1>6. a[i] = a[j] => N(a[i]) >= 2
  BY <1>4, AtCount
<1>7. ~(Flags(a, first, final) > 1)
  BY DEF WrongFlags
<1> HIDE DEF N, at
<1>8. PICK n1 \in Nat, n2 \in Nat, n3 \in Nat, n4 \in Nat :
        n1 = N(">") /\ n2 = N(">>") /\ n3 = N("<") /\ n4 = N("|")
  BY <1>2
<1>9. n1 + n2 + n3 + n4 <= 1
  <2>1. PICK x \in {0, 1}, y \in {0, 1} : x = at(1, first) /\ y = at(Len(a), final)
    BY <1>3
  <2>2. ~(n1 + n2 + n3 + n4 + x + y > 1)
    BY <1>1, <1>7, <1>8, <2>1
  <2> QED BY <2>2
<1>10. a[i] \in {">", ">>", "<", "|"} /\ a[j] \in {">", ">>", "<", "|"}
  BY DEF Operators
<1>11. CASE a[i] = a[j]
  <2>1. n1 >= 2 \/ n2 >= 2 \/ n3 >= 2 \/ n4 >= 2
    BY <1>6, <1>8, <1>10, <1>11, Zenon
  <2> QED BY <1>9, <2>1
<1>12. CASE a[i] # a[j]
  <2>1. /\ a[i] = ">" \/ a[j] = ">" => n1 >= 1
        /\ a[i] = ">>" \/ a[j] = ">>" => n2 >= 1
        /\ a[i] = "<" \/ a[j] = "<" => n3 >= 1
        /\ a[i] = "|" \/ a[j] = "|" => n4 >= 1
    BY <1>5, <1>8, Zenon
  <2> HIDE DEF N
  <2>2. n1 + n2 + n3 + n4 >= 2
    BY <1>10, <1>12, <2>1
  <2> QED BY <1>9, <2>2
<1> QED BY <1>11, <1>12
\* The vector before "&".
LEMMA BeforeAmp ==
  ASSUME NEW S, NEW s \in Seq(S)
  PROVE  \E m \in 0..Len(s) : /\ First(s, "&") = m + 1
                              /\ NoAmp(s) = Take(s, m)
                              /\ \A i \in 1..m : s[i] # "&"
                              /\ m < Len(s) => s[m + 1] = "&"
<1>1. /\ First(s, "&") \in 1..(Len(s) + 1)
      /\ First(s, "&") <= Len(s) => s[First(s, "&")] = "&"
      /\ \A j \in 1..(First(s, "&") - 1) : s[j] # "&"
  BY FirstPlace
<1>2. Len(s) \in Nat
  BY LenProperties
<1>3. PICK m \in 0..Len(s) : First(s, "&") = m + 1
  <2>1. PICK k \in 1..(Len(s) + 1) : k = First(s, "&")
    BY <1>1
  <2>2. k - 1 \in 0..Len(s) /\ k = (k - 1) + 1
    BY <1>2, <2>1
  <2> QED BY <2>1, <2>2
<1>4. (m + 1) - 1 = m /\ (m < Len(s) => m + 1 <= Len(s))
  BY <1>2
<1> QED BY <1>1, <1>3, <1>4 DEF NoAmp

LEMMA HasIn ==
  ASSUME NEW S, NEW s \in Seq(S), NEW w
  PROVE  Has(s, w) <=> \E i \in 1..Len(s) : s[i] = w
BY LenProperties DEF Has

LEMMA NoAmpType ==
  ASSUME NEW S, NEW s \in Seq(S)
  PROVE  NoAmp(s) \in Seq(S) /\ ~Has(NoAmp(s), "&")
<1>1. PICK m \in 0..Len(s) : NoAmp(s) = Take(s, m) /\ \A i \in 1..m : s[i] # "&"
  BY BeforeAmp
<1>2. Take(s, m) \in Seq(S) /\ Len(Take(s, m)) = m /\ \A i \in 1..m : Take(s, m)[i] = s[i]
  BY TakeDrop
<1> QED BY <1>1, <1>2, HasIn

\* A vector with at most one operator is cut into vectors without any.
LEMMA OneOperatorPlain ==
  ASSUME NEW S, NEW a \in Seq(S), ~Has(a, "&"), NEW first, NEW final,
         ~WrongFlags(a, first, final), NEW bg
  PROVE  /\ OneOperator(a, bg).how \notin {"no", "cd", "die"}
         /\ Plain(OneOperator(a, bg).arg)
         /\ Plain(OneOperator(a, bg).next)
<1> DEFINE used == {w \in Operators : Has(a, w)}
           w == CHOOSE v \in used : TRUE
<1>1. CASE used = {}
  <2>1. OneOperator(a, bg) = Plan("run", a, << >>, bg)
    BY <1>1 DEF OneOperator
  <2>2. Plain(a)
    BY <1>1 DEF Plain, Marks
  <2>3. Plain(<< >>)
    BY DEF Plain, Has
  <2> QED BY <2>1, <2>2, <2>3 DEF Plan
<1>2. CASE used # {}
  <2>1. OneOperator(a, bg) = Cut(a, w, bg) /\ w \in used
    BY <1>2 DEF OneOperator
  <2> HIDE DEF w
  <2>2. w \in Operators /\ Has(a, w)
    BY <2>1
  <2>3. /\ First(a, w) \in 1..(Len(a) + 1)
        /\ First(a, w) <= Len(a) => a[First(a, w)] = w
        /\ \A j \in 1..(First(a, w) - 1) : a[j] # w
    BY FirstPlace
  <2>4. Len(a) \in Nat /\ DOMAIN a = 1..Len(a)
    BY LenProperties
  <2>5. PICK k \in 1..Len(a) : k = First(a, w) /\ a[k] = w
    <3>1. PICK i \in 1..Len(a) : a[i] = w
      BY <2>2, HasIn
    <3>2. PICK k \in 1..(Len(a) + 1) : k = First(a, w)
      BY <2>3
    <3>3. \A j \in 1..(k - 1) : a[j] # w
      BY <2>3, <3>2
    <3>4. k <= Len(a)
      BY <2>4, <3>1, <3>2, <3>3
    <3> QED BY <2>3, <2>4, <3>2, <3>4
  <2>6. \A i \in 1..Len(a) : i # k => a[i] \notin Marks
    <3> SUFFICES ASSUME NEW i \in 1..Len(a), i # k PROVE a[i] \notin Marks
      OBVIOUS
    <3>1. a[i] # "&"
      BY HasIn
    <3>2. a[i] \notin Operators
      BY <2>2, <2>4, <2>5, AtMostOne
    <3> QED BY <3>1, <3>2 DEF Marks
  <2>7. k - 1 \in 0..Len(a) /\ k \in 0..Len(a)
    BY <2>4, <2>5
  <2>8. /\ Take(a, k - 1) \in Seq(S) /\ Len(Take(a, k - 1)) = k - 1
        /\ \A i \in 1..(k - 1) : Take(a, k - 1)[i] = a[i]
    BY <2>7, TakeDrop
  <2>9. /\ Drop(a, k) \in Seq(S) /\ Len(Drop(a, k)) = Len(a) - k
        /\ \A i \in 1..(Len(a) - k) : Drop(a, k)[i] = a[k + i]
    BY <2>7, TakeDrop
  <2>10. Plain(Take(a, k - 1))
    <3>1. \A i \in 1..(k - 1) : i \in 1..Len(a) /\ i # k
      BY <2>4, <2>5
    <3> QED BY <2>6, <2>8, <3>1, HasIn DEF Plain
  <2>11. Plain(Drop(a, k))
    <3>1. \A i \in 1..(Len(a) - k) : k + i \in 1..Len(a) /\ k + i # k
      BY <2>4, <2>5
    <3> QED BY <2>6, <2>9, <3>1, HasIn DEF Plain
  <2>12. Cut(a, w, bg) = Plan(w, Take(a, k - 1), Drop(a, k), bg)
    BY <2>5 DEF Cut
  <2> QED BY <2>1, <2>2, <2>10, <2>11, <2>12 DEF Plan, Operators
<1> QED BY <1>1, <1>2

\* What a plan of author a for a line with the words f may be.
SafePlan(a, f, p) ==
  /\ p.how \notin {"no", "cd", "die"} => Plain(p.arg) /\ (a # "liuting" => Plain(p.next))
  /\ p.how = "die" =>
       \/ a = "wuxinyue" /\ (f = << >> \/ f = <<"&">>)
       \/ a = "liuting" /\ \/ f = << >> \/ f[1] \in Marks
                           \/ f[1] = "cd" /\ (Len(f) = 1 \/ f[2] \in Marks)

LEMMA NoPlanSafe ==
  ASSUME NEW a, NEW f
  PROVE  SafePlan(a, f, Refuse) /\ SafePlan(a, f, ChangeDir)
BY DEF SafePlan, Refuse, ChangeDir, Plan

LEMMA PlanHuSafe ==
  ASSUME NEW S, NEW l \in Seq(S)
  PROVE  SafePlan("huqingwei", Fields(l), PlanHu(l))
<1> DEFINE p == OneOperator(NoAmp(l), Has(l, "&"))
<1>1. ASSUME ~WrongFlags(NoAmp(l), {"<", "|", ">>"}, {">", "|", ">>"})
      PROVE  SafePlan("huqingwei", Fields(l), p)
  <2>1. p.how \notin {"no", "cd", "die"} /\ Plain(p.arg) /\ Plain(p.next)
    BY <1>1, NoAmpType, OneOperatorPlain
  <2> HIDE DEF p
  <2> QED BY <2>1 DEF SafePlan
<1> HIDE DEF p
<1>2. PlanHu(l) \in {Refuse, ChangeDir}
        \/ (PlanHu(l) = p /\ ~WrongFlags(NoAmp(l), {"<", "|", ">>"}, {">", "|", ">>"}))
  BY DEF PlanHu, p
<1> QED BY <1>1, <1>2, NoPlanSafe

LEMMA PlanWuSafe ==
  ASSUME NEW S, NEW l \in Seq(S)
  PROVE  SafePlan("wuxinyue", Fields(l), PlanWu(l))
<1> DEFINE f == Fields(l)
           p == OneOperator(NoAmp(f), Has(f, "&"))
<1>0. f \in Seq(S)
  BY FieldsType
<1> HIDE DEF f
<1>1. ASSUME ~WrongFlags(NoAmp(f), {"<", "|"}, {">", "|", ">>"})
      PROVE  SafePlan("wuxinyue", f, p)
  <2>1. p.how \notin {"no", "cd", "die"} /\ Plain(p.arg) /\ Plain(p.next)
    BY <1>0, <1>1, NoAmpType, OneOperatorPlain
  <2> HIDE DEF p
  <2> QED BY <2>1 DEF SafePlan
<1>2. ASSUME ~EarlyAmp(f), NoAmp(f) = << >> PROVE SafePlan("wuxinyue", f, Die)
  <2>1. PICK m \in 0..Len(f) : /\ First(f, "&") = m + 1 /\ NoAmp(f) = Take(f, m)
                               /\ m < Len(f) => f[m + 1] = "&"
    BY <1>0, BeforeAmp
  <2>2. Len(f) \in Nat /\ Len(Take(f, m)) = m
    BY <1>0, TakeDrop, LenProperties
  <2>3. m = 0
    BY <1>2, <2>1, <2>2
  <2>4. ~(1 < Len(f)) /\ (0 < Len(f) => f[1] = "&")
    BY <1>2, <2>1, <2>3 DEF EarlyAmp
  <2>5. CASE Len(f) = 0
    BY <1>0, <2>5, EmptySeq DEF SafePlan, Die, Plan
  <2>6. CASE Len(f) = 1
    <3>1. f[1] = "&"
      BY <2>4, <2>6
    <3>2. f = <<"&">>
      BY <1>0, <2>6, <3>1
    <3> QED BY <3>2 DEF SafePlan, Die, Plan
  <2>7. Len(f) = 0 \/ Len(f) = 1
    <3>1. \A n \in Nat : ~(1 < n) => n = 0 \/ n = 1
      OBVIOUS
    <3> QED BY <2>2, <2>4, <3>1, Zenon
  <2> QED BY <2>5, <2>6, <2>7
<1> HIDE DEF p
<1>3. \/ PlanWu(l) \in {Refuse, ChangeDir}
      \/ PlanWu(l) = Die /\ ~EarlyAmp(f) /\ NoAmp(f) = << >>
      \/ PlanWu(l) = p /\ ~WrongFlags(NoAmp(f), {"<", "|"}, {">", "|", ">>"})
  BY DEF PlanWu, p, f
<1>4. SafePlan("wuxinyue", f, PlanWu(l))
  BY <1>1, <1>2, <1>3, NoPlanSafe
<1> QED BY <1>4 DEF f
\* What the loops of liuting have made of the words f when they have looked for
\* the operators W: a refusal, or the words up to a mark.
CutOff(p, f, W) ==
  \/ p.how = "no"
  \/ /\ p.how \in {"run"} \cup Operators
     /\ \E m \in 0..Len(f) : /\ p.arg = Take(f, m)
                             /\ m < Len(f) => f[m + 1] \in Marks
                             /\ \A i \in 1..m : f[i] \notin W

LEMMA CutStep ==
  ASSUME NEW S, NEW f \in Seq(S), NEW p, NEW W, NEW w \in Operators, CutOff(p, f, W)
  PROVE  CutOff(CutAt(p, w), f, W \cup {w})
<1>1. CASE p.how = "no"
  BY <1>1 DEF CutAt, CutOff
<1>2. CASE p.how # "no"
  <2>1. PICK m \in 0..Len(f) : /\ p.arg = Take(f, m)
                               /\ m < Len(f) => f[m + 1] \in Marks
                               /\ \A i \in 1..m : f[i] \notin W
    BY <1>2 DEF CutOff
  <2>2. /\ p.arg \in Seq(S) /\ Len(p.arg) = m /\ \A i \in 1..m : p.arg[i] = f[i]
    <3>1. /\ Take(f, m) \in Seq(S) /\ Len(Take(f, m)) = m
          /\ \A i \in 1..m : Take(f, m)[i] = f[i]
      BY TakeDrop
    <3> QED BY <2>1, <3>1, Zenon
  <2>3. Len(f) \in Nat /\ m \in Nat
    BY LenProperties
  <2>4. CASE ~Has(p.arg, w)
    <3>1. \A i \in 1..m : f[i] # w
      BY <2>2, <2>4, HasIn
    <3>2. CutAt(p, w) = p
      BY <2>4 DEF CutAt
    <3>3. \A i \in 1..m : f[i] \notin W \cup {w}
      BY <2>1, <3>1
    <3> QED BY <1>2, <2>1, <3>2, <3>3 DEF CutOff
  <2>5. CASE Has(p.arg, w)
    <3>1. /\ First(p.arg, w) \in 1..(m + 1)
          /\ First(p.arg, w) <= m => p.arg[First(p.arg, w)] = w
          /\ \A j \in 1..(First(p.arg, w) - 1) : p.arg[j] # w
      BY <2>2, FirstPlace
    <3>2. PICK k \in 1..(m + 1) : k = First(p.arg, w)
      BY <3>1
    <3>3. PICK i \in 1..m : p.arg[i] = w
      BY <2>2, <2>5, HasIn
    <3>4. k \in 1..m /\ f[k] = w /\ \A j \in 1..(k - 1) : p.arg[j] # w
      <4>1. \A j \in 1..(k - 1) : p.arg[j] # w
        BY <3>1, <3>2
      <4>2. k <= m
        BY <2>3, <3>2, <3>3, <4>1
      <4> QED BY <2>2, <2>3, <3>1, <3>2, <4>1, <4>2
    <3>5. CASE k = m
      <4>1. CutAt(p, w) = Refuse
        BY <1>2, <2>2, <2>5, <3>2, <3>5 DEF CutAt
      <4> QED BY <4>1 DEF CutOff, Refuse, Plan
    <3>6. CASE k # m
      <4>1. CutAt(p, w) = Plan(w, Take(p.arg, k - 1), Drop(p.arg, k), p.background)
        <5>1. First(p.arg, w) = k /\ Len(p.arg) # k
          BY <2>2, <3>2, <3>6
        <5>2. CutAt(p, w) = Cut(p.arg, w, p.background)
          BY <1>2, <2>5, <5>1, Zenon DEF CutAt
        <5> QED BY <5>1, <5>2, Zenon DEF Cut
      <4>2. k - 1 \in 0..Len(f) /\ k - 1 \in 0..m
        BY <2>3, <3>4
      <4>3. Take(p.arg, k - 1) = Take(f, k - 1)
        <5>1. /\ Take(p.arg, k - 1) \in Seq(S) /\ Len(Take(p.arg, k - 1)) = k - 1
              /\ \A j \in 1..(k - 1) : Take(p.arg, k - 1)[j] = p.arg[j]
          BY <2>2, <4>2, TakeDrop
        <5>2. /\ Take(f, k - 1) \in Seq(S) /\ Len(Take(f, k - 1)) = k - 1
              /\ \A j \in 1..(k - 1) : Take(f, k - 1)[j] = f[j]
          BY <4>2, TakeDrop
        <5>3. \A j \in 1..(k - 1) : p.arg[j] = f[j]
          BY <2>2, <2>3, <3>4
        <5>4. \A j \in 1..(k - 1) : Take(p.arg, k - 1)[j] = Take(f, k - 1)[j]
          BY <5>1, <5>2, <5>3
        <5> QED BY <5>1, <5>2, <5>4, SeqEqual
      <4>4. f[(k - 1) + 1] \in Marks
        <5>1. (k - 1) + 1 = k
          BY <3>4
        <5> QED BY <3>4, <5>1 DEF Marks
      <4>5. \A j \in 1..(k - 1) : f[j] \notin W \cup {w}
        <5>1. \A j \in 1..(k - 1) : j \in 1..m
          BY <2>3, <3>4
        <5> QED BY <2>1, <2>2, <3>4, <5>1
      <4>6. CutAt(p, w).how = w /\ CutAt(p, w).arg = Take(f, k - 1)
        BY <4>1, <4>3 DEF Plan
      <4> QED BY <4>2, <4>4, <4>5, <4>6 DEF CutOff
    <3> QED BY <3>5, <3>6
  <2> QED BY <2>4, <2>5
<1> QED BY <1>1, <1>2

LEMMA PlanLtSafe ==
  ASSUME NEW S, NEW l \in Seq(S)
  PROVE  SafePlan("liuting", Fields(l), PlanLt(l))
<1> DEFINE f == Fields(l)
           p0 == Plan("run", NoAmp(f), << >>, Has(f, "&"))
           p1 == CutAt(p0, ">")
           p2 == CutAt(p1, ">>")
           p3 == CutAt(p2, "<")
           p == CutAt(p3, "|")
<1>0. f \in Seq(S)
  BY FieldsType
<1>1. \/ PlanLt(l) \in {Refuse, ChangeDir}
      \/ PlanLt(l) = Die /\ p.how # "no" /\ p.arg = << >>
      \/ PlanLt(l) = p /\ p.how # "no" /\ p.arg # << >> /\ p.arg[1] # "cd"
      \/ PlanLt(l) = Die /\ p.how # "no" /\ p.arg # << >> /\ p.arg[1] = "cd" /\ Len(p.arg) = 1
  BY DEF PlanLt
<1> HIDE DEF f
<1>2. CutOff(p0, f, {"&"})
  <2>1. PICK m \in 0..Len(f) : /\ NoAmp(f) = Take(f, m)
                               /\ \A i \in 1..m : f[i] # "&"
                               /\ m < Len(f) => f[m + 1] = "&"
    BY <1>0, BeforeAmp
  <2> QED BY <2>1 DEF CutOff, Plan, Marks
<1> HIDE DEF p0
<1>3. CutOff(p1, f, {"&"} \cup {">"})
  BY <1>0, <1>2, CutStep DEF Operators
<1> HIDE DEF p1
<1>4. CutOff(p2, f, ({"&"} \cup {">"}) \cup {">>"})
  BY <1>0, <1>3, CutStep DEF Operators
<1> HIDE DEF p2
<1>5. CutOff(p3, f, (({"&"} \cup {">"}) \cup {">>"}) \cup {"<"})
  BY <1>0, <1>4, CutStep DEF Operators
<1> HIDE DEF p3
<1>6. CutOff(p, f, ((({"&"} \cup {">"}) \cup {">>"}) \cup {"<"}) \cup {"|"})
  BY <1>0, <1>5, CutStep DEF Operators
<1> HIDE DEF p
<1>7. Marks = ((({"&"} \cup {">"}) \cup {">>"}) \cup {"<"}) \cup {"|"}
  BY DEF Marks, Operators
<1>8. SafePlan("liuting", f, PlanLt(l))
  <2>1. CASE PlanLt(l) \in {Refuse, ChangeDir}
    BY <2>1, NoPlanSafe
  <2>2. CASE p.how # "no" /\ PlanLt(l) \in {Die, p}
    <3>1. PICK m \in 0..Len(f) : /\ p.arg = Take(f, m)
                                 /\ m < Len(f) => f[m + 1] \in Marks
                                 /\ \A i \in 1..m : f[i] \notin Marks
      BY <1>6, <1>7, <2>2 DEF CutOff
    <3>2. p.how \in {"run"} \cup Operators
      BY <1>6, <2>2 DEF CutOff
    <3>3. p.arg \in Seq(S) /\ Len(p.arg) = m /\ \A i \in 1..m : p.arg[i] = f[i]
      <4>1. /\ Take(f, m) \in Seq(S) /\ Len(Take(f, m)) = m
            /\ \A i \in 1..m : Take(f, m)[i] = f[i]
        BY <1>0, TakeDrop
      <4> QED BY <3>1, <4>1, Zenon
    <3>4. Len(f) \in Nat
      BY <1>0, LenProperties
    <3>5. CASE PlanLt(l) = p
      <4>1. Plain(p.arg)
        BY <3>1, <3>3, HasIn DEF Plain
      <4> QED BY <3>2, <3>5, <4>1 DEF SafePlan, Operators
    <3>6. CASE PlanLt(l) = Die /\ p.arg = << >>
      <4>1. m = 0
        BY <3>3, <3>6
      <4>2. f = << >> \/ f[1] \in Marks
        BY <1>0, <3>1, <3>4, <4>1, EmptySeq
      <4> QED BY <3>6, <4>2 DEF SafePlan, Die, Plan
    <3>7. CASE PlanLt(l) = Die /\ p.arg[1] = "cd" /\ Len(p.arg) = 1
      <4>1. m = 1 /\ f[1] = "cd"
        BY <3>3, <3>7
      <4>2. Len(f) = 1 \/ f[2] \in Marks
        <5>1. \A n \in Nat : 1 \in 0..n => n = 1 \/ 1 < n
          OBVIOUS
        <5>2. Len(f) = 1 \/ 1 < Len(f)
          BY <3>4, <4>1, <5>1, Zenon
        <5> QED BY <3>1, <4>1, <5>2
      <4> QED BY <3>7, <4>1, <4>2 DEF SafePlan, Die, Plan
    <3> QED BY <1>1, <2>2, <3>5, <3>6, <3>7 DEF Die, Refuse, ChangeDir, Plan
  <2> QED BY <1>1, <2>1, <2>2
<1> QED BY <1>8 DEF f
\* The plan is the one for the line, until the shell is back at its prompt.
Planned == plan \in {Refuse, do_cmd(author, line)}

LEMMA DoCmdSafe ==
  ASSUME NEW a \in Authors, NEW l \in Lines
  PROVE  SafePlan(a, Fields(l), do_cmd(a, l))
<1> DEFINE S == Words
<1>1. l \in Seq(S)
  BY SeqDef DEF Lines
<1> HIDE DEF S
<1>2. CASE l = << >>
  BY <1>2, NoPlanSafe DEF do_cmd
<1>3. CASE l # << >>
  <2>1. CASE a = "huqingwei"
    <3>1. do_cmd(a, l) = PlanHu(l)
      BY <1>3, <2>1 DEF do_cmd
    <3> QED BY <1>1, <2>1, <3>1, PlanHuSafe
  <2>2. CASE a = "liuting"
    <3>1. do_cmd(a, l) = PlanLt(l)
      BY <1>3, <2>2 DEF do_cmd
    <3> QED BY <1>1, <2>2, <3>1, PlanLtSafe
  <2>3. CASE a = "wuxinyue"
    <3>1. do_cmd(a, l) = PlanWu(l)
      BY <1>3, <2>3 DEF do_cmd
    <3> QED BY <1>1, <2>3, <3>1, PlanWuSafe
  <2> QED BY <2>1, <2>2, <2>3 DEF Authors
<1> QED BY <1>2, <1>3

LEMMA StepPlanned == Planned /\ [Next]_vars => Planned'
BY DEF Planned, Next, Shell, Starting, Read, Exit, NoFork, Fork, Wait, Exec, NotFound, End, PipeFork,
       WriterExec, Write, WriterEnd, PipeRead, ReadBlock, PipeFail, Interrupt, vars

\* What do_cmd makes of a line of any length: no vector that execvp gets has an
\* operator or "&" in it (but the second one of liuting), and the shell itself
\* ends only for a line that lacks a word where do_cmd takes one for granted.
THEOREM PlansRight == Spec => []PlansSafe
<1>1. Init => Planned
  BY DEF Init, Planned
<1>2. Types /\ Planned => PlansSafe
  <2> SUFFICES ASSUME Types, Planned PROVE PlansSafe
    OBVIOUS
  <2>1. author \in Authors /\ line \in Lines
    BY DEF Types, TypeOK
  <2>2. SafePlan(author, Fields(line), plan)
    BY <2>1, DoCmdSafe, NoPlanSafe DEF Planned
  <2> QED BY <2>2 DEF SafePlan, PlansSafe, DiesOnlyWithoutWord, Plain, Marks
<1> QED BY <1>1, <1>2, InitTypes, StepTypes, StepPlanned, PTL DEF Spec
=============================================================================
