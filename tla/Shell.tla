-------------------------------- MODULE Shell --------------------------------
(***************************************************************************)
(* The processes of the three shells: the loop of main and do_cmd from     *)
(* fork on.  A behaviour is one shell, whose author is chosen in Init.     *)
(*                                                                         *)
(* Commands are numbered in the order of their fork.  A pipe is a pipe     *)
(* between two processes at huqingwei, and a file that the first process   *)
(* leaves and the second one then reads, block by block, at the others:    *)
(* /tmp/noknow, which liuting does not truncate, and /tmp/transfer, which  *)
(* wuxinyue does.  Another pipe may write to it meanwhile.                 *)
(***************************************************************************)
EXTENDS ShellParse

CONSTANTS MaxWords,   \* bound: words in a line
          MaxCmds,    \* bound: commands started
          MaxOut      \* bound: blocks that the first command of a pipe writes

ASSUME ShellBounds == MaxWords \in Nat /\ MaxCmds \in Nat /\ MaxOut \in Nat

Cmds == 1..MaxCmds
Lines == UNION {[1..n -> Words] : n \in 0..MaxWords}

VARIABLES author,
          sh,         \* where the shell is
          line, plan, \* the line it has read, and what it makes of it
          last,       \* the last command started
          state,      \* the state of a command: its process is a child of the shell
          background, \* whether it was started with "&"
          writer,     \* the first process of its pipe
          offset,     \* how much that has written
          tmp,        \* the file of the pipes: who wrote each block
          input,      \* what the second process has read
          overlap,    \* history: pipes that have used the file at the same time
          stale       \* history: pipes whose file was longer than their output

procVars == <<last, state, background>>
pipeVars == <<writer, offset, tmp, input, overlap, stale>>
vars == <<author, sh, line, plan, procVars, pipeVars>>

-----------------------------------------------------------------------------
(* The shell                                                               *)

Read ==
  /\ sh = "prompt" /\ last < MaxCmds
  /\ line' \in Lines
  /\ plan' = do_cmd(author, line')
  /\ sh' = "do"
  /\ UNCHANGED <<author, procVars, pipeVars>>

\* exit, logout
Exit == /\ sh = "prompt" /\ sh' = "exit"
        /\ UNCHANGED <<author, line, plan, procVars, pipeVars>>

\* Nothing to fork for: a refusal, `cd', or a NULL where a word was expected.
NoFork ==
  /\ sh = "do" /\ plan.how \in {"no", "cd", "die"}
  /\ sh' = IF plan.how = "die" THEN "dead" ELSE "prompt"
  /\ line' = << >> /\ plan' = Refuse
  /\ UNCHANGED <<author, procVars, pipeVars>>

Fork ==
  LET p == last + 1 IN
  /\ sh = "do" /\ plan.how \notin {"no", "cd", "die"}
  /\ last' = p
  /\ state' = [state EXCEPT ![p] = IF plan.how = "|" THEN "pipe" ELSE "forked"]
  /\ background' = [background EXCEPT ![p] = plan.background]
  /\ sh' = IF plan.background THEN "prompt" ELSE "wait"
  /\ line' = << >> /\ plan' = Refuse
  /\ UNCHANGED <<author, pipeVars>>

\* (fault: every shell waits for whoever ends first)
ReapsAny(p) == TRUE

\* wait takes any child that has ended, waitpid the one that was started.
Reaps(p) == author = "huqingwei" \/ p = last

Wait(p) ==
  /\ sh = "wait" /\ state[p] = "zombie" /\ Reaps(p)
  /\ state' = [state EXCEPT ![p] = "reaped"]
  /\ sh' = "prompt"
  /\ UNCHANGED <<author, line, plan, last, background, pipeVars>>

-----------------------------------------------------------------------------
(* The commands                                                            *)

\* execvp, with the files of a redirection in place.
Exec(p) == /\ state[p] = "forked"
           /\ state' = [state EXCEPT ![p] = "run"]
           /\ UNCHANGED <<author, sh, line, plan, last, background, pipeVars>>

\* find_command: no directory has it.
NotFound(p) == /\ state[p] = "forked"
               /\ state' = [state EXCEPT ![p] = "zombie"]
               /\ UNCHANGED <<author, sh, line, plan, last, background, pipeVars>>

\* A command may end before it has read all of its input.
End(p) == /\ state[p] \in {"run", "read"}
          /\ state' = [state EXCEPT ![p] = "zombie"]
          /\ UNCHANGED <<author, sh, line, plan, last, background, pipeVars>>

\* The second fork; the other one execs at once, or waits for the writer.
PipeFork(p) ==
  /\ state[p] = "pipe" /\ writer[p] = "none"
  /\ writer' = [writer EXCEPT ![p] = "forked"]
  /\ state' = [state EXCEPT ![p] = IF author = "huqingwei" THEN "forked" ELSE "pipe"]
  /\ UNCHANGED <<author, sh, line, plan, last, background, offset, tmp, input, overlap, stale>>

\* The pipes that are being filled, and those that use the file: from the first
\* command's open to the end of the file in the second one.
Filling == {q \in Cmds : writer[q] = "run"}
InUse == {q \in Cmds : state[q] = "read" \/ (state[q] = "pipe" /\ writer[q] \in {"run", "gone"})}

\* The flags of open.
Opened == IF author = "wuxinyue" THEN << >> ELSE tmp

\* The writer opens the file, or takes its end of the pipe, and execs; liuting
\* does so with a command that is not found too.
WriterExec(p) ==
  /\ writer[p] = "forked"
  /\ \/ writer' = [writer EXCEPT ![p] = "run"]
     \/ author # "liuting" /\ writer' = [writer EXCEPT ![p] = "missing"]
  /\ IF author # "huqingwei" /\ writer'[p] = "run"
       THEN /\ tmp' = Opened
            /\ overlap' = overlap \cup (IF InUse # {} THEN InUse \cup {p} ELSE {})
       ELSE UNCHANGED <<tmp, overlap>>
  /\ UNCHANGED <<author, sh, line, plan, procVars, offset, input, stale>>

\* Block k of the file is written; what lies between was never written.
Put(f, k, p) == [i \in 1..(IF k > Len(f) THEN k ELSE Len(f)) |->
                   IF i = k THEN p ELSE IF i \in DOMAIN f THEN f[i] ELSE 0]

Write(p) ==
  /\ writer[p] = "run" /\ offset[p] < MaxOut
  /\ author = "huqingwei" => state[p] \in {"forked", "run"}
  /\ offset' = [offset EXCEPT ![p] = @ + 1]
  /\ IF author = "huqingwei" THEN input' = [input EXCEPT ![p] = Append(@, p)] /\ tmp' = tmp
                             ELSE tmp' = Put(tmp, offset'[p], p) /\ input' = input
  /\ UNCHANGED <<author, sh, line, plan, procVars, writer, overlap, stale>>

\* The writer ends; at huqingwei SIGPIPE sees to that when nobody reads.
WriterEnd(p) ==
  /\ writer[p] = "run"
  /\ writer' = [writer EXCEPT ![p] = "gone"]
  /\ stale' = IF author # "huqingwei" /\ Len(tmp) > offset[p] THEN stale \cup {p} ELSE stale
  /\ UNCHANGED <<author, sh, line, plan, procVars, offset, tmp, input, overlap>>

\* (fault: the file is read while it is being filled)
ReadAtOnce(p) == writer[p] # "none"

\* waitpid(pid2)
WriterGone(p) == writer[p] \in {"gone", "missing"}

\* The second process opens the file and execs.  wuxinyue asks once more for
\* the first command, and leaves when that was not found.
PipeRead(p) ==
  /\ state[p] = "pipe" /\ WriterGone(p) /\ writer[p] # "missing"
  /\ state' = [state EXCEPT ![p] = "read"]
  /\ UNCHANGED <<author, sh, line, plan, last, background, pipeVars>>

\* The command reads the next block, or finds the end of the file as it is now.
ReadBlock(p) ==
  LET k == Len(input[p]) + 1 IN
  /\ state[p] = "read"
  /\ \/ k <= Len(tmp) /\ input' = [input EXCEPT ![p] = Append(@, tmp[k])] /\ state' = state
     \/ k > Len(tmp) /\ state' = [state EXCEPT ![p] = "run"] /\ input' = input
  /\ UNCHANGED <<author, sh, line, plan, last, background, writer, offset, tmp, overlap, stale>>

\* One of the commands is not found.  wuxinyue removes the file when it is the
\* second one; liuting removes another file.
PipeFail(p) ==
  /\ state[p] = "pipe" /\ WriterGone(p)
  /\ state' = [state EXCEPT ![p] = "zombie"]
  /\ IF author = "wuxinyue" /\ writer[p] # "missing"
       THEN tmp' = << >> /\ overlap' = overlap \cup (InUse \ {p})
       ELSE UNCHANGED <<tmp, overlap>>
  /\ UNCHANGED <<author, sh, line, plan, last, background, writer, offset, input, stale>>

\* (fault: ^C is ignored by the commands as well)
NobodyStopped == {}

\* The processes that SIGINT ends: a handler is reset by exec, SIG_IGN is not.
Stopped == IF author = "wuxinyue" THEN {} ELSE {p \in Cmds : state[p] \in {"run", "read"}}
StoppedWriters == IF author = "wuxinyue" THEN {} ELSE Filling

\* ^C while the shell waits: every process of the terminal gets it, those in
\* the background too.  What was forked and has not reached exec goes on.
Interrupt ==
  /\ sh = "wait" /\ (Stopped # {} \/ StoppedWriters # {})
  /\ state' = [p \in Cmds |-> IF p \in Stopped THEN "zombie" ELSE state[p]]
  /\ writer' = [p \in Cmds |-> IF p \in StoppedWriters THEN "gone" ELSE writer[p]]
  /\ stale' = stale \cup {p \in StoppedWriters : author # "huqingwei" /\ Len(tmp) > offset[p]}
  /\ UNCHANGED <<author, sh, line, plan, last, background, offset, tmp, input, overlap>>

-----------------------------------------------------------------------------
Init == /\ author \in Authors
        /\ sh = "prompt" /\ line = << >> /\ plan = Refuse
        /\ last = 0
        /\ state = [p \in Cmds |-> "none"]
        /\ background = [p \in Cmds |-> FALSE]
        /\ writer = [p \in Cmds |-> "none"] /\ offset = [p \in Cmds |-> 0]
        /\ tmp = << >> /\ input = [p \in Cmds |-> << >>]
        /\ overlap = {} /\ stale = {}

Shell == Read \/ Exit \/ NoFork \/ Fork \/ \E p \in Cmds : Wait(p)
Starting(p) == Exec(p) \/ NotFound(p) \/ PipeFork(p) \/ WriterExec(p) \/ PipeRead(p) \/ PipeFail(p)

Next == \/ Shell \/ Interrupt
        \/ \E p \in Cmds : Starting(p) \/ Write(p) \/ WriterEnd(p) \/ ReadBlock(p) \/ End(p)

Spec == Init /\ [][Next]_vars

\* A shell that has read a line goes on, and what was forked gets to its exec.
\* A command need not end by itself, but the user, who has no prompt, presses
\* ^C again and again.
FairSpec == /\ Spec
            /\ WF_vars(NoFork) /\ WF_vars(Fork) /\ WF_vars(\E p \in Cmds : Wait(p))
            /\ \A p \in Cmds : WF_vars(Starting(p))
            /\ WF_vars(Interrupt)

-----------------------------------------------------------------------------
(* Properties                                                              *)

TypeOK ==
  /\ author \in Authors /\ sh \in {"prompt", "do", "wait", "exit", "dead"}
  /\ line \in Lines /\ last \in 0..MaxCmds
  /\ state \in [Cmds -> {"none", "pipe", "forked", "read", "run", "zombie", "reaped"}]
  /\ background \in [Cmds -> BOOLEAN]
  /\ writer \in [Cmds -> {"none", "forked", "run", "gone", "missing"}] /\ offset \in [Cmds -> 0..MaxOut]
  /\ Len(tmp) <= MaxOut /\ overlap \subseteq Cmds /\ stale \subseteq Cmds
  /\ plan.background \in BOOLEAN

\* A line ends the shell itself only when it has no first word (wuxinyue), and
\* at liuting also when an operator comes first, or anything but a word after
\* `cd'; never at huqingwei.
DiesOnlyWithoutWord ==
  plan.how = "die" =>
    LET f == Fields(line) IN
    \/ author = "wuxinyue" /\ (f = << >> \/ f = <<"&">>)
    \/ author = "liuting" /\ \/ f = << >> \/ f[1] \in Operators \cup {"&"}
                             \/ f[1] = "cd" /\ (Len(f) = 1 \/ f[2] \in Operators \cup {"&"})

\* What execvp gets has no operator in it and no "&", and huqingwei and wuxinyue
\* start nothing for a line with two operators, as their comments say (the second
\* command of liuting may have one); and a line ends the shell itself only when
\* do_cmd finds no word where it takes one for granted.
PlansSafe ==
  /\ sh = "do" /\ plan.how \notin {"no", "cd", "die"} =>
       /\ \A w \in Operators \cup {"&"} : ~Has(plan.arg, w)
       /\ author # "liuting" => \A w \in Operators \cup {"&"} : ~Has(plan.next, w)
  /\ DiesOnlyWithoutWord

Started(b) == {p \in 1..last : background[p] = b}
Unreaped(b) == {p \in Started(b) : state[p] # "reaped"}

\* When the prompt is back, liuting and wuxinyue have waited for exactly the
\* commands in the foreground; at huqingwei a command that is still running has
\* been passed over for one of the background.
ForegroundWaitedFor ==
  sh = "prompt" =>
    /\ Cardinality(Unreaped(FALSE)) = Cardinality(Started(TRUE) \ Unreaped(TRUE))
    /\ author # "huqingwei" => Unreaped(FALSE) = {}

\* The second command of a pipe reads the output of the first and nothing else,
\* and all of it when it has read to the end.  Through a file this needs that no
\* other pipe opens or removes the file between the first command's open and the
\* last read of the second, and, at liuting, that no longer output of an earlier
\* pipe lies there.
PipeOwnData ==
  \A p \in Cmds :
    \/ author # "huqingwei" /\ p \in overlap
    \/ /\ \/ \A i \in DOMAIN input[p] : input[p][i] = p
          \/ author = "liuting" /\ p \in stale
       /\ author # "huqingwei" /\ state[p] = "run" /\ writer[p] = "gone" => Len(input[p]) >= offset[p]

\* ^C gets the prompt back, except at wuxinyue, whose commands inherit SIG_IGN;
\* a ^C that comes between fork and exec is lost, the next one is not.
PromptReturns == author # "wuxinyue" => [](sh = "wait" => <>(sh = "prompt"))
=============================================================================
