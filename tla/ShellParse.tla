----------------------------- MODULE ShellParse -----------------------------
(***************************************************************************)
(* What the three shells of the team make of a command line:               *)
(*   huqingwei  Code/huqingwei/study_jincheng/my_shell.c                   *)
(*   liuting    Code/liuting1/my_shell.c                                   *)
(*   wuxinyue   Code/wuxinyue/my_shell.c                                   *)
(*                                                                         *)
(* A line is a sequence of words that a blank separates; the word "_" is   *)
(* one blank more, "w" stands for every word without a meaning of its own. *)
(* NULL ends an argument vector in the code: here a vector is a sequence   *)
(* and what NULL cuts off is gone.                                         *)
(***************************************************************************)
EXTENDS Integers, Sequences, FiniteSets

Authors == {"huqingwei", "liuting", "wuxinyue"}

Operators == {">", ">>", "<", "|"}
Words == {"w", "cd", "&", "_"} \cup Operators

Drop(s, n) == SubSeq(s, n + 1, Len(s))
Take(s, n) == SubSeq(s, 1, n)

\* The first place of w in s, one behind the end when there is none.
First(s, w) == CHOOSE i \in 1..(Len(s) + 1) :
                 /\ i <= Len(s) => s[i] = w
                 /\ \A j \in 1..(i - 1) : s[j] # w

Has(s, w) == \E i \in DOMAIN s : s[i] = w

\* A plan: what do_cmd does ("run" is a plain command, "no" a refusal, "die" the
\* end of the shell itself), the argument vectors, and `background'.  A file
\* is the rest of the line, of which the first word counts.
Plan(how, arg, next, bg) == [how |-> how, arg |-> arg, next |-> next, background |-> bg]
Refuse == Plan("no", << >>, << >>, FALSE)
Die == Plan("die", << >>, << >>, FALSE)
ChangeDir == Plan("cd", << >>, << >>, FALSE)

\* The plan for the vector a with one operator w, which NULL replaces.
Cut(a, w, bg) == Plan(w, Take(a, First(a, w) - 1), Drop(a, First(a, w)), bg)

-----------------------------------------------------------------------------
(* Splitting                                                               *)

\* explain_input of wuxinyue: blanks do not matter.
Fields(line) ==
  LET kept[n \in 0..Len(line)] ==
        IF n = 0 THEN << >>
        ELSE IF line[n] = "_" THEN kept[n - 1] ELSE Append(kept[n - 1], line[n])
  IN  kept[Len(line)]

\* explain_input of liuting: a blank at the end makes an argument of length 0,
\* which do_cmd takes for the end of the vector.
Trailing(line) == line[Len(line)] = "_"

-----------------------------------------------------------------------------
(* The checks of huqingwei and wuxinyue                                    *)

\* `flag': one for each operator, and one more where it has no business to be.
Flags(a, first, last) ==
  LET n(w) == Cardinality({i \in DOMAIN a : a[i] = w})
      at(i, W) == IF a # << >> /\ a[i] \in W THEN 1 ELSE 0
  IN  n(">") + n(">>") + n("<") + n("|") + at(1, first) + at(Len(a), last)

\* (fault: more than one operator is let through)
AnyFlag(a, first, last) == FALSE

WrongFlags(a, first, last) == Flags(a, first, last) > 1

\* The vector without a final "&"; an "&" before the end is refused.
EarlyAmp(a) == First(a, "&") < Len(a)
NoAmp(a) == Take(a, First(a, "&") - 1)

OneOperator(a, bg) ==
  LET used == {w \in Operators : Has(a, w)}
  IN  IF used = {} THEN Plan("run", a, << >>, bg) ELSE Cut(a, CHOOSE w \in used : TRUE, bg)

-----------------------------------------------------------------------------
(* do_cmd                                                                  *)

\* An extra blank is an empty argument; a line that begins with one is skipped.
\* `cd' is looked for before "&".
PlanHu(line) ==
  IF line[1] = "_" THEN Refuse
  ELSE IF line[1] = "cd" THEN ChangeDir
  ELSE IF EarlyAmp(line) THEN Refuse
  ELSE IF WrongFlags(NoAmp(line), {"<", "|", ">>"}, {">", "|", ">>"}) THEN Refuse
  ELSE OneOperator(NoAmp(line), Has(line, "&"))

\* `cd' is looked for when "&" was taken away, and a line of blanks was not.
PlanWu(line) ==
  LET f == Fields(line)
      a == NoAmp(f)
  IN  IF EarlyAmp(f) THEN Refuse
      ELSE IF a = << >> THEN Die
      ELSE IF a[1] = "cd" THEN ChangeDir
      ELSE IF WrongFlags(a, {"<", "|"}, {">", "|", ">>"}) THEN Refuse
      ELSE OneOperator(a, Has(f, "&"))

\* The four loops of liuting, in their order: each cuts the vector at its
\* operator, the last one that finds something decides.
CutAt(p, w) ==
  IF p.how = "no" \/ ~Has(p.arg, w) THEN p
  ELSE IF First(p.arg, w) = Len(p.arg) THEN Refuse ELSE Cut(p.arg, w, p.background)

\* `cd' is looked for last; a vector that was cut may have no arg[0], and `cd'
\* no arg[1].  An "&" must be the very last argument.
PlanLt(line) ==
  LET f == Fields(line)
      p0 == Plan("run", NoAmp(f), << >>, Has(f, "&"))
      p == CutAt(CutAt(CutAt(CutAt(p0, ">"), ">>"), "<"), "|")
      argcount == Len(f) + (IF Trailing(line) THEN 1 ELSE 0)
  IN  IF EarlyAmp(f) \/ (Has(f, "&") /\ Trailing(line)) \/ p.how = "no" THEN Refuse
      ELSE IF p.arg = << >> THEN Die
      ELSE IF p.arg[1] # "cd" THEN p
      ELSE IF argcount > 1 /\ Len(p.arg) = 1 THEN Die ELSE ChangeDir

\* An empty line is not executed.
do_cmd(author, line) == CASE line = << >> -> Refuse
                          [] line # << >> /\ author = "huqingwei" -> PlanHu(line)
                          [] line # << >> /\ author = "liuting" -> PlanLt(line)
                          [] line # << >> /\ author = "wuxinyue" -> PlanWu(line)
=============================================================================
