------------------------- MODULE ClientThreadsProofs -------------------------
(***************************************************************************)
(* What the two threads of ClientThreads may rely on until del_head has    *)
(* given back a node that its list still begins with, proved for every     *)
(* number of messages and pieces.                                          *)
(***************************************************************************)
EXTENDS ClientThreads, SequenceTheorems, WellFoundedInduction, TLAPS

-----------------------------------------------------------------------------
(* Walking a list                                                          *)

\* Among the numbers with a property there is a first one.
LEMMA FirstOne ==
  ASSUME NEW T \in SUBSET Nat, T # {}
  PROVE  \E n \in T : \A k \in T : ~(k < n)
<1> DEFINE R == OpToRel(<, Nat)
<1>1. IsWellFoundedOn(R, Nat)
  BY NatLessThanWellFounded, Zenon
<1>2. \A x, y \in Nat : x < y => <<x, y>> \in R
  BY DEF OpToRel
<1> HIDE DEF R
<1>3. PICK n \in T : \A k \in T : ~(<<k, n>> \in R)
  BY <1>1, WFMin
<1> QED BY <1>2, <1>3

\* The first m steps from h along nx.
IsWalk(at, h, nx, m) ==
  at = [k \in 0..m |-> IF k = 0 THEN h
                       ELSE IF at[k - 1] \in Nodes THEN nx[at[k - 1]] ELSE at[k - 1]]

\* The nodes of c are linked by nx, and h is the first of them.
Linking(c, h, nx) ==
  /\ c \in Seq(Nodes)
  /\ h = IF c = << >> THEN NULL ELSE c[1]
  /\ \A k \in 1..Len(c) : nx[c[k]] = IF k = Len(c) THEN NULL ELSE c[k + 1]

\* From finds the nodes one after the other, then NULL.
LEMMA Walk ==
  ASSUME NEW c, NEW h, NEW nx, Linking(c, h, nx)
  PROVE  \A k \in 0..MaxMsgs : From(h, nx)[k] = IF k < Len(c) THEN c[k + 1] ELSE NULL
<1> DEFINE w == [k \in 0..MaxMsgs |-> IF k < Len(c) THEN c[k + 1] ELSE NULL]
           at == CHOOSE v : IsWalk(v, h, nx, MaxMsgs)
           Bad == {k \in 0..MaxMsgs : at[k] # w[k]}
<1>0. /\ Len(c) \in Nat /\ c \in Seq(Nodes) /\ NULL \notin Nodes
      /\ \A k \in 1..Len(c) : c[k] \in Nodes
      /\ (c = << >>) <=> Len(c) = 0
      /\ h = IF c = << >> THEN NULL ELSE c[1]
      /\ \A k \in 1..Len(c) : nx[c[k]] = IF k = Len(c) THEN NULL ELSE c[k + 1]
  BY LenProperties, ElementOfSeq, EmptySeq, MsgsAssumption DEF Linking, Nodes, NULL
<1>1. From(h, nx) = at
  BY Zenon DEF From, IsWalk
<1>2. ASSUME NEW k \in 0..MaxMsgs
      PROVE  w[k] = IF k = 0 THEN h ELSE IF w[k - 1] \in Nodes THEN nx[w[k - 1]] ELSE w[k - 1]
  <2>0. w[k] = IF k < Len(c) THEN c[k + 1] ELSE NULL
    OBVIOUS
  <2>1. CASE k = 0
    BY <1>0, <2>0, <2>1
  <2>2. CASE k # 0
    <3>1. k - 1 \in 0..MaxMsgs /\ (k - 1) + 1 = k
      BY <2>2, MsgsAssumption
    <3>2. w[k - 1] = IF k - 1 < Len(c) THEN c[k] ELSE NULL
      BY <3>1
    <3> HIDE DEF w
    <3>3. CASE k <= Len(c)
      <4>1. k \in 1..Len(c)
        BY <2>2, <3>3
      <4>2. w[k - 1] = c[k] /\ c[k] \in Nodes
        BY <1>0, <3>1, <3>2, <3>3, <4>1
      <4>3. nx[c[k]] = w[k]
        BY <1>0, <2>0, <4>1
      <4> QED BY <2>2, <4>2, <4>3
    <3>4. CASE ~(k <= Len(c))
      BY <1>0, <2>0, <2>2, <3>1, <3>2, <3>4
    <3> QED BY <3>3, <3>4
  <2> QED BY <2>1, <2>2
<1>3. IsWalk(w, h, nx, MaxMsgs)
  <2>1. w = [k \in 0..MaxMsgs |-> w[k]]
    OBVIOUS
  <2> HIDE DEF w
  <2> QED BY <1>2, <2>1 DEF IsWalk
<1>4. IsWalk(at, h, nx, MaxMsgs)
  BY <1>3, Zenon
<1>9. \A k \in 0..MaxMsgs : w[k] = IF k < Len(c) THEN c[k + 1] ELSE NULL
  OBVIOUS
<1> HIDE DEF w, at
<1>5. ASSUME NEW k \in 0..MaxMsgs
      PROVE  at[k] = IF k = 0 THEN h ELSE IF at[k - 1] \in Nodes THEN nx[at[k - 1]] ELSE at[k - 1]
  BY <1>4, Zenon DEF IsWalk
<1>6. Bad = {}
  <2> SUFFICES ASSUME Bad # {} PROVE FALSE
    OBVIOUS
  <2>0. Bad \in SUBSET Nat
    BY MsgsAssumption
  <2>1. PICK k \in Bad : \A j \in Bad : ~(j < k)
    <3> HIDE DEF Bad
    <3> QED BY <2>0, FirstOne
  <2>2. k \in 0..MaxMsgs /\ at[k] # w[k]
    OBVIOUS
  <2>3. k # 0
    <3>1. 0 \in 0..MaxMsgs
      BY MsgsAssumption
    <3>2. at[0] = h /\ w[0] = h
      BY <1>2, <1>5, <3>1
    <3> QED BY <2>2, <3>2
  <2>4. k - 1 \in 0..MaxMsgs /\ k - 1 < k
    BY <2>2, <2>3, MsgsAssumption
  <2>5. at[k - 1] = w[k - 1]
    BY <2>1, <2>4
  <2>6. at[k] = w[k]
    BY <1>2, <1>5, <2>2, <2>3, <2>5
  <2> QED BY <2>2, <2>6
<1> QED BY <1>1, <1>6, <1>9

-----------------------------------------------------------------------------
(* The inductive invariant                                                 *)

\* The list t consists of the nodes c, each in use and with its request.
Holds(t, c) ==
  /\ Linking(c, head[t], next)
  /\ Len(c) = Len(arrived[t])
  /\ \A k \in 1..Len(c) : c[k] \in used /\ request[c[k]] = arrived[t][k]

Apart(c, d) == \A i \in 1..Len(c), j \in 1..Len(d) : c[i] # d[j]

\* The node that charu_list fills is not in the list yet.
Outside(c) == recv = "fill" => \A k \in 1..Len(c) : c[k] # new_node

TwoLists == \E c, d : /\ Holds(14, c) /\ Holds(23, d) /\ Apart(c, d)
                      /\ Outside(c) /\ Outside(d)

\* Every request came with a message of its own.
Waiting == recv \in {"lock", "fill"}
Count == Len(arrived[14]) + Len(arrived[23]) + (IF Waiting THEN 1 ELSE 0) <= msg.n

\* What is on the screen before the first answer is the first request.
FirstShown ==
  /\ menu \in {"copy", "line", "asked"} => head[list] # NULL
  /\ menu = "copy" => shown = IF list = 14 THEN {arrived[list][1]} ELSE {}
  /\ menu \in {"line", "asked"} => shown = {arrived[list][1]} /\ message = arrived[list][1]

\* Until the first answer nothing was freed: both lists are right.
ListInv ==
  Unanswered => /\ menu \notin {"lock", "segv", "abort"} /\ recv # "hung"
                /\ Count /\ TwoLists /\ FirstShown

\* The first answer was about the first request, whose node is freed once.
AnswerInv ==
  ~Unanswered => /\ arrived[answers[1].list] # << >>
                 /\ answers[1].req = arrived[answers[1].list][1]
                 /\ answers[1].shown = {answers[1].req}
                 /\ menu = "lock" /\ Len(answers) = 1 => head[list] \in used
                 /\ menu = "abort" => Len(answers) > 1

\* A request, or the first chunk of a file, is behind server_message's place.
MsgInv == /\ Waiting => msg.cmd \in Lists
          /\ recv \in {"lock", "fill", "file"} => msg.n > 0
          /\ recv = "fill" => new_node \in used

\* The request that is being put into a list is newer than all that were.
Top == IF Waiting THEN msg.n - 1 ELSE msg.n
BoundInv == menu # "segv" => /\ \A x \in Nodes : request[x] <= Top
                             /\ \A r \in shown : r <= Top

\* While a request is printed and copied its node changes only when it was free,
\* and for good: a copy that is not what was printed first shows in the next line.
ShowInv ==
  /\ menu \in {"copy", "line"} => head[list] # NULL
  /\ menu = "copy" /\ list = 14 =>
       \E r \in shown : shown = {r} /\ (head[14] \notin used => First(14) = r)
  /\ menu = "line" =>
       /\ list = 14
       /\ \E r \in shown : /\ shown = {r}
                           /\ head[14] \notin used => First(14) = r /\ message = r
                           /\ message # r => First(14) # r
  /\ menu = "asked" => \A r \in shown : shown = {r} => message = r

SeenInv == \A i \in DOMAIN answers : \A r \in answers[i].shown :
             answers[i].shown = {r} => answers[i].req = r

\* In the middle of a MSG the server has gone on, or left send_file, by what it is.
PartInv == ~gone /\ recv = "file" /\ sum # 0 => (sending <=> msg.full)

ThreadInv == /\ TypeOK /\ MsgInv /\ BoundInv /\ ListInv /\ ShowInv /\ AnswerInv /\ SeenInv
             /\ PartInv /\ FileInStep

-----------------------------------------------------------------------------
(* charu_list                                                              *)

\* A node that was linked at the end of a list that is right.
LEMMA Linked ==
  ASSUME TypeOK, NEW t \in Lists, NEW u \in Lists, t # u, NEW c, NEW d,
         Holds(t, c), Holds(u, d), Apart(c, d), Len(c) <= MaxMsgs,
         NEW n \in Nodes, n \in used, NEW r, r = msg.n, charu_list(t, n), used' = used,
         \A k \in 1..Len(c) : c[k] # n, \A k \in 1..Len(d) : d[k] # n, r \in 1..MaxMsgs
  PROVE  /\ Holds(t, Append(c, n))' /\ Holds(u, d)' /\ Apart(Append(c, n), d)
         /\ recv' = "recv" /\ menu' = menu
<1> DEFINE nx == [next EXCEPT ![n] = NULL]
           at == From(head[t], nx)
           c1 == Append(c, n)
<1>0. /\ c \in Seq(Nodes) /\ d \in Seq(Nodes) /\ Len(c) \in Nat /\ Len(d) \in Nat
      /\ \A k \in 1..Len(c) : c[k] \in Nodes /\ c[k] \in used /\ c[k] # n
      /\ \A k \in 1..Len(d) : d[k] \in Nodes /\ d[k] \in used /\ d[k] # n
      /\ (c = << >>) <=> Len(c) = 0
      /\ next \in [Nodes -> WILD..MaxMsgs] /\ request \in [Nodes -> MIXED..MaxMsgs]
      /\ arrived \in [Lists -> Seq(1..MaxMsgs)] /\ n \in Nodes /\ head \in [Lists -> Nodes \cup {NULL}]
  <2>1. c \in Seq(Nodes) /\ d \in Seq(Nodes)
    BY DEF Holds, Linking
  <2>2. /\ \A k \in 1..Len(c) : c[k] \in used
        /\ \A k \in 1..Len(d) : d[k] \in used
    BY DEF Holds
  <2>3. Len(c) \in Nat /\ Len(d) \in Nat
    BY <2>1, LenProperties
  <2>4. /\ \A k \in 1..Len(c) : c[k] \in Nodes
        /\ \A k \in 1..Len(d) : d[k] \in Nodes
    BY <2>1, ElementOfSeq
  <2>5. (c = << >>) <=> Len(c) = 0
    BY <2>1, EmptySeq
  <2>6. /\ next \in [Nodes -> WILD..MaxMsgs] /\ request \in [Nodes -> MIXED..MaxMsgs]
        /\ arrived \in [Lists -> Seq(1..MaxMsgs)] /\ head \in [Lists -> Nodes \cup {NULL}]
    BY DEF TypeOK
  <2> QED BY <2>1, <2>2, <2>3, <2>4, <2>5, <2>6
<1>1. /\ used' = used /\ request' = [request EXCEPT ![n] = r]
      /\ arrived' = [arrived EXCEPT ![t] = Append(arrived[t], r)]
  BY DEF charu_list
<1>2. Linking(c, head[t], nx)
  <2>1. \A k \in 1..Len(c) : nx[c[k]] = next[c[k]]
    BY <1>0
  <2> HIDE DEF nx
  <2> QED BY <2>1 DEF Holds, Linking
<1>3. \A k \in 0..MaxMsgs : at[k] = IF k < Len(c) THEN c[k + 1] ELSE NULL
  <2> HIDE DEF nx
  <2> QED BY <1>2, Walk
<1>4. at[MaxMsgs] = NULL /\ NULL \notin Nodes /\ NULL # WILD
  <2>1. MaxMsgs \in 0..MaxMsgs
    BY MsgsAssumption
  <2>2. ~(MaxMsgs < Len(c))
    BY <1>0, MsgsAssumption
  <2>3. at[MaxMsgs] = NULL
    BY <1>3, <2>1, <2>2
  <2> HIDE DEF at
  <2> QED BY <2>3 DEF NULL, WILD, Nodes
<1>5. head[t] = IF c = << >> THEN NULL ELSE c[1]
  BY DEF Holds, Linking
\* Where the new node goes.
<1>6. /\ recv' = "recv" /\ menu' = menu
      /\ \/ c = << >> /\ head' = [head EXCEPT ![t] = n] /\ next' = nx
         \/ c # << >> /\ head' = head /\ next' = [nx EXCEPT ![c[Len(c)]] = n]
  <2>1. \/ /\ head[t] = NULL /\ head' = [head EXCEPT ![t] = n] /\ next' = nx
           /\ recv' = "recv" /\ menu' = menu
        \/ /\ head[t] # NULL
           /\ \E k \in 0..MaxMsgs : at[k] \in Nodes /\ nx[at[k]] = NULL /\ next' = Link(n, at[k], nx)
           /\ recv' = "recv" /\ UNCHANGED <<menu, head>>
    <3>1. ~(at[MaxMsgs] = WILD) /\ ~(at[MaxMsgs] \in Nodes)
      BY <1>4
    <3> QED BY <3>1 DEF charu_list
  <2> HIDE DEF at
  <2>2. CASE head[t] = NULL
    <3>1. c = << >>
      BY <1>0, <1>4, <1>5, <2>2
    <3> QED BY <2>1, <2>2, <3>1
  <2>3. CASE head[t] # NULL
    <3>1. PICK k \in 0..MaxMsgs : at[k] \in Nodes /\ nx[at[k]] = NULL /\ next' = Link(n, at[k], nx)
      BY <2>1, <2>3
    <3>2. k < Len(c) /\ at[k] = c[k + 1]
      BY <1>3, <1>4, <3>1
    <3>3. k + 1 \in 1..Len(c)
      BY <1>0, <3>2
    <3>4. nx[c[k + 1]] = IF k + 1 = Len(c) THEN NULL ELSE c[k + 1 + 1]
      BY <1>2, <3>3 DEF Linking
    <3>5. k + 1 = Len(c)
      <4> SUFFICES ASSUME k + 1 # Len(c) PROVE FALSE
        OBVIOUS
      <4>1. k + 1 + 1 \in 1..Len(c)
        BY <1>0, <3>3
      <4> QED BY <1>0, <1>4, <3>1, <3>2, <3>4, <4>1
    <3>6. next' = [nx EXCEPT ![c[Len(c)]] = n]
      BY <3>1, <3>2, <3>5 DEF Link
    <3>7. c # << >>
      BY <1>5, <2>3
    <3> QED BY <2>1, <2>3, <3>6, <3>7
  <2> QED BY <2>2, <2>3
\* The list with its new end.
<1>7. /\ c1 \in Seq(Nodes) /\ Len(c1) = Len(c) + 1 /\ c1 # << >> /\ c1[Len(c) + 1] = n
      /\ \A k \in 1..Len(c) : c1[k] = c[k]
  <2>1. c \in Seq(Nodes) /\ n \in Nodes
    BY <1>0
  <2> QED BY <2>1, AppendProperties
<1>8. /\ nx[n] = NULL /\ \A x \in Nodes \ {n} : nx[x] = next[x]
      /\ nx \in [Nodes -> WILD..MaxMsgs]
  BY <1>0, MsgsAssumption DEF NULL, WILD
<1>9. next'[n] = NULL
  <2>1. CASE c = << >>
    BY <1>6, <1>8, <2>1
  <2>2. CASE c # << >>
    <3>1. c[Len(c)] # n
      BY <1>0, <2>2
    <3> HIDE DEF nx
    <3> QED BY <1>0, <1>6, <1>8, <2>2, <3>1
  <2> QED BY <2>1, <2>2
<1>10. ASSUME NEW x \in Nodes, x # n, c = << >> \/ x # c[Len(c)] PROVE next'[x] = next[x]
  <2> HIDE DEF nx
  <2> QED BY <1>6, <1>8, <1>10
<1>11. c # << >> => next'[c[Len(c)]] = n
  <2>1. c # << >> => c[Len(c)] \in Nodes
    BY <1>0
  <2> HIDE DEF nx
  <2> QED BY <1>6, <1>8, <2>1
<1> HIDE DEF nx, at, c1
<1>12. Linking(c1, head'[t], next')
  <2>1. head'[t] = c1[1]
    <3>1. CASE c = << >>
      BY <1>0, <1>6, <1>7, <3>1
    <3>2. CASE c # << >>
      <4>1. 1 \in 1..Len(c)
        BY <1>0, <3>2
      <4> QED BY <1>5, <1>6, <1>7, <3>2, <4>1
    <3> QED BY <3>1, <3>2
  <2>2. ASSUME NEW k \in 1..Len(c1)
        PROVE  next'[c1[k]] = IF k = Len(c1) THEN NULL ELSE c1[k + 1]
    <3>1. CASE k = Len(c) + 1
      BY <1>7, <1>9, <3>1
    <3>2. CASE k = Len(c) /\ k # 0
      <4>1. c1[k] = c[k] /\ c # << >> /\ k # Len(c1)
        BY <1>0, <1>7, <3>2
      <4> QED BY <1>7, <1>11, <3>2, <4>1
    <3>3. CASE k < Len(c)
      <4>1. k \in 1..Len(c) /\ k + 1 \in 1..Len(c) /\ k # Len(c1) /\ k # Len(c)
        <5>1. Len(c) \in Nat /\ Len(c1) = Len(c) + 1
          BY <1>0, <1>7
        <5> QED BY <3>3, <5>1
      <4>2. c1[k] = c[k] /\ c1[k + 1] = c[k + 1] /\ next[c[k]] = c[k + 1]
        BY <1>7, <4>1 DEF Holds, Linking
      <4>3. c[k] \in Nodes /\ c[k + 1] \in Nodes /\ c[k] # n
        BY <1>0, <4>1
      <4>4. c[k] # c[Len(c)]
        <5>1. next[c[Len(c)]] = NULL
          <6>1. Len(c) \in 1..Len(c)
            BY <1>0, <4>1
          <6> QED BY <6>1 DEF Holds, Linking
        <5> QED BY <1>4, <4>2, <4>3, <5>1
      <4> QED BY <1>10, <4>1, <4>2, <4>3, <4>4
    <3> QED BY <1>0, <1>7, <2>2, <3>1, <3>2, <3>3
  <2> QED BY <1>7, <2>1, <2>2 DEF Linking
<1>13. Holds(t, c1)'
  <2>1. arrived'[t] = Append(arrived[t], r) /\ Len(c) = Len(arrived[t]) /\ arrived[t] \in Seq(1..MaxMsgs)
    BY <1>0, <1>1 DEF Holds
  <2>2. /\ Len(arrived'[t]) = Len(c) + 1 /\ arrived'[t][Len(c) + 1] = r
        /\ \A k \in 1..Len(c) : arrived'[t][k] = arrived[t][k]
    BY <2>1, AppendProperties
  <2>3. ASSUME NEW k \in 1..Len(c1) PROVE c1[k] \in used' /\ request'[c1[k]] = arrived'[t][k]
    <3>1. CASE k = Len(c) + 1
      BY <1>0, <1>1, <1>7, <2>2, <3>1
    <3>2. CASE k \in 1..Len(c)
      <4>1. request[c[k]] = arrived[t][k] /\ c[k] \in used /\ c[k] \in Nodes /\ c[k] # n
        BY <1>0, <3>2 DEF Holds
      <4> QED BY <1>0, <1>1, <1>7, <2>2, <3>2, <4>1
    <3> QED BY <1>0, <1>7, <3>1, <3>2
  <2> QED BY <1>7, <1>12, <2>2, <2>3 DEF Holds, Linking
\* The other one.
<1>14. Holds(u, d)'
  <2>1. arrived'[u] = arrived[u] /\ head'[u] = head[u]
    BY <1>0, <1>1, <1>6
  <2>2. ASSUME NEW k \in 1..Len(d)
        PROVE  d[k] \in used' /\ request'[d[k]] = request[d[k]] /\ next'[d[k]] = next[d[k]]
    <3>1. d[k] \in Nodes /\ d[k] \in used /\ d[k] # n
      BY <1>0
    <3>2. c # << >> => d[k] # c[Len(c)]
      <4>1. c # << >> => Len(c) \in 1..Len(c)
        BY <1>0
      <4> QED BY <4>1 DEF Apart
    <3> QED BY <1>0, <1>1, <1>10, <3>1, <3>2
  <2> QED BY <2>1, <2>2 DEF Holds, Linking
<1>15. Apart(c1, d)
  <2>1. ASSUME NEW i \in 1..Len(c1), NEW j \in 1..Len(d) PROVE c1[i] # d[j]
    <3>1. d[j] # n
      BY <1>0
    <3>2. i \in 1..Len(c) \/ i = Len(c) + 1
      BY <1>0, <1>7
    <3> QED BY <1>7, <3>1, <3>2 DEF Apart
  <2> QED BY <2>1 DEF Apart
<1> QED BY <1>6, <1>13, <1>14, <1>15 DEF c1

-----------------------------------------------------------------------------
(* The types                                                               *)

NodeType == /\ head \in [Lists -> Nodes \cup {NULL}] /\ used \subseteq Nodes
            /\ request \in [Nodes -> MIXED..MaxMsgs] /\ next \in [Nodes -> WILD..MaxMsgs]
            /\ arrived \in [Lists -> Seq(1..MaxMsgs)] /\ new_node \in Nodes \cup {NULL}

FileType == sum \in 0..(Parts - 1) /\ written \in Seq(1..MaxMsgs)

ServerType == /\ msg \in [n : 0..MaxMsgs, cmd : Lists \cup {0, 6, 11}, full : BOOLEAN]
              /\ sending \in BOOLEAN /\ gone \in BOOLEAN /\ sent \in Seq(1..MaxMsgs)

Answers == [list : Lists, shown : SUBSET (MIXED..MaxMsgs), req : MIXED..MaxMsgs]
AnswerType == answers \in Seq(Answers)

ScreenType == list \in Lists /\ message \in MIXED..MaxMsgs /\ shown \subseteq MIXED..MaxMsgs

Places == /\ menu \in {"face", "copy", "line", "asked", "lock", "exit", "segv", "abort"}
          /\ recv \in {"recv", "lock", "fill", "file", "hung", "eof", "ended"}

LEMMA Types ==
  TypeOK <=> NodeType /\ FileType /\ ServerType /\ AnswerType /\ ScreenType /\ Places
BY DEF TypeOK, NodeType, FileType, ServerType, Answers, AnswerType, ScreenType, Places

\* What stays when the variables of a part do.
LEMMA TypesStay ==
  ASSUME TypeOK
  PROVE  /\ UNCHANGED listVars => NodeType'
         /\ UNCHANGED <<sum, written>> => FileType'
         /\ UNCHANGED serverVars => ServerType'
         /\ UNCHANGED answers => AnswerType'
         /\ UNCHANGED showVars => ScreenType'
BY Types DEF NodeType, FileType, ServerType, Answers, AnswerType, ScreenType,
             listVars, serverVars, showVars

LEMMA NodeStep ==
  ASSUME TypeOK, NEW t \in Lists, NEW n \in Nodes, msg.n \in 1..MaxMsgs, charu_list(t, n),
         UNCHANGED <<new_node, used>>
  PROVE  /\ NodeType' /\ recv' \in {"recv", "hung", recv} /\ menu' \in {menu, "segv"}
         /\ menu' = "segv" \/ recv' \in {"recv", "hung"}
         /\ \A x \in Lists : head[x] # NULL => head'[x] = head[x]
         /\ request' = [request EXCEPT ![n] = msg.n]
<1> DEFINE nx == [next EXCEPT ![n] = NULL]
           at == From(head[t], nx)
           r == msg.n
<1>0. /\ head \in [Lists -> Nodes \cup {NULL}] /\ used \subseteq Nodes
      /\ request \in [Nodes -> MIXED..MaxMsgs] /\ next \in [Nodes -> WILD..MaxMsgs]
      /\ arrived \in [Lists -> Seq(1..MaxMsgs)] /\ new_node \in Nodes \cup {NULL}
  BY DEF TypeOK
<1>1. NULL \in WILD..MaxMsgs /\ n \in WILD..MaxMsgs /\ r \in MIXED..MaxMsgs
  BY MsgsAssumption DEF NULL, WILD, MIXED, Nodes
<1>2. nx \in [Nodes -> WILD..MaxMsgs]
  BY <1>0, <1>1
<1>3. \A x : Link(n, x, nx) \in [Nodes -> WILD..MaxMsgs]
  <2> HIDE DEF nx
  <2> QED BY <1>1, <1>2 DEF Link
<1>4. request' = [request EXCEPT ![n] = r] /\ request' \in [Nodes -> MIXED..MaxMsgs]
  BY <1>0, <1>1 DEF charu_list
<1>5. arrived' \in [Lists -> Seq(1..MaxMsgs)]
  <2>1. arrived' = [arrived EXCEPT ![t] = Append(arrived[t], r)]
    BY DEF charu_list
  <2>2. Append(arrived[t], r) \in Seq(1..MaxMsgs)
    BY <1>0, AppendProperties
  <2> QED BY <1>0, <2>1, <2>2
<1>6. \/ /\ head[t] = NULL /\ head' = [head EXCEPT ![t] = n] /\ next' = nx
         /\ recv' = "recv" /\ menu' = menu
      \/ /\ \E x : next' = Link(n, x, nx)
         /\ recv' = "recv" /\ UNCHANGED <<menu, head>>
      \/ menu' = "segv" /\ UNCHANGED <<recv, head, next>>
      \/ recv' = "hung" /\ next' = nx /\ UNCHANGED <<menu, head>>
  BY DEF charu_list
<1> HIDE DEF nx, at
<1>7. next' \in [Nodes -> WILD..MaxMsgs] /\ head' \in [Lists -> Nodes \cup {NULL}]
  <2>1. next' \in [Nodes -> WILD..MaxMsgs]
    BY <1>0, <1>2, <1>3, <1>6
  <2>2. head' \in [Lists -> Nodes \cup {NULL}]
    BY <1>0, <1>6
  <2> QED BY <2>1, <2>2
<1>8. /\ recv' \in {"recv", "hung", recv} /\ menu' \in {menu, "segv"}
      /\ menu' = "segv" \/ recv' \in {"recv", "hung"}
  BY <1>6
<1>9. \A x \in Lists : head[x] # NULL => head'[x] = head[x]
  BY <1>0, <1>6
<1> QED BY <1>0, <1>4, <1>5, <1>7, <1>8, <1>9 DEF NodeType

\* The place and the request of RecvRequest.
LEMMA RequestPlace ==
  ASSUME ThreadInv, RecvRequest
  PROVE  /\ msg.cmd \in Lists /\ msg.n \in 1..MaxMsgs /\ new_node \in Nodes /\ new_node \in used
         /\ charu_list(msg.cmd, new_node) /\ recv = "fill" /\ Waiting /\ Running
         /\ UNCHANGED <<showVars, sum, written, serverVars, new_node, used, answers>>
<1>1. /\ charu_list(msg.cmd, new_node) /\ recv = "fill" /\ Waiting /\ Running
      /\ UNCHANGED <<showVars, sum, written, serverVars, new_node, used, answers>>
  BY DEF RecvRequest, Waiting
<1>2. /\ msg.n \in 0..MaxMsgs /\ used \subseteq Nodes
  BY DEF ThreadInv, TypeOK
<1>3. msg.cmd \in Lists /\ msg.n > 0 /\ new_node \in used
  BY <1>1 DEF ThreadInv, MsgInv
<1> QED BY <1>1, <1>2, <1>3, MsgsAssumption

\* What the server sends.
LEMMA SendsStep ==
  ASSUME TypeOK, NEW c \in Lists \cup {11, 6}, NEW full \in BOOLEAN, Sends(c, full)
  PROVE  /\ ServerType' /\ gone' = gone
         /\ msg.n \in Nat /\ msg'.n = msg.n + 1 /\ msg'.n \in 1..MaxMsgs
         /\ msg'.cmd = c /\ msg'.full = full
<1>1. /\ msg \in [n : 0..MaxMsgs, cmd : Lists \cup {0, 6, 11}, full : BOOLEAN]
      /\ sending \in BOOLEAN /\ gone \in BOOLEAN /\ sent \in Seq(1..MaxMsgs)
  BY DEF TypeOK
<1>2. /\ msg.n < MaxMsgs /\ msg' = [n |-> msg.n + 1, cmd |-> c, full |-> full] /\ gone' = gone
      /\ sending' = IF sending THEN full ELSE c = 6
      /\ sent' = IF full THEN Append(sent, msg.n + 1)
                 ELSE IF c = 6 /\ ~sending THEN << >> ELSE sent
  BY DEF Sends
<1>3. msg.n \in Nat /\ msg.n + 1 \in 1..MaxMsgs
  BY <1>1, <1>2, MsgsAssumption
<1>4. sent' \in Seq(1..MaxMsgs)
  <2>1. << >> \in Seq(1..MaxMsgs)
    BY EmptySeq
  <2>2. Append(sent, msg.n + 1) \in Seq(1..MaxMsgs)
    BY <1>1, <1>3, AppendProperties
  <2> QED BY <1>1, <1>2, <2>1, <2>2
<1>5. sending' \in BOOLEAN
  BY <1>1, <1>2
<1>6. msg'.n = msg.n + 1 /\ msg'.cmd = c /\ msg'.full = full
  BY <1>2
<1>7. msg' \in [n : 0..MaxMsgs, cmd : Lists \cup {0, 6, 11}, full : BOOLEAN]
  BY <1>2, <1>3
<1> QED BY <1>1, <1>2, <1>3, <1>4, <1>5, <1>6, <1>7 DEF ServerType

\* What a piece of a file does.
LEMMA PieceStep ==
  ASSUME ThreadInv, RecvPiece
  PROVE  /\ FileType' /\ ServerType' /\ recv' \in {"recv", "file"}
         /\ msg.n \in Nat /\ msg'.n \in 1..MaxMsgs /\ msg.n <= msg'.n
         /\ UNCHANGED <<menu, showVars, listVars, answers>> /\ recv = "file"
<1>0. /\ TypeOK /\ sum \in 0..(Parts - 1) /\ written \in Seq(1..MaxMsgs)
      /\ msg.n > 0 /\ msg.n \in 0..MaxMsgs /\ recv = "file"
  BY DEF ThreadInv, TypeOK, MsgInv, RecvPiece
<1>1. PICK k \in 1..(Parts - sum) :
           /\ sum' = NewSum(sum, k)
           /\ IF Complete(sum, k) /\ msg'.full
                THEN written' = Append(written, msg'.n) ELSE written' = written
           /\ recv' = IF Complete(sum, k) /\ ~msg'.full THEN "recv" ELSE "file"
  BY DEF RecvPiece
<1>2. ServerType' /\ msg'.n \in 1..MaxMsgs /\ msg.n <= msg'.n /\ msg.n \in Nat
  <2>1. CASE sum = 0
    <3>1. PICK c \in Lists \cup {11, 6}, full \in BOOLEAN : Sends(c, full)
      BY <2>1 DEF RecvPiece
    <3>2. /\ ServerType' /\ msg.n \in Nat /\ msg'.n = msg.n + 1 /\ msg'.n \in 1..MaxMsgs
      BY <1>0, <3>1, SendsStep
    <3> QED BY <3>2
  <2>2. CASE sum # 0
    <3>1. UNCHANGED serverVars
      BY <2>2 DEF RecvPiece
    <3>2. ServerType' /\ msg' = msg
      BY <1>0, <3>1, TypesStay DEF serverVars
    <3> QED BY <1>0, <3>2, MsgsAssumption
  <2> QED BY <2>1, <2>2
<1>3. sum' \in 0..(Parts - 1)
  <2>1. sum' = (sum + k) % Parts
    BY <1>1 DEF NewSum
  <2>2. sum + k \in Nat
    BY <1>0, PartsAssumption
  <2> QED BY <2>1, <2>2, PartsAssumption
<1>4. written' \in Seq(1..MaxMsgs)
  <2>1. Append(written, msg'.n) \in Seq(1..MaxMsgs)
    BY <1>0, <1>2, AppendProperties
  <2> QED BY <1>0, <1>1, <2>1
<1>5. recv' \in {"recv", "file"} /\ UNCHANGED <<menu, showVars, listVars, answers>>
  BY <1>1 DEF RecvPiece
<1> QED BY <1>0, <1>2, <1>3, <1>4, <1>5 DEF FileType

\* What a message does that is not part of a file.
LEMMA RecvStep ==
  ASSUME TypeOK, Recv
  PROVE  /\ FileType' /\ ServerType' /\ recv' \in {"recv", "lock", "file"} /\ recv = "recv"
         /\ msg.n \in Nat /\ msg'.n = msg.n + 1 /\ msg'.n \in 1..MaxMsgs
         /\ recv' = "lock" => msg'.cmd \in Lists
         /\ UNCHANGED <<menu, showVars, listVars, answers>>
<1>1. PICK c \in Lists \cup {11, 6}, full \in BOOLEAN :
           /\ Sends(c, full)
           /\ recv' = CASE c \in Lists -> "lock" [] c = 6 -> "file" [] OTHER -> "recv"
           /\ IF c = 6 THEN sum' = 0 /\ written' = << >> ELSE UNCHANGED <<sum, written>>
  BY DEF Recv
<1>2. /\ ServerType' /\ msg.n \in Nat /\ msg'.n = msg.n + 1 /\ msg'.n \in 1..MaxMsgs /\ msg'.cmd = c
  BY <1>1, SendsStep
<1>3. FileType'
  <2>1. << >> \in Seq(1..MaxMsgs) /\ 0 \in 0..(Parts - 1)
    BY EmptySeq, PartsAssumption
  <2>2. CASE c = 6
    BY <1>1, <2>1, <2>2 DEF FileType
  <2>3. CASE c # 6
    BY <1>1, <2>3, TypesStay
  <2> QED BY <2>2, <2>3
<1>4. recv' \in {"recv", "lock", "file"} /\ (recv' = "lock" => c \in Lists)
  BY <1>1
<1>5. UNCHANGED <<menu, showVars, listVars, answers>> /\ recv = "recv"
  BY DEF Recv
<1> QED BY <1>2, <1>3, <1>4, <1>5

\* What malloc does.
LEMMA NewNodeStep ==
  ASSUME TypeOK, NewNode
  PROVE  \E n \in Nodes \ used :
           /\ new_node' = n /\ used' = used \cup {n} /\ request' = [request EXCEPT ![n] = MIXED]
           /\ NodeType' /\ recv = "lock" /\ recv' = "fill" /\ Waiting /\ Waiting'
           /\ UNCHANGED <<menu, showVars, sum, written, serverVars, head, next, arrived, answers>>
<1>1. PICK n \in Nodes \ used :
         new_node' = n /\ used' = used \cup {n} /\ request' = [request EXCEPT ![n] = MIXED]
  BY DEF NewNode
<1>2. /\ recv = "lock" /\ recv' = "fill" /\ Waiting /\ Waiting'
      /\ UNCHANGED <<menu, showVars, sum, written, serverVars, head, next, arrived, answers>>
  BY DEF NewNode, Waiting
<1>3. MIXED \in MIXED..MaxMsgs
  BY MsgsAssumption DEF MIXED
<1>4. NodeType'
  BY <1>1, <1>2, <1>3 DEF NodeType, TypeOK
<1> QED BY <1>1, <1>2, <1>4

\* The first node can be read.
LEMMA FirstType ==
  ASSUME TypeOK, NEW t \in Lists, head[t] # NULL
  PROVE  head[t] \in Nodes /\ First(t) \in MIXED..MaxMsgs
BY DEF TypeOK, First

\* What the menu thread does before an answer.
Showing == FirstLine \/ FirstGroup \/ Copy \/ SecondLine

LEMMA ShowStep ==
  ASSUME ThreadInv, Showing
  PROVE  /\ ScreenType' /\ menu' \in {"copy", "line", "asked"} /\ menu \in {"face", "copy", "line"}
         /\ UNCHANGED <<recv, sum, written, serverVars, listVars, answers>>
<1>0. /\ TypeOK /\ 14 \in Lists /\ 23 \in Lists /\ list \in Lists /\ message \in MIXED..MaxMsgs
      /\ shown \subseteq MIXED..MaxMsgs /\ (menu \in {"copy", "line"} => head[list] # NULL)
  BY DEF ThreadInv, TypeOK, ShowInv, Lists
<1>1. CASE FirstLine
  <2>1. First(14) \in MIXED..MaxMsgs
    BY <1>0, <1>1, FirstType DEF FirstLine
  <2> QED BY <1>0, <1>1, <2>1 DEF FirstLine, ScreenType
<1>2. CASE FirstGroup
  BY <1>0, <1>2 DEF FirstGroup, ScreenType
<1>3. CASE Copy
  <2>1. First(list) \in MIXED..MaxMsgs
    BY <1>0, <1>3, FirstType DEF Copy
  <2> QED BY <1>0, <1>3, <2>1 DEF Copy, ScreenType
<1>4. CASE SecondLine
  <2>1. First(list) \in MIXED..MaxMsgs
    BY <1>0, <1>4, FirstType DEF SecondLine
  <2> QED BY <1>0, <1>4, <2>1 DEF SecondLine, ScreenType
<1> QED BY <1>1, <1>2, <1>3, <1>4 DEF Showing

\* What Answer appends.
LEMMA Answered ==
  ASSUME TypeOK, Answer
  PROVE  /\ answers' \in Seq(Answers) /\ Len(answers') = Len(answers) + 1 /\ Len(answers) \in Nat
         /\ answers'[Len(answers) + 1].list = list /\ answers'[Len(answers) + 1].shown = shown
         /\ answers'[Len(answers) + 1].req = message
         /\ \A i \in 1..Len(answers) : answers'[i] = answers[i]
         /\ UNCHANGED <<showVars, recv, sum, written, serverVars, listVars>>
         /\ menu' = "lock" /\ menu = "asked"
<1>1. PICK a : a = [list |-> list, shown |-> shown, req |-> message]
  OBVIOUS
<1>2. a \in Answers
  BY <1>1 DEF TypeOK, Answers
<1>3. answers \in Seq(Answers)
  BY DEF TypeOK, Answers
<1>4. answers' = Append(answers, a)
  BY <1>1 DEF Answer, AnswerTo
<1>5. /\ answers' \in Seq(Answers) /\ Len(answers') = Len(answers) + 1
      /\ answers'[Len(answers) + 1] = a
      /\ \A i \in 1..Len(answers) : answers'[i] = answers[i]
  BY <1>2, <1>3, <1>4, AppendProperties
<1>6. /\ UNCHANGED <<showVars, recv, sum, written, serverVars, listVars>>
      /\ menu' = "lock" /\ menu = "asked"
  BY DEF Answer
<1>7. Len(answers) \in Nat
  BY <1>3, LenProperties
<1> QED BY <1>1, <1>5, <1>6, <1>7

\* What del_head does to the nodes.
LEMMA Freed ==
  ASSUME TypeOK, del_head
  PROVE  /\ NodeType' /\ used' \subseteq used /\ menu = "lock" /\ recv \notin {"fill", "hung"}
         /\ menu' = IF head[list] \in used THEN "face" ELSE "abort"
         /\ UNCHANGED <<showVars, recv, sum, written, serverVars, new_node, head, request, arrived, answers>>
<1>1. /\ UNCHANGED <<showVars, recv, sum, written, serverVars, new_node, head, request, arrived, answers>>
      /\ menu' = (IF head[list] \in used THEN "face" ELSE "abort") /\ used' \subseteq used
      /\ menu = "lock" /\ recv \notin {"fill", "hung"}
      /\ next' = next \/ \E n \in used : next' = [next EXCEPT ![n] = WILD]
  BY DEF del_head
<1>2. next' \in [Nodes -> WILD..MaxMsgs]
  <2>1. WILD \in WILD..MaxMsgs
    BY MsgsAssumption DEF WILD
  <2> QED BY <1>1, <2>1 DEF TypeOK
<1> QED BY <1>1, <1>2 DEF NodeType, TypeOK

LEMMA TypeStep ==
  ASSUME ThreadInv, [Next]_vars
  PROVE  TypeOK'
<1>0. TypeOK /\ Places
  BY Types DEF ThreadInv
<1>1. ASSUME NodeType', FileType', ServerType', AnswerType', ScreenType', Places' PROVE TypeOK'
  BY <1>1 DEF TypeOK, NodeType, FileType, ServerType, Answers, AnswerType, ScreenType, Places
<1>3. /\ UNCHANGED listVars => NodeType'
      /\ UNCHANGED <<sum, written>> => FileType'
      /\ UNCHANGED serverVars => ServerType'
      /\ UNCHANGED answers => AnswerType'
      /\ UNCHANGED showVars => ScreenType'
  BY <1>0, TypesStay
<1>4. CASE Recv
  <2>1. /\ FileType' /\ ServerType' /\ recv' \in {"recv", "lock", "file"}
        /\ UNCHANGED <<menu, showVars, listVars, answers>>
    BY <1>0, <1>4, RecvStep
  <2>2. Places'
    BY <1>0, <2>1 DEF Places
  <2> QED BY <1>1, <1>3, <2>1, <2>2
<1>5. CASE NewNode
  <2>1. /\ NodeType' /\ recv' = "fill"
        /\ UNCHANGED <<menu, showVars, sum, written, serverVars, answers>>
    BY <1>0, <1>5, NewNodeStep
  <2>2. Places'
    BY <1>0, <2>1 DEF Places
  <2> QED BY <1>1, <1>3, <2>1, <2>2
<1>6. CASE RecvRequest
  <2>1. /\ msg.cmd \in Lists /\ msg.n \in 1..MaxMsgs /\ new_node \in Nodes
        /\ charu_list(msg.cmd, new_node)
        /\ UNCHANGED <<showVars, sum, written, serverVars, new_node, used, answers>>
    BY <1>6, RequestPlace
  <2>2. NodeType' /\ recv' \in {"recv", "hung", recv} /\ menu' \in {menu, "segv"}
    BY <1>0, <2>1, NodeStep
  <2>3. Places'
    BY <1>0, <2>2 DEF Places
  <2> QED BY <1>1, <1>3, <2>1, <2>2, <2>3
<1>7. CASE RecvPiece
  <2>1. /\ FileType' /\ ServerType' /\ recv' \in {"recv", "file"}
        /\ UNCHANGED <<menu, showVars, listVars, answers>>
    BY <1>7, PieceStep
  <2>2. Places'
    BY <1>0, <2>1 DEF Places
  <2> QED BY <1>1, <1>3, <2>1, <2>2
<1>8. CASE SenderGone
  <2>1. /\ sending' = FALSE /\ gone' = TRUE
        /\ UNCHANGED <<menu, showVars, recv, sum, written, msg, sent, listVars, answers>>
    BY <1>8 DEF SenderGone
  <2>2. ServerType' /\ Places'
    BY <1>0, <2>1 DEF TypeOK, ServerType, Places
  <2> QED BY <1>1, <1>3, <2>1, <2>2
<1>9. CASE RecvEof
  <2>1. /\ UNCHANGED <<menu, showVars, sum, written, serverVars, listVars, answers>>
        /\ recv' \in {"eof", "ended"}
    BY <1>9 DEF RecvEof
  <2>2. Places'
    BY <1>0, <2>1 DEF Places
  <2> QED BY <1>1, <1>3, <2>1, <2>2
<1>10. CASE Showing
  <2>1. /\ ScreenType' /\ menu' \in {"copy", "line", "asked"}
        /\ UNCHANGED <<recv, sum, written, serverVars, listVars, answers>>
    BY <1>10, ShowStep
  <2>2. Places'
    BY <1>0, <2>1 DEF Places
  <2> QED BY <1>1, <1>3, <2>1, <2>2
<1>11. CASE Answer
  <2>1. /\ answers' \in Seq(Answers) /\ menu' = "lock"
        /\ UNCHANGED <<showVars, recv, sum, written, serverVars, listVars>>
    BY <1>0, <1>11, Answered
  <2>2. Places' /\ AnswerType'
    BY <1>0, <2>1 DEF Places, AnswerType, Answers
  <2> QED BY <1>1, <1>3, <2>1, <2>2
<1>12. CASE del_head
  <2>1. /\ NodeType' /\ menu' \in {"face", "abort"}
        /\ UNCHANGED <<showVars, recv, sum, written, serverVars, answers>>
    BY <1>0, <1>12, Freed
  <2>2. Places'
    BY <1>0, <2>1 DEF Places
  <2> QED BY <1>1, <1>3, <2>1, <2>2
<1>13. CASE Exit \/ UNCHANGED vars
  <2>1. /\ menu' \in {menu, "exit"}
        /\ UNCHANGED <<showVars, recv, sum, written, serverVars, listVars, answers>>
    BY <1>13 DEF Exit, vars
  <2>2. Places'
    BY <1>0, <2>1 DEF Places
  <2> QED BY <1>1, <1>3, <2>1, <2>2
<1> QED BY <1>4, <1>5, <1>6, <1>7, <1>8, <1>9, <1>10, <1>11, <1>12, <1>13 DEF Next, Showing

-----------------------------------------------------------------------------
(* The other parts, step by step                                           *)

\* Unanswered says that there are no answers.
LEMMA NoAnswers ==
  ASSUME AnswerType
  PROVE  /\ Unanswered <=> answers = << >>
         /\ Len(answers) \in Nat /\ (answers = << >> <=> Len(answers) = 0)
         /\ DOMAIN answers = 1..Len(answers)
<1>1. Len(answers) \in Nat /\ DOMAIN answers = 1..Len(answers)
  BY LenProperties DEF AnswerType
<1>2. answers = << >> <=> Len(answers) = 0
  BY EmptySeq DEF AnswerType
<1>3. Unanswered <=> Len(answers) = 0
  <2>1. Len(answers) = 0 => DOMAIN answers = {}
    BY <1>1
  <2>2. Len(answers) # 0 => 1 \in DOMAIN answers
    BY <1>1
  <2> QED BY <2>1, <2>2 DEF Unanswered
<1> QED BY <1>1, <1>2, <1>3

LEMMA MsgStep ==
  ASSUME ThreadInv, [Next]_vars
  PROVE  MsgInv'
<1>0. MsgInv /\ TypeOK
  BY DEF ThreadInv
<1>1. CASE Recv
  <2>1. /\ recv' \in {"recv", "lock", "file"} /\ msg'.n \in 1..MaxMsgs
        /\ recv' = "lock" => msg'.cmd \in Lists
    BY <1>0, <1>1, RecvStep
  <2> QED BY <2>1, MsgsAssumption DEF MsgInv, Waiting
<1>2. CASE NewNode
  <2>1. /\ new_node' \in used' /\ recv = "lock" /\ UNCHANGED serverVars
    BY <1>0, <1>2, NewNodeStep
  <2> QED BY <1>0, <2>1 DEF MsgInv, Waiting, serverVars
<1>3. CASE RecvRequest
  <2>1. /\ msg.cmd \in Lists /\ msg.n \in 1..MaxMsgs /\ new_node \in used
        /\ UNCHANGED <<serverVars, new_node, used>>
    BY <1>3, RequestPlace
  <2> QED BY <2>1, MsgsAssumption DEF MsgInv, serverVars
<1>4. CASE RecvPiece
  <2>1. recv' \in {"recv", "file"} /\ msg'.n \in 1..MaxMsgs
    BY <1>4, PieceStep
  <2> QED BY <2>1, MsgsAssumption DEF MsgInv, Waiting
<1>5. CASE RecvEof
  BY <1>5 DEF RecvEof, MsgInv, Waiting
<1>6. CASE del_head
  <2>1. recv # "fill" /\ UNCHANGED <<recv, serverVars>>
    BY <1>0, <1>6, Freed
  <2> QED BY <1>0, <2>1 DEF MsgInv, Waiting, serverVars
<1>7. CASE UNCHANGED <<recv, msg, new_node, used>>
  BY <1>0, <1>7 DEF MsgInv, Waiting
<1>8. Showing \/ SenderGone \/ Answer \/ Exit \/ UNCHANGED vars => UNCHANGED <<recv, msg, new_node, used>>
  BY DEF Showing, FirstLine, FirstGroup, Copy, SecondLine, SenderGone, Answer, Exit, vars,
         listVars, serverVars
<1> QED BY <1>1, <1>2, <1>3, <1>4, <1>5, <1>6, <1>7, <1>8 DEF Next, Showing

\* The number of the newest message never falls below what was put into nodes.
LEMMA TopGrows ==
  ASSUME TypeOK
  PROVE  /\ Top \in Int /\ msg.n \in Nat /\ Top <= msg.n
         /\ ~Waiting => Top = msg.n
BY MsgsAssumption DEF TypeOK, Top

LEMMA BoundStep ==
  ASSUME ThreadInv, [Next]_vars
  PROVE  BoundInv'
<1> SUFFICES ASSUME menu' # "segv" PROVE BoundInv'
  BY DEF BoundInv
<1>0. /\ TypeOK /\ TypeOK' /\ BoundInv /\ (menu = "segv" => menu' = "segv")
      /\ request \in [Nodes -> MIXED..MaxMsgs] /\ shown \subseteq MIXED..MaxMsgs
      /\ ShowInv
  <2>1. ASSUME menu = "segv" PROVE menu' = "segv"
    <3>1. ~Running
      BY <2>1 DEF Running
    <3>2. ~(FirstLine \/ FirstGroup \/ Copy \/ SecondLine \/ Answer \/ del_head \/ Exit)
      BY <2>1 DEF FirstLine, FirstGroup, Copy, SecondLine, Answer, del_head, Exit
    <3>3. ~(Recv \/ NewNode \/ RecvRequest \/ RecvPiece \/ SenderGone \/ RecvEof)
      BY <3>1 DEF Recv, NewNode, RecvRequest, RecvPiece, SenderGone, RecvEof
    <3> QED BY <2>1, <3>2, <3>3 DEF Next, vars
  <2> QED BY <2>1, TypeStep DEF ThreadInv, TypeOK
<1>1. /\ menu # "segv" /\ \A x \in Nodes : request[x] <= Top /\ request[x] \in Int
      /\ \A r \in shown : r <= Top /\ r \in Int
  <2>1. MIXED..MaxMsgs \subseteq Int
    BY MsgsAssumption DEF MIXED
  <2> QED BY <1>0, <2>1 DEF BoundInv
<1>2. /\ Top \in Int /\ msg.n \in Nat /\ Top <= msg.n /\ (~Waiting => Top = msg.n)
  BY <1>0, TopGrows
<1>3. Top' \in Int /\ msg'.n \in Nat /\ Top' <= msg'.n /\ (~Waiting' => Top' = msg'.n)
  <2>1. msg'.n \in Nat
    BY <1>0, MsgsAssumption DEF TypeOK
  <2> QED BY <2>1 DEF Top
<1>4. ASSUME Top <= Top', UNCHANGED <<request, shown>> PROVE BoundInv'
  BY <1>1, <1>2, <1>3, <1>4 DEF BoundInv
<1>5. CASE Recv
  <2>1. /\ recv = "recv" /\ msg'.n = msg.n + 1 /\ UNCHANGED <<showVars, listVars>>
    BY <1>0, <1>5, RecvStep
  <2>2. Top = msg.n /\ (Top' = msg'.n \/ Top' = msg'.n - 1)
    BY <2>1 DEF Top, Waiting
  <2> QED BY <1>2, <1>4, <2>1, <2>2 DEF showVars, listVars
<1>6. CASE NewNode
  <2>1. PICK n \in Nodes : /\ request' = [request EXCEPT ![n] = MIXED] /\ Waiting /\ Waiting'
                           /\ UNCHANGED <<showVars, serverVars>>
    BY <1>0, <1>6, NewNodeStep
  <2>2. Top' = Top /\ shown' = shown
    BY <2>1 DEF Top, serverVars, showVars
  <2>3. MIXED <= Top
    <3>1. Waiting /\ msg.n > 0
      BY <1>0, <1>6, <2>1 DEF NewNode, ThreadInv, MsgInv
    <3> QED BY <1>2, <3>1 DEF Top, MIXED
  <2> QED BY <1>0, <1>1, <2>1, <2>2, <2>3 DEF BoundInv
<1>7. CASE RecvRequest
  <2>1. /\ msg.cmd \in Lists /\ msg.n \in 1..MaxMsgs /\ new_node \in Nodes /\ Waiting
        /\ charu_list(msg.cmd, new_node) /\ UNCHANGED <<showVars, serverVars, new_node, used>>
    BY <1>7, RequestPlace
  <2>2. recv' \in {"recv", "hung"} /\ request' = [request EXCEPT ![new_node] = msg.n]
    BY <1>0, <2>1, NodeStep
  <2>3. Top' = msg.n /\ shown' = shown
    BY <2>1, <2>2 DEF Top, Waiting, serverVars, showVars
  <2>4. \A k \in Int : k <= Top => k <= msg.n
    BY <1>2
  <2> QED BY <1>0, <1>1, <1>2, <2>1, <2>2, <2>3, <2>4 DEF BoundInv
<1>8. CASE RecvPiece
  <2>1. /\ recv = "file" /\ recv' \in {"recv", "file"} /\ msg.n <= msg'.n
        /\ UNCHANGED <<showVars, listVars>>
    BY <1>8, PieceStep
  <2>2. Top = msg.n /\ Top' = msg'.n
    BY <2>1 DEF Top, Waiting
  <2> QED BY <1>4, <2>1, <2>2 DEF showVars, listVars
<1>9. CASE RecvEof
  <2>1. /\ ~Waiting /\ ~Waiting' /\ msg' = msg /\ UNCHANGED <<request, shown>>
    BY <1>9 DEF RecvEof, Waiting, serverVars, showVars, listVars
  <2> QED BY <1>2, <1>3, <1>4, <2>1
<1>10. ASSUME UNCHANGED <<recv, msg, request>> PROVE Top' = Top /\ Top <= Top'
  BY <1>2, <1>10 DEF Top, Waiting
<1>11. CASE Showing
  <2>1. /\ UNCHANGED <<recv, serverVars, listVars>> /\ menu \in {"face", "copy", "line"}
    BY <1>11, ShowStep
  <2>2. Top' = Top /\ UNCHANGED request
    BY <1>10, <2>1 DEF serverVars, listVars
  <2>3. ASSUME NEW r \in shown' PROVE r \in shown \/ \E x \in Nodes : r = request[x]
    <3>1. \A t \in Lists : head[t] # NULL => \E x \in Nodes : First(t) = request[x]
      BY <1>0, FirstType DEF First
    <3>2. 14 \in Lists /\ list \in Lists /\ (menu \in {"copy", "line"} => head[list] # NULL)
      BY <1>0 DEF TypeOK, Lists, ShowInv
    <3>3. CASE FirstLine
      BY <3>1, <3>2, <3>3, <2>3 DEF FirstLine
    <3>4. CASE FirstGroup
      BY <3>4, <2>3 DEF FirstGroup
    <3>5. CASE Copy
      BY <3>1, <3>2, <3>5, <2>3 DEF Copy
    <3>6. CASE SecondLine
      BY <3>1, <3>2, <3>6, <2>3 DEF SecondLine
    <3> QED BY <1>11, <3>3, <3>4, <3>5, <3>6 DEF Showing
  <2> QED BY <1>1, <2>2, <2>3 DEF BoundInv
<1>12. SenderGone \/ Answer \/ del_head \/ Exit \/ UNCHANGED vars => UNCHANGED <<recv, msg, request, shown>>
  BY DEF SenderGone, Answer, del_head, Exit, vars, listVars, serverVars, showVars
<1> QED BY <1>4, <1>5, <1>6, <1>7, <1>8, <1>9, <1>10, <1>11, <1>12 DEF Next, Showing

\* A request that is copied is what the lines around the copy agree on.
LEMMA ShowNext ==
  ASSUME ThreadInv, [Next]_vars
  PROVE  ShowInv'
<1>0. /\ TypeOK /\ ShowInv /\ BoundInv /\ MsgInv /\ list \in Lists /\ used \subseteq Nodes
      /\ request \in [Nodes -> MIXED..MaxMsgs] /\ head \in [Lists -> Nodes \cup {NULL}]
      /\ 14 \in Lists /\ NULL \notin Nodes
  <2>1. 14 \in Lists /\ NULL \notin Nodes
    BY DEF Lists, Nodes, NULL
  <2> QED BY <2>1 DEF ThreadInv, TypeOK
<1>1. CASE UNCHANGED <<menu, showVars, listVars>>
  BY <1>0, <1>1 DEF ShowInv, First, showVars, listVars
<1>2. Recv \/ RecvPiece \/ SenderGone \/ RecvEof \/ UNCHANGED vars => UNCHANGED <<menu, showVars, listVars>>
  BY DEF Recv, RecvPiece, SenderGone, RecvEof, vars
<1>3. CASE menu' \notin {"copy", "line", "asked"}
  BY <1>3 DEF ShowInv
<1>4. Answer \/ del_head \/ Exit => menu' \notin {"copy", "line", "asked"}
  BY DEF Answer, del_head, Exit
<1>5. CASE NewNode
  <2>1. PICK n \in Nodes : /\ n \notin used /\ used' = used \cup {n}
                           /\ request' = [request EXCEPT ![n] = MIXED]
                           /\ UNCHANGED <<menu, showVars, head>>
    BY <1>0, <1>5, NewNodeStep
  <2>2. UNCHANGED <<menu, list, message, shown, head>>
    BY <2>1 DEF showVars
  <2>3. head[14] \notin used' => head[14] \notin used /\ First(14)' = First(14)
    BY <1>0, <2>1, <2>2 DEF First
  <2>4. head[14] \in used => First(14)' = First(14)
    BY <1>0, <2>1, <2>2 DEF First
  <2> QED BY <1>0, <2>2, <2>3, <2>4 DEF ShowInv
<1>6. CASE RecvRequest
  <2>1. /\ msg.cmd \in Lists /\ msg.n \in 1..MaxMsgs /\ new_node \in Nodes /\ new_node \in used /\ Waiting
        /\ charu_list(msg.cmd, new_node) /\ Running
        /\ UNCHANGED <<showVars, serverVars, new_node, used>>
    BY <1>6, RequestPlace
  <2>2. /\ menu' \in {menu, "segv"} /\ request' = [request EXCEPT ![new_node] = msg.n]
        /\ \A x \in Lists : head[x] # NULL => head'[x] = head[x]
    BY <1>0, <2>1, NodeStep
  <2>3. UNCHANGED <<list, message, shown, used>>
    BY <2>1 DEF showVars
  <2>4. CASE menu' = "segv"
    BY <2>4 DEF ShowInv
  <2>5. CASE menu' = menu
    <3>1. menu \in {"copy", "line"} => head[list] # NULL /\ head'[list] = head[list] /\ head'[list] \in Nodes
      BY <1>0, <2>2 DEF ShowInv
    <3>2. \A r \in shown : r # msg.n
      <4>1. menu # "segv" /\ \A r \in shown : r <= msg.n - 1
        BY <1>0, <2>1 DEF Running, BoundInv, Top
      <4>2. shown \subseteq Int
        BY <1>0, MsgsAssumption DEF TypeOK, MIXED
      <4> QED BY <2>1, <4>1, <4>2, MsgsAssumption
    <3>3. /\ head[14] # NULL /\ head[14] \notin used => head'[14] = head[14] /\ First(14)' = First(14)
          /\ head[14] # NULL => head'[14] = head[14] /\ (First(14)' = First(14) \/ First(14)' = msg.n)
      BY <1>0, <2>1, <2>2 DEF First
    <3> QED BY <1>0, <2>3, <2>5, <3>1, <3>2, <3>3 DEF ShowInv
  <2> QED BY <2>2, <2>4, <2>5
<1>7. CASE FirstLine
  <2>1. /\ menu' = "copy" /\ list' = 14 /\ shown' = {First(14)} /\ head[14] # NULL /\ UNCHANGED listVars
    BY <1>7 DEF FirstLine
  <2>2. UNCHANGED <<head, request, used>> /\ First(14)' = First(14)
    BY <2>1 DEF listVars, First
  <2> QED BY <2>1, <2>2 DEF ShowInv
<1>8. CASE FirstGroup
  <2>1. /\ menu' = "copy" /\ list' = 23 /\ head[23] # NULL /\ UNCHANGED listVars
    BY <1>8 DEF FirstGroup
  <2>2. UNCHANGED <<head, request, used>>
    BY <2>1 DEF listVars
  <2> QED BY <2>1, <2>2 DEF ShowInv
<1>9. CASE Copy
  <2>1. /\ menu = "copy" /\ message' = First(list) /\ list' = list /\ UNCHANGED listVars
        /\ \/ list = 14 /\ menu' = "line" /\ shown' = shown
           \/ list = 23 /\ menu' = "asked" /\ shown' = {message'}
    BY <1>9 DEF Copy
  <2>2. UNCHANGED <<head, request, used>> /\ First(14)' = First(14)
    BY <2>1 DEF listVars, First
  <2> QED BY <1>0, <2>1, <2>2 DEF ShowInv
<1>10. CASE SecondLine
  <2>1. /\ menu = "line" /\ menu' = "asked" /\ shown' = shown \cup {First(list)} /\ message' = message
    BY <1>10 DEF SecondLine
  <2> QED BY <1>0, <2>1 DEF ShowInv
<1> QED BY <1>1, <1>2, <1>3, <1>4, <1>5, <1>6, <1>7, <1>8, <1>9, <1>10 DEF Next


\* No step but Answer touches the answers.
LEMMA AnswersStay ==
  ASSUME [Next]_vars
  PROVE  Answer \/ UNCHANGED answers
BY DEF Next, Recv, NewNode, RecvRequest, RecvPiece, SenderGone, RecvEof, FirstLine, FirstGroup,
       Copy, SecondLine, del_head, Exit, vars

LEMMA SeenStep ==
  ASSUME ThreadInv, [Next]_vars
  PROVE  SeenInv'
<1>0. TypeOK /\ AnswerType /\ SeenInv /\ ShowInv /\ AnswerType'
  <2>1. TypeOK /\ TypeOK'
    BY TypeStep DEF ThreadInv
  <2>2. AnswerType /\ AnswerType'
    BY <2>1 DEF TypeOK, Answers, AnswerType
  <2> QED BY <2>1, <2>2 DEF ThreadInv
<1>1. CASE UNCHANGED answers
  BY <1>0, <1>1 DEF SeenInv
<1>2. CASE Answer
  <2>1. DOMAIN answers' = 1..Len(answers') /\ DOMAIN answers = 1..Len(answers) /\ Len(answers) \in Nat
    BY <1>0, LenProperties DEF AnswerType
  <2>2. ASSUME NEW i \in DOMAIN answers', NEW r \in answers'[i].shown, answers'[i].shown = {r}
        PROVE  answers'[i].req = r
    <3>1. Len(answers') = Len(answers) + 1
      BY <1>0, <1>2, Answered
    <3>2. i \in 1..Len(answers) \/ i = Len(answers) + 1
      BY <2>1, <3>1
    <3>3. CASE i = Len(answers) + 1
      <4>1. answers'[i].shown = shown /\ answers'[i].req = message /\ menu = "asked"
        BY <1>0, <1>2, <3>3, Answered
      <4> QED BY <1>0, <2>2, <4>1 DEF ShowInv
    <3>4. CASE i \in 1..Len(answers)
      <4>1. answers'[i] = answers[i]
        BY <1>0, <1>2, <3>4, Answered
      <4> QED BY <1>0, <2>1, <2>2, <3>4, <4>1 DEF SeenInv
    <3> QED BY <3>2, <3>3, <3>4
  <2> QED BY <2>2 DEF SeenInv
<1> QED BY <1>1, <1>2, AnswersStay

\* Both lists stay right when nothing touches them.
LEMMA ListsStay ==
  ASSUME TwoLists, UNCHANGED listVars, recv' = "fill" => recv = "fill"
  PROVE  TwoLists'
<1>1. PICK c, d : Holds(14, c) /\ Holds(23, d) /\ Apart(c, d) /\ Outside(c) /\ Outside(d)
  BY DEF TwoLists
<1>2. Holds(14, c)' /\ Holds(23, d)'
  BY <1>1 DEF Holds, Linking, listVars
<1>3. Apart(c, d)'
  BY <1>1 DEF Apart
<1>4. Outside(c)' /\ Outside(d)'
  BY <1>1 DEF Outside, listVars
<1> QED BY <1>2, <1>3, <1>4 DEF TwoLists

\* malloc gives charu_list a node that is in neither list.
LEMMA NewNodeLists ==
  ASSUME TypeOK, TwoLists, NewNode
  PROVE  TwoLists'
<1>1. PICK c, d : Holds(14, c) /\ Holds(23, d) /\ Apart(c, d) /\ Outside(c) /\ Outside(d)
  BY DEF TwoLists
<1>2. PICK n \in Nodes \ used :
        /\ new_node' = n /\ used' = used \cup {n} /\ request' = [request EXCEPT ![n] = MIXED]
        /\ UNCHANGED <<head, next, arrived>>
  BY NewNodeStep
<1>3. request \in [Nodes -> MIXED..MaxMsgs]
  BY DEF TypeOK
<1>4. ASSUME NEW t \in Lists, NEW e, Holds(t, e)
      PROVE  Holds(t, e)' /\ Outside(e)'
  <2>1. Linking(e, head[t], next) /\ e \in Seq(Nodes)
    BY <1>4 DEF Holds, Linking
  <2>2. \A k \in 1..Len(e) : e[k] \in Nodes
    BY <2>1, ElementOfSeq
  <2>3. \A k \in 1..Len(e) : e[k] # n /\ e[k] \in used' /\ request'[e[k]] = request[e[k]]
    BY <1>2, <1>3, <1>4, <2>2 DEF Holds
  <2> QED BY <1>2, <1>4, <2>1, <2>3 DEF Holds, Linking, Outside
<1>5. Apart(c, d)'
  BY <1>1 DEF Apart
<1>6. 14 \in Lists /\ 23 \in Lists
  BY DEF Lists
<1> QED BY <1>1, <1>4, <1>5, <1>6 DEF TwoLists

\* The first node of a list that is right holds the request that came first.
LEMMA FirstHeld ==
  ASSUME TypeOK, TwoLists, NEW t \in Lists, head[t] # NULL
  PROVE  arrived[t] # << >> /\ head[t] \in used /\ First(t) = arrived[t][1]
<1>1. PICK e : Holds(t, e)
  BY DEF TwoLists, Lists
<1>2. e # << >> /\ e \in Seq(Nodes) /\ head[t] = e[1] /\ Len(e) = Len(arrived[t])
  BY <1>1 DEF Holds, Linking
<1>3. Len(e) # 0 /\ Len(e) \in Nat
  BY <1>2, EmptySeq, LenProperties
<1>4. arrived[t] \in Seq(1..MaxMsgs)
  BY DEF TypeOK
<1>5. arrived[t] # << >>
  BY <1>2, <1>3, <1>4, EmptySeq
<1>6. 1 \in 1..Len(e)
  BY <1>3
<1>7. e[1] \in used /\ request[e[1]] = arrived[t][1]
  BY <1>1, <1>6 DEF Holds
<1> QED BY <1>2, <1>5, <1>7 DEF First


\* A request is put into its list, before any answer.
LEMMA RequestStep ==
  ASSUME ThreadInv, Unanswered, RecvRequest
  PROVE  ListInv'
<1>0. /\ TypeOK /\ Count /\ TwoLists /\ FirstShown /\ list \in Lists
      /\ menu \notin {"lock", "segv", "abort"}
  BY DEF ThreadInv, TypeOK, ListInv
<1>1. /\ msg.cmd \in Lists /\ msg.n \in 1..MaxMsgs /\ new_node \in Nodes /\ new_node \in used
      /\ charu_list(msg.cmd, new_node) /\ recv = "fill" /\ Waiting
      /\ UNCHANGED <<list, message, shown, msg, answers, new_node, used>>
  BY RequestPlace DEF showVars, serverVars
<1>2. PICK n \in Nodes, t \in Lists, r \in 1..MaxMsgs :
           n = new_node /\ t = msg.cmd /\ r = msg.n /\ charu_list(t, n)
  BY <1>1
<1>4. PICK c, d : Holds(14, c) /\ Holds(23, d) /\ Apart(c, d) /\ Outside(c) /\ Outside(d)
  BY <1>0 DEF TwoLists
<1>5. /\ Len(arrived[14]) \in Nat /\ Len(arrived[23]) \in Nat /\ Len(c) = Len(arrived[14])
      /\ Len(d) = Len(arrived[23]) /\ arrived \in [Lists -> Seq(1..MaxMsgs)]
  <2>0. arrived \in [Lists -> Seq(1..MaxMsgs)]
    BY <1>0 DEF TypeOK
  <2>1. arrived[14] \in Seq(1..MaxMsgs) /\ arrived[23] \in Seq(1..MaxMsgs)
    BY <2>0 DEF Lists
  <2>2. Len(arrived[14]) \in Nat /\ Len(arrived[23]) \in Nat
    BY <2>1, LenProperties
  <2> QED BY <1>4, <2>0, <2>2 DEF Holds
<1>6. Len(arrived[14]) + Len(arrived[23]) + 1 <= msg.n
  BY <1>0, <1>1 DEF Count
<1>7. Len(c) <= MaxMsgs /\ Len(d) <= MaxMsgs
  <2>1. \A a, b \in Nat, m \in 1..MaxMsgs : a + b + 1 <= m => a <= MaxMsgs /\ b <= MaxMsgs
    BY MsgsAssumption
  <2> QED BY <1>1, <1>5, <1>6, <2>1
<1>8. TwoLists' /\ recv' = "recv" /\ menu' = menu
  <2>0. /\ \A k \in 1..Len(c) : c[k] # n
        /\ \A k \in 1..Len(d) : d[k] # n
        /\ n \in used /\ r = msg.n /\ used' = used /\ 14 \in Lists /\ 23 \in Lists
    BY <1>1, <1>2, <1>4 DEF Outside, Lists
  <2>1. CASE t = 14
    <3>1. /\ Holds(14, Append(c, n))' /\ Holds(23, d)' /\ Apart(Append(c, n), d)
          /\ recv' = "recv" /\ menu' = menu
      BY <1>0, <1>2, <1>4, <1>7, <2>0, <2>1, Linked
    <3>2. Apart(Append(c, n), d)'
      BY <1>2, <1>1, <3>1 DEF Apart
    <3>3. Outside(Append(c, n))' /\ Outside(d)'
      BY <3>1 DEF Outside
    <3> QED BY <3>1, <3>2, <3>3 DEF TwoLists
  <2>2. CASE t = 23
    <3>1. Apart(d, c)
      BY <1>4 DEF Apart
    <3>2. /\ Holds(23, Append(d, n))' /\ Holds(14, c)' /\ Apart(Append(d, n), c)
          /\ recv' = "recv" /\ menu' = menu
      BY <1>0, <1>2, <1>4, <1>7, <2>0, <2>2, <3>1, Linked
    <3>3. Apart(c, Append(d, n))
      BY <3>2 DEF Apart
    <3>4. Apart(c, Append(d, n))'
      BY <3>3 DEF Apart
    <3>5. Outside(Append(d, n))' /\ Outside(c)'
      BY <3>2 DEF Outside
    <3> QED BY <3>2, <3>4, <3>5 DEF TwoLists
  <2> QED BY <2>1, <2>2 DEF Lists
<1>9. arrived' = [arrived EXCEPT ![t] = Append(arrived[t], r)]
  BY <1>2 DEF charu_list
<1>10. Count'
  <2>1. Len(Append(arrived[t], r)) = Len(arrived[t]) + 1
    BY <1>5, AppendProperties
  <2>2. PICK a \in Nat, b \in Nat : a = Len(arrived[14]) /\ b = Len(arrived[23])
    BY <1>5
  <2>3. PICK p, q : p = Len(arrived'[14]) /\ q = Len(arrived'[23])
    OBVIOUS
  <2>4. t = 14 => p = a + 1 /\ q = b
    <3> SUFFICES ASSUME t = 14 PROVE p = a + 1 /\ q = b
      OBVIOUS
    <3>1. arrived'[14] = Append(arrived[14], r) /\ arrived'[23] = arrived[23]
      BY <1>5, <1>9 DEF Lists
    <3> QED BY <2>1, <2>2, <2>3, <3>1
  <2>5. t = 23 => p = a /\ q = b + 1
    <3> SUFFICES ASSUME t = 23 PROVE p = a /\ q = b + 1
      OBVIOUS
    <3>1. arrived'[23] = Append(arrived[23], r) /\ arrived'[14] = arrived[14]
      BY <1>5, <1>9 DEF Lists
    <3> QED BY <2>1, <2>2, <2>3, <3>1
  <2>6. p + q + 0 = a + b + 1
    BY <2>4, <2>5 DEF Lists
  <2>7. ~Waiting'
    BY <1>8 DEF Waiting
  <2> QED BY <1>1, <1>6, <2>2, <2>3, <2>6, <2>7 DEF Count
<1>11. ASSUME head[list] # NULL
       PROVE  head'[list] = head[list] /\ arrived'[list][1] = arrived[list][1]
  <2>1. head'[list] = head[list]
    BY <1>0, <1>1, <1>11, NodeStep
  <2>2. arrived[list] # << >>
    BY <1>0, <1>11, FirstHeld
  <2>3. arrived[list] \in Seq(1..MaxMsgs) /\ 1 \in 1..Len(arrived[list])
    BY <1>0, <1>5, <2>2, EmptySeq, LenProperties
  <2>4. Append(arrived[list], r)[1] = arrived[list][1]
    BY <2>3, AppendProperties
  <2> QED BY <1>0, <1>5, <1>9, <2>1, <2>4
<1>12. FirstShown'
  BY <1>0, <1>1, <1>8, <1>11 DEF FirstShown
<1> QED BY <1>0, <1>8, <1>10, <1>12 DEF ListInv

LEMMA ListStep ==
  ASSUME ThreadInv, [Next]_vars
  PROVE  ListInv'
<1> SUFFICES ASSUME Unanswered' PROVE ListInv'
  BY DEF ListInv
<1>0. TypeOK /\ AnswerType /\ AnswerType' /\ list \in Lists /\ 14 \in Lists /\ 23 \in Lists
  <2>1. TypeOK /\ TypeOK' /\ 14 \in Lists /\ 23 \in Lists
    BY TypeStep DEF ThreadInv, Lists
  <2> QED BY <2>1 DEF TypeOK, Answers, AnswerType
<1>1. UNCHANGED answers /\ ~Answer
  <2>1. CASE Answer
    <3>1. Len(answers') = Len(answers) + 1 /\ Len(answers) \in Nat
      BY <1>0, <2>1, Answered
    <3>2. DOMAIN answers' = 1..Len(answers')
      BY <1>0, LenProperties DEF AnswerType
    <3>3. 1 \in DOMAIN answers'
      BY <3>1, <3>2
    <3> QED BY <3>3 DEF Unanswered
  <2> QED BY <2>1, AnswersStay
<1>2. Unanswered
  BY <1>1 DEF Unanswered
<1>3. /\ menu \notin {"lock", "segv", "abort"} /\ recv # "hung" /\ Count /\ TwoLists /\ FirstShown
  BY <1>2 DEF ThreadInv, ListInv
<1>4. msg.n \in Nat /\ Len(arrived[14]) \in Nat /\ Len(arrived[23]) \in Nat
  <2>1. arrived[14] \in Seq(1..MaxMsgs) /\ arrived[23] \in Seq(1..MaxMsgs)
    BY <1>0 DEF TypeOK
  <2>2. msg.n \in Nat
    BY <1>0, MsgsAssumption DEF TypeOK
  <2> QED BY <2>1, <2>2, LenProperties
<1>5. ASSUME NEW m \in Nat, msg.n <= m PROVE Len(arrived[14]) + Len(arrived[23]) + 0 <= m
  <2>1. \A a, b, k \in Nat : a + b + 1 <= k \/ a + b + 0 <= k => (k <= m => a + b + 0 <= m)
    OBVIOUS
  <2> QED BY <1>3, <1>4, <1>5, <2>1 DEF Count
\* A step that leaves the lists alone.
<1>6. ASSUME UNCHANGED listVars, Count', menu' \notin {"lock", "segv", "abort"}, recv' # "hung",
             recv' = "fill" => recv = "fill", FirstShown'
      PROVE  ListInv'
  <2>1. TwoLists'
    BY <1>3, <1>6, ListsStay
  <2> QED BY <1>6, <2>1 DEF ListInv
<1>7. ASSUME UNCHANGED <<menu, showVars>>, UNCHANGED <<head, arrived>>
      PROVE  FirstShown' /\ menu' \notin {"lock", "segv", "abort"}
  BY <1>3, <1>7 DEF FirstShown, showVars
<1>8. UNCHANGED listVars => UNCHANGED <<head, arrived>>
  BY DEF listVars
<1>9. ASSUME UNCHANGED arrived, msg'.n \in Nat, msg.n <= msg'.n, ~Waiting' PROVE Count'
  BY <1>5, <1>9 DEF Count
<1>10. CASE Recv
  <2>1. /\ recv' \in {"recv", "lock", "file"} /\ recv = "recv" /\ msg'.n = msg.n + 1
        /\ UNCHANGED <<menu, showVars, listVars>>
    BY <1>0, <1>10, RecvStep
  <2>2. Len(arrived[14]) + Len(arrived[23]) + 0 <= msg.n
    BY <1>3, <2>1 DEF Count, Waiting
  <2>3. \A a, b, k \in Nat : a + b + 0 <= k => a + b + 0 <= k + 1 /\ a + b + 1 <= k + 1
    OBVIOUS
  <2>4. /\ Len(arrived[14]) + Len(arrived[23]) + 0 <= msg.n + 1
        /\ Len(arrived[14]) + Len(arrived[23]) + 1 <= msg.n + 1
    BY <1>4, <2>2, <2>3
  <2>5. Count'
    BY <1>8, <2>1, <2>4 DEF Count
  <2> QED BY <1>6, <1>7, <1>8, <2>1, <2>5
<1>11. CASE NewNode
  <2>1. /\ Waiting /\ Waiting' /\ recv' = "fill"
        /\ UNCHANGED <<menu, showVars, serverVars, head, arrived>>
    BY <1>0, <1>11, NewNodeStep
  <2>2. TwoLists'
    BY <1>0, <1>3, <1>11, NewNodeLists
  <2>3. Count'
    BY <1>3, <2>1 DEF Count, serverVars
  <2> QED BY <1>7, <2>1, <2>2, <2>3 DEF ListInv
<1>12. CASE RecvRequest
  BY <1>2, <1>12, RequestStep
<1>13. CASE RecvPiece
  <2>1. /\ recv' \in {"recv", "file"} /\ msg'.n \in 1..MaxMsgs /\ msg.n <= msg'.n
        /\ UNCHANGED <<menu, showVars, listVars>>
    BY <1>13, PieceStep
  <2>2. msg'.n \in Nat /\ ~Waiting'
    BY <2>1, MsgsAssumption DEF Waiting
  <2>3. Count'
    BY <1>8, <1>9, <2>1, <2>2
  <2> QED BY <1>6, <1>7, <1>8, <2>1, <2>3
<1>14. CASE RecvEof
  <2>1. recv' \in {"eof", "ended"} /\ UNCHANGED <<menu, showVars, serverVars, listVars>>
    BY <1>14 DEF RecvEof
  <2>2. msg'.n \in Nat /\ msg.n <= msg'.n /\ ~Waiting'
    BY <1>4, <2>1 DEF Waiting, serverVars
  <2>3. Count'
    BY <1>8, <1>9, <2>1, <2>2
  <2> QED BY <1>6, <1>7, <1>8, <2>1, <2>3
\* The menu thread.
<1>15. UNCHANGED <<recv, msg, arrived>> => Count'
  BY <1>3 DEF Count, Waiting
<1>16. CASE Showing
  <2>1. UNCHANGED <<recv, msg, listVars>> /\ menu' \in {"copy", "line", "asked"}
    BY <1>16, ShowStep DEF serverVars
  <2>2. \A t \in Lists : head[t] # NULL => First(t) = arrived[t][1]
    BY <1>0, <1>3, FirstHeld
  <2>3. FirstShown'
    <3>1. head' = head /\ arrived' = arrived
      BY <1>8, <2>1
    <3>2. CASE FirstLine
      BY <1>0, <2>2, <3>1, <3>2 DEF FirstLine, FirstShown
    <3>3. CASE FirstGroup
      BY <3>1, <3>3 DEF FirstGroup, FirstShown
    <3>4. CASE Copy
      BY <1>0, <1>3, <2>2, <3>1, <3>4 DEF Copy, FirstShown
    <3>5. CASE SecondLine
      BY <1>0, <1>3, <2>2, <3>1, <3>5 DEF SecondLine, FirstShown
    <3> QED BY <1>16, <3>2, <3>3, <3>4, <3>5 DEF Showing
  <2> QED BY <1>3, <1>6, <1>8, <1>15, <2>1, <2>3
<1>17. ~del_head
  BY <1>3 DEF del_head
<1>18. CASE Exit
  <2>1. menu' = "exit" /\ UNCHANGED <<recv, msg, listVars>>
    BY <1>18 DEF Exit, serverVars
  <2>2. FirstShown'
    BY <2>1 DEF FirstShown
  <2> QED BY <1>3, <1>6, <1>8, <1>15, <2>1, <2>2
<1>19. CASE SenderGone \/ UNCHANGED vars
  <2>1. UNCHANGED <<menu, showVars, recv, msg, listVars>>
    BY <1>19 DEF SenderGone, vars, serverVars
  <2> QED BY <1>3, <1>6, <1>7, <1>8, <1>15, <2>1
<1> QED BY <1>1, <1>10, <1>11, <1>12, <1>13, <1>14, <1>16, <1>17, <1>18, <1>19 DEF Next, Showing


\* A MSG is complete when its last piece has come.
LEMMA Pieces ==
  ASSUME sum \in 0..(Parts - 1), NEW k \in 1..(Parts - sum)
  PROVE  Complete(sum, k) <=> NewSum(sum, k) = 0
<1>1. PICK m \in Nat : m = sum + k /\ m > 0 /\ m <= Parts
  BY PartsAssumption
<1>2. m = Parts => m % Parts = 0
  BY PartsAssumption
<1>3. m < Parts => m % Parts = m
  BY <1>1, PartsAssumption
<1> QED BY <1>1, <1>2, <1>3, PartsAssumption DEF Complete, NewSum


LEMMA FileStep ==
  ASSUME ThreadInv, [Next]_vars
  PROVE  PartInv' /\ FileInStep'
<1>0. /\ TypeOK /\ PartInv /\ FileInStep /\ sum \in 0..(Parts - 1)
      /\ sending \in BOOLEAN /\ msg.full \in BOOLEAN /\ 6 \notin Lists
  <2>1. TypeOK /\ PartInv /\ FileInStep
    BY DEF ThreadInv
  <2>2. sum \in 0..(Parts - 1) /\ sending \in BOOLEAN
    BY <2>1 DEF TypeOK
  <2>3. msg \in [n : 0..MaxMsgs, cmd : Lists \cup {0, 6, 11}, full : BOOLEAN]
    BY <2>1 DEF TypeOK
  <2>4. 6 \notin Lists
    BY DEF Lists
  <2> QED BY <2>1, <2>2, <2>3, <2>4
<1>1. CASE Recv
  <2>1. PICK c \in Lists \cup {11, 6}, full \in BOOLEAN :
             /\ Sends(c, full)
             /\ recv' = CASE c \in Lists -> "lock" [] c = 6 -> "file" [] OTHER -> "recv"
             /\ IF c = 6 THEN sum' = 0 /\ written' = << >> ELSE UNCHANGED <<sum, written>>
    BY <1>1 DEF Recv
  <2> SUFFICES ASSUME ~gone' PROVE PartInv' /\ FileInStep'
    BY DEF PartInv, FileInStep
  <2>2. recv = "recv" /\ ~gone
    BY <1>1, <2>1 DEF Recv, Sends
  <2>3. ~sending /\ sum = 0 /\ sent = written
    BY <1>0, <2>2 DEF FileInStep
  <2>4. ~full /\ sending' = (c = 6) /\ sent' = IF c = 6 THEN << >> ELSE sent
    BY <2>1, <2>3 DEF Sends
  <2>5. sum' = 0 /\ written' = (IF c = 6 THEN << >> ELSE written) /\ (recv' = "file" <=> c = 6)
    BY <1>0, <2>1, <2>3
  <2> QED BY <2>3, <2>4, <2>5 DEF PartInv, FileInStep
<1>2. CASE RecvPiece
  <2> SUFFICES ASSUME ~gone' PROVE PartInv' /\ FileInStep'
    BY DEF PartInv, FileInStep
  <2>1. PICK k \in 1..(Parts - sum) :
           /\ sum' = NewSum(sum, k)
           /\ IF Complete(sum, k) /\ msg'.full
                THEN written' = Append(written, msg'.n) ELSE written' = written
           /\ recv' = IF Complete(sum, k) /\ ~msg'.full THEN "recv" ELSE "file"
    BY <1>2 DEF RecvPiece
  <2>2. Complete(sum, k) <=> sum' = 0
    BY <1>0, <2>1, Pieces
  <2>3. recv = "file" /\ ~gone
    BY <1>2 DEF RecvPiece, Sends, serverVars
  <2>4. (sending' <=> msg'.full) /\ sent' = IF msg'.full THEN Append(written, msg'.n) ELSE written
    <3>1. CASE sum = 0
      <4>1. PICK c \in Lists \cup {11, 6}, full \in BOOLEAN : Sends(c, full)
        BY <1>2, <3>1 DEF RecvPiece
      <4>2. sending /\ sent = written
        BY <1>0, <2>3, <3>1 DEF FileInStep
      <4>3. msg'.full = full /\ msg'.n = msg.n + 1
        BY <1>0, <4>1, SendsStep
      <4> QED BY <4>1, <4>2, <4>3 DEF Sends
    <3>2. CASE sum # 0
      <4>1. UNCHANGED <<msg, sending, sent>>
        BY <1>2, <3>2 DEF RecvPiece, serverVars
      <4>2. (sending <=> msg.full) /\ sent = IF msg.full THEN Append(written, msg.n) ELSE written
        BY <1>0, <2>3, <3>2 DEF PartInv, FileInStep
      <4> QED BY <4>1, <4>2
    <3> QED BY <3>1, <3>2
  <2>5. CASE sum' = 0
    <3>1. /\ written' = IF msg'.full THEN Append(written, msg'.n) ELSE written
          /\ recv' = IF msg'.full THEN "file" ELSE "recv"
      BY <2>1, <2>2, <2>5
    <3> QED BY <2>4, <2>5, <3>1 DEF PartInv, FileInStep
  <2>6. CASE sum' # 0
    <3>1. written' = written /\ recv' = "file"
      BY <2>1, <2>2, <2>6
    <3> QED BY <2>4, <2>6, <3>1 DEF PartInv, FileInStep
  <2> QED BY <2>5, <2>6
<1>3. CASE SenderGone
  BY <1>3 DEF SenderGone, PartInv, FileInStep
<1>4. CASE RecvEof
  <2>1. recv' \in {"eof", "ended"}
    BY <1>4 DEF RecvEof
  <2> QED BY <2>1 DEF PartInv, FileInStep
\* Elsewhere server_message is not in recv_file, and the file is left alone.
<1>5. ASSUME UNCHANGED <<sum, written, serverVars>>,
             \/ UNCHANGED recv
             \/ recv \notin {"file", "eof", "ended"} /\ recv' \notin {"file", "eof", "ended"}
      PROVE  PartInv' /\ FileInStep'
  <2>1. UNCHANGED <<sum, written, msg, sending, sent, gone>>
    BY <1>5 DEF serverVars
  <2> QED BY <1>0, <1>5, <2>1 DEF PartInv, FileInStep
<1>6. CASE NewNode
  <2>1. recv = "lock" /\ recv' = "fill" /\ UNCHANGED <<sum, written, serverVars>>
    BY <1>6 DEF NewNode
  <2> QED BY <1>5, <2>1
<1>7. CASE RecvRequest
  <2>1. /\ msg.cmd \in Lists /\ msg.n \in 1..MaxMsgs /\ new_node \in Nodes /\ recv = "fill"
        /\ charu_list(msg.cmd, new_node) /\ UNCHANGED <<sum, written, serverVars, new_node, used>>
    BY <1>7, RequestPlace
  <2>2. recv' \in {"recv", "hung", recv}
    BY <1>0, <2>1, NodeStep
  <2> QED BY <1>5, <2>1, <2>2
<1>8. Showing \/ Answer \/ del_head \/ Exit \/ UNCHANGED vars => UNCHANGED <<recv, sum, written, serverVars>>
  BY DEF Showing, FirstLine, FirstGroup, Copy, SecondLine, Answer, del_head, Exit, vars
<1> QED BY <1>1, <1>2, <1>3, <1>4, <1>5, <1>6, <1>7, <1>8 DEF Next, Showing

LEMMA AnswerStep ==
  ASSUME ThreadInv, [Next]_vars
  PROVE  AnswerInv'
<1> SUFFICES ASSUME ~Unanswered' PROVE AnswerInv'
  BY DEF AnswerInv
<1>0. /\ TypeOK /\ AnswerType /\ ListInv /\ AnswerInv /\ list \in Lists /\ used \subseteq Nodes
      /\ arrived \in [Lists -> Seq(1..MaxMsgs)] /\ head \in [Lists -> Nodes \cup {NULL}]
  BY DEF ThreadInv, TypeOK, AnswerType, Answers
<1>1. /\ Unanswered <=> answers = << >>
      /\ Len(answers) \in Nat /\ (answers = << >> <=> Len(answers) = 0)
      /\ DOMAIN answers = 1..Len(answers)
  BY <1>0, NoAnswers
\* The first answer.
<1>2. CASE Unanswered
  <2>1. Answer
    BY <1>2, AnswersStay DEF Unanswered
  <2>2. /\ menu = "asked" /\ menu' = "lock" /\ UNCHANGED <<showVars, listVars>>
        /\ Len(answers') = 1 /\ answers'[1].list = list /\ answers'[1].req = message
        /\ answers'[1].shown = shown
    <3>1. Len(answers) + 1 = 1
      BY <1>1, <1>2
    <3> QED BY <1>0, <2>1, <3>1, Answered
  <2>3. /\ head[list] # NULL /\ message = arrived[list][1] /\ shown = {arrived[list][1]} /\ TwoLists
    BY <1>0, <1>2, <2>2 DEF ListInv, FirstShown
  <2>4. arrived[list] # << >> /\ head[list] \in used
    BY <1>0, <2>3, FirstHeld
  <2>5. arrived' = arrived /\ head' = head /\ used' = used /\ list' = list
    BY <2>2 DEF listVars, showVars
  <2> QED BY <2>2, <2>3, <2>4, <2>5 DEF AnswerInv
\* Later steps.
<1>3. CASE ~Unanswered
  <2>1. /\ arrived[answers[1].list] # << >> /\ answers[1].req = arrived[answers[1].list][1]
        /\ answers[1].shown = {answers[1].req}
        /\ menu = "lock" /\ Len(answers) = 1 => head[list] \in used
        /\ menu = "abort" => Len(answers) > 1
    BY <1>0, <1>3 DEF AnswerInv
  <2>2. Len(answers) \in Nat /\ Len(answers) > 0
    BY <1>1, <1>3
  <2>3. CASE Answer
    <3>1. /\ Len(answers') = Len(answers) + 1 /\ UNCHANGED listVars /\ menu' = "lock"
          /\ \A i \in 1..Len(answers) : answers'[i] = answers[i]
      BY <1>0, <2>3, Answered
    <3>2. answers'[1] = answers[1] /\ Len(answers') > 1 /\ Len(answers') # 1
      BY <2>2, <3>1
    <3>3. arrived' = arrived
      BY <3>1 DEF listVars
    <3> QED BY <2>1, <3>1, <3>2, <3>3 DEF AnswerInv
  <2>4. CASE RecvRequest
    <3>1. /\ msg.cmd \in Lists /\ msg.n \in 1..MaxMsgs /\ new_node \in Nodes
          /\ charu_list(msg.cmd, new_node) /\ UNCHANGED <<showVars, new_node, used, answers>>
      BY <2>4, RequestPlace
    <3>2. PICK t \in Lists, r \in 1..MaxMsgs : t = msg.cmd /\ r = msg.n
      BY <3>1
    <3>3. UNCHANGED <<list, answers, used>>
      BY <3>1 DEF showVars
    <3>4. /\ menu' \in {menu, "segv"}
          /\ \A x \in Lists : head[x] # NULL => head'[x] = head[x]
      BY <1>0, <3>1, NodeStep
    <3>5. arrived' = [arrived EXCEPT ![t] = Append(arrived[t], r)]
      BY <3>1, <3>2 DEF charu_list
    <3>6. head[list] \in used => head'[list] \in used'
      <4>1. head[list] \in used => head[list] # NULL
        BY <1>0 DEF Nodes, NULL
      <4> QED BY <1>0, <3>3, <3>4, <4>1
    <3>7. PICK l \in Lists : l = answers[1].list
      <4>1. 1 \in 1..Len(answers)
        BY <2>2
      <4>2. answers[1] \in Answers
        BY <1>0, <4>1, ElementOfSeq DEF AnswerType
      <4> QED BY <4>2 DEF Answers
    <3>8. arrived'[l] # << >> /\ arrived'[l][1] = arrived[l][1]
      <4>1. arrived[l] \in Seq(1..MaxMsgs) /\ arrived[l] # << >>
        BY <1>0, <2>1, <3>7
      <4>2. 1 \in 1..Len(arrived[l])
        BY <4>1, EmptySeq, LenProperties
      <4>3. Append(arrived[l], r) # << >> /\ Append(arrived[l], r)[1] = arrived[l][1]
        BY <4>1, <4>2, AppendProperties
      <4>4. arrived'[l] = arrived[l] \/ arrived'[l] = Append(arrived[l], r)
        BY <1>0, <3>5
      <4> QED BY <4>1, <4>3, <4>4
    <3> QED BY <2>1, <3>3, <3>4, <3>6, <3>7, <3>8 DEF AnswerInv
  <2>5. CASE del_head
    <3>1. /\ UNCHANGED <<showVars, arrived, answers>> /\ menu = "lock"
          /\ menu' = IF head[list] \in used THEN "face" ELSE "abort"
      BY <1>0, <2>5, Freed
    <3>2. menu' = "abort" => Len(answers) > 1
      <4>1. menu' = "abort" => Len(answers) # 1
        BY <2>1, <3>1
      <4>2. \A k \in Nat : k > 0 /\ k # 1 => k > 1
        OBVIOUS
      <4> QED BY <2>2, <4>1, <4>2
    <3>3. menu' # "lock"
      BY <3>1
    <3> QED BY <2>1, <3>1, <3>2, <3>3 DEF AnswerInv
  <2>6. ASSUME UNCHANGED <<head, arrived, answers>>, used \subseteq used',
               UNCHANGED <<menu, list>> \/ menu' \in {"copy", "line", "asked", "exit"}
        PROVE  AnswerInv'
    <3>1. CASE UNCHANGED <<menu, list>>
      BY <2>1, <2>6, <3>1 DEF AnswerInv
    <3>2. CASE menu' \in {"copy", "line", "asked", "exit"}
      BY <2>1, <2>6, <3>2 DEF AnswerInv
    <3> QED BY <2>6, <3>1, <3>2
  <2>7. ASSUME NewNode
        PROVE  /\ UNCHANGED <<head, arrived, answers>> /\ used \subseteq used'
               /\ UNCHANGED <<menu, list>>
    BY <2>7 DEF NewNode, showVars
  <2>8. ASSUME Recv \/ RecvPiece \/ SenderGone \/ RecvEof \/ Showing \/ Exit \/ UNCHANGED vars
        PROVE  /\ UNCHANGED <<listVars, answers>>
               /\ UNCHANGED <<menu, list>> \/ menu' \in {"copy", "line", "asked", "exit"}
    BY <2>8 DEF Recv, RecvPiece, SenderGone, RecvEof, Showing, FirstLine, FirstGroup, Copy, SecondLine,
                Exit, vars, showVars
  <2>9. UNCHANGED listVars => UNCHANGED <<head, arrived>> /\ used \subseteq used'
    BY DEF listVars
  <2> QED BY <2>3, <2>4, <2>5, <2>6, <2>7, <2>8, <2>9 DEF Next, Showing
<1> QED BY <1>2, <1>3

LEMMA ThreadInit == Init => ThreadInv
<1> SUFFICES ASSUME Init PROVE ThreadInv
  OBVIOUS
<1>1. TypeOK
  <2>1. << >> \in Seq(1..MaxMsgs) /\ << >> \in Seq(Answers)
    BY EmptySeq
  <2>2. /\ 0 \in 0..(Parts - 1) /\ 0 \in 0..MaxMsgs /\ 0 \in MIXED..MaxMsgs
        /\ NULL \in WILD..MaxMsgs /\ 14 \in Lists
    BY MsgsAssumption, PartsAssumption DEF NULL, WILD, MIXED, Lists
  <2>3. NodeType
    BY <2>1, <2>2 DEF Init, NodeType
  <2>4. FileType /\ AnswerType
    BY <2>1, <2>2 DEF Init, FileType, AnswerType
  <2>5. ServerType
    BY <2>1, <2>2 DEF Init, ServerType
  <2>6. ScreenType /\ Places
    BY <2>2 DEF Init, ScreenType, Places
  <2> QED BY <2>3, <2>4, <2>5, <2>6, Types
<1>2. MsgInv /\ PartInv /\ FileInStep /\ ShowInv
  BY DEF Init, MsgInv, Waiting, PartInv, FileInStep, ShowInv
<1>3. Unanswered /\ SeenInv
  BY DEF Init, Unanswered, SeenInv
<1>4. TwoLists
  <2>1. << >> \in Seq(Nodes) /\ Len(<< >>) = 0
    BY EmptySeq
  <2>2. ASSUME NEW t \in Lists PROVE Holds(t, << >>)
    <3>1. head[t] = NULL /\ arrived[t] = << >>
      BY DEF Init
    <3> QED BY <2>1, <3>1 DEF Holds, Linking
  <2>3. Apart(<< >>, << >>) /\ Outside(<< >>)
    BY <2>1 DEF Apart, Outside
  <2> QED BY <2>2, <2>3 DEF TwoLists, Lists
<1>5. Count
  <2>1. Len(arrived[14]) = 0 /\ Len(arrived[23]) = 0 /\ msg.n = 0 /\ ~Waiting
    BY DEF Init, Lists, Waiting
  <2> QED BY <2>1 DEF Count
<1>6. ListInv
  BY <1>3, <1>4, <1>5 DEF Init, ListInv, FirstShown
<1>7. AnswerInv
  BY <1>3 DEF AnswerInv
<1>8. BoundInv
  <2>1. Top = 0 /\ shown = {} /\ \A x \in Nodes : request[x] = 0
    BY DEF Init, Top, Waiting
  <2> QED BY <2>1 DEF BoundInv
<1> QED BY <1>1, <1>2, <1>3, <1>6, <1>7, <1>8 DEF ThreadInv

\* The inductive invariant holds always.
THEOREM ThreadsSafe == Spec => []ThreadInv
<1>1. Init => ThreadInv
  BY ThreadInit
<1>2. ThreadInv /\ [Next]_vars => ThreadInv'
  BY TypeStep, MsgStep, BoundStep, ListStep, ShowNext, AnswerStep, SeenStep, FileStep DEF ThreadInv
<1> QED BY <1>1, <1>2, PTL DEF Spec

-----------------------------------------------------------------------------
(* The properties                                                          *)

\* The nodes of two lists that are right.
LEMMA ListsRead ==
  ASSUME ThreadInv PROVE ListsRightUntilAnswer
<1> SUFFICES ASSUME Unanswered PROVE ListsRightUntilAnswer
  BY DEF ListsRightUntilAnswer
<1>1. TypeOK /\ Count /\ TwoLists
  BY DEF ThreadInv, ListInv
<1>2. PICK c, d : Holds(14, c) /\ Holds(23, d) /\ Apart(c, d)
  BY <1>1 DEF TwoLists
<1>3. /\ Len(arrived[14]) \in Nat /\ Len(arrived[23]) \in Nat
      /\ Len(arrived[14]) <= MaxMsgs /\ Len(arrived[23]) <= MaxMsgs
  <2>1. arrived[14] \in Seq(1..MaxMsgs) /\ arrived[23] \in Seq(1..MaxMsgs)
    BY <1>1 DEF TypeOK, Lists
  <2>2. Len(arrived[14]) \in Nat /\ Len(arrived[23]) \in Nat
    BY <2>1, LenProperties
  <2>3. msg.n \in 0..MaxMsgs
    BY <1>1 DEF TypeOK
  <2>4. \A a, b \in Nat, m \in 0..MaxMsgs :
          a + b + 1 <= m \/ a + b + 0 <= m => a <= MaxMsgs /\ b <= MaxMsgs
    BY MsgsAssumption
  <2>5. \/ Len(arrived[14]) + Len(arrived[23]) + 1 <= msg.n
        \/ Len(arrived[14]) + Len(arrived[23]) + 0 <= msg.n
    BY <1>1 DEF Count
  <2> QED BY <2>2, <2>3, <2>4, <2>5
<1>4. ASSUME NEW t \in Lists, NEW e, Holds(t, e)
      PROVE  /\ \A k \in 0..MaxMsgs : From(head[t], next)[k] = IF k < Len(e) THEN e[k + 1] ELSE NULL
             /\ Len(e) = Len(arrived[t]) /\ Len(e) \in 0..MaxMsgs
             /\ \A k \in 1..Len(e) : e[k] \in used /\ request[e[k]] = arrived[t][k]
  <2>1. Linking(e, head[t], next) /\ Len(e) = Len(arrived[t])
    BY <1>4 DEF Holds
  <2>2. Len(e) \in 0..MaxMsgs
    BY <1>3, <2>1, MsgsAssumption DEF Lists
  <2>3. \A k \in 0..MaxMsgs : From(head[t], next)[k] = IF k < Len(e) THEN e[k + 1] ELSE NULL
    BY <2>1, Walk
  <2> QED BY <1>4, <2>1, <2>2, <2>3 DEF Holds
<1>5. ASSUME NEW t \in Lists
      PROVE  /\ \A k \in 1..Len(arrived[t]) :
                  /\ From(head[t], next)[k - 1] \in used
                  /\ request[From(head[t], next)[k - 1]] = arrived[t][k]
             /\ From(head[t], next)[Len(arrived[t])] = NULL
  <2>1. PICK e : Holds(t, e)
    BY <1>2 DEF Lists
  <2>2. PICK at : at = From(head[t], next)
    OBVIOUS
  <2>3. /\ \A k \in 0..MaxMsgs : at[k] = IF k < Len(e) THEN e[k + 1] ELSE NULL
        /\ Len(e) = Len(arrived[t]) /\ Len(e) \in 0..MaxMsgs
        /\ \A k \in 1..Len(e) : e[k] \in used /\ request[e[k]] = arrived[t][k]
    BY <1>4, <2>1, <2>2
  <2>4. ASSUME NEW k \in 1..Len(e) PROVE at[k - 1] = e[k]
    <3>1. k - 1 \in 0..MaxMsgs /\ k - 1 < Len(e) /\ (k - 1) + 1 = k
      BY <2>3, MsgsAssumption
    <3> QED BY <2>3, <3>1
  <2>5. at[Len(e)] = NULL
    <3>1. ~(Len(e) < Len(e))
      BY <2>3, MsgsAssumption
    <3> QED BY <2>3, <3>1
  <2> QED BY <2>2, <2>3, <2>4, <2>5
<1>6. Chain(14) \cap Chain(23) = {}
  <2> SUFFICES ASSUME NEW x \in Chain(14), x \in Chain(23) PROVE FALSE
    OBVIOUS
  <2>1. PICK i \in 0..MaxMsgs, j \in 0..MaxMsgs :
             x = From(head[14], next)[i] /\ x = From(head[23], next)[j] /\ x \in Nodes
    BY DEF Chain
  <2>2. x # NULL /\ 14 \in Lists /\ 23 \in Lists
    BY <2>1 DEF Nodes, NULL, Lists
  <2>3. /\ x = IF i < Len(c) THEN c[i + 1] ELSE NULL
        /\ x = IF j < Len(d) THEN d[j + 1] ELSE NULL
        /\ Len(c) \in 0..MaxMsgs /\ Len(d) \in 0..MaxMsgs
    <3>1. x = (IF i < Len(c) THEN c[i + 1] ELSE NULL) /\ Len(c) \in 0..MaxMsgs
      BY <1>2, <1>4, <2>1, <2>2
    <3>2. x = (IF j < Len(d) THEN d[j + 1] ELSE NULL) /\ Len(d) \in 0..MaxMsgs
      BY <1>2, <1>4, <2>1, <2>2
    <3> QED BY <3>1, <3>2
  <2>4. i + 1 \in 1..Len(c) /\ j + 1 \in 1..Len(d)
    BY <2>2, <2>3, MsgsAssumption
  <2> QED BY <1>2, <2>2, <2>3, <2>4 DEF Apart
<1> QED BY <1>5, <1>6 DEF ListsRightUntilAnswer

\* Until the first answer the two lists hold their requests in the order in
\* which server_message received them, in nodes of their own, however its calls
\* of charu_list interleave with the menu thread's unlocked reads.
THEOREM ListsKept == Spec => []ListsRightUntilAnswer
<1>1. ThreadInv => ListsRightUntilAnswer
  BY ListsRead
<1> QED BY <1>1, ThreadsSafe, PTL

\* friend_request and group_request answer the request that the lines on the
\* screen agree on, and the first answer is about the request that came first to
\* its list, although the node is printed and copied without the mutex.
THEOREM AnswersRight == Spec => []AnswersWhatWasSeen
<1>1. ThreadInv => AnswersWhatWasSeen
  <2> SUFFICES ASSUME ThreadInv PROVE AnswersWhatWasSeen
    OBVIOUS
  <2>1. SeenInv
    BY DEF ThreadInv
  <2>2. ~Unanswered => /\ answers[1].req = arrived[answers[1].list][1]
                       /\ answers[1].shown = {answers[1].req}
    BY DEF ThreadInv, AnswerInv
  <2> QED BY <2>1, <2>2 DEF AnswersWhatWasSeen, SeenInv
<1> QED BY <1>1, ThreadsSafe, PTL

\* The walk of charu_list crashes or never ends only after an answer, and free in
\* del_head aborts only at the second one: before that, no list begins with a
\* node that was given back.
THEOREM CorruptionNeedsAnswer == Spec => []CorruptOnlyAfterAnswer
<1>1. ThreadInv => CorruptOnlyAfterAnswer
  <2> SUFFICES ASSUME ThreadInv PROVE CorruptOnlyAfterAnswer
    OBVIOUS
  <2>1. Unanswered => menu \notin {"segv", "abort"} /\ recv # "hung"
    BY DEF ThreadInv, ListInv
  <2>2. ~Unanswered => (menu = "abort" => Len(answers) > 1)
    BY DEF ThreadInv, AnswerInv
  <2> QED BY <2>1, <2>2 DEF CorruptOnlyAfterAnswer
<1> QED BY <1>1, ThreadsSafe, PTL

\* Until a sender goes in the middle of its file, recv_file and send_file are in
\* step and the file holds the full chunks sent, each once and in order, whatever
\* the pieces in which the MSGs arrive and whatever the menu thread does.
THEOREM FilesInStep == Spec => []FileInStep
<1>1. ThreadInv => FileInStep
  BY DEF ThreadInv
<1> QED BY <1>1, ThreadsSafe, PTL
=============================================================================
