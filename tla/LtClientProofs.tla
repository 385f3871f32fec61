--------------------------- MODULE LtClientProofs ---------------------------
(***************************************************************************)
(* The three boxes that the two threads of LtClient share without a lock,  *)
(* proved for any number of packets and any interleaving: what gets lost,  *)
(* in which order messages are shown, and when a box is whole again.       *)
(***************************************************************************)
EXTENDS LtClient, SequenceTheorems, WellFoundedInduction, TLAPS

-----------------------------------------------------------------------------
(* The inductive invariant                                                 *)

Live == menu \notin {"gone", "crashed"}

In(c) == {c[k] : k \in 1..Len(c)}

\* recv_PACK has decided to keep its packet, has not linked it yet, has looked
\* at the head.
Coming == recv \in {"head", "dummy", "empty", "link"}
Past == {"dummy", "empty", "link", "tail"}
At(t) == recv \in Past /\ pack.type = t

\* The newest packet that the user or a list can have, that the box t can have,
\* and the newest dummy.
Top == IF Coming THEN pack.n - 1 ELSE pack.n
TopOf(t) == IF Coming \/ (recv = "tail" /\ pack.type # t) THEN pack.n - 1 ELSE pack.n
TopDummy == IF recv = "head" THEN pack.n - 1 ELSE pack.n

\* The packets c hang on the dummy of the box t.
Chained(t, c) ==
  /\ head[t] = NULL => c = << >>
  /\ head[t] # NULL => IF c = << >> THEN next[head[t]] \in {NULL, UNSET} ELSE next[head[t]] = c[1]
  /\ \A k \in 1..Len(c) : next[c[k]] = IF k = Len(c) THEN NULL ELSE c[k + 1]

\* They came in this order, and none was given back.
Content(t, c) ==
  /\ \A i, j \in 1..Len(c) : i < j => c[i] < c[j]
  /\ \A k \in 1..Len(c) : c[k] <= TopOf(t) /\ c[k] \notin freed

\* What recv_PACK will allocate is not in the box yet; a field that is not set is
\* the one of a dummy that it has just allocated.
Fresh(t, c) ==
  /\ head[t] # NULL => head[t] <= Dummy(TopDummy)
  /\ end[t] # NULL => end[t] <= TopOf(t) \/ (end[t] \in Dummies /\ end[t] <= Dummy(TopDummy))
  /\ head[t] # NULL /\ next[head[t]] = UNSET => head[t] \in freed \/ (recv = "dummy" /\ At(t))
  /\ recv \in {"dummy", "empty"} /\ At(t) => c = << >>

\* The end pointer is at the last node or at one that is not in the box any more.
EndOk(t, c) ==
  ~(recv = "tail" /\ At(t)) =>
    (c # << >> /\ end[t] \in In(c) \cup {head[t]} => end[t] = c[Len(c)])

\* While the menu thread does not empty it, the box is whole, but for the store
\* that recv_PACK is about to make.
Whole(t, c) ==
  Live /\ head[t] # NULL /\ ~Draining(t) =>
    /\ head[t] \notin freed
    /\ \/ recv \in {"dummy", "empty"} /\ At(t)
       \/ recv = "link" /\ At(t) /\ c = << >> /\ end[t] = head[t]
       \/ recv = "tail" /\ At(t) /\ c # << >> /\ c[Len(c)] = pack.n
       \/ ~(recv = "tail" /\ At(t)) /\ c # << >> /\ end[t] = c[Len(c)]

OnScreen(t, k) == menu \in {"answer", "unlink"} /\ box = t /\ k = 1

\* What is in the box was not shown, and is newer than what was shown from it.
Later(t, c) ==
  Live => \A i \in DOMAIN shown, k \in 1..Len(c) :
            OnScreen(t, k) \/ /\ shown[i].n # c[k]
                              /\ shown[i].box = t => shown[i].n < c[k]

BoxOk(t, c) == Chained(t, c) /\ Content(t, c) /\ Fresh(t, c) /\ EndOk(t, c) /\ Whole(t, c)

\* No node belongs to two boxes.
Owns(t, c) == (In(c) \cup {head[t], end[t]}) \ {NULL}
Apart(C) == \A t, u \in Boxes : t # u => Owns(t, C[t]) \cap Owns(u, C[u]) = {}

\* What the menu thread knows while it empties a box.
DrainInv(C) ==
  menu \in {"test", "answer", "unlink", "free", "null"} =>
    /\ f = head[box] /\ f # NULL
    /\ menu # "null" => f \notin freed
    /\ menu \in {"answer", "unlink"} => C[box] # << >> /\ m = C[box][1] /\ m \in Seen
    /\ menu \in {"free", "null"} => In(C[box]) \subseteq late

LostInv(C) ==
  \A n \in 1..pack.n : \/ n \in late \/ n \in Seen \/ (\E t \in Boxes : n \in In(C[t]))
                       \/ n = pack.n /\ recv # "recv"

BoxesInv(C) == /\ C \in [Boxes -> Seq(1..MaxPacks)]
               /\ \A t \in Boxes : BoxOk(t, C[t]) /\ Later(t, C[t])
               /\ Apart(C) /\ DrainInv(C) /\ LostInv(C)

\* Whoever meets the menu thread in a box is noted.
LateInv ==
  /\ recv \in Past /\ Live /\ (Draining(pack.type) \/ head[pack.type] = NULL) => pack.n \in late
  /\ menu = "crashed" => pack.n \in late

PackInv == /\ recv \in Past \cup {"head"} => pack.type \in Boxes /\ pack.n > 0
           /\ menu = "login" => pack.n = 0 /\ recv = "off"

\* Nodes not allocated yet.
UnusedInv ==
  /\ \A x \in Dummies : x > Dummy(TopDummy) => next[x] = UNSET /\ x \notin freed
  /\ \A x \in 1..MaxPacks : x > Top => x \notin freed

SeenInv == /\ \A i \in DOMAIN shown : shown[i].n <= Top
           /\ ShownInOrder
           /\ menu = "answer" => /\ box = 4 /\ m \in Requests
                                 /\ \A i \in DOMAIN answered : answered[i] < m

ClientInv == TypeOK /\ LateInv /\ PackInv /\ UnusedInv /\ SeenInv /\ \E C : BoxesInv(C)

-----------------------------------------------------------------------------
(* What does not touch a box                                               *)

\* A step that leaves the box u and its packets c alone.
Aside(u, c) ==
  /\ head'[u] = head[u] /\ end'[u] = end[u] /\ freed \subseteq freed'
  /\ head[u] # NULL => next'[head[u]] = next[head[u]]
  /\ \A k \in 1..Len(c) : next'[c[k]] = next[c[k]] /\ c[k] \notin freed'
  /\ Live' /\ ~Draining(u)' => Live /\ ~Draining(u) /\ (head[u] \in freed' => head[u] \in freed)
  /\ TopOf(u) <= TopOf(u)' /\ TopDummy <= TopDummy'
  /\ UNCHANGED <<recv, pack>> \/ (~At(u) /\ ~At(u)')

LEMMA Numbers ==
  ASSUME TypeOK
  PROVE  /\ MaxPacks \in Nat /\ pack.n \in 0..MaxPacks /\ TopDummy \in Int /\ Top \in Int
         /\ \A t : TopOf(t) \in Int /\ TopOf(t) <= Top /\ Top <= pack.n /\ TopDummy <= pack.n
         /\ \A t : TopOf(t) >= pack.n - 1
<1>1. MaxPacks \in Nat /\ pack.n \in 0..MaxPacks
  BY PacksAssumption DEF TypeOK
<1> QED BY <1>1 DEF TopOf, Top, TopDummy

LEMMA AsideStep ==
  ASSUME TypeOK, TypeOK', NEW u \in Boxes, NEW c \in Seq(1..MaxPacks), BoxOk(u, c), Aside(u, c)
  PROVE  BoxOk(u, c)'
<1>1. /\ TopOf(u) \in Int /\ TopOf(u)' \in Int /\ TopDummy \in Int /\ TopDummy' \in Int
      /\ MaxPacks \in Nat /\ Len(c) \in Nat /\ \A k \in 1..Len(c) : c[k] \in 1..MaxPacks
  <2>1. TopOf(u) \in Int /\ TopDummy \in Int /\ MaxPacks \in Nat
    BY Numbers
  <2>2. TopOf(u)' \in Int /\ TopDummy' \in Int
    <3>1. pack'.n \in 0..MaxPacks
      BY DEF TypeOK
    <3> QED BY <3>1, PacksAssumption DEF TopOf, TopDummy
  <2> QED BY <2>1, <2>2, LenProperties, ElementOfSeq
<1>2. Chained(u, c)'
  BY DEF BoxOk, Aside, Chained
<1>3. Content(u, c)'
  <2>1. ASSUME NEW k \in 1..Len(c) PROVE c[k] <= TopOf(u)' /\ c[k] \notin freed'
    <3>1. c[k] <= TopOf(u) /\ TopOf(u) <= TopOf(u)' /\ c[k] \notin freed'
      BY DEF BoxOk, Aside, Content
    <3> QED BY <1>1, <3>1
  <2> QED BY <2>1 DEF BoxOk, Content
<1>4. Fresh(u, c)'
  <2>1. head'[u] # NULL => head'[u] <= Dummy(TopDummy')
    <3>1. head[u] # NULL => head[u] <= Dummy(TopDummy)
      BY DEF BoxOk, Fresh
    <3>2. head'[u] = head[u] /\ TopDummy <= TopDummy' /\ head[u] \in Dummies \cup {NULL}
      BY DEF Aside, TypeOK
    <3> QED BY <1>1, <3>1, <3>2 DEF Dummy, Dummies, NULL
  <2>2. end'[u] # NULL => end'[u] <= TopOf(u)' \/ (end'[u] \in Dummies /\ end'[u] <= Dummy(TopDummy'))
    <3>1. end[u] # NULL => end[u] <= TopOf(u) \/ (end[u] \in Dummies /\ end[u] <= Dummy(TopDummy))
      BY DEF BoxOk, Fresh
    <3>2. /\ end'[u] = end[u] /\ TopDummy <= TopDummy' /\ TopOf(u) <= TopOf(u)'
          /\ end[u] \in Nodes \cup {NULL}
      BY DEF Aside, TypeOK
    <3> QED BY <1>1, <3>1, <3>2 DEF Dummy, Dummies, NULL, Nodes
  <2>3. head'[u] # NULL /\ next'[head'[u]] = UNSET => head'[u] \in freed' \/ (recv' = "dummy" /\ At(u)')
    <3>1. head[u] # NULL /\ next[head[u]] = UNSET => head[u] \in freed \/ (recv = "dummy" /\ At(u))
      BY DEF BoxOk, Fresh
    <3>2. UNCHANGED <<recv, pack>> => (At(u)' <=> At(u))
      BY DEF At, Past
    <3> QED BY <3>1, <3>2 DEF Aside
  <2>4. recv' \in {"dummy", "empty"} /\ At(u)' => c = << >>
    BY DEF BoxOk, Fresh, Aside, At
  <2> QED BY <2>1, <2>2, <2>3, <2>4 DEF Fresh, Dummy, Dummies
<1>5. EndOk(u, c)'
  <2>1. recv = "tail" /\ At(u) => recv' = "tail" /\ At(u)'
    BY DEF Aside, At
  <2>2. head'[u] = head[u] /\ end'[u] = end[u]
    BY DEF Aside
  <2> QED BY <2>1, <2>2 DEF BoxOk, EndOk, In
<1>6. Whole(u, c)'
  <2> SUFFICES ASSUME Live', head'[u] # NULL, ~Draining(u)' PROVE Whole(u, c)'
    BY DEF Whole
  <2>1. /\ head'[u] = head[u] /\ end'[u] = end[u] /\ head[u] # NULL /\ Live /\ ~Draining(u)
        /\ head[u] \in freed' => head[u] \in freed
    BY DEF Aside
  <2>2. /\ head[u] \notin freed
        /\ \/ recv \in {"dummy", "empty"} /\ At(u)
           \/ recv = "link" /\ At(u) /\ c = << >> /\ end[u] = head[u]
           \/ recv = "tail" /\ At(u) /\ c # << >> /\ c[Len(c)] = pack.n
           \/ ~(recv = "tail" /\ At(u)) /\ c # << >> /\ end[u] = c[Len(c)]
    BY <2>1 DEF BoxOk, Whole
  <2>3. CASE UNCHANGED <<recv, pack>>
    <3>1. At(u)' <=> At(u)
      BY <2>3 DEF At
    <3> QED BY <2>1, <2>2, <2>3, <3>1 DEF Whole
  <2>4. CASE ~At(u) /\ ~At(u)'
    BY <2>1, <2>2, <2>4 DEF Whole
  <2> QED BY <2>3, <2>4 DEF Aside
<1> QED BY <1>2, <1>3, <1>4, <1>5, <1>6 DEF BoxOk

\* What is shown, when it is not in the box.
LEMMA LaterStep ==
  ASSUME NEW u \in Boxes, NEW c, Later(u, c),
         Live' => Live /\ \A k : OnScreen(u, k) => OnScreen(u, k)',
         \A i \in DOMAIN shown' : \/ i \in DOMAIN shown /\ shown'[i] = shown[i]
                                  \/ shown'[i].n \notin In(c) /\ shown'[i].box # u
  PROVE  Later(u, c)'
<1> SUFFICES ASSUME Live', NEW i \in DOMAIN shown', NEW k \in 1..Len(c), ~OnScreen(u, k)'
             PROVE  shown'[i].n # c[k] /\ (shown'[i].box = u => shown'[i].n < c[k])
  BY DEF Later
<1>1. CASE i \in DOMAIN shown /\ shown'[i] = shown[i]
  BY <1>1 DEF Later
<1>2. CASE shown'[i].n \notin In(c) /\ shown'[i].box # u
  BY <1>2 DEF In
<1> QED BY <1>1, <1>2

\* Every box is left alone.
LEMMA Untouched ==
  ASSUME TypeOK, TypeOK', NEW C, BoxesInv(C), DrainInv(C)', LostInv(C)',
         \A u \in Boxes : Aside(u, C[u]) /\ Later(u, C[u])'
  PROVE  BoxesInv(C)'
<1>1. C \in [Boxes -> Seq(1..MaxPacks)] /\ Apart(C) /\ \A u \in Boxes : BoxOk(u, C[u])
  BY DEF BoxesInv
<1>2. ASSUME NEW u \in Boxes PROVE BoxOk(u, C[u])'
  <2>1. C[u] \in Seq(1..MaxPacks) /\ BoxOk(u, C[u]) /\ Aside(u, C[u])
    BY <1>1
  <2>2. PICK c \in Seq(1..MaxPacks) : c = C[u]
    BY <2>1
  <2>3. BoxOk(u, c)'
    BY <2>1, <2>2, AsideStep
  <2> QED BY <2>2, <2>3
<1>3. Apart(C)'
  <2>1. \A u \in Boxes : head'[u] = head[u] /\ end'[u] = end[u]
    BY DEF Aside
  <2> QED BY <1>1, <2>1 DEF Apart, Owns
<1> QED BY <1>1, <1>2, <1>3 DEF BoxesInv

\* One box, t, is worked on, and has the packets d afterwards.
LEMMA Rebuilt ==
  ASSUME TypeOK, TypeOK', NEW C, BoxesInv(C), NEW t \in Boxes, NEW d \in Seq(1..MaxPacks),
         BoxOk(t, d)', Later(t, d)',
         \A u \in Boxes \ {t} : Aside(u, C[u]) /\ Later(u, C[u])',
         \A x \in Owns(t, d)' : x \in Owns(t, C[t]) \/ \A u \in Boxes \ {t} : x \notin Owns(u, C[u]),
         NEW D, D = [C EXCEPT ![t] = d], DrainInv(D)', LostInv(D)'
  PROVE  BoxesInv(D)'
<1>1. C \in [Boxes -> Seq(1..MaxPacks)] /\ Apart(C) /\ \A u \in Boxes : BoxOk(u, C[u])
  BY DEF BoxesInv
<1>2. /\ D \in [Boxes -> Seq(1..MaxPacks)] /\ D[t] = d
      /\ \A u \in Boxes \ {t} : D[u] = C[u]
  BY <1>1
<1>3. ASSUME NEW u \in Boxes \ {t} PROVE BoxOk(u, C[u])' /\ Owns(u, C[u])' = Owns(u, C[u])
  <2>1. C[u] \in Seq(1..MaxPacks) /\ BoxOk(u, C[u]) /\ Aside(u, C[u])
    BY <1>1
  <2>2. PICK c \in Seq(1..MaxPacks) : c = C[u]
    BY <2>1
  <2>3. BoxOk(u, c)'
    BY <2>1, <2>2, AsideStep
  <2>4. Owns(u, C[u])' = Owns(u, C[u])
    BY <2>1 DEF Aside, Owns
  <2> QED BY <2>2, <2>3, <2>4
<1>4. ASSUME NEW u \in Boxes PROVE BoxOk(u, D[u])' /\ Later(u, D[u])'
  <2>1. CASE u = t
    BY <1>2, <2>1
  <2>2. CASE u # t
    <3>1. u \in Boxes \ {t} /\ D[u] = C[u]
      BY <1>2, <2>2
    <3> QED BY <1>3, <3>1
  <2> QED BY <2>1, <2>2
<1>5. ASSUME NEW u \in Boxes \ {t} PROVE Owns(t, d)' \cap Owns(u, C[u])' = {}
  <2>1. Owns(u, C[u])' = Owns(u, C[u]) /\ Owns(t, C[t]) \cap Owns(u, C[u]) = {}
    BY <1>1, <1>3 DEF Apart
  <2> QED BY <2>1
<1>6. Apart(D)'
  <2> SUFFICES ASSUME NEW v \in Boxes, NEW w \in Boxes, v # w
               PROVE  Owns(v, D[v])' \cap Owns(w, D[w])' = {}
    BY DEF Apart
  <2>1. CASE v = t
    <3>1. w \in Boxes \ {t}
      BY <2>1
    <3> QED BY <1>2, <1>5, <2>1, <3>1
  <2>2. CASE w = t
    <3>1. v \in Boxes \ {t}
      BY <2>2
    <3> QED BY <1>2, <1>5, <2>2, <3>1
  <2>3. CASE v # t /\ w # t
    <3>1. Owns(v, C[v]) \cap Owns(w, C[w]) = {}
      BY <1>1 DEF Apart
    <3> QED BY <1>2, <1>3, <2>3, <3>1
  <2> QED BY <2>1, <2>2, <2>3
<1> QED BY <1>2, <1>4, <1>6 DEF BoxesInv

-----------------------------------------------------------------------------
(* The types                                                               *)

PlaceType ==
  /\ account \in Peers \cup {0} /\ send_account \in Peers \cup {0}
  /\ menu \in {"login", "menu", "chat", "test", "answer", "unlink", "free", "null", "gone", "crashed"}
  /\ recv \in {"off", "recv", "head", "dummy", "empty", "link", "tail"}
  /\ box \in Boxes /\ f \in Dummies \cup {NULL} /\ m \in 0..MaxPacks

PackType == pack \in [n : 0..MaxPacks, type : Boxes \cup Plain \cup {0}, account : Peers \cup {0}]

ListType == /\ head \in [Boxes -> Dummies \cup {NULL}] /\ end \in [Boxes -> Nodes \cup {NULL}]
            /\ next \in [Nodes -> UNSET..MaxPacks] /\ freed \subseteq Nodes

HistType == /\ late \subseteq 1..MaxPacks
            /\ shown \in Seq([n : 1..MaxPacks, box : Boxes \cup {0}]) /\ answered \in Seq(1..MaxPacks)

\* What the menu thread works on is a node of its box.
LEMMA DrainTypes ==
  ASSUME ClientInv
  PROVE  /\ menu \in {"test", "answer", "unlink", "free", "null"} =>
              f \in Dummies /\ f \in Nodes /\ f = head[box] /\ box \in Boxes
         /\ menu \in {"answer", "unlink"} => m \in 1..MaxPacks /\ m \in Nodes /\ m # f
<1>1. PICK C : BoxesInv(C)
  BY DEF ClientInv
<1>2. box \in Boxes /\ f \in Dummies \cup {NULL} /\ m \in 0..MaxPacks /\ MaxPacks \in Nat
  BY PacksAssumption DEF ClientInv, TypeOK
<1>3. menu \in {"test", "answer", "unlink", "free", "null"} => f \in Dummies /\ f = head[box]
  BY <1>1, <1>2 DEF BoxesInv, DrainInv
<1>4. menu \in {"answer", "unlink"} => m \in 1..MaxPacks
  <2> SUFFICES ASSUME menu \in {"answer", "unlink"} PROVE m \in 1..MaxPacks
    OBVIOUS
  <2>1. C[box] \in Seq(1..MaxPacks) /\ C[box] # << >> /\ m = C[box][1]
    BY <1>1, <1>2 DEF BoxesInv, DrainInv
  <2>2. 1 \in 1..Len(C[box])
    BY <2>1, EmptySeq, LenProperties
  <2> QED BY <2>1, <2>2, ElementOfSeq
<1> QED BY <1>2, <1>3, <1>4 DEF Dummies, Nodes

LEMMA TypeStep ==
  ASSUME ClientInv, [Next]_vars
  PROVE  TypeOK'
<1>0. /\ PlaceType /\ PackType /\ ListType /\ HistType /\ MaxPacks \in Nat
      /\ recv \in Past \cup {"head"} => pack.type \in Boxes /\ pack.n > 0
  BY PacksAssumption DEF ClientInv, TypeOK, PlaceType, PackType, ListType, HistType, PackInv
<1>1. ASSUME PlaceType', PackType', ListType', HistType' PROVE TypeOK'
  BY <1>1 DEF TypeOK, PlaceType, PackType, ListType, HistType
<1>2. /\ UNCHANGED <<account, send_account, menuVars, recv>> => PlaceType'
      /\ UNCHANGED pack => PackType'
      /\ UNCHANGED listVars => ListType'
      /\ UNCHANGED <<shown, answered, late>> => HistType'
  BY <1>0 DEF PlaceType, PackType, ListType, HistType, menuVars, listVars
<1>3. CASE Login \/ Exit \/ ChatBegin \/ ChatEnd \/ SendFile
  <2>1. UNCHANGED <<pack, listVars, shown, answered, late, box, f, m>>
    BY <1>3 DEF Login, Exit, ChatBegin, ChatEnd, SendFile, menuVars
  <2>2. /\ account' \in Peers \cup {0} /\ send_account' \in Peers \cup {0}
        /\ menu' \in {"login", "menu", "chat", "gone"} /\ recv' \in {"recv", recv}
    BY <1>0, <1>3 DEF Login, Exit, ChatBegin, ChatEnd, SendFile, menuVars, PlaceType
  <2>3. PlaceType'
    BY <1>0, <2>1, <2>2 DEF PlaceType
  <2> QED BY <1>1, <1>2, <2>1, <2>3
<1>4. CASE Recv
  <2>1. PICK t \in Boxes \cup Plain, a \in Peers :
             pack' = [n |-> pack.n + 1, type |-> t, account |-> a]
    BY <1>4 DEF Recv
  <2>2. /\ pack.n < MaxPacks /\ recv' \in {"head", recv}
        /\ shown' = shown \/ shown' = Append(shown, Show(pack'.n, 0))
        /\ UNCHANGED <<account, send_account, menuVars, listVars, answered, late>>
    BY <1>4 DEF Recv
  <2>3. PackType' /\ pack'.n \in 1..MaxPacks
    BY <1>0, <2>1, <2>2 DEF PackType
  <2>4. PlaceType'
    BY <1>0, <2>2 DEF PlaceType, menuVars
  <2>5. HistType'
    <3>1. Show(pack'.n, 0) \in [n : 1..MaxPacks, box : Boxes \cup {0}]
      BY <2>3 DEF Show
    <3>2. PICK s : s = Show(pack'.n, 0)
      OBVIOUS
    <3>3. Append(shown, s) \in Seq([n : 1..MaxPacks, box : Boxes \cup {0}])
      BY <1>0, <3>1, <3>2, AppendProperties DEF HistType
    <3> QED BY <1>0, <2>2, <3>2, <3>3 DEF HistType
  <2> QED BY <1>1, <1>2, <2>2, <2>3, <2>4, <2>5
\* recv_PACK appends.
<1>5. ASSUME recv \in Past \cup {"head"}, Noted, UNCHANGED <<shown, answered>> PROVE HistType'
  <2>1. pack.n \in 1..MaxPacks
    BY <1>0, <1>5 DEF PackType
  <2> QED BY <1>0, <1>5, <2>1 DEF HistType, Noted
<1>6. CASE BoxHead
  <2>1. /\ UNCHANGED <<account, send_account, menuVars, pack, end, next, freed, shown, answered>>
        /\ recv = "head" /\ Noted /\ recv' \in {"dummy", "link"}
        /\ head' = head \/ head' = [head EXCEPT ![pack.type] = Dummy(pack.n)]
    BY <1>6 DEF BoxHead
  <2>2. Dummy(pack.n) \in Dummies
    BY <1>0, <2>1 DEF Dummy, Dummies, PackType
  <2>3. ListType'
    BY <1>0, <2>1, <2>2 DEF ListType
  <2>4. PlaceType'
    BY <1>0, <2>1 DEF PlaceType, menuVars
  <2> QED BY <1>1, <1>2, <1>5, <2>1, <2>3, <2>4
<1>7. ASSUME Crash, recv \in Past, Noted, UNCHANGED <<account, send_account, pack, shown, answered>>
      PROVE  TypeOK'
  <2>1. PlaceType'
    BY <1>0, <1>7 DEF PlaceType, Crash
  <2>2. UNCHANGED listVars
    BY <1>7 DEF Crash
  <2> QED BY <1>1, <1>2, <1>5, <1>7, <2>1, <2>2
<1>8. CASE BoxDummy
  <2>1. /\ UNCHANGED <<account, send_account, pack, shown, answered>> /\ Noted /\ recv \in Past
        /\ \/ Crash
           \/ /\ next' = next \/ next' = [next EXCEPT ![head[pack.type]] = NULL]
              /\ recv' = "empty" /\ UNCHANGED <<menuVars, head, end, freed>>
    BY <1>8 DEF BoxDummy, Past
  <2>2. CASE ~Crash
    <3>1. NULL \in UNSET..MaxPacks
      BY <1>0 DEF NULL, UNSET
    <3>2. ListType'
      BY <1>0, <2>1, <2>2, <3>1 DEF ListType
    <3>3. PlaceType'
      BY <1>0, <2>1, <2>2 DEF PlaceType, menuVars
    <3> QED BY <1>1, <1>2, <1>5, <2>1, <3>2, <3>3
  <2> QED BY <1>7, <2>1, <2>2
<1>9. CASE BoxEmpty
  <2>1. /\ UNCHANGED <<account, send_account, menuVars, pack, head, next, freed, shown, answered>>
        /\ Noted /\ recv \in Past /\ recv' = "link" /\ end' = [end EXCEPT ![pack.type] = head[pack.type]]
    BY <1>9 DEF BoxEmpty, EndAtHead, Past
  <2>2. head[pack.type] \in Nodes \cup {NULL}
    BY <1>0, <2>1 DEF ListType, Nodes, Dummies
  <2>3. ListType'
    BY <1>0, <2>1, <2>2 DEF ListType
  <2>4. PlaceType'
    BY <1>0, <2>1 DEF PlaceType, menuVars
  <2> QED BY <1>1, <1>2, <1>5, <2>1, <2>3, <2>4
<1>10. CASE BoxLink
  <2>1. /\ UNCHANGED <<account, send_account, pack, shown, answered>> /\ Noted /\ recv \in Past
        /\ \/ Crash
           \/ /\ next' = Linked(head[pack.type], end[pack.type], pack.n)
              /\ recv' = "tail" /\ UNCHANGED <<menuVars, head, end, freed>>
    BY <1>10 DEF BoxLink, Past
  <2>2. CASE ~Crash
    <3>1. NULL \in UNSET..MaxPacks /\ pack.n \in UNSET..MaxPacks
      BY <1>0 DEF NULL, UNSET, PackType
    <3>2. \A e : Linked(head[pack.type], e, pack.n) \in [Nodes -> UNSET..MaxPacks]
      <4> SUFFICES ASSUME NEW e PROVE Linked(head[pack.type], e, pack.n) \in [Nodes -> UNSET..MaxPacks]
        OBVIOUS
      <4>1. PICK nx : nx = [next EXCEPT ![pack.n] = NULL]
        OBVIOUS
      <4>2. nx \in [Nodes -> UNSET..MaxPacks]
        BY <1>0, <3>1, <4>1 DEF ListType
      <4>3. Linked(head[pack.type], e, pack.n) = [nx EXCEPT ![e] = IF e \in freed THEN next[e] ELSE pack.n]
        BY <4>1, Zenon DEF Linked
      <4>4. CASE e \in Nodes
        BY <1>0, <3>1, <4>2, <4>3, <4>4 DEF ListType
      <4>5. CASE e \notin Nodes
        BY <4>2, <4>3, <4>5
      <4> QED BY <4>4, <4>5
    <3>3. ListType'
      BY <1>0, <2>1, <2>2, <3>2 DEF ListType
    <3>4. PlaceType'
      BY <1>0, <2>1, <2>2 DEF PlaceType, menuVars
    <3> QED BY <1>1, <1>2, <1>5, <2>1, <3>3, <3>4
  <2> QED BY <1>7, <2>1, <2>2
<1>11. CASE BoxTail
  <2>1. /\ UNCHANGED <<account, send_account, menuVars, pack, head, next, freed, shown, answered>>
        /\ Noted /\ recv \in Past /\ recv' = "recv" /\ end' = [end EXCEPT ![pack.type] = pack.n]
    BY <1>11 DEF BoxTail, Past
  <2>2. pack.n \in Nodes
    BY <1>0, <2>1 DEF PackType, Nodes
  <2>3. ListType'
    BY <1>0, <2>1, <2>2 DEF ListType
  <2>4. PlaceType'
    BY <1>0, <2>1 DEF PlaceType, menuVars
  <2> QED BY <1>1, <1>2, <1>5, <2>1, <2>3, <2>4
\* The menu thread empties a box.
<1>12. ASSUME NEW t \in Boxes, Drain(t) PROVE TypeOK'
  <2>1. /\ UNCHANGED <<account, send_account, m, recv, pack, listVars, shown, answered>>
        /\ menu' = "test" /\ box' = t /\ f' = head[t]
        /\ late' = IF Appending(t) THEN late \cup {pack.n} ELSE late
    BY <1>12 DEF Drain
  <2>2. Appending(t) => pack.n \in 1..MaxPacks
    BY <1>0 DEF Appending, Past, PackType
  <2>3. HistType'
    BY <1>0, <2>1, <2>2 DEF HistType
  <2>4. PlaceType'
    BY <1>0, <2>1 DEF PlaceType, ListType
  <2> QED BY <1>1, <1>2, <2>1, <2>3, <2>4
<1>13. CASE DrainTest
  <2>1. /\ UNCHANGED <<account, send_account, box, f, recv, pack, listVars, answered, late>>
        /\ \/ menu' \in {"free", "crashed"} /\ UNCHANGED <<m, shown>>
           \/ /\ next[f] \in Nodes /\ m' = next[f] /\ shown' = Append(shown, Show(next[f], box))
              /\ menu' \in {"answer", "unlink"}
    BY <1>13 DEF DrainTest, AfterShown
  <2>2. f \in Nodes
    BY <1>13, DrainTypes DEF DrainTest
  <2>3. next[f] \in Nodes => next[f] \in 1..MaxPacks
    BY <1>0, <2>2 DEF ListType, Nodes, UNSET
  <2>4. PlaceType'
    BY <1>0, <2>1, <2>3 DEF PlaceType
  <2>5. HistType'
    <3>1. CASE UNCHANGED shown
      BY <1>0, <2>1, <3>1 DEF HistType
    <3>2. CASE next[f] \in Nodes /\ shown' = Append(shown, Show(next[f], box))
      <4>1. Show(next[f], box) \in [n : 1..MaxPacks, box : Boxes \cup {0}]
        BY <1>0, <2>3, <3>2 DEF Show, PlaceType
      <4>2. PICK s : s = Show(next[f], box)
        OBVIOUS
      <4>3. Append(shown, s) \in Seq([n : 1..MaxPacks, box : Boxes \cup {0}])
        BY <1>0, <4>1, <4>2, AppendProperties DEF HistType
      <4> QED BY <1>0, <2>1, <3>2, <4>2, <4>3 DEF HistType
    <3> QED BY <2>1, <3>1, <3>2
  <2> QED BY <1>1, <1>2, <2>1, <2>4, <2>5
<1>14. CASE DrainAnswer
  <2>1. /\ UNCHANGED <<account, send_account, box, f, m, recv, pack, listVars, shown, late>>
        /\ menu = "answer" /\ menu' = "unlink" /\ answered' = Append(answered, m)
    BY <1>14 DEF DrainAnswer
  <2>2. m \in 1..MaxPacks
    BY <2>1, DrainTypes
  <2>3. HistType'
    BY <1>0, <2>1, <2>2, AppendProperties DEF HistType
  <2>4. PlaceType'
    BY <1>0, <2>1 DEF PlaceType
  <2> QED BY <1>1, <1>2, <2>1, <2>3, <2>4
<1>15. CASE DrainUnlink \/ DrainFree \/ DrainNull
  <2>1. /\ UNCHANGED <<account, send_account, box, f, m, recv, pack, end, shown, answered, late>>
        /\ menu' \in {"test", "null", "menu"} /\ menu \in {"unlink", "free", "null"}
        /\ head' = head \/ head' = [head EXCEPT ![box] = NULL]
        /\ next' = next \/ (menu = "unlink" /\ next' = [next EXCEPT ![f] = next[m]])
        /\ freed' = freed \/ freed' = freed \cup {f} \/ (menu = "unlink" /\ freed' = freed \cup {m})
    BY <1>15 DEF DrainUnlink, DrainFree, DrainNull, Unlinked, HeadCleared
  <2>2. f \in Nodes /\ (menu = "unlink" => m \in Nodes)
    BY <2>1, DrainTypes
  <2>3. menu = "unlink" => next[m] \in UNSET..MaxPacks
    BY <1>0, <2>2 DEF ListType
  <2>4. next' \in [Nodes -> UNSET..MaxPacks]
    BY <1>0, <2>1, <2>3 DEF ListType
  <2>5. ListType'
    BY <1>0, <2>1, <2>2, <2>4 DEF ListType
  <2>6. PlaceType'
    BY <1>0, <2>1 DEF PlaceType
  <2> QED BY <1>1, <1>2, <2>1, <2>5, <2>6
<1>16. CASE UNCHANGED vars
  BY <1>1, <1>2, <1>16 DEF vars
<1> QED BY <1>3, <1>4, <1>6, <1>8, <1>9, <1>10, <1>11, <1>12, <1>13, <1>14, <1>15, <1>16
        DEF Next, deal, recv_PACK, Emptying

-----------------------------------------------------------------------------
(* Where recv_PACK gets to                                                 *)

\* The steps of recv_PACK, as far as its own place and packet are concerned.
Move ==
  \/ UNCHANGED <<recv, pack>>
  \/ recv = "off" /\ recv' = "recv" /\ pack' = pack
  \/ recv = "recv" /\ recv' \in {"recv", "head"} /\ pack'.n = pack.n + 1
  \/ recv = "head" /\ recv' \in {"dummy", "link"} /\ pack' = pack
  \/ recv = "dummy" /\ recv' = "empty" /\ pack' = pack
  \/ recv = "empty" /\ recv' = "link" /\ pack' = pack
  \/ recv = "link" /\ recv' = "tail" /\ pack' = pack
  \/ recv = "tail" /\ recv' = "recv" /\ pack' = pack

LEMMA Moves ==
  ASSUME ClientInv, [Next]_vars
  PROVE  Move
<1>1. CASE Login \/ deal \/ UNCHANGED vars
  <2>1. menu = "login" => recv = "off"
    BY DEF ClientInv, PackInv
  <2>2. CASE Login
    BY <2>1, <2>2 DEF Move, Login
  <2>3. CASE deal \/ UNCHANGED vars
    BY <2>3 DEF Move, deal, Exit, ChatBegin, ChatEnd, SendFile, Emptying, DrainTest, DrainAnswer,
                DrainUnlink, DrainFree, DrainNull, Drain, vars
  <2> QED BY <1>1, <2>2, <2>3
<1>2. CASE Recv
  <2>1. recv = "recv" /\ recv' \in {"recv", "head"} /\ pack'.n = pack.n + 1
    BY <1>2 DEF Recv
  <2> QED BY <2>1 DEF Move
<1>3. CASE BoxHead \/ BoxDummy \/ BoxEmpty \/ BoxLink \/ BoxTail
  BY <1>3 DEF Move, BoxHead, BoxDummy, BoxEmpty, BoxLink, BoxTail, Crash
<1> QED BY <1>1, <1>2, <1>3 DEF Next, recv_PACK

\* Nothing becomes new again.
LEMMA Rising ==
  ASSUME TypeOK, TypeOK', Move
  PROVE  /\ Top <= Top' /\ TopDummy <= TopDummy' /\ Top \in Int /\ Top' \in Int
         /\ TopDummy \in Int /\ TopDummy' \in Int
         /\ \A u : TopOf(u) <= TopOf(u)'
<1>1. pack.n \in Nat /\ pack'.n \in Nat
  BY PacksAssumption DEF TypeOK
<1>2. Top <= Top' /\ Top \in Int /\ Top' \in Int
  BY <1>1 DEF Move, Top, Coming
<1>3. TopDummy <= TopDummy' /\ TopDummy \in Int /\ TopDummy' \in Int
  BY <1>1 DEF Move, TopDummy
<1>4. ASSUME NEW u PROVE TopOf(u) <= TopOf(u)'
  BY <1>1 DEF Move, TopOf, Coming
<1> QED BY <1>2, <1>3, <1>4

LEMMA PackStep ==
  ASSUME ClientInv, [Next]_vars
  PROVE  PackInv'
<1>0. PackInv /\ pack.n \in Nat
  BY PacksAssumption DEF ClientInv, TypeOK
<1>1. recv' \in Past \cup {"head"} => pack'.type \in Boxes /\ pack'.n > 0
  <2>1. CASE Recv
    <3>1. recv' = "head" => pack'.type \in Boxes
      BY <2>1 DEF Recv, Keeps
    <3>2. pack'.n = pack.n + 1 /\ recv' \in {"recv", "head"}
      BY <2>1 DEF Recv
    <3> QED BY <1>0, <3>1, <3>2 DEF Past
  <2>2. CASE ~Recv
    <3>1. recv' \in Past \cup {"head"} => recv \in Past \cup {"head"} /\ pack' = pack
      <4>1. CASE Login \/ deal \/ UNCHANGED vars
        BY <4>1 DEF Login, deal, Exit, ChatBegin, ChatEnd, SendFile, Emptying, DrainTest, DrainAnswer,
                    DrainUnlink, DrainFree, DrainNull, Drain, vars, Past
      <4>2. CASE BoxHead \/ BoxDummy \/ BoxEmpty \/ BoxLink \/ BoxTail
        BY <4>2 DEF BoxHead, BoxDummy, BoxEmpty, BoxLink, BoxTail, Crash, Past
      <4> QED BY <2>2, <4>1, <4>2 DEF Next, recv_PACK
    <3> QED BY <1>0, <3>1 DEF PackInv
  <2> QED BY <2>1, <2>2
<1>2. menu' = "login" => pack'.n = 0 /\ recv' = "off"
  <2>1. menu' = "login" => menu = "login" /\ UNCHANGED <<recv, pack>>
    <3>1. CASE Login \/ deal \/ UNCHANGED vars
      BY <3>1 DEF Login, deal, Exit, ChatBegin, ChatEnd, SendFile, Emptying, DrainTest, DrainAnswer,
                  DrainUnlink, DrainFree, DrainNull, Drain, AfterShown, vars, menuVars
    <3>2. CASE recv_PACK
      BY <3>2 DEF recv_PACK, Recv, BoxHead, BoxDummy, BoxEmpty, BoxLink, BoxTail, Crash, Alive, menuVars
    <3> QED BY <3>1, <3>2 DEF Next
  <2> QED BY <1>0, <2>1 DEF PackInv
<1> QED BY <1>1, <1>2 DEF PackInv

\* The numbers of the nodes that a box has.
LEMMA BoxNodes ==
  ASSUME TypeOK, NEW C, BoxesInv(C), NEW t \in Boxes
  PROVE  /\ C[t] \in Seq(1..MaxPacks) /\ Len(C[t]) \in Nat
         /\ \A k \in 1..Len(C[t]) : /\ C[t][k] \in 1..MaxPacks /\ C[t][k] \in Nodes /\ C[t][k] \notin Dummies
                                    /\ C[t][k] <= TopOf(t) /\ C[t][k] <= Top /\ C[t][k] \notin freed
         /\ C[t] = << >> <=> Len(C[t]) = 0
         /\ head[t] # NULL => head[t] \in Dummies /\ head[t] \in Nodes /\ head[t] <= Dummy(TopDummy)
         /\ end[t] # NULL => /\ end[t] \in Nodes
                             /\ end[t] <= TopOf(t) \/ (end[t] \in Dummies /\ end[t] <= Dummy(TopDummy))
<1>1. C[t] \in Seq(1..MaxPacks) /\ BoxOk(t, C[t])
  BY DEF BoxesInv
<1>2. PICK c \in Seq(1..MaxPacks) : c = C[t]
  BY <1>1
<1>3. Len(c) \in Nat /\ (c = << >> <=> Len(c) = 0) /\ \A k \in 1..Len(c) : c[k] \in 1..MaxPacks
  BY EmptySeq, LenProperties, ElementOfSeq
<1>4. ASSUME NEW k \in 1..Len(c)
      PROVE  /\ c[k] \in Nodes /\ c[k] \notin Dummies /\ c[k] <= TopOf(t) /\ c[k] <= Top /\ c[k] \notin freed
  <2>1. c[k] <= TopOf(t) /\ c[k] \notin freed
    BY <1>1, <1>2 DEF BoxOk, Content
  <2>2. TopOf(t) \in Int /\ Top \in Int /\ TopOf(t) <= Top /\ MaxPacks \in Nat /\ c[k] \in 1..MaxPacks
    BY <1>3, Numbers
  <2> QED BY <2>1, <2>2 DEF Nodes, Dummies
<1>5. head[t] # NULL => head[t] \in Dummies /\ head[t] \in Nodes /\ head[t] <= Dummy(TopDummy)
  <2>1. head[t] # NULL => head[t] \in Dummies
    BY DEF TypeOK
  <2>2. Dummies \subseteq Nodes
    BY PacksAssumption DEF Dummies, Nodes
  <2> QED BY <1>1, <2>1, <2>2 DEF BoxOk, Fresh
<1>6. end[t] # NULL => /\ end[t] \in Nodes
                       /\ end[t] <= TopOf(t) \/ (end[t] \in Dummies /\ end[t] <= Dummy(TopDummy))
  BY <1>1 DEF TypeOK, BoxOk, Fresh
<1> QED BY <1>2, <1>3, <1>4, <1>5, <1>6

LEMMA UnusedStep ==
  ASSUME ClientInv, [Next]_vars
  PROVE  UnusedInv'
<1>0. /\ TypeOK /\ UnusedInv /\ TypeOK' /\ Move /\ MaxPacks \in Nat /\ next \in [Nodes -> UNSET..MaxPacks]
      /\ Dummies \subseteq Nodes /\ 1..MaxPacks \subseteq Nodes /\ \A x \in 1..MaxPacks : x \notin Dummies
  <2>1. Dummies \subseteq Nodes /\ 1..MaxPacks \subseteq Nodes /\ \A x \in 1..MaxPacks : x \notin Dummies
    BY PacksAssumption DEF Dummies, Nodes
  <2> QED BY <2>1, TypeStep, Moves, PacksAssumption DEF ClientInv, TypeOK
<1>1. PICK C : BoxesInv(C)
  BY DEF ClientInv
<1>2. Top <= Top' /\ TopDummy <= TopDummy' /\ Top \in Int /\ Top' \in Int /\ TopDummy \in Int /\ TopDummy' \in Int
  BY <1>0, Rising
\* A node that is new afterwards was new before.
<1>3. /\ \A x \in Dummies : x > Dummy(TopDummy') => x > Dummy(TopDummy)
      /\ \A x \in 1..MaxPacks : x > Top' => x > Top
  <2>1. \A x, a, b \in Int : a <= b /\ x > b => x > a
    OBVIOUS
  <2>2. Dummy(TopDummy) \in Int /\ Dummy(TopDummy') \in Int /\ Dummy(TopDummy) <= Dummy(TopDummy')
    <3>1. \A a, b \in Int : a <= b => Dummy(a) \in Int /\ Dummy(b) \in Int /\ Dummy(a) <= Dummy(b)
      BY PacksAssumption DEF Dummy
    <3> QED BY <1>2, <3>1
  <2>3. Dummies \subseteq Int
    BY DEF Dummies
  <2> QED BY <1>2, <2>1, <2>2, <2>3
<1>4. ASSUME \A x \in Dummies : x > Dummy(TopDummy) => next'[x] = next[x] /\ (x \in freed' => x \in freed),
             \A x \in 1..MaxPacks : x > Top => (x \in freed' => x \in freed)
      PROVE  UnusedInv'
  <2>1. ASSUME NEW x \in Dummies, x > Dummy(TopDummy') PROVE next'[x] = UNSET /\ x \notin freed'
    BY <1>0, <1>3, <1>4, <2>1 DEF UnusedInv
  <2>2. ASSUME NEW x \in 1..MaxPacks, x > Top' PROVE x \notin freed'
    BY <1>0, <1>3, <1>4, <2>2 DEF UnusedInv
  <2> QED BY <2>1, <2>2 DEF UnusedInv, Dummy
<1>5. CASE UNCHANGED <<next, freed>>
  BY <1>4, <1>5
<1>6. recv \in Past \cup {"head"} => pack.type \in Boxes /\ pack.n \in 1..MaxPacks
  BY <1>0 DEF ClientInv, PackInv, TypeOK
<1>7. CASE BoxDummy \/ BoxLink
  <2>1. freed' = freed /\ recv \in Past
    BY <1>7 DEF BoxDummy, BoxLink, Crash, listVars, Past
  <2>2. PICK t \in Boxes : t = pack.type
    BY <1>6, <2>1
  <2>3. \/ next' = next
        \/ head[t] # NULL /\ next' = [next EXCEPT ![head[t]] = NULL]
        \/ end[t] # NULL /\ next' = Linked(head[t], end[t], pack.n)
    BY <1>7, <2>2 DEF BoxDummy, BoxLink, Crash, listVars
  <2>4. ASSUME NEW x \in Dummies, x > Dummy(TopDummy) PROVE next'[x] = next[x]
    <3>1. x # pack.n
      BY <1>0, <1>6, <2>1
    <3>2. head[t] # NULL => x # head[t]
      <4>1. head[t] # NULL => head[t] <= Dummy(TopDummy) /\ head[t] \in Dummies
        BY <1>0, <1>1, BoxNodes
      <4> QED BY <1>0, <1>2, <2>4, <4>1 DEF Dummy, Dummies
    <3>3. end[t] # NULL => x # end[t]
      <4>1. end[t] # NULL => end[t] <= TopOf(t) \/ (end[t] \in Dummies /\ end[t] <= Dummy(TopDummy))
        BY <1>0, <1>1, BoxNodes
      <4>2. TopOf(t) \in Int /\ TopOf(t) <= MaxPacks
        BY <1>0, Numbers
      <4> QED BY <1>0, <1>2, <2>4, <4>1, <4>2 DEF Dummy, Dummies
    <3>4. \A e : x # e /\ x # pack.n => Linked(head[t], e, pack.n)[x] = next[x]
      BY <1>0 DEF Linked
    <3> QED BY <1>0, <2>3, <3>1, <3>2, <3>3, <3>4
  <2> QED BY <1>4, <2>1, <2>4
<1>8. CASE DrainUnlink \/ DrainFree
  <2>0. f \in Dummies /\ f = head[box] /\ box \in Boxes /\ (menu = "unlink" => m \in 1..MaxPacks)
    BY <1>8, DrainTypes DEF DrainUnlink, DrainFree
  <2>1. f <= Dummy(TopDummy)
    <3>1. head[box] # NULL
      BY <1>0, <2>0 DEF Dummies, NULL
    <3> QED BY <1>0, <1>1, <2>0, <3>1, BoxNodes
  <2>2. /\ next' = next \/ next' = [next EXCEPT ![f] = next[m]]
        /\ freed' = freed \cup {f} \/ (menu = "unlink" /\ freed' = freed \cup {m})
    BY <1>8 DEF DrainUnlink, DrainFree, Unlinked
  <2>3. menu = "unlink" => m <= Top
    <3> SUFFICES ASSUME menu = "unlink" PROVE m <= Top
      OBVIOUS
    <3>1. C[box] # << >> /\ m = C[box][1]
      BY <1>1 DEF BoxesInv, DrainInv
    <3>2. 1 \in 1..Len(C[box])
      BY <1>0, <1>1, <2>0, <3>1, BoxNodes
    <3> QED BY <1>0, <1>1, <2>0, <3>1, <3>2, BoxNodes
  <2>4. ASSUME NEW x \in Dummies, x > Dummy(TopDummy)
        PROVE  next'[x] = next[x] /\ (x \in freed' => x \in freed)
    <3>1. x # f
      BY <1>0, <1>2, <2>0, <2>1, <2>4 DEF Dummy, Dummies
    <3>2. menu = "unlink" => x # m
      BY <1>0, <2>0
    <3> QED BY <1>0, <2>2, <3>1, <3>2
  <2>5. ASSUME NEW x \in 1..MaxPacks, x > Top PROVE x \in freed' => x \in freed
    <3>1. x # f
      BY <1>0, <2>0
    <3>2. menu = "unlink" => x # m
      BY <1>0, <1>2, <2>0, <2>3, <2>5
    <3> QED BY <2>2, <3>1, <3>2
  <2> QED BY <1>4, <2>4, <2>5
<1>9. ASSUME ~BoxDummy, ~BoxLink, ~DrainUnlink, ~DrainFree PROVE UNCHANGED <<next, freed>>
  <2>1. CASE Login \/ deal \/ UNCHANGED vars
    BY <1>9, <2>1 DEF Login, deal, Exit, ChatBegin, ChatEnd, SendFile, Emptying, DrainTest, DrainAnswer,
                DrainNull, Drain, vars, listVars
  <2>2. CASE recv_PACK
    BY <1>9, <2>2 DEF recv_PACK, Recv, BoxHead, BoxEmpty, BoxTail, listVars
  <2> QED BY <2>1, <2>2 DEF Next
<1> QED BY <1>5, <1>7, <1>8, <1>9

LEMMA LateStep ==
  ASSUME ClientInv, [Next]_vars
  PROVE  LateInv'
<1>0. /\ TypeOK /\ LateInv /\ PackInv
      /\ recv \in Past \cup {"head"} => pack.type \in Boxes
  BY DEF ClientInv, PackInv
<1>1. PICK C : BoxesInv(C)
  BY DEF ClientInv
\* A step that keeps recv_PACK where it is.
<1>2. ASSUME UNCHANGED <<recv, pack>>, late \subseteq late', menu' # "crashed", Live,
             recv \in Past => \/ pack.n \in late'
                              \/ /\ head'[pack.type] = head[pack.type]
                                 /\ Draining(pack.type)' => Draining(pack.type)
      PROVE  LateInv'
  BY <1>0, <1>2 DEF LateInv
<1>3. CASE Login \/ Exit \/ ChatBegin \/ ChatEnd \/ SendFile
  <2>1. CASE UNCHANGED recv
    <3>1. /\ UNCHANGED <<pack, late, head, box>> /\ Live
          /\ menu' \in {"login", "menu", "chat", "gone"}
      BY <1>3 DEF Login, Exit, ChatBegin, ChatEnd, SendFile, listVars, menuVars, Live
    <3>2. ~Draining(pack.type)'
      BY <3>1 DEF Draining
    <3> QED BY <1>2, <2>1, <3>1, <3>2
  <2>2. CASE recv' # recv
    <3>1. recv' = "recv" /\ menu' = "menu"
      BY <1>3, <2>2 DEF Login, Exit, ChatBegin, ChatEnd, SendFile, menuVars
    <3> QED BY <3>1 DEF LateInv, Past
  <2> QED BY <2>1, <2>2
<1>4. CASE Recv
  <2>1. recv' \notin Past /\ menu' = menu /\ menu # "crashed"
    BY <1>4 DEF Recv, Past, menuVars, Alive
  <2> QED BY <2>1 DEF LateInv
\* recv_PACK appends.
<1>5. ASSUME recv \in Past \cup {"head"}, Noted, pack' = pack, UNCHANGED menuVars, Alive,
             recv' \in Past /\ head'[pack.type] = NULL => recv \in Past /\ head[pack.type] = NULL
      PROVE  LateInv'
  <2>1. late \subseteq late' /\ (Draining(pack.type) => pack.n \in late')
    BY <1>5 DEF Noted
  <2>2. Draining(pack.type)' <=> Draining(pack.type)
    BY <1>5 DEF Draining, menuVars
  <2>3. Live /\ menu' # "crashed"
    BY <1>5 DEF Alive, Live, menuVars
  <2>4. recv' \in Past /\ (Draining(pack.type)' \/ head'[pack.type] = NULL) => pack.n \in late'
    BY <1>0, <1>5, <2>1, <2>2, <2>3 DEF LateInv
  <2> QED BY <1>5, <2>3, <2>4 DEF LateInv
<1>6. CASE BoxHead
  <2>1. /\ recv = "head" /\ Noted /\ pack' = pack /\ UNCHANGED menuVars /\ Alive
        /\ IF head[pack.type] = NULL THEN head' = [head EXCEPT ![pack.type] = Dummy(pack.n)] ELSE head' = head
    BY <1>6 DEF BoxHead
  <2>2. head'[pack.type] # NULL
    <3>1. Dummy(pack.n) # NULL
      BY <1>0, <2>1, PacksAssumption DEF Dummy, NULL, PackInv, Past, TypeOK
    <3> QED BY <1>0, <2>1, <3>1 DEF TypeOK
  <2> QED BY <1>5, <2>1, <2>2
<1>7. ASSUME Crash, recv \in Past, Noted, pack' = pack, pack.n \in late PROVE LateInv'
  BY <1>7 DEF LateInv, Crash, Live, Noted
<1>8. CASE BoxDummy
  <2>1. CASE head[pack.type] = NULL
    <3>1. Crash /\ recv \in Past /\ Noted /\ pack' = pack /\ Live
      BY <1>8, <2>1 DEF BoxDummy, Past, Alive, Live
    <3> QED BY <1>0, <1>7, <2>1, <3>1 DEF LateInv
  <2>2. CASE head[pack.type] # NULL
    <3>1. recv \in Past /\ Noted /\ pack' = pack /\ UNCHANGED <<menuVars, head>> /\ Alive
      BY <1>8, <2>2 DEF BoxDummy, Past
    <3> QED BY <1>5, <2>2, <3>1
  <2> QED BY <2>1, <2>2
<1>9. CASE BoxEmpty \/ BoxTail
  <2>1. recv \in Past /\ Noted /\ pack' = pack /\ UNCHANGED <<menuVars, head>> /\ Alive
    BY <1>9 DEF BoxEmpty, BoxTail, Past
  <2> QED BY <1>5, <2>1
<1>10. CASE BoxLink
  <2>1. recv = "link" /\ recv \in Past /\ Noted /\ pack' = pack /\ Live /\ Alive
    BY <1>10 DEF BoxLink, Past, Alive, Live
  <2>2. CASE end[pack.type] = NULL
    <3>1. Crash
      BY <1>10, <2>2 DEF BoxLink
    <3>2. PICK t \in Boxes : t = pack.type
      BY <1>0, <2>1
    <3>3. Draining(t) \/ head[t] = NULL
      <4> SUFFICES ASSUME ~Draining(t), head[t] # NULL PROVE FALSE
        OBVIOUS
      <4>1. \/ end[t] = head[t]
            \/ C[t] # << >> /\ end[t] = C[t][Len(C[t])]
        BY <1>1, <2>1, <3>2 DEF BoxesInv, BoxOk, Whole
      <4>2. C[t] # << >> => Len(C[t]) \in 1..Len(C[t])
        BY <1>0, <1>1, BoxNodes
      <4>3. C[t] # << >> => C[t][Len(C[t])] \in 1..MaxPacks
        BY <1>0, <1>1, <4>2, BoxNodes
      <4> QED BY <2>2, <3>2, <4>1, <4>3 DEF NULL
    <3> QED BY <1>0, <1>7, <2>1, <3>1, <3>2, <3>3 DEF LateInv
  <2>3. CASE end[pack.type] # NULL
    <3>1. UNCHANGED <<menuVars, head>>
      BY <1>10, <2>3 DEF BoxLink
    <3> QED BY <1>5, <2>1, <3>1
  <2> QED BY <2>2, <2>3
\* The menu thread empties a box.
<1>11. ASSUME NEW t \in Boxes, Drain(t) PROVE LateInv'
  <2>1. /\ UNCHANGED <<recv, pack, head>> /\ menu' = "test" /\ box' = t /\ Live
        /\ late' = IF Appending(t) THEN late \cup {pack.n} ELSE late
    BY <1>11 DEF Drain, listVars, Live
  <2>2. recv \in Past /\ pack.type = t => pack.n \in late'
    BY <2>1 DEF Appending, Past
  <2>3. pack.type # t => ~Draining(pack.type)'
    BY <2>1 DEF Draining
  <2> QED BY <1>2, <2>1, <2>2, <2>3
<1>12. CASE DrainTest
  <2>1. UNCHANGED <<recv, pack, head, late, box>> /\ menu = "test" /\ Live
    BY <1>12 DEF DrainTest, listVars, Live
  <2>2. CASE menu' # "crashed"
    <3>1. Draining(pack.type)' => Draining(pack.type)
      BY <2>1 DEF Draining
    <3> QED BY <1>2, <2>1, <2>2, <3>1
  <2>3. CASE menu' = "crashed"
    <3>1. next[f] = UNSET
      BY <1>12, <2>3 DEF DrainTest, AfterShown
    <3>2. f = head[box] /\ f # NULL /\ f \notin freed /\ box \in Boxes
      BY <1>0, <1>1, <2>1 DEF BoxesInv, DrainInv, TypeOK
    <3>3. recv = "dummy" /\ At(box)
      BY <1>1, <3>1, <3>2 DEF BoxesInv, BoxOk, Fresh
    <3>4. pack.n \in late
      BY <1>0, <2>1, <3>3 DEF LateInv, At, Draining
    <3> QED BY <2>1, <2>3, <3>4 DEF LateInv, Live
  <2> QED BY <2>2, <2>3
<1>13. CASE DrainAnswer \/ DrainUnlink \/ DrainFree
  <2>1. /\ UNCHANGED <<recv, pack, head, late, box>> /\ menu \in {"answer", "unlink", "free"}
        /\ menu' # "crashed" /\ Live
    BY <1>13 DEF DrainAnswer, DrainUnlink, DrainFree, listVars, Live
  <2>2. Draining(pack.type)' => Draining(pack.type)
    BY <2>1 DEF Draining
  <2> QED BY <1>2, <2>1, <2>2
<1>14. CASE DrainNull
  <2>1. /\ UNCHANGED <<recv, pack, late>> /\ menu = "null" /\ menu' = "menu" /\ Live
        /\ head' = [head EXCEPT ![box] = NULL]
    BY <1>14 DEF DrainNull, HeadCleared, Live
  <2>2. ~Draining(pack.type)'
    BY <2>1 DEF Draining
  <2>3. recv \in Past /\ pack.type = box => pack.n \in late
    BY <1>0, <2>1 DEF LateInv, Draining
  <2>4. recv \in Past /\ pack.type # box => head'[pack.type] = head[pack.type]
    BY <1>0, <2>1 DEF TypeOK
  <2> QED BY <1>2, <2>1, <2>2, <2>3, <2>4
<1>15. CASE UNCHANGED vars
  BY <1>0, <1>15 DEF LateInv, vars, menuVars, listVars, Live, Draining
<1> QED BY <1>3, <1>4, <1>6, <1>8, <1>9, <1>10, <1>11, <1>12, <1>13, <1>14, <1>15
        DEF Next, deal, recv_PACK, Emptying


-----------------------------------------------------------------------------
(* What the user has seen and answered                                     *)

LEMMA OneMore ==
  ASSUME NEW S, NEW s \in Seq(S), NEW x \in S
  PROVE  /\ Len(s) \in Nat /\ DOMAIN s = 1..Len(s)
         /\ DOMAIN Append(s, x) = DOMAIN s \cup {Len(s) + 1} /\ Len(s) + 1 \notin DOMAIN s
         /\ Append(s, x)[Len(s) + 1] = x
         /\ \A i \in DOMAIN s : Append(s, x)[i] = s[i] /\ s[i] \in S /\ i \in Nat /\ i < Len(s) + 1
<1>1. /\ Len(s) \in Nat /\ DOMAIN s = 1..Len(s) /\ \A i \in 1..Len(s) : s[i] \in S
  BY LenProperties, ElementOfSeq
<1>2. /\ Append(s, x) \in Seq(S) /\ Len(Append(s, x)) = Len(s) + 1
      /\ \A i \in 1..Len(s) : Append(s, x)[i] = s[i]
      /\ Append(s, x)[Len(s) + 1] = x
  BY AppendProperties
<1>3. DOMAIN Append(s, x) = 1..(Len(s) + 1)
  BY <1>2, LenProperties
<1>4. 1..(Len(s) + 1) = 1..Len(s) \cup {Len(s) + 1}
  BY <1>1
<1> QED BY <1>1, <1>2, <1>3, <1>4

InOrder == \A i, j \in DOMAIN shown : i < j =>
             /\ shown[i].n # shown[j].n
             /\ shown[i].box = shown[j].box /\ shown[i].box # 0 => shown[i].n < shown[j].n

Answering == menu = "answer" => /\ box = 4 /\ m \in Requests
                                /\ \A i \in DOMAIN answered : answered[i] < m

\* A packet is shown that is newer than what was shown from its box.
LEMMA ShowStep ==
  ASSUME TypeOK, TypeOK', InOrder, Top <= Top', NEW x \in 1..MaxPacks, NEW b \in Boxes \cup {0},
         shown' = Append(shown, Show(x, b)), x <= Top',
         \A i \in DOMAIN shown : /\ shown[i].n <= Top /\ shown[i].n # x
                                 /\ b # 0 /\ shown[i].box = b => shown[i].n < x
  PROVE  /\ InOrder' /\ \A i \in DOMAIN shown' : shown'[i].n <= Top'
         /\ Requests' = IF b = 4 THEN Requests \cup {x} ELSE Requests
<1>1. PICK p \in [n : 1..MaxPacks, box : Boxes \cup {0}] : p = Show(x, b) /\ p.n = x /\ p.box = b
  BY DEF Show
<1>2. shown \in Seq([n : 1..MaxPacks, box : Boxes \cup {0}]) /\ shown' = Append(shown, p)
  BY <1>1 DEF TypeOK
<1>3. PICK l \in Nat : l = Len(shown) + 1
  BY <1>2, LenProperties
<1>4. /\ DOMAIN shown' = DOMAIN shown \cup {l} /\ shown'[l] = p
      /\ \A i \in DOMAIN shown : shown'[i] = shown[i] /\ i \in Nat /\ i < l
      /\ \A i \in DOMAIN shown : shown[i].n \in 1..MaxPacks
  <2>1. PICK R : R = [n : 1..MaxPacks, box : Boxes \cup {0}]
    OBVIOUS
  <2>2. shown \in Seq(R) /\ p \in R
    BY <1>2, <2>1
  <2>3. /\ DOMAIN shown' = DOMAIN shown \cup {l} /\ shown'[l] = p
        /\ \A i \in DOMAIN shown : shown'[i] = shown[i] /\ i \in Nat /\ i < l /\ shown[i] \in R
    BY <1>2, <1>3, <2>2, OneMore
  <2> QED BY <2>1, <2>3
<1>5. ASSUME NEW i \in DOMAIN shown' PROVE shown'[i].n <= Top'
  <2>1. CASE i \in DOMAIN shown
    <3>1. shown'[i].n <= Top /\ shown'[i].n \in Nat
      BY <1>4, <2>1
    <3>2. Top \in Int /\ Top' \in Int
      BY PacksAssumption DEF TypeOK, Top
    <3> QED BY <3>1, <3>2
  <2>2. CASE i = l
    BY <1>1, <1>4, <2>2
  <2> QED BY <1>4, <2>1, <2>2
<1>6. ASSUME NEW i \in DOMAIN shown', NEW j \in DOMAIN shown', i < j
      PROVE  /\ shown'[i].n # shown'[j].n
             /\ shown'[i].box = shown'[j].box /\ shown'[i].box # 0 => shown'[i].n < shown'[j].n
  <2>1. CASE i \in DOMAIN shown /\ j \in DOMAIN shown
    BY <1>4, <1>6, <2>1 DEF InOrder
  <2>2. CASE i \in DOMAIN shown /\ j = l
    BY <1>1, <1>4, <2>2
  <2>3. CASE i = l
    <3>1. j \in Nat /\ j <= l
      BY <1>3, <1>4
    <3> QED BY <1>3, <1>6, <2>3, <3>1
  <2> QED BY <1>4, <2>1, <2>2, <2>3
<1>7. Requests' = IF b = 4 THEN Requests \cup {x} ELSE Requests
  <2>1. Requests = {shown[i].n : i \in {j \in DOMAIN shown : shown[j].box = 4}}
    BY DEF Requests
  <2>2. Requests' = {shown'[i].n : i \in {j \in DOMAIN shown' : shown'[j].box = 4}}
    BY DEF Requests
  <2>3. CASE b = 4
    <3>1. {j \in DOMAIN shown' : shown'[j].box = 4} = {j \in DOMAIN shown : shown[j].box = 4} \cup {l}
      BY <1>1, <1>4, <2>3
    <3> QED BY <1>1, <1>4, <2>1, <2>2, <2>3, <3>1
  <2>4. CASE b # 4
    <3>1. {j \in DOMAIN shown' : shown'[j].box = 4} = {j \in DOMAIN shown : shown[j].box = 4}
      BY <1>1, <1>4, <2>4
    <3> QED BY <1>1, <1>4, <2>1, <2>2, <2>4, <3>1
  <2> QED BY <2>3, <2>4
<1>8. InOrder'
  BY <1>6 DEF InOrder
<1> QED BY <1>5, <1>7, <1>8

LEMMA SeenStep ==
  ASSUME ClientInv, [Next]_vars
  PROVE  SeenInv'
<1>0. /\ TypeOK /\ TypeOK' /\ Move /\ Top <= Top' /\ Top \in Int /\ Top' \in Int /\ MaxPacks \in Nat
      /\ InOrder /\ AnsweredInOrder /\ Answering /\ \A i \in DOMAIN shown : shown[i].n <= Top
      /\ \A i \in DOMAIN shown : shown[i].n \in 1..MaxPacks
  <2>1. shown \in Seq([n : 1..MaxPacks, box : Boxes \cup {0}])
    BY DEF ClientInv, TypeOK
  <2>2. \A i \in DOMAIN shown : shown[i] \in [n : 1..MaxPacks, box : Boxes \cup {0}]
    BY <2>1, LenProperties, ElementOfSeq
  <2>3. TypeOK /\ TypeOK' /\ Move
    BY TypeStep, Moves DEF ClientInv
  <2> QED BY <2>2, <2>3, PacksAssumption, Rising
          DEF ClientInv, SeenInv, ShownInOrder, InOrder, Answering
<1>1. ASSUME InOrder', AnsweredInOrder', Answering', \A i \in DOMAIN shown' : shown'[i].n <= Top'
      PROVE  SeenInv'
  BY <1>1 DEF SeenInv, ShownInOrder, InOrder, Answering
\* Nothing is shown or answered.
<1>2. ASSUME UNCHANGED <<shown, answered>>, menu' = "answer" => menu = "answer" /\ UNCHANGED <<box, m>>,
             menu \in {"answer", "crashed"} => menu' \in {"answer", "crashed"} /\ m' = m
      PROVE  SeenInv'
  <2>1. Requests' = Requests /\ Answers' = Answers /\ InOrder'
    BY <1>0, <1>2 DEF Requests, Answers, InOrder
  <2>2. AnsweredInOrder'
    BY <1>0, <1>2, <2>1 DEF AnsweredInOrder
  <2>3. Answering'
    BY <1>0, <1>2, <2>1 DEF Answering
  <2>4. ASSUME NEW i \in DOMAIN shown' PROVE shown'[i].n <= Top'
    <3>1. shown'[i].n \in Nat /\ shown'[i].n <= Top
      BY <1>0, <1>2
    <3> QED BY <1>0, <3>1
  <2> QED BY <1>1, <2>1, <2>2, <2>3, <2>4
<1>3. CASE Login \/ Exit \/ ChatBegin \/ ChatEnd \/ SendFile \/ \E t \in Boxes : Drain(t)
  <2>1. /\ UNCHANGED <<shown, answered>> /\ menu \notin {"answer", "crashed"}
        /\ menu' \notin {"answer", "crashed"}
    BY <1>3 DEF Login, Exit, ChatBegin, ChatEnd, SendFile, Drain, menuVars
  <2> QED BY <1>2, <2>1
<1>4. CASE DrainUnlink \/ DrainFree \/ DrainNull
  <2>1. /\ UNCHANGED <<shown, answered>> /\ menu \notin {"answer", "crashed"}
        /\ menu' \notin {"answer", "crashed"}
    BY <1>4 DEF DrainUnlink, DrainFree, DrainNull
  <2> QED BY <1>2, <2>1
<1>5. CASE BoxHead \/ BoxDummy \/ BoxEmpty \/ BoxLink \/ BoxTail
  <2>1. UNCHANGED <<shown, answered, box, m>> /\ menu' \in {menu, "crashed"}
    BY <1>5 DEF BoxHead, BoxDummy, BoxEmpty, BoxLink, BoxTail, Crash, menuVars
  <2> QED BY <1>2, <2>1
<1>6. CASE UNCHANGED vars
  <2>1. UNCHANGED <<shown, answered, box, m, menu>>
    BY <1>6 DEF vars, menuVars
  <2> QED BY <1>2, <2>1
<1>7. CASE Recv
  <2>1. /\ UNCHANGED <<menu, box, m, answered>> /\ pack'.n = pack.n + 1 /\ recv = "recv" /\ pack.n < MaxPacks
        /\ \/ shown' = shown
           \/ recv' = recv /\ shown' = Append(shown, Show(pack'.n, 0))
    BY <1>7 DEF Recv, menuVars
  <2>2. CASE shown' = shown
    BY <1>2, <2>1, <2>2
  <2>3. CASE recv' = recv /\ shown' = Append(shown, Show(pack'.n, 0))
    <3>1. pack'.n \in 1..MaxPacks /\ pack'.n <= Top' /\ Top = pack.n /\ pack.n \in Nat
      BY <1>0, <2>1, <2>3 DEF TypeOK, Top, Coming
    <3>2. PICK x \in 1..MaxPacks : x = pack'.n
      BY <3>1
    <3>3. \A i \in DOMAIN shown : shown[i].n <= Top /\ shown[i].n # x
      BY <1>0, <2>1, <3>1, <3>2
    <3>4. InOrder' /\ (\A i \in DOMAIN shown' : shown'[i].n <= Top') /\ Requests' = Requests
      BY <1>0, <2>3, <3>1, <3>2, <3>3, ShowStep
    <3>5. AnsweredInOrder'
      BY <1>0, <2>1, <3>4 DEF AnsweredInOrder, Answers
    <3>6. Answering'
      BY <1>0, <2>1, <3>4 DEF Answering
    <3> QED BY <1>1, <3>4, <3>5, <3>6
  <2> QED BY <2>1, <2>2, <2>3
<1>8. CASE DrainTest
  <2>1. /\ UNCHANGED <<box, answered, recv, pack>> /\ menu = "test"
        /\ \/ menu' \in {"free", "crashed"} /\ UNCHANGED <<m, shown>>
           \/ /\ next[f] \in Nodes /\ m' = next[f] /\ shown' = Append(shown, Show(next[f], box))
              /\ menu' = IF box = 4 THEN "answer" ELSE "unlink"
    BY <1>8 DEF DrainTest, AfterShown
  <2>2. CASE menu' \in {"free", "crashed"} /\ UNCHANGED <<m, shown>>
    BY <1>2, <2>1, <2>2
  <2>3. CASE /\ next[f] \in Nodes /\ m' = next[f] /\ shown' = Append(shown, Show(next[f], box))
             /\ menu' = IF box = 4 THEN "answer" ELSE "unlink"
    <3>1. PICK C : BoxesInv(C)
      BY DEF ClientInv
    <3>2. f = head[box] /\ f # NULL /\ box \in Boxes
      BY <1>0, <2>1, <3>1 DEF BoxesInv, DrainInv, TypeOK
    <3>3. PICK c : c = C[box]
      OBVIOUS
    <3>4. next[f] \notin {NULL, UNSET}
      BY <2>3, <1>0 DEF Nodes, NULL, UNSET
    <3>5. c # << >> /\ next[f] = c[1]
      BY <3>1, <3>2, <3>3, <3>4 DEF BoxesInv, BoxOk, Chained
    <3>6. 1 \in 1..Len(c)
      BY <1>0, <3>1, <3>2, <3>3, <3>5, BoxNodes
    <3>7. PICK x \in 1..MaxPacks : x = next[f] /\ x <= Top
      BY <1>0, <3>1, <3>2, <3>3, <3>5, <3>6, BoxNodes
    <3>8. \A i \in DOMAIN shown : shown[i].n # x /\ (shown[i].box = box => shown[i].n < x)
      <4>1. Later(box, c) /\ Live /\ ~OnScreen(box, 1)
        BY <2>1, <3>1, <3>2, <3>3 DEF BoxesInv, Live, OnScreen
      <4> QED BY <3>5, <3>6, <3>7, <4>1 DEF Later
    <3>9. x <= Top'
      BY <1>0, <3>7
    <3>10. /\ InOrder' /\ \A i \in DOMAIN shown' : shown'[i].n <= Top'
           /\ Requests' = IF box = 4 THEN Requests \cup {x} ELSE Requests
      <4>1. PICK b \in Boxes \cup {0} : b = box /\ b # 0
        BY <3>2 DEF Boxes
      <4>2. shown' = Append(shown, Show(x, b))
        BY <2>3, <3>7, <4>1
      <4>3. \A i \in DOMAIN shown : /\ shown[i].n <= Top /\ shown[i].n # x
                                    /\ b # 0 /\ shown[i].box = b => shown[i].n < x
        BY <1>0, <3>8, <4>1
      <4> QED BY <1>0, <3>9, <4>1, <4>2, <4>3, ShowStep
    <3>11. Answers' = Answers /\ Requests \subseteq Answers
      BY <1>0, <2>1 DEF AnsweredInOrder, Answers
    <3>12. box = 4 => \A i \in DOMAIN answered : answered[i] < x
      <4> SUFFICES ASSUME box = 4, NEW i \in DOMAIN answered PROVE answered[i] < x
        OBVIOUS
      <4>1. answered[i] \in Requests
        BY <1>0 DEF AnsweredInOrder, Answers
      <4>2. PICK j \in DOMAIN shown : shown[j].box = 4 /\ answered[i] = shown[j].n
        BY <4>1 DEF Requests
      <4> QED BY <3>8, <4>2
    <3>13. box = 4 => x \notin Answers
      BY <1>0, <3>8 DEF AnsweredInOrder, Requests
    <3>14. AnsweredInOrder'
      BY <1>0, <2>1, <2>3, <3>7, <3>10, <3>11, <3>13 DEF AnsweredInOrder
    <3>15. Answering'
      BY <2>1, <2>3, <3>7, <3>10, <3>12 DEF Answering
    <3> QED BY <1>1, <3>10, <3>14, <3>15
  <2> QED BY <2>1, <2>2, <2>3
<1>9. CASE DrainAnswer
  <2>1. UNCHANGED <<box, m, shown>> /\ menu = "answer" /\ menu' = "unlink" /\ answered' = Append(answered, m)
    BY <1>9 DEF DrainAnswer
  <2>2. m \in 1..MaxPacks /\ answered \in Seq(1..MaxPacks)
    BY <1>0, <2>1, DrainTypes DEF TypeOK
  <2>3. PICK l \in Nat : l = Len(answered) + 1
    BY <2>2, LenProperties
  <2>4. PICK x \in 1..MaxPacks : x = m
    BY <2>2
  <2>5. /\ DOMAIN answered' = DOMAIN answered \cup {l} /\ answered'[l] = m
        /\ \A i \in DOMAIN answered : answered'[i] = answered[i] /\ i \in Nat /\ i < l
    BY <2>1, <2>2, <2>3, <2>4, OneMore
  <2>6. Answers' = Answers \cup {m} /\ Requests' = Requests /\ InOrder'
    <3>1. Answers' = {answered'[i] : i \in DOMAIN answered'}
      BY DEF Answers
    <3>2. Answers' = Answers \cup {m}
      BY <2>5, <3>1 DEF Answers
    <3> QED BY <1>0, <2>1, <3>2 DEF Requests, InOrder
  <2>7. m \in Requests /\ \A i \in DOMAIN answered : answered[i] < m
    BY <1>0, <2>1 DEF Answering
  <2>8. ASSUME NEW i \in DOMAIN answered', NEW j \in DOMAIN answered', i < j
        PROVE  answered'[i] < answered'[j]
    <3>1. CASE i \in DOMAIN answered /\ j \in DOMAIN answered
      BY <1>0, <2>5, <2>8, <3>1 DEF AnsweredInOrder
    <3>2. CASE i \in DOMAIN answered /\ j = l
      BY <2>5, <2>7, <3>2
    <3>3. CASE i = l
      <4>1. j \in Nat /\ j <= l
        BY <2>3, <2>5
      <4> QED BY <2>3, <2>8, <3>3, <4>1
    <3> QED BY <2>5, <3>1, <3>2, <3>3
  <2>9. AnsweredInOrder'
    BY <1>0, <2>1, <2>6, <2>7, <2>8 DEF AnsweredInOrder
  <2>10. Answering'
    BY <2>1 DEF Answering
  <2>11. ASSUME NEW i \in DOMAIN shown' PROVE shown'[i].n <= Top'
    <3>1. shown'[i].n \in Nat /\ shown'[i].n <= Top
      BY <1>0, <2>1
    <3> QED BY <1>0, <3>1
  <2> QED BY <1>1, <2>6, <2>9, <2>10, <2>11
<1> QED BY <1>3, <1>4, <1>5, <1>6, <1>7, <1>8, <1>9 DEF Next, deal, recv_PACK, Emptying


-----------------------------------------------------------------------------
(* The boxes: steps that touch none                                        *)

LEMMA SeenGrows ==
  ASSUME NEW R, shown \in Seq(R), NEW p \in R, shown' = Append(shown, p)
  PROVE  Seen' = Seen \cup {p.n}
<1>1. PICK l : l = Len(shown) + 1
  OBVIOUS
<1>2. /\ DOMAIN shown' = DOMAIN shown \cup {l} /\ shown'[l] = p
      /\ \A i \in DOMAIN shown : shown'[i] = shown[i]
  BY <1>1, OneMore
<1>3. Seen' = {shown'[i].n : i \in DOMAIN shown'}
  BY DEF Seen
<1> QED BY <1>2, <1>3 DEF Seen

\* What was in the boxes C is in the boxes D, was shown, or is noted as late.
LEMMA LostStep ==
  ASSUME NEW C, NEW D, LostInv(C), pack' = pack, late \subseteq late', Seen \subseteq Seen',
         \A t \in Boxes : In(C[t]) \subseteq In(D[t]) \cup Seen' \cup late',
         recv' = "recv" => \/ recv = "recv" \/ pack.n = 0 \/ pack.n \in late'
                           \/ \E t \in Boxes : pack.n \in In(D[t])
  PROVE  LostInv(D)'
<1>1. ASSUME NEW n \in 1..pack.n
      PROVE  \/ n \in late' \/ n \in Seen' \/ (\E t \in Boxes : n \in In(D[t]))
             \/ n = pack'.n /\ recv' # "recv"
  <2>1. n \in late \/ n \in Seen \/ (\E t \in Boxes : n \in In(C[t])) \/ (n = pack.n /\ recv # "recv")
    BY DEF LostInv
  <2>2. CASE n = pack.n /\ recv # "recv"
    <3>1. pack.n # 0
      BY <2>2
    <3> QED BY <2>2, <3>1
  <2> QED BY <2>1, <2>2
<1> QED BY <1>1 DEF LostInv

\* A step after which every list is as before.
LEMMA Quiet ==
  ASSUME ClientInv, [Next]_vars, NEW C, BoxesInv(C), UNCHANGED <<head, end, next, freed>>,
         UNCHANGED <<recv, pack>> \/ (recv \notin Past /\ recv' \notin Past),
         Live' => Live, \A u : Live' /\ ~Draining(u)' => ~Draining(u),
         \A u \in Boxes : Later(u, C[u])', DrainInv(C)', LostInv(C)'
  PROVE  BoxesInv(C)'
<1>1. TypeOK /\ TypeOK' /\ Move
  BY TypeStep, Moves DEF ClientInv
<1>2. TopDummy <= TopDummy' /\ \A u : TopOf(u) <= TopOf(u)'
  BY <1>1, Rising
<1>3. ASSUME NEW u \in Boxes PROVE Aside(u, C[u])
  <2>1. \A k \in 1..Len(C[u]) : C[u][k] \notin freed
    BY <1>1, BoxNodes
  <2> QED BY <1>2, <2>1 DEF Aside, At
<1> QED BY <1>1, <1>3, Untouched

\* Nothing is shown, and what was on the screen still is.
LEMMA SameShown ==
  ASSUME NEW C, BoxesInv(C), UNCHANGED shown, Live' => Live,
         Live' /\ menu \in {"answer", "unlink"} => menu' \in {"answer", "unlink"} /\ box' = box
  PROVE  \A u \in Boxes : Later(u, C[u])'
<1>1. ASSUME NEW u \in Boxes PROVE Later(u, C[u])'
  <2>1. PICK c : c = C[u] /\ Later(u, c)
    BY DEF BoxesInv
  <2>2. CASE Live'
    <3>1. Live' => Live /\ \A k : OnScreen(u, k) => OnScreen(u, k)'
      BY <2>2 DEF OnScreen
    <3>2. Later(u, c)'
      BY <2>1, <3>1, LaterStep
    <3> QED BY <2>1, <3>2
  <2>3. CASE ~Live'
    BY <2>3 DEF Later
  <2> QED BY <2>2, <2>3
<1> QED BY <1>1

LEMMA CrashBoxes ==
  ASSUME ClientInv, [Next]_vars, NEW C, BoxesInv(C), Crash, Noted, UNCHANGED <<pack, shown>>
  PROVE  BoxesInv(C)'
<1>1. /\ UNCHANGED <<head, end, next, freed, recv, pack, shown>> /\ menu' = "crashed" /\ ~Live'
      /\ late \subseteq late'
  BY DEF Crash, listVars, Live, Noted
<1>2. \A u \in Boxes : Later(u, C[u])'
  BY <1>1, SameShown
<1>3. DrainInv(C)'
  BY <1>1 DEF DrainInv
<1>4. LostInv(C)'
  <2>1. Seen' = Seen /\ LostInv(C)
    BY <1>1 DEF Seen, BoxesInv
  <2> QED BY <1>1, <2>1, LostStep
<1> QED BY <1>1, <1>2, <1>3, <1>4, Quiet

\* Login, the menus, a chat, a file that is sent.
LEMMA MenuBoxes ==
  ASSUME ClientInv, [Next]_vars, NEW C, BoxesInv(C),
         Login \/ Exit \/ ChatBegin \/ ChatEnd \/ SendFile \/ UNCHANGED vars
  PROVE  BoxesInv(C)'
<1>1. CASE Login \/ Exit \/ ChatBegin \/ ChatEnd \/ SendFile
  <2>1. /\ UNCHANGED <<head, end, next, freed, pack, shown, late, box>>
        /\ menu \in {"login", "menu", "chat"} /\ menu' \in {"login", "menu", "chat", "gone"}
        /\ UNCHANGED recv \/ (menu = "login" /\ recv' = "recv")
    BY <1>1 DEF Login, Exit, ChatBegin, ChatEnd, SendFile, menuVars, listVars
  <2>2. menu = "login" => pack.n = 0 /\ recv = "off"
    BY DEF ClientInv, PackInv
  <2>3. UNCHANGED <<recv, pack>> \/ (recv \notin Past /\ recv' \notin Past)
    BY <2>1, <2>2 DEF Past
  <2>4. \A u \in Boxes : Later(u, C[u])'
    BY <2>1, SameShown DEF Live
  <2>5. DrainInv(C)'
    BY <2>1 DEF DrainInv
  <2>6. LostInv(C)'
    <3>1. Seen' = Seen /\ LostInv(C)
      BY <2>1 DEF Seen, BoxesInv
    <3> QED BY <2>1, <2>2, <3>1, LostStep
  <2>7. Live /\ \A u : ~Draining(u)
    BY <2>1 DEF Live, Draining
  <2> QED BY <2>1, <2>3, <2>4, <2>5, <2>6, <2>7, Quiet
<1>2. CASE UNCHANGED vars
  <2>1. UNCHANGED <<head, end, next, freed, pack, shown, late, box, menu, recv, f, m>>
    BY <1>2 DEF vars, menuVars, listVars
  <2>2. \A u \in Boxes : Later(u, C[u])'
    BY <2>1, SameShown DEF Live
  <2>3. Seen' = Seen /\ LostInv(C) /\ DrainInv(C)
    BY <2>1 DEF Seen, BoxesInv
  <2>4. DrainInv(C)' /\ LostInv(C)'
    BY <2>1, <2>3 DEF DrainInv, LostInv
  <2>5. (Live' <=> Live) /\ \A u : Draining(u)' <=> Draining(u)
    BY <2>1 DEF Live, Draining
  <2> QED BY <2>1, <2>2, <2>4, <2>5, Quiet
<1> QED BY <1>1, <1>2

LEMMA RecvBoxes ==
  ASSUME ClientInv, [Next]_vars, NEW C, BoxesInv(C), Recv
  PROVE  BoxesInv(C)'
<1>0. TypeOK /\ TypeOK' /\ MaxPacks \in Nat
  BY TypeStep, PacksAssumption DEF ClientInv
<1>1. /\ UNCHANGED <<head, end, next, freed, menu, box, f, m, late>> /\ recv = "recv" /\ Live
      /\ pack'.n = pack.n + 1 /\ pack.n < MaxPacks /\ recv' \in {"recv", "head"}
      /\ \/ recv' = "head" /\ shown' = shown
         \/ shown' = Append(shown, Show(pack'.n, 0))
  BY DEF Recv, menuVars, listVars, Alive, Live
<1>2. pack.n \in Nat /\ pack'.n \in 1..MaxPacks
  BY <1>0, <1>1 DEF TypeOK
<1>3. PICK p \in [n : 1..MaxPacks, box : Boxes \cup {0}] : p = Show(pack'.n, 0) /\ p.n = pack'.n /\ p.box = 0
  <2>1. PICK x \in 1..MaxPacks : x = pack'.n
    BY <1>2
  <2>2. PICK p : p = Show(x, 0)
    OBVIOUS
  <2>3. p \in [n : 1..MaxPacks, box : Boxes \cup {0}] /\ p.n = x /\ p.box = 0
    BY <2>2 DEF Show
  <2> QED BY <2>1, <2>2, <2>3
<1>4. shown \in Seq([n : 1..MaxPacks, box : Boxes \cup {0}])
  BY <1>0 DEF TypeOK
<1>5. Seen \subseteq Seen' /\ (recv' = "head" \/ pack'.n \in Seen')
  <2>1. CASE recv' = "head" /\ shown' = shown
    BY <2>1 DEF Seen
  <2>2. CASE shown' = Append(shown, Show(pack'.n, 0))
    <3>1. shown' = Append(shown, p)
      BY <1>3, <2>2
    <3>2. Seen' = Seen \cup {p.n}
      BY <1>4, <3>1, SeenGrows
    <3> QED BY <1>3, <3>2
  <2> QED BY <1>1, <2>1, <2>2
<1>6. ASSUME NEW u \in Boxes PROVE Later(u, C[u])'
  <2>1. PICK c : c = C[u] /\ Later(u, c)
    BY DEF BoxesInv
  <2>2. \A i \in DOMAIN shown' : \/ i \in DOMAIN shown /\ shown'[i] = shown[i]
                                 \/ shown'[i] = p
    <3>1. CASE shown' = shown
      BY <3>1
    <3>2. CASE shown' = Append(shown, p)
      BY <1>4, <3>2, OneMore
    <3> QED BY <1>1, <1>3, <3>1, <3>2
  <2>3. p.n \notin In(c) /\ p.box # u
    <3>1. \A k \in 1..Len(c) : c[k] <= Top /\ c[k] \in 1..MaxPacks
      BY <1>0, <2>1, BoxNodes
    <3>2. Top = pack.n
      BY <1>1 DEF Top, Coming
    <3>3. p.n \notin In(c)
      BY <1>1, <1>2, <1>3, <3>1, <3>2 DEF In
    <3> QED BY <1>3, <3>3 DEF Boxes
  <2>4. Live' => Live /\ \A k : OnScreen(u, k) => OnScreen(u, k)'
    BY <1>1 DEF OnScreen
  <2>5. Later(u, c)'
    BY <2>1, <2>2, <2>3, <2>4, LaterStep
  <2> QED BY <2>1, <2>5
<1>7. DrainInv(C)'
  <2>1. DrainInv(C)
    BY DEF BoxesInv
  <2> QED BY <1>1, <1>5, <2>1 DEF DrainInv
<1>8. LostInv(C)'
  <2>1. ASSUME NEW n \in 1..pack'.n
        PROVE  \/ n \in late' \/ n \in Seen' \/ (\E t \in Boxes : n \in In(C[t]))
               \/ n = pack'.n /\ recv' # "recv"
    <3>1. CASE n = pack'.n
      BY <1>5, <3>1
    <3>2. CASE n \in 1..pack.n
      BY <1>1, <1>5, <3>2 DEF BoxesInv, LostInv
    <3> QED BY <1>1, <1>2, <3>1, <3>2
  <2> QED BY <2>1 DEF LostInv
<1>9. \A u : Draining(u)' <=> Draining(u)
  BY <1>1 DEF Draining
<1> QED BY <1>1, <1>6, <1>7, <1>8, <1>9, Quiet DEF Past


-----------------------------------------------------------------------------
(* The boxes: the steps of the menu thread                                 *)

LEMMA DrainBoxes ==
  ASSUME ClientInv, [Next]_vars, NEW C, BoxesInv(C), NEW t \in Boxes, Drain(t)
  PROVE  BoxesInv(C)'
<1>1. /\ UNCHANGED <<head, end, next, freed, recv, pack, shown>> /\ menu = "menu" /\ head[t] # NULL
      /\ menu' = "test" /\ box' = t /\ f' = head[t] /\ late \subseteq late'
  BY DEF Drain, listVars
<1>2. Live /\ Live' /\ \A u : ~Draining(u)
  BY <1>1 DEF Live, Draining
<1>3. \A u \in Boxes : Later(u, C[u])'
  BY <1>1, <1>2, SameShown
<1>4. DrainInv(C)'
  <2>1. head[t] \notin freed
    BY <1>1, <1>2 DEF BoxesInv, BoxOk, Whole
  <2> QED BY <1>1, <2>1 DEF DrainInv
<1>5. LostInv(C)'
  <2>1. Seen' = Seen /\ LostInv(C)
    BY <1>1 DEF Seen, BoxesInv
  <2> QED BY <1>1, <2>1, LostStep
<1> QED BY <1>1, <1>2, <1>3, <1>4, <1>5, Quiet

LEMMA AnswerBoxes ==
  ASSUME ClientInv, [Next]_vars, NEW C, BoxesInv(C), DrainAnswer
  PROVE  BoxesInv(C)'
<1>1. /\ UNCHANGED <<head, end, next, freed, recv, pack, shown, late, box, f, m>> /\ menu = "answer"
      /\ menu' = "unlink"
  BY DEF DrainAnswer, listVars
<1>2. Live /\ Live' /\ \A u : Draining(u)' <=> Draining(u)
  BY <1>1 DEF Live, Draining
<1>3. \A u \in Boxes : Later(u, C[u])'
  BY <1>1, <1>2, SameShown
<1>4. Seen' = Seen /\ LostInv(C) /\ DrainInv(C)
  BY <1>1 DEF Seen, BoxesInv
<1>5. DrainInv(C)'
  BY <1>1, <1>4 DEF DrainInv
<1>6. LostInv(C)'
  BY <1>1, <1>4, LostStep
<1> QED BY <1>1, <1>2, <1>3, <1>5, <1>6, Quiet

LEMMA TestBoxes ==
  ASSUME ClientInv, [Next]_vars, NEW C, BoxesInv(C), DrainTest
  PROVE  BoxesInv(C)'
<1>0. TypeOK /\ TypeOK' /\ MaxPacks \in Nat /\ box \in Boxes
  BY TypeStep, PacksAssumption DEF ClientInv, TypeOK
<1>1. /\ UNCHANGED <<head, end, next, freed, recv, pack, late, box, f>> /\ menu = "test"
      /\ \/ next[f] \in {NULL, UNSET} /\ menu' = "free" /\ UNCHANGED shown
         \/ menu' = "crashed" /\ UNCHANGED shown
         \/ /\ next[f] \in Nodes /\ m' = next[f] /\ shown' = Append(shown, Show(next[f], box))
            /\ menu' \in {"answer", "unlink"}
  BY DEF DrainTest, AfterShown, listVars
<1>2. Live /\ \A u : Live' /\ ~Draining(u)' => ~Draining(u)
  BY <1>1 DEF Live, Draining
<1>3. f = head[box] /\ f # NULL /\ f \notin freed /\ LostInv(C)
  BY <1>1 DEF BoxesInv, DrainInv
<1>4. PICK c : c = C[box]
  OBVIOUS
<1>5. Chained(box, c) /\ Later(box, c)
  BY <1>0, <1>4 DEF BoxesInv, BoxOk
<1>6. c # << >> => 1 \in 1..Len(c) /\ c[1] \in 1..MaxPacks /\ next[f] = c[1]
  <2>1. c # << >> => 1 \in 1..Len(c)
    BY <1>0, <1>4, BoxNodes
  <2>2. c # << >> => c[1] \in 1..MaxPacks
    BY <1>0, <1>4, <2>1, BoxNodes
  <2> QED BY <1>3, <1>5, <2>1, <2>2 DEF Chained
<1>7. CASE next[f] \in {NULL, UNSET} /\ menu' = "free" /\ UNCHANGED shown
  <2>1. c = << >>
    BY <1>6, <1>7 DEF NULL, UNSET
  <2>2. In(C[box]) = {}
    BY <1>0, <1>4, <2>1, BoxNodes DEF In
  <2>3. DrainInv(C)'
    BY <1>1, <1>3, <1>7, <2>2 DEF DrainInv
  <2>4. LostInv(C)'
    <3>1. Seen' = Seen
      BY <1>7 DEF Seen
    <3> QED BY <1>1, <1>3, <3>1, LostStep
  <2>5. \A u \in Boxes : Later(u, C[u])'
    BY <1>1, <1>2, <1>7, SameShown
  <2> QED BY <1>1, <1>2, <2>3, <2>4, <2>5, Quiet
<1>8. CASE menu' = "crashed" /\ UNCHANGED shown
  <2>1. DrainInv(C)'
    BY <1>8 DEF DrainInv
  <2>2. LostInv(C)'
    <3>1. Seen' = Seen
      BY <1>8 DEF Seen
    <3> QED BY <1>1, <1>3, <3>1, LostStep
  <2>3. \A u \in Boxes : Later(u, C[u])'
    BY <1>1, <1>2, <1>8, SameShown
  <2> QED BY <1>1, <1>2, <2>1, <2>2, <2>3, Quiet
<1>9. CASE /\ next[f] \in Nodes /\ m' = next[f] /\ shown' = Append(shown, Show(next[f], box))
           /\ menu' \in {"answer", "unlink"}
  <2>1. next[f] \notin {NULL, UNSET}
    BY <1>0, <1>9 DEF NULL, UNSET, Nodes
  <2>2. c # << >> /\ 1 \in 1..Len(c) /\ c[1] \in 1..MaxPacks /\ next[f] = c[1]
    BY <1>3, <1>5, <1>6, <2>1 DEF Chained
  <2>3. PICK x \in 1..MaxPacks, b \in Boxes : x = c[1] /\ b = box
    BY <1>0, <2>2
  <2>4. PICK p \in [n : 1..MaxPacks, box : Boxes \cup {0}] : p = Show(x, b) /\ p.n = x /\ p.box = b
    <3>1. PICK p : p = Show(x, b)
      OBVIOUS
    <3>2. p \in [n : 1..MaxPacks, box : Boxes \cup {0}] /\ p.n = x /\ p.box = b
      BY <3>1 DEF Show
    <3> QED BY <3>1, <3>2
  <2>5. shown \in Seq([n : 1..MaxPacks, box : Boxes \cup {0}]) /\ shown' = Append(shown, p)
    BY <1>0, <1>9, <2>2, <2>3, <2>4 DEF TypeOK
  <2>6. Seen' = Seen \cup {x}
    BY <2>4, <2>5, SeenGrows
  <2>7. \A i \in DOMAIN shown' : (i \in DOMAIN shown /\ shown'[i] = shown[i]) \/ shown'[i] = p
    BY <2>5, OneMore
  <2>8. ASSUME NEW u \in Boxes PROVE Later(u, C[u])'
    <3>1. CASE u = box
      <4> SUFFICES ASSUME NEW i \in DOMAIN shown', NEW k \in 1..Len(c), ~OnScreen(u, k)'
                   PROVE  shown'[i].n # c[k] /\ (shown'[i].box = u => shown'[i].n < c[k])
        BY <1>4, <3>1 DEF Later
      <4>1. k # 1
        BY <1>1, <1>9, <3>1 DEF OnScreen
      <4>2. CASE i \in DOMAIN shown /\ shown'[i] = shown[i]
        BY <1>1, <1>2, <1>5, <3>1, <4>2 DEF Later, OnScreen
      <4>3. CASE shown'[i] = p
        <5>1. c[1] < c[k]
          <6>1. \A i0, j0 \in 1..Len(c) : i0 < j0 => c[i0] < c[j0]
            BY <1>0, <1>4 DEF BoxesInv, BoxOk, Content
          <6>2. Len(c) \in Nat
            BY <1>0, <1>4, BoxNodes
          <6>3. 1 < k
            BY <4>1, <6>2
          <6> QED BY <2>2, <6>1, <6>3
        <5>2. c[k] \in 1..MaxPacks
          BY <1>0, <1>4, BoxNodes
        <5> QED BY <2>3, <2>4, <4>3, <5>1, <5>2
      <4> QED BY <2>7, <4>2, <4>3
    <3>2. CASE u # box
      <4>1. PICK d : d = C[u] /\ Later(u, d)
        BY DEF BoxesInv
      <4>2. Live' => Live /\ \A k : OnScreen(u, k) => OnScreen(u, k)'
        BY <1>1, <1>2 DEF OnScreen
      <4>3. x \notin In(d)
        <5>1. x \in Owns(box, C[box])
          BY <1>0, <1>4, <2>2, <2>3 DEF Owns, In, NULL
        <5>2. x \notin Owns(u, C[u])
          BY <1>0, <3>2, <5>1 DEF BoxesInv, Apart
        <5> QED BY <2>3, <4>1, <5>2 DEF Owns, NULL
      <4>4. Later(u, d)'
        BY <2>3, <2>4, <2>7, <3>2, <4>1, <4>2, <4>3, LaterStep
      <4> QED BY <4>1, <4>4
    <3> QED BY <3>1, <3>2
  <2>9. DrainInv(C)'
    BY <1>1, <1>3, <1>4, <1>9, <2>2, <2>3, <2>6 DEF DrainInv
  <2>10. LostInv(C)'
    BY <1>1, <1>3, <2>6, LostStep
  <2> QED BY <1>1, <1>2, <2>8, <2>9, <2>10, Quiet
<1> QED BY <1>1, <1>7, <1>8, <1>9

LEMMA FreeBoxes ==
  ASSUME ClientInv, [Next]_vars, NEW C, BoxesInv(C), DrainFree
  PROVE  BoxesInv(C)'
<1>0. TypeOK /\ TypeOK' /\ Move /\ box \in Boxes /\ f \in Dummies /\ f = head[box] /\ f # NULL
  <2>1. menu = "free"
    BY DEF DrainFree
  <2>2. f \in Dummies /\ f = head[box] /\ f # NULL
    BY <2>1, DrainTypes DEF BoxesInv, DrainInv
  <2> QED BY <2>2, TypeStep, Moves DEF ClientInv, TypeOK
<1>1. /\ UNCHANGED <<head, end, next, recv, pack, shown, late, box, f>> /\ menu = "free" /\ menu' = "null"
      /\ freed' = freed \cup {f}
  BY DEF DrainFree, listVars
<1>2. Live /\ Live' /\ \A u : Draining(u)' <=> Draining(u)
  BY <1>1 DEF Live, Draining
<1>3. \A u \in Boxes : Later(u, C[u])'
  BY <1>1, <1>2, SameShown
<1>4. Seen' = Seen /\ LostInv(C) /\ DrainInv(C)
  BY <1>1 DEF Seen, BoxesInv
<1>5. DrainInv(C)'
  BY <1>1, <1>4 DEF DrainInv
<1>6. LostInv(C)'
  BY <1>1, <1>4, LostStep
<1>7. ASSUME NEW u \in Boxes PROVE Aside(u, C[u])
  <2>1. \A k \in 1..Len(C[u]) : C[u][k] \notin freed'
    BY <1>0, <1>1, BoxNodes
  <2>2. ~Draining(u)' => (head[u] \in freed' => head[u] \in freed)
    <3> SUFFICES ASSUME u # box PROVE head[u] # f
      BY <1>1 DEF Draining
    <3>1. f \in Owns(box, C[box])
      BY <1>0 DEF Owns
    <3>2. f \notin Owns(u, C[u])
      BY <1>0, <3>1 DEF BoxesInv, Apart
    <3> QED BY <1>0, <3>2 DEF Owns
  <2>3. TopDummy <= TopDummy' /\ TopOf(u) <= TopOf(u)'
    BY <1>0, Rising
  <2> QED BY <1>1, <1>2, <2>1, <2>2, <2>3 DEF Aside
<1> QED BY <1>0, <1>3, <1>5, <1>6, <1>7, Untouched

\* A step of the menu thread in the box t, as the others see it.
LEMMA DrainAside ==
  ASSUME ClientInv, [Next]_vars, NEW C, BoxesInv(C), NEW t \in Boxes, NEW u \in Boxes \ {t},
         UNCHANGED <<recv, pack, shown, end, box>>, box = t, Live, freed \subseteq freed',
         head'[u] = head[u], head[u] # NULL => next'[head[u]] = next[head[u]],
         \A k \in 1..Len(C[u]) : next'[C[u][k]] = next[C[u][k]] /\ C[u][k] \notin freed',
         head[u] \in freed' => head[u] \in freed
  PROVE  Aside(u, C[u]) /\ Later(u, C[u])'
<1>0. TypeOK /\ TypeOK' /\ Move
  BY TypeStep, Moves DEF ClientInv
<1>1. Aside(u, C[u])
  <2>1. ~Draining(u)
    BY DEF Draining
  <2>2. TopDummy <= TopDummy' /\ TopOf(u) <= TopOf(u)'
    BY <1>0, Rising
  <2> QED BY <2>1, <2>2 DEF Aside
<1>2. Later(u, C[u])'
  <2>1. PICK d : d = C[u] /\ Later(u, d)
    BY DEF BoxesInv
  <2>2. Live' => Live /\ \A k : OnScreen(u, k) => OnScreen(u, k)'
    BY DEF OnScreen
  <2>3. Later(u, d)'
    BY <2>1, <2>2, LaterStep
  <2> QED BY <2>1, <2>3
<1> QED BY <1>1, <1>2


LEMMA NullBoxes ==
  ASSUME ClientInv, [Next]_vars, NEW C, BoxesInv(C), DrainNull
  PROVE  \E D : BoxesInv(D)'
<1>0. TypeOK /\ TypeOK' /\ Move /\ box \in Boxes
  BY TypeStep, Moves DEF ClientInv, TypeOK
<1>1. /\ UNCHANGED <<recv, pack, shown, end, next, freed, late, box>> /\ menu = "null" /\ menu' = "menu"
      /\ head' = [head EXCEPT ![box] = NULL] /\ Live
  BY DEF DrainNull, HeadCleared, Live
<1>2. PICK t \in Boxes : t = box
  BY <1>0
<1>3. head'[t] = NULL /\ \A u \in Boxes \ {t} : head'[u] = head[u]
  BY <1>0, <1>1, <1>2 DEF TypeOK
<1>4. PICK d \in Seq(1..MaxPacks) : d = << >> /\ 1..Len(d) = {} /\ In(d) = {}
  <2>1. PICK d \in Seq(1..MaxPacks) : d = << >> /\ Len(d) = 0
    BY EmptySeq
  <2>2. 1..Len(d) = {}
    BY <2>1
  <2> QED BY <2>1, <2>2 DEF In
<1>5. BoxOk(t, d)'
  <2>1. end[t] # NULL => end[t] <= TopOf(t) \/ (end[t] \in Dummies /\ end[t] <= Dummy(TopDummy))
    BY <1>0, BoxNodes
  <2>2. TopOf(t)' = TopOf(t) /\ TopDummy' = TopDummy
    BY <1>1 DEF TopOf, TopDummy, Coming
  <2>3. Fresh(t, d)'
    BY <1>1, <1>3, <1>4, <2>1, <2>2 DEF Fresh
  <2>4. Chained(t, d)' /\ Content(t, d)' /\ EndOk(t, d)' /\ Whole(t, d)'
    BY <1>3, <1>4 DEF Chained, Content, EndOk, Whole
  <2> QED BY <2>3, <2>4 DEF BoxOk
<1>6. Later(t, d)'
  BY <1>4 DEF Later
<1>7. \A u \in Boxes \ {t} : Aside(u, C[u]) /\ Later(u, C[u])'
  <2>1. ASSUME NEW u \in Boxes \ {t} PROVE Aside(u, C[u]) /\ Later(u, C[u])'
    <3>1. \A k \in 1..Len(C[u]) : C[u][k] \notin freed'
      BY <1>0, <1>1, BoxNodes
    <3> QED BY <1>1, <1>2, <1>3, <3>1, DrainAside
  <2> QED BY <2>1
<1>8. \A x \in Owns(t, d)' : x \in Owns(t, C[t]) \/ \A u \in Boxes \ {t} : x \notin Owns(u, C[u])
  BY <1>1, <1>3, <1>4 DEF Owns
<1>9. PICK D : D = [C EXCEPT ![t] = d]
  OBVIOUS
<1>10. DrainInv(D)'
  BY <1>1 DEF DrainInv
<1>11. LostInv(D)'
  <2>1. Seen' = Seen /\ LostInv(C) /\ C \in [Boxes -> Seq(1..MaxPacks)] /\ In(C[t]) \subseteq late
    BY <1>1, <1>2 DEF Seen, BoxesInv, DrainInv
  <2>2. \A u \in Boxes : In(C[u]) \subseteq In(D[u]) \cup Seen' \cup late'
    BY <1>1, <1>9, <2>1
  <2> QED BY <1>1, <2>1, <2>2, LostStep
<1>12. BoxesInv(D)'
  BY <1>0, <1>5, <1>6, <1>7, <1>8, <1>9, <1>10, <1>11, Rebuilt
<1> QED BY <1>12

LEMMA UnlinkBoxes ==
  ASSUME ClientInv, [Next]_vars, NEW C, BoxesInv(C), DrainUnlink
  PROVE  \E D : BoxesInv(D)'
<1>0. TypeOK /\ TypeOK' /\ Move /\ box \in Boxes /\ MaxPacks \in Nat /\ next \in [Nodes -> UNSET..MaxPacks]
  BY TypeStep, Moves, PacksAssumption DEF ClientInv, TypeOK
<1>1. /\ UNCHANGED <<recv, pack, shown, end, head, late, box, f, m>> /\ menu = "unlink" /\ menu' = "test"
      /\ next' = [next EXCEPT ![f] = next[m]] /\ freed' = freed \cup {m} /\ Live
  BY DEF DrainUnlink, Unlinked, Live
<1>2. PICK t \in Boxes : t = box
  BY <1>0
<1>3. PICK c \in Seq(1..MaxPacks) : c = C[t]
  BY <1>2 DEF BoxesInv
<1>4. /\ f = head[t] /\ f # NULL /\ f \notin freed /\ c # << >> /\ m = c[1] /\ m \in Seen
  BY <1>1, <1>2, <1>3 DEF BoxesInv, DrainInv
<1>5. f \in Dummies /\ f \in Nodes /\ m \in 1..MaxPacks /\ m \in Nodes /\ m # f
  BY <1>1, DrainTypes
<1>6. PICK l \in Nat : l = Len(c) /\ l >= 1
  BY <1>4, EmptySeq, LenProperties
<1>7. PICK d \in Seq(1..MaxPacks) : /\ d = Tail(c) /\ Len(d) = l - 1
                                    /\ \A k \in 1..Len(d) : d[k] = c[k + 1] /\ k + 1 \in 1..l
  <2>1. Tail(c) \in Seq(1..MaxPacks) /\ Len(Tail(c)) = Len(c) - 1
        /\ \A k \in 1..Len(Tail(c)) : Tail(c)[k] = c[k + 1]
    BY <1>4, HeadTailProperties
  <2>2. PICK d \in Seq(1..MaxPacks) : d = Tail(c)
    BY <2>1
  <2>3. Len(d) = l - 1 /\ \A k \in 1..Len(d) : d[k] = c[k + 1]
    BY <1>6, <2>1, <2>2
  <2>4. \A k \in 1..Len(d) : k + 1 \in 1..l
    BY <1>6, <2>3
  <2> QED BY <2>2, <2>3, <2>4
<1>8. /\ BoxOk(t, c) /\ Later(t, c)
      /\ \A k \in 1..l : c[k] \in 1..MaxPacks /\ c[k] \in Nodes /\ c[k] # f /\ c[k] \notin freed
  <2>1. BoxOk(t, c) /\ Later(t, c)
    BY <1>3 DEF BoxesInv
  <2>2. \A k \in 1..l : c[k] \in 1..MaxPacks /\ c[k] \in Nodes /\ c[k] \notin Dummies /\ c[k] \notin freed
    BY <1>0, <1>3, <1>6, BoxNodes
  <2> QED BY <1>5, <2>1, <2>2
<1>9. \A k \in 2..l : c[k] # m /\ next'[c[k]] = next[c[k]] /\ c[k] \notin freed'
  <2>1. ASSUME NEW k \in 2..l PROVE c[1] < c[k] /\ k \in 1..l
    <3>1. \A i, j \in 1..Len(c) : i < j => c[i] < c[j]
      BY <1>8 DEF BoxOk, Content
    <3> QED BY <1>6, <3>1
  <2>2. ASSUME NEW k \in 2..l PROVE c[k] # m
    BY <1>4, <1>5, <1>8, <2>1
  <2> QED BY <1>0, <1>1, <1>8, <2>1, <2>2
<1>10. next'[f] = next[m] /\ next[m] = IF l = 1 THEN NULL ELSE c[2]
  <2>1. next[c[1]] = IF 1 = Len(c) THEN NULL ELSE c[1 + 1]
    BY <1>6, <1>8 DEF BoxOk, Chained
  <2> QED BY <1>0, <1>1, <1>4, <1>5, <1>6, <2>1
<1>11. d = << >> <=> l = 1
  <2>1. d = << >> <=> Len(d) = 0
    BY EmptySeq, LenProperties
  <2> QED BY <1>6, <1>7, <2>1
<1>12. BoxOk(t, d)'
  <2>1. Chained(t, d)'
    <3>1. IF d = << >> THEN next'[head'[t]] \in {NULL, UNSET} ELSE next'[head'[t]] = d[1]
      BY <1>1, <1>4, <1>6, <1>7, <1>10, <1>11
    <3>2. ASSUME NEW k \in 1..Len(d) PROVE next'[d[k]] = IF k = Len(d) THEN NULL ELSE d[k + 1]
      <4>1. d[k] = c[k + 1] /\ k + 1 \in 2..l
        BY <1>6, <1>7
      <4>2. next[c[k + 1]] = IF k + 1 = l THEN NULL ELSE c[k + 1 + 1]
        BY <1>6, <1>7, <1>8 DEF BoxOk, Chained
      <4>3. k # Len(d) => d[k + 1] = c[k + 1 + 1]
        BY <1>6, <1>7
      <4> QED BY <1>6, <1>7, <1>9, <4>1, <4>2, <4>3
    <3> QED BY <1>1, <1>4, <3>1, <3>2 DEF Chained
  <2>2. Content(t, d)'
    <3>1. \A i, j \in 1..l : i < j => c[i] < c[j]
      BY <1>6, <1>8 DEF BoxOk, Content
    <3>2. ASSUME NEW i \in 1..Len(d), NEW j \in 1..Len(d), i < j PROVE d[i] < d[j]
      <4>1. d[i] = c[i + 1] /\ d[j] = c[j + 1] /\ i + 1 \in 1..l /\ j + 1 \in 1..l /\ i + 1 < j + 1
        BY <1>6, <1>7, <3>2
      <4> QED BY <3>1, <4>1
    <3>3. ASSUME NEW k \in 1..Len(d) PROVE d[k] <= TopOf(t)' /\ d[k] \notin freed'
      <4>1. d[k] = c[k + 1] /\ k + 1 \in 1..l /\ k + 1 \in 2..l
        BY <1>6, <1>7
      <4>2. TopOf(t)' = TopOf(t)
        BY <1>1 DEF TopOf, Coming
      <4>3. c[k + 1] <= TopOf(t)
        BY <1>6, <1>8, <4>1 DEF BoxOk, Content
      <4> QED BY <1>9, <4>1, <4>2, <4>3
    <3> QED BY <3>2, <3>3 DEF Content
  <2>3. Fresh(t, d)'
    <3>1. TopOf(t)' = TopOf(t) /\ TopDummy' = TopDummy /\ (At(t)' <=> At(t))
      BY <1>1 DEF TopOf, TopDummy, Coming, At
    <3>2. next'[head'[t]] # UNSET
      <4>1. l # 1 => c[2] \in 1..MaxPacks
        BY <1>6, <1>8
      <4> QED BY <1>1, <1>4, <1>10, <4>1 DEF NULL, UNSET
    <3>3. Fresh(t, c)
      BY <1>8 DEF BoxOk
    <3> QED BY <1>1, <1>4, <3>1, <3>2, <3>3 DEF Fresh
  <2>4. EndOk(t, d)'
    <3> SUFFICES ASSUME ~(recv' = "tail" /\ At(t)'), d # << >>, end'[t] \in In(d) \cup {head'[t]}
                 PROVE  end'[t] = d[Len(d)]
      BY DEF EndOk
    <3>1. ~(recv = "tail" /\ At(t))
      BY <1>1 DEF At
    <3>2. In(d) \subseteq In(c)
      BY <1>6, <1>7 DEF In
    <3>3. end[t] = c[l]
      BY <1>1, <1>4, <1>6, <1>8, <3>1, <3>2 DEF BoxOk, EndOk
    <3>4. Len(d) \in 1..Len(d) /\ Len(d) + 1 = l
      BY <1>6, <1>7, <1>11
    <3> QED BY <1>1, <1>7, <3>3, <3>4
  <2>5. Whole(t, d)'
    BY <1>1, <1>2 DEF Whole, Draining
  <2> QED BY <2>1, <2>2, <2>3, <2>4, <2>5 DEF BoxOk
<1>13. Later(t, d)'
  <2> SUFFICES ASSUME NEW i \in DOMAIN shown', NEW k \in 1..Len(d)
               PROVE  shown'[i].n # d[k] /\ (shown'[i].box = t => shown'[i].n < d[k])
    BY DEF Later
  <2>1. d[k] = c[k + 1] /\ k + 1 \in 1..Len(c) /\ ~OnScreen(t, k + 1)
    BY <1>6, <1>7 DEF OnScreen
  <2> QED BY <1>1, <1>8, <2>1 DEF Later
<1>14. \A u \in Boxes \ {t} : Aside(u, C[u]) /\ Later(u, C[u])'
  <2>1. ASSUME NEW u \in Boxes \ {t} PROVE Aside(u, C[u]) /\ Later(u, C[u])'
    <3>1. f \in Owns(t, C[t]) /\ m \in Owns(t, C[t])
      <4>1. m \in In(c)
        BY <1>4, <1>6 DEF In
      <4> QED BY <1>3, <1>4, <1>5, <4>1 DEF Owns, NULL
    <3>2. f \notin Owns(u, C[u]) /\ m \notin Owns(u, C[u])
      BY <3>1 DEF BoxesInv, Apart
    <3>3. \A k \in 1..Len(C[u]) : C[u][k] # f /\ C[u][k] # m /\ C[u][k] \notin freed /\ C[u][k] \in Nodes
      <4>1. \A k \in 1..Len(C[u]) : C[u][k] \in 1..MaxPacks /\ C[u][k] \notin freed /\ C[u][k] \in Nodes
        BY <1>0, BoxNodes
      <4> QED BY <3>2, <4>1 DEF Owns, In, NULL
    <3>4. head[u] # NULL => head[u] # f /\ head[u] # m /\ head[u] \in Nodes
      BY <1>0, <3>2, BoxNodes DEF Owns
    <3>5. m # NULL
      BY <1>5 DEF NULL
    <3>6. head[u] # NULL => next'[head[u]] = next[head[u]]
      BY <1>0, <1>1, <3>4
    <3>7. \A k \in 1..Len(C[u]) : next'[C[u][k]] = next[C[u][k]] /\ C[u][k] \notin freed'
      BY <1>0, <1>1, <3>3
    <3>8. head[u] \in freed' => head[u] \in freed
      BY <1>1, <3>4, <3>5
    <3> QED BY <1>1, <1>2, <3>6, <3>7, <3>8, DrainAside
  <2> QED BY <2>1
<1>15. \A x \in Owns(t, d)' : x \in Owns(t, C[t]) \/ \A u \in Boxes \ {t} : x \notin Owns(u, C[u])
  <2>1. In(d) \subseteq In(c)
    BY <1>6, <1>7 DEF In
  <2> QED BY <1>1, <1>3, <2>1 DEF Owns
<1>16. PICK D : D = [C EXCEPT ![t] = d]
  OBVIOUS
<1>17. DrainInv(D)'
  BY <1>1, <1>2, <1>4, <1>5 DEF DrainInv
<1>18. LostInv(D)'
  <2>1. Seen' = Seen /\ LostInv(C) /\ C \in [Boxes -> Seq(1..MaxPacks)]
    BY <1>1 DEF Seen, BoxesInv
  <2>2. In(c) \subseteq In(d) \cup {m}
    <3>1. ASSUME NEW k \in 1..l PROVE c[k] \in In(d) \cup {m}
      <4>1. CASE k = 1
        BY <1>4, <4>1
      <4>2. CASE k # 1
        <5>1. k - 1 \in 1..Len(d) /\ d[k - 1] = c[k]
          <6>1. k - 1 \in 1..Len(d) /\ (k - 1) + 1 = k
            BY <1>6, <1>7, <4>2
          <6> QED BY <1>7, <6>1
        <5> QED BY <5>1 DEF In
      <4> QED BY <4>1, <4>2
    <3> QED BY <1>6, <3>1 DEF In
  <2>3. \A u \in Boxes : In(C[u]) \subseteq In(D[u]) \cup Seen' \cup late'
    BY <1>3, <1>4, <1>16, <2>1, <2>2
  <2> QED BY <1>1, <2>1, <2>3, LostStep
<1>19. BoxesInv(D)'
  BY <1>0, <1>12, <1>13, <1>14, <1>15, <1>16, <1>17, <1>18, Rebuilt
<1> QED BY <1>19


-----------------------------------------------------------------------------
(* The boxes: the steps of recv_PACK                                       *)

\* A store of recv_PACK, as the boxes that its packet is not for see it.
LEMMA StoreAside ==
  ASSUME ClientInv, [Next]_vars, NEW C, BoxesInv(C), NEW u \in Boxes, pack.type # u,
         UNCHANGED <<pack, shown, freed, menu, box>>, Live,
         head'[u] = head[u], end'[u] = end[u], head[u] # NULL => next'[head[u]] = next[head[u]],
         \A k \in 1..Len(C[u]) : next'[C[u][k]] = next[C[u][k]]
  PROVE  Aside(u, C[u]) /\ Later(u, C[u])'
<1>0. TypeOK /\ TypeOK' /\ Move
  BY TypeStep, Moves DEF ClientInv
<1>1. Aside(u, C[u])
  <2>1. \A k \in 1..Len(C[u]) : C[u][k] \notin freed'
    BY <1>0, BoxNodes
  <2>2. TopDummy <= TopDummy' /\ TopOf(u) <= TopOf(u)'
    BY <1>0, Rising
  <2>3. ~At(u) /\ ~At(u)' /\ (Draining(u)' <=> Draining(u))
    BY DEF At, Draining
  <2> QED BY <2>1, <2>2, <2>3 DEF Aside
<1>2. Later(u, C[u])'
  <2>1. PICK d : d = C[u] /\ Later(u, d)
    BY DEF BoxesInv
  <2>2. Live' => Live /\ \A k : OnScreen(u, k) => OnScreen(u, k)'
    BY DEF OnScreen
  <2>3. Later(u, d)'
    BY <2>1, <2>2, LaterStep
  <2> QED BY <2>1, <2>3
<1> QED BY <1>1, <1>2

\* A store of recv_PACK in the box t, which has c before and d afterwards.
Stored(t, c, d) ==
  /\ t = pack.type /\ Noted /\ UNCHANGED <<pack, shown, freed, menu, box, f, m>>
  /\ head[t] # NULL => head'[t] = head[t]
  /\ \A u \in Boxes \ {t} : head'[u] = head[u]
  /\ In(c) \subseteq In(d) /\ In(d) \subseteq In(c) \cup {pack.n}
  /\ c # << >> => d # << >> /\ d[1] = c[1]
  /\ recv' = "recv" => pack.n \in late' \/ pack.n \in In(d)

\* What the two threads know of the box after a store.
LEMMA StoreKnown ==
  ASSUME TypeOK, NEW C, BoxesInv(C), NEW t \in Boxes, NEW d, Stored(t, C[t], d),
         NEW D, D = [C EXCEPT ![t] = d]
  PROVE  DrainInv(D)' /\ LostInv(D)'
<1>0. /\ t = pack.type /\ Noted /\ UNCHANGED <<pack, shown, freed, menu, box, f, m>>
      /\ head[t] # NULL => head'[t] = head[t]
      /\ \A u \in Boxes \ {t} : head'[u] = head[u] /\ D[u] = C[u]
      /\ D[t] = d /\ In(C[t]) \subseteq In(D[t]) /\ In(D[t]) \subseteq In(C[t]) \cup {pack.n}
      /\ C[t] # << >> => D[t] # << >> /\ D[t][1] = C[t][1]
      /\ recv' = "recv" => pack.n \in late' \/ pack.n \in In(D[t])
      /\ box \in Boxes
  <2>1. D[t] = d /\ \A u \in Boxes \ {t} : D[u] = C[u]
    BY DEF BoxesInv
  <2> QED BY <2>1 DEF Stored, TypeOK
<1>1. Seen' = Seen /\ LostInv(C) /\ DrainInv(C) /\ late \subseteq late'
      /\ (Draining(t) => pack.n \in late')
  BY <1>0 DEF Seen, BoxesInv, Noted
<1>2. LostInv(D)'
  <2>1. \A u \in Boxes : In(C[u]) \subseteq In(D[u]) \cup Seen' \cup late'
    BY <1>0
  <2>2. recv' = "recv" => pack.n \in late' \/ \E u \in Boxes : pack.n \in In(D[u])
    BY <1>0
  <2> QED BY <1>0, <1>1, <2>1, <2>2, LostStep
<1>3. DrainInv(D)'
  <2> SUFFICES ASSUME menu \in {"test", "answer", "unlink", "free", "null"} PROVE DrainInv(D)'
    BY <1>0 DEF DrainInv
  <2>1. CASE box = t
    <3>1. Draining(t)
      BY <2>1 DEF Draining
    <3>2. f = head[t] /\ f # NULL /\ (menu # "null" => f \notin freed)
      BY <1>1, <2>1 DEF DrainInv
    <3>3. menu \in {"answer", "unlink"} => C[t] # << >> /\ m = C[t][1] /\ m \in Seen
      BY <1>1, <2>1 DEF DrainInv
    <3>4. menu \in {"free", "null"} => In(C[t]) \subseteq late
      BY <1>1, <2>1 DEF DrainInv
    <3>5. menu \in {"free", "null"} => In(D[t]) \subseteq late'
      BY <1>0, <1>1, <3>1, <3>4
    <3> QED BY <1>0, <1>1, <2>1, <3>2, <3>3, <3>5 DEF DrainInv
  <2>2. CASE box # t
    <3>1. box \in Boxes \ {t}
      BY <1>0, <2>2
    <3>2. D[box] = C[box] /\ head'[box] = head[box]
      BY <1>0, <3>1
    <3> QED BY <1>0, <1>1, <3>2 DEF DrainInv
  <2> QED BY <2>1, <2>2
<1> QED BY <1>2, <1>3

\* Before the store that links it, the packet is newer than everything.
LEMMA NewPacket ==
  ASSUME ClientInv, NEW C, BoxesInv(C), Coming, NEW u \in Boxes
  PROVE  /\ pack.n \in 1..MaxPacks /\ pack.n \notin In(C[u]) /\ pack.n # head[u] /\ pack.n # end[u]
         /\ pack.n \notin freed /\ \A i \in DOMAIN shown : shown[i].n < pack.n
         /\ \A k \in 1..Len(C[u]) : C[u][k] < pack.n
<1>0. TypeOK /\ MaxPacks \in Nat
  BY PacksAssumption DEF ClientInv
<1>1. pack.n \in 1..MaxPacks /\ Top = pack.n - 1 /\ TopOf(u) = pack.n - 1
  <2>1. pack.n > 0
    BY DEF ClientInv, PackInv, Coming, Past
  <2>2. pack.n \in 0..MaxPacks
    BY <1>0 DEF TypeOK
  <2> QED BY <1>0, <2>1, <2>2 DEF Top, TopOf
<1>2. \A k \in 1..Len(C[u]) : C[u][k] < pack.n
  <2>1. \A k \in 1..Len(C[u]) : C[u][k] \in 1..MaxPacks /\ C[u][k] <= TopOf(u)
    BY <1>0, BoxNodes
  <2> QED BY <1>1, <2>1
<1>3. pack.n \notin In(C[u])
  BY <1>1, <1>2 DEF In
<1>4. pack.n # head[u]
  <2>1. head[u] # NULL => head[u] \in Dummies
    BY <1>0, BoxNodes
  <2> QED BY <1>0, <1>1, <2>1 DEF Dummies, NULL
<1>5. pack.n # end[u]
  <2>1. end[u] # NULL => end[u] <= TopOf(u) \/ end[u] \in Dummies
    BY <1>0, BoxNodes
  <2> QED BY <1>0, <1>1, <2>1 DEF Dummies, NULL
<1>6. pack.n \notin freed
  <2>1. pack.n > Top
    BY <1>1
  <2> QED BY <1>1, <2>1 DEF ClientInv, UnusedInv
<1>7. ASSUME NEW i \in DOMAIN shown PROVE shown[i].n < pack.n
  <2>1. shown[i].n <= Top
    BY DEF ClientInv, SeenInv
  <2>2. shown[i].n \in Int
    <3>1. shown \in Seq([n : 1..MaxPacks, box : Boxes \cup {0}])
      BY <1>0 DEF TypeOK
    <3>2. shown[i] \in [n : 1..MaxPacks, box : Boxes \cup {0}]
      BY <3>1, LenProperties, ElementOfSeq
    <3> QED BY <3>2
  <2> QED BY <1>1, <2>1, <2>2
<1> QED BY <1>1, <1>2, <1>3, <1>4, <1>5, <1>6, <1>7

LEMMA HeadBoxes ==
  ASSUME ClientInv, [Next]_vars, NEW C, BoxesInv(C), BoxHead
  PROVE  \E D : BoxesInv(D)'
<1>0. TypeOK /\ TypeOK' /\ Move /\ MaxPacks \in Nat /\ box \in Boxes /\ C \in [Boxes -> Seq(1..MaxPacks)]
  BY TypeStep, Moves, PacksAssumption DEF ClientInv, TypeOK, BoxesInv
<1>1. /\ UNCHANGED <<menu, box, f, m, pack, end, next, freed, shown>> /\ recv = "head" /\ Noted /\ Live
      /\ recv' = IF head[pack.type] = NULL THEN "dummy" ELSE "link"
      /\ head' = IF head[pack.type] = NULL THEN [head EXCEPT ![pack.type] = Dummy(pack.n)] ELSE head
  BY DEF BoxHead, menuVars, Alive, Live
<1>2. PICK t \in Boxes : t = pack.type
  BY <1>1 DEF ClientInv, PackInv
<1>3. PICK n \in 1..MaxPacks : n = pack.n
  BY <1>0, <1>1 DEF ClientInv, PackInv, TypeOK
<1>4. PICK c \in Seq(1..MaxPacks) : c = C[t]
  BY <1>0
<1>5. BoxOk(t, c) /\ Later(t, c)
  BY <1>4 DEF BoxesInv
<1>6. /\ TopDummy = n - 1 /\ TopDummy' = n /\ Coming /\ \A u : TopOf(u) = n - 1 /\ TopOf(u)' = n - 1
      /\ ~At(t) /\ At(t)'
  BY <1>1, <1>2, <1>3 DEF TopDummy, TopOf, Coming, At, Past
<1>7. /\ head'[t] = IF head[t] = NULL THEN Dummy(n) ELSE head[t]
      /\ \A u \in Boxes \ {t} : head'[u] = head[u]
  BY <1>0, <1>1, <1>2, <1>3 DEF TypeOK
<1>8. /\ Dummy(n) \in Dummies /\ Dummy(n) # NULL /\ Dummy(n) \in Int /\ Dummy(n - 1) \in Int
      /\ Dummy(n - 1) < Dummy(n) /\ n - 1 < Dummy(n)
  BY <1>0 DEF Dummy, Dummies, NULL
\* The dummy is new.
<1>9. next[Dummy(n)] = UNSET /\ Dummy(n) \notin freed
  BY <1>6, <1>8 DEF ClientInv, UnusedInv
<1>10. head[t] = NULL => c = << >>
  BY <1>5 DEF BoxOk, Chained
<1>11. BoxOk(t, c)'
  <2>1. Chained(t, c)'
    <3>1. CASE head[t] = NULL
      <4>1. c = << >> /\ Len(c) = 0
        BY <1>10, <3>1, EmptySeq
      <4>2. next'[head'[t]] \in {NULL, UNSET}
        BY <1>1, <1>7, <1>9, <3>1
      <4> QED BY <1>7, <1>8, <3>1, <4>1, <4>2 DEF Chained
    <3>2. CASE head[t] # NULL
      BY <1>1, <1>5, <1>7, <3>2 DEF BoxOk, Chained
    <3> QED BY <3>1, <3>2
  <2>2. Content(t, c)'
    BY <1>1, <1>5, <1>6 DEF BoxOk, Content
  <2>3. Fresh(t, c)'
    <3>1. head'[t] # NULL => head'[t] <= Dummy(n)
      <4>1. head[t] # NULL => head[t] <= Dummy(n - 1) /\ head[t] \in Dummies
        BY <1>0, <1>6, BoxNodes
      <4> QED BY <1>7, <1>8, <4>1 DEF Dummies
    <3>2. end'[t] # NULL => end'[t] <= TopOf(t)' \/ (end'[t] \in Dummies /\ end'[t] <= Dummy(n))
      <4>1. end[t] # NULL => /\ end[t] \in Nodes
                             /\ end[t] <= n - 1 \/ (end[t] \in Dummies /\ end[t] <= Dummy(n - 1))
        BY <1>0, <1>6, BoxNodes
      <4> QED BY <1>1, <1>6, <1>8, <4>1 DEF Nodes
    <3>3. head'[t] # NULL /\ next'[head'[t]] = UNSET => head'[t] \in freed' \/ recv' = "dummy"
      <4>1. head[t] # NULL /\ next[head[t]] = UNSET => head[t] \in freed
        BY <1>1, <1>5 DEF BoxOk, Fresh
      <4> QED BY <1>1, <1>2, <1>7, <4>1
    <3>4. recv' \in {"dummy", "empty"} => c = << >>
      BY <1>1, <1>2, <1>10
    <3> QED BY <1>6, <3>1, <3>2, <3>3, <3>4 DEF Fresh
  <2>4. EndOk(t, c)'
    <3>1. c # << >> /\ end[t] \in In(c) \cup {head[t]} => end[t] = c[Len(c)]
      BY <1>1, <1>5 DEF BoxOk, EndOk
    <3>2. c # << >> => head'[t] = head[t] /\ end'[t] = end[t]
      BY <1>1, <1>7, <1>10
    <3> QED BY <3>1, <3>2 DEF EndOk, In
  <2>5. Whole(t, c)'
    <3>1. CASE head[t] = NULL
      BY <1>1, <1>2, <1>6, <1>7, <1>9, <3>1 DEF Whole
    <3>2. CASE head[t] # NULL
      <4>1. Draining(t)' <=> Draining(t)
        BY <1>1 DEF Draining
      <4>2. ~Draining(t) => head[t] \notin freed /\ c # << >> /\ end[t] = c[Len(c)]
        BY <1>1, <1>5, <1>6, <3>2 DEF BoxOk, Whole
      <4> QED BY <1>1, <1>2, <1>7, <3>2, <4>1, <4>2 DEF Whole
    <3> QED BY <3>1, <3>2
  <2> QED BY <2>1, <2>2, <2>3, <2>4, <2>5 DEF BoxOk
<1>12. Later(t, c)'
  BY <1>1, <1>5 DEF Later, OnScreen
<1>13. \A u \in Boxes \ {t} : Aside(u, C[u]) /\ Later(u, C[u])'
  BY <1>1, <1>2, <1>7, StoreAside
<1>14. \A x \in Owns(t, c)' : x \in Owns(t, C[t]) \/ \A u \in Boxes \ {t} : x \notin Owns(u, C[u])
  <2>1. ASSUME NEW u \in Boxes PROVE Dummy(n) \notin Owns(u, C[u])
    <3>1. Dummy(n) \notin In(C[u])
      BY <1>0, <1>8, BoxNodes DEF In
    <3>2. head[u] # NULL => head[u] <= Dummy(n - 1) /\ head[u] \in Dummies
      BY <1>0, <1>6, BoxNodes
    <3>3. end[u] # NULL => /\ end[u] \in Nodes
                           /\ end[u] <= n - 1 \/ end[u] <= Dummy(n - 1)
      BY <1>0, <1>6, BoxNodes
    <3>4. Dummy(n) # head[u]
      BY <1>8, <3>2 DEF Dummies
    <3>5. Dummy(n) # end[u]
      BY <1>8, <3>3 DEF Nodes
    <3> QED BY <3>1, <3>4, <3>5 DEF Owns
  <2>2. Owns(t, c)' \subseteq Owns(t, c) \cup {Dummy(n)}
    BY <1>1, <1>7 DEF Owns
  <2> QED BY <1>4, <2>1, <2>2
<1>15. PICK D : D = [C EXCEPT ![t] = c]
  OBVIOUS
<1>16. DrainInv(D)' /\ LostInv(D)'
  <2>1. recv' # "recv"
    BY <1>1
  <2>2. Stored(t, C[t], c)
    BY <1>1, <1>2, <1>4, <1>7, <2>1 DEF Stored
  <2> QED BY <1>0, <1>15, <2>2, StoreKnown
<1>17. BoxesInv(D)'
  BY <1>0, <1>11, <1>12, <1>13, <1>14, <1>15, <1>16, Rebuilt
<1> QED BY <1>17


LEMMA DummyBoxes ==
  ASSUME ClientInv, [Next]_vars, NEW C, BoxesInv(C), BoxDummy
  PROVE  \E D : BoxesInv(D)'
<1>0. /\ TypeOK /\ TypeOK' /\ Move /\ MaxPacks \in Nat /\ C \in [Boxes -> Seq(1..MaxPacks)]
      /\ next \in [Nodes -> UNSET..MaxPacks]
  BY TypeStep, Moves, PacksAssumption DEF ClientInv, TypeOK, BoxesInv
<1>1. recv = "dummy" /\ Noted /\ Live /\ UNCHANGED <<pack, shown>>
  BY DEF BoxDummy, Alive, Live
<1>2. PICK t \in Boxes : t = pack.type
  BY <1>1 DEF ClientInv, PackInv, Past
<1>3. CASE head[t] = NULL
  <2>1. Crash
    BY <1>2, <1>3 DEF BoxDummy
  <2> QED BY <1>1, <2>1, CrashBoxes
<1>4. CASE head[t] # NULL
  <2>1. /\ UNCHANGED <<menu, box, f, m, head, end, freed>> /\ recv' = "empty"
        /\ next' = IF head[t] \in freed THEN next ELSE [next EXCEPT ![head[t]] = NULL]
    BY <1>2, <1>4 DEF BoxDummy, menuVars
  <2>2. PICK c \in Seq(1..MaxPacks) : c = C[t]
    BY <1>0
  <2>3. BoxOk(t, c) /\ At(t) /\ At(t)' /\ c = << >> /\ Len(c) = 0
    <3>1. BoxOk(t, c) /\ At(t) /\ At(t)'
      BY <1>1, <1>2, <2>1, <2>2 DEF BoxesInv, At, Past
    <3>2. c = << >>
      BY <1>1, <3>1 DEF BoxOk, Fresh
    <3> QED BY <3>1, <3>2, EmptySeq
  <2>4. head[t] \in Dummies /\ head[t] \in Nodes
    BY <1>0, <1>4, BoxNodes
  <2>5. next'[head[t]] = IF head[t] \in freed THEN next[head[t]] ELSE NULL
    BY <1>0, <2>1, <2>4
  <2>6. \A x \in Nodes : x # head[t] => next'[x] = next[x]
    BY <1>0, <2>1
  <2>7. TopOf(t)' = TopOf(t) /\ TopDummy' = TopDummy
    BY <1>1, <2>1 DEF TopOf, TopDummy, Coming
  <2>8. BoxOk(t, c)'
    <3>1. Chained(t, c)'
      <4>1. next[head[t]] \in {NULL, UNSET}
        BY <1>4, <2>3 DEF BoxOk, Chained
      <4> QED BY <1>4, <2>1, <2>3, <2>5, <4>1 DEF Chained
    <3>2. Content(t, c)'
      BY <2>3 DEF Content
    <3>3. Fresh(t, c)'
      <4>1. next'[head[t]] = UNSET => head[t] \in freed
        BY <2>5 DEF NULL, UNSET
      <4> QED BY <2>1, <2>3, <2>7, <4>1 DEF BoxOk, Fresh
    <3>4. EndOk(t, c)'
      BY <2>3 DEF EndOk
    <3>5. Whole(t, c)'
      <4>1. Draining(t)' <=> Draining(t)
        BY <2>1 DEF Draining
      <4>2. ~Draining(t) => head[t] \notin freed
        BY <1>1, <1>4, <2>3 DEF BoxOk, Whole
      <4> QED BY <2>1, <2>3, <4>1, <4>2 DEF Whole
    <3> QED BY <3>1, <3>2, <3>3, <3>4, <3>5 DEF BoxOk
  <2>9. Later(t, c)'
    BY <2>3 DEF Later
  <2>10. \A u \in Boxes \ {t} : Aside(u, C[u]) /\ Later(u, C[u])'
    <3>1. ASSUME NEW u \in Boxes \ {t} PROVE Aside(u, C[u]) /\ Later(u, C[u])'
      <4>1. head[t] \in Owns(t, C[t])
        BY <1>4 DEF Owns
      <4>2. head[t] \notin Owns(u, C[u])
        BY <4>1 DEF BoxesInv, Apart
      <4>3. head[u] # NULL => head[u] # head[t] /\ head[u] \in Nodes
        BY <1>0, <4>2, BoxNodes DEF Owns
      <4>4. \A k \in 1..Len(C[u]) : C[u][k] \in Nodes /\ C[u][k] # head[t]
        BY <1>0, <2>4, BoxNodes
      <4>5. head[u] # NULL => next'[head[u]] = next[head[u]]
        BY <2>6, <4>3
      <4>6. \A k \in 1..Len(C[u]) : next'[C[u][k]] = next[C[u][k]]
        BY <2>6, <4>4
      <4> QED BY <1>1, <1>2, <2>1, <4>5, <4>6, StoreAside
    <3> QED BY <3>1
  <2>11. \A x \in Owns(t, c)' : x \in Owns(t, C[t]) \/ \A u \in Boxes \ {t} : x \notin Owns(u, C[u])
    BY <2>1, <2>2 DEF Owns
  <2>12. PICK D : D = [C EXCEPT ![t] = c]
    OBVIOUS
  <2>13. Stored(t, C[t], c)
    BY <1>1, <1>2, <2>1, <2>2 DEF Stored
  <2>14. DrainInv(D)' /\ LostInv(D)'
    BY <1>0, <2>12, <2>13, StoreKnown
  <2>15. BoxesInv(D)'
    BY <1>0, <2>8, <2>9, <2>10, <2>11, <2>12, <2>14, Rebuilt
  <2> QED BY <2>15
<1> QED BY <1>3, <1>4

LEMMA EmptyBoxes ==
  ASSUME ClientInv, [Next]_vars, NEW C, BoxesInv(C), BoxEmpty
  PROVE  \E D : BoxesInv(D)'
<1>0. TypeOK /\ TypeOK' /\ Move /\ MaxPacks \in Nat /\ C \in [Boxes -> Seq(1..MaxPacks)]
  BY TypeStep, Moves, PacksAssumption DEF ClientInv, TypeOK, BoxesInv
<1>1. /\ recv = "empty" /\ Noted /\ Live /\ UNCHANGED <<pack, shown, menu, box, f, m, head, next, freed>>
      /\ recv' = "link" /\ end' = [end EXCEPT ![pack.type] = head[pack.type]]
  BY DEF BoxEmpty, EndAtHead, menuVars, Alive, Live
<1>2. PICK t \in Boxes : t = pack.type
  BY <1>1 DEF ClientInv, PackInv, Past
<1>3. end'[t] = head[t] /\ \A u \in Boxes \ {t} : end'[u] = end[u]
  BY <1>0, <1>1, <1>2 DEF TypeOK
<1>4. PICK c \in Seq(1..MaxPacks) : c = C[t]
  BY <1>0
<1>5. BoxOk(t, c) /\ At(t) /\ At(t)' /\ c = << >> /\ Len(c) = 0
  <2>1. BoxOk(t, c) /\ At(t) /\ At(t)'
    BY <1>1, <1>2, <1>4 DEF BoxesInv, At, Past
  <2>2. c = << >>
    BY <1>1, <2>1 DEF BoxOk, Fresh
  <2> QED BY <2>1, <2>2, EmptySeq
<1>6. TopOf(t)' = TopOf(t) /\ TopDummy' = TopDummy
  BY <1>1 DEF TopOf, TopDummy, Coming
<1>7. BoxOk(t, c)'
  <2>1. Chained(t, c)'
    BY <1>1, <1>5 DEF BoxOk, Chained
  <2>2. Content(t, c)' /\ EndOk(t, c)'
    BY <1>5 DEF Content, EndOk
  <2>3. Fresh(t, c)'
    <3>1. head[t] # NULL => head[t] <= Dummy(TopDummy) /\ head[t] \in Dummies
      BY <1>0, BoxNodes
    <3>2. head[t] # NULL /\ next[head[t]] = UNSET => head[t] \in freed
      BY <1>1, <1>5 DEF BoxOk, Fresh
    <3> QED BY <1>1, <1>3, <1>5, <1>6, <3>1, <3>2 DEF Fresh
  <2>4. Whole(t, c)'
    <3>1. Draining(t)' <=> Draining(t)
      BY <1>1 DEF Draining
    <3>2. head[t] # NULL /\ ~Draining(t) => head[t] \notin freed
      BY <1>1, <1>5 DEF BoxOk, Whole
    <3> QED BY <1>1, <1>3, <1>5, <3>1, <3>2 DEF Whole
  <2> QED BY <2>1, <2>2, <2>3, <2>4 DEF BoxOk
<1>8. Later(t, c)'
  BY <1>5 DEF Later
<1>9. \A u \in Boxes \ {t} : Aside(u, C[u]) /\ Later(u, C[u])'
  BY <1>1, <1>2, <1>3, StoreAside
<1>10. \A x \in Owns(t, c)' : x \in Owns(t, C[t]) \/ \A u \in Boxes \ {t} : x \notin Owns(u, C[u])
  BY <1>1, <1>3, <1>4 DEF Owns
<1>11. PICK D : D = [C EXCEPT ![t] = c]
  OBVIOUS
<1>12. Stored(t, C[t], c)
  BY <1>1, <1>2, <1>4 DEF Stored
<1>13. DrainInv(D)' /\ LostInv(D)'
  BY <1>0, <1>11, <1>12, StoreKnown
<1>14. BoxesInv(D)'
  BY <1>0, <1>7, <1>8, <1>9, <1>10, <1>11, <1>13, Rebuilt
<1> QED BY <1>14

LEMMA TailBoxes ==
  ASSUME ClientInv, [Next]_vars, NEW C, BoxesInv(C), BoxTail
  PROVE  \E D : BoxesInv(D)'
<1>0. TypeOK /\ TypeOK' /\ Move /\ MaxPacks \in Nat /\ C \in [Boxes -> Seq(1..MaxPacks)]
  BY TypeStep, Moves, PacksAssumption DEF ClientInv, TypeOK, BoxesInv
<1>1. /\ recv = "tail" /\ Noted /\ Live /\ UNCHANGED <<pack, shown, menu, box, f, m, head, next, freed>>
      /\ recv' = "recv" /\ end' = [end EXCEPT ![pack.type] = pack.n]
  BY DEF BoxTail, menuVars, Alive, Live
<1>2. PICK t \in Boxes : t = pack.type
  BY <1>1 DEF ClientInv, PackInv, Past
<1>3. PICK n \in 1..MaxPacks : n = pack.n
  BY <1>0, <1>1 DEF ClientInv, PackInv, TypeOK, Past
<1>4. end'[t] = n /\ \A u \in Boxes \ {t} : end'[u] = end[u]
  BY <1>0, <1>1, <1>2, <1>3 DEF TypeOK
<1>5. PICK c \in Seq(1..MaxPacks) : c = C[t]
  BY <1>0
<1>6. BoxOk(t, c) /\ Later(t, c) /\ At(t) /\ ~At(t)'
  BY <1>1, <1>2, <1>5 DEF BoxesInv, At, Past
<1>7. /\ TopOf(t) = n /\ TopOf(t)' = n /\ TopDummy' = TopDummy
      /\ \A u \in Boxes \ {t} : TopOf(u) = n - 1
  BY <1>1, <1>2, <1>3 DEF TopOf, TopDummy, Coming
<1>8. PICK l \in Nat : l = Len(c) /\ (c = << >> <=> l = 0)
  BY EmptySeq, LenProperties
<1>9. \A k \in 1..l : c[k] \in 1..MaxPacks /\ c[k] <= n
  <2>1. \A k \in 1..Len(c) : c[k] \in 1..MaxPacks /\ c[k] <= TopOf(t)
    BY <1>0, <1>5, BoxNodes
  <2> QED BY <1>7, <1>8, <2>1
<1>10. head[t] # NULL => head[t] \in Dummies
  BY <1>0, BoxNodes
<1>11. BoxOk(t, c)'
  <2>1. Chained(t, c)'
    BY <1>1, <1>6 DEF BoxOk, Chained
  <2>2. Content(t, c)'
    BY <1>1, <1>6, <1>7 DEF BoxOk, Content
  <2>3. Fresh(t, c)'
    <3>1. head[t] # NULL => head[t] <= Dummy(TopDummy)
      BY <1>0, BoxNodes
    <3>2. head[t] # NULL /\ next[head[t]] = UNSET => head[t] \in freed
      BY <1>1, <1>6 DEF BoxOk, Fresh
    <3>3. end'[t] <= TopOf(t)'
      BY <1>4, <1>7
    <3> QED BY <1>1, <1>6, <1>7, <3>1, <3>2, <3>3 DEF Fresh
  \* The newest packet is the last one.
  <2>4. EndOk(t, c)'
    <3> SUFFICES ASSUME c # << >>, end'[t] \in In(c) \cup {head'[t]} PROVE end'[t] = c[Len(c)]
      BY DEF EndOk
    <3>1. n # head[t]
      BY <1>0, <1>10 DEF Dummies, NULL
    <3>2. PICK k \in 1..l : c[k] = n
      BY <1>1, <1>4, <1>8, <3>1 DEF In
    <3>3. l \in 1..l /\ (k < l => c[k] < c[l])
      BY <1>6, <1>8, <3>2 DEF BoxOk, Content
    <3>4. c[l] \in 1..MaxPacks /\ c[l] <= n
      BY <1>9, <3>3
    <3>5. k = l
      BY <3>2, <3>3, <3>4
    <3> QED BY <1>4, <1>8, <3>2, <3>5
  <2>5. Whole(t, c)'
    <3>1. Draining(t)' <=> Draining(t)
      BY <1>1 DEF Draining
    <3>2. head[t] # NULL /\ ~Draining(t) => head[t] \notin freed /\ c # << >> /\ c[Len(c)] = n
      BY <1>1, <1>3, <1>6 DEF BoxOk, Whole
    <3> QED BY <1>1, <1>4, <1>6, <3>1, <3>2 DEF Whole
  <2> QED BY <2>1, <2>2, <2>3, <2>4, <2>5 DEF BoxOk
<1>12. Later(t, c)'
  BY <1>1, <1>6 DEF Later, OnScreen
<1>13. \A u \in Boxes \ {t} : Aside(u, C[u]) /\ Later(u, C[u])'
  BY <1>1, <1>2, <1>4, StoreAside
<1>14. \A x \in Owns(t, c)' : x \in Owns(t, C[t]) \/ \A u \in Boxes \ {t} : x \notin Owns(u, C[u])
  <2>1. ASSUME NEW u \in Boxes \ {t} PROVE n \notin Owns(u, C[u])
    <3>1. \A k \in 1..Len(C[u]) : C[u][k] \in 1..MaxPacks /\ C[u][k] <= n - 1
      BY <1>0, <1>7, BoxNodes
    <3>2. n \notin In(C[u])
      BY <3>1 DEF In
    <3>3. head[u] # NULL => head[u] \in Dummies
      BY <1>0, BoxNodes
    <3>4. end[u] # NULL => end[u] <= n - 1 \/ end[u] \in Dummies
      BY <1>0, <1>7, BoxNodes
    <3>5. n # head[u] /\ n # end[u]
      BY <1>0, <3>3, <3>4 DEF Dummies, NULL
    <3> QED BY <3>2, <3>5 DEF Owns
  <2>2. Owns(t, c)' \subseteq Owns(t, c) \cup {n}
    BY <1>1, <1>4 DEF Owns
  <2> QED BY <1>5, <2>1, <2>2
<1>15. PICK D : D = [C EXCEPT ![t] = c]
  OBVIOUS
<1>16. pack.n \in late' \/ pack.n \in In(c)
  <2>1. CASE Draining(t) \/ head[t] = NULL
    BY <1>1, <1>2, <2>1 DEF ClientInv, LateInv, Past, Noted
  <2>2. CASE ~Draining(t) /\ head[t] # NULL
    <3>1. c # << >> /\ c[Len(c)] = pack.n
      BY <1>1, <1>6, <2>2 DEF BoxOk, Whole
    <3>2. Len(c) \in 1..Len(c)
      BY <1>8, <3>1
    <3> QED BY <3>1, <3>2 DEF In
  <2> QED BY <2>1, <2>2
<1>17. Stored(t, C[t], c)
  BY <1>1, <1>2, <1>5, <1>16 DEF Stored
<1>18. DrainInv(D)' /\ LostInv(D)'
  BY <1>0, <1>15, <1>17, StoreKnown
<1>19. BoxesInv(D)'
  BY <1>0, <1>11, <1>12, <1>13, <1>14, <1>15, <1>18, Rebuilt
<1> QED BY <1>19


\* end->next = new: the node that end is at is the last one of the box, or one
\* that is not in the box any more, or one that was given back.
LEMMA LinkBoxes ==
  ASSUME ClientInv, [Next]_vars, NEW C, BoxesInv(C), BoxLink
  PROVE  \E D : BoxesInv(D)'
<1>0. /\ TypeOK /\ TypeOK' /\ Move /\ MaxPacks \in Nat /\ C \in [Boxes -> Seq(1..MaxPacks)]
      /\ next \in [Nodes -> UNSET..MaxPacks]
  BY TypeStep, Moves, PacksAssumption DEF ClientInv, TypeOK, BoxesInv
<1>1. recv = "link" /\ Noted /\ Live /\ UNCHANGED <<pack, shown>> /\ Coming
  BY DEF BoxLink, Alive, Live, Coming
<1>2. PICK t \in Boxes : t = pack.type
  BY <1>1 DEF ClientInv, PackInv, Past
<1>3. CASE end[t] = NULL
  <2>1. Crash
    BY <1>2, <1>3 DEF BoxLink
  <2> QED BY <1>1, <2>1, CrashBoxes
<1>4. CASE end[t] # NULL
  <2>1. /\ UNCHANGED <<menu, box, f, m, head, end, freed>> /\ recv' = "tail"
        /\ next' = Linked(head[t], end[t], pack.n)
    BY <1>2, <1>4 DEF BoxLink, menuVars
  <2>2. PICK n \in 1..MaxPacks, e \in Nodes : n = pack.n /\ e = end[t] /\ n # e /\ n \in Nodes /\ e # NULL
    <3>1. pack.n \in 1..MaxPacks /\ pack.n # end[t]
      BY <1>1, NewPacket
    <3>2. end[t] \in Nodes
      BY <1>0, <1>4, BoxNodes
    <3>3. pack.n \in Nodes
      BY <1>0, <3>1 DEF Nodes
    <3> QED BY <1>4, <3>1, <3>2, <3>3
  <2>3. PICK c \in Seq(1..MaxPacks) : c = C[t]
    BY <1>0
  <2>4. BoxOk(t, c) /\ Later(t, c) /\ At(t) /\ At(t)'
    BY <1>1, <1>2, <2>1, <2>3 DEF BoxesInv, At, Past
  <2>5. /\ next'[n] = NULL /\ (e \notin freed => next'[e] = n) /\ (e \in freed => next'[e] = next[e])
        /\ \A x \in Nodes : x # n /\ x # e => next'[x] = next[x]
    <3>1. PICK g \in [Nodes -> UNSET..MaxPacks] :
            g[n] = NULL /\ (\A x \in Nodes \ {n} : g[x] = next[x]) /\ g = [next EXCEPT ![n] = NULL]
      <4>1. NULL \in UNSET..MaxPacks
        BY <1>0 DEF NULL, UNSET
      <4> QED BY <1>0, <2>2, <4>1
    <3>2. next' = [g EXCEPT ![e] = IF e \in freed THEN next[e] ELSE n]
      BY <2>1, <2>2, <3>1, Zenon DEF Linked
    <3>3. next'[e] = IF e \in freed THEN next[e] ELSE n
      BY <2>2, <3>1, <3>2
    <3>4. \A x \in Nodes : x # e => next'[x] = g[x]
      BY <2>2, <3>1, <3>2
    <3> QED BY <2>2, <3>1, <3>3, <3>4
  <2>6. /\ TopOf(t) = n - 1 /\ TopOf(t)' = n /\ TopDummy' = TopDummy
    BY <1>1, <1>2, <2>1, <2>2 DEF TopOf, TopDummy, Coming
  <2>7. PICK l \in Nat : l = Len(c) /\ (c = << >> <=> l = 0)
    BY EmptySeq, LenProperties
  <2>8. \A k \in 1..l : /\ c[k] \in 1..MaxPacks /\ c[k] \in Nodes /\ c[k] < n /\ c[k] # n
                        /\ c[k] \notin freed /\ c[k] \notin Dummies
    <3>1. \A k \in 1..l : c[k] \in 1..MaxPacks /\ c[k] \in Nodes /\ c[k] \notin freed /\ c[k] \notin Dummies
      BY <1>0, <2>3, <2>7, BoxNodes
    <3>2. \A k \in 1..l : c[k] < n
      BY <1>1, <2>2, <2>3, <2>7, NewPacket
    <3> QED BY <3>1, <3>2
  <2>9. head[t] # NULL => head[t] \in Nodes /\ head[t] # n /\ head[t] \in Dummies
    BY <1>0, <1>1, <2>2, BoxNodes, NewPacket
  <2>10. \A u \in Boxes \ {t} : Aside(u, C[u]) /\ Later(u, C[u])'
    <3>1. ASSUME NEW u \in Boxes \ {t} PROVE Aside(u, C[u]) /\ Later(u, C[u])'
      <4>1. e \in Owns(t, C[t])
        BY <2>2 DEF Owns
      <4>2. e \notin Owns(u, C[u])
        BY <4>1 DEF BoxesInv, Apart
      <4>3. n \notin In(C[u]) /\ n # head[u]
        BY <1>1, <2>2, NewPacket
      <4>4. head[u] # NULL => head[u] # e /\ head[u] \in Nodes
        BY <1>0, <4>2, BoxNodes DEF Owns
      <4>5. \A k \in 1..Len(C[u]) : C[u][k] \in Nodes /\ C[u][k] # e /\ C[u][k] # n
        <5>1. \A k \in 1..Len(C[u]) : C[u][k] \in Nodes /\ C[u][k] \in 1..MaxPacks
          BY <1>0, BoxNodes
        <5> QED BY <2>2, <4>2, <4>3, <5>1 DEF Owns, In
      <4>6. head[u] # NULL => next'[head[u]] = next[head[u]]
        BY <2>5, <4>3, <4>4
      <4>7. \A k \in 1..Len(C[u]) : next'[C[u][k]] = next[C[u][k]]
        BY <2>5, <4>5
      <4> QED BY <1>1, <1>2, <2>1, <4>6, <4>7, StoreAside
    <3> QED BY <3>1
  \* The packet is linked behind the last one.
  <2>11. CASE e \notin freed /\ e \in In(c) \cup {head[t]}
    <3>1. head[t] # NULL
      <4>1. c # << >> => head[t] # NULL
        BY <2>4 DEF BoxOk, Chained
      <4>2. c = << >> => In(c) = {}
        BY <2>7 DEF In
      <4> QED BY <2>2, <2>11, <4>1, <4>2
    <3>2. e = IF l = 0 THEN head[t] ELSE c[l]
      <4>1. CASE l = 0
        <5>1. In(c) = {}
          BY <2>7, <4>1 DEF In
        <5> QED BY <2>11, <4>1, <5>1
      <4>2. CASE l # 0
        BY <1>1, <2>2, <2>4, <2>7, <2>11, <4>2 DEF BoxOk, EndOk
      <4> QED BY <4>1, <4>2
    <3>3. PICK d \in Seq(1..MaxPacks) : /\ Len(d) = l + 1 /\ d[l + 1] = n /\ d # << >>
                                        /\ \A k \in 1..l : d[k] = c[k]
      <4>1. PICK d : d = Append(c, n)
        OBVIOUS
      <4>2. /\ d \in Seq(1..MaxPacks) /\ Len(d) = Len(c) + 1 /\ d[Len(c) + 1] = n /\ d # << >>
            /\ \A k \in 1..Len(c) : d[k] = c[k]
        BY <4>1, AppendProperties
      <4> QED BY <2>7, <4>2
    <3>4. next'[n] = NULL /\ next'[e] = n
      BY <2>5, <2>11
    <3>5. \A k \in 1..l : k # l => next'[c[k]] = next[c[k]]
      <4>1. ASSUME NEW k \in 1..l, k # l PROVE c[k] # e
        <5>1. l \in 1..l /\ k < l /\ e = c[l]
          BY <3>2, <4>1
        <5>2. c[k] < c[l]
          BY <2>4, <2>7, <5>1 DEF BoxOk, Content
        <5> QED BY <2>8, <5>1, <5>2
      <4> QED BY <2>5, <2>8, <4>1
    <3>6. Chained(t, d)'
      <4>1. next'[head[t]] = d[1]
        <5>1. CASE l = 0
          BY <3>2, <3>3, <3>4, <5>1
        <5>2. CASE l # 0
          <6>1. l \in 1..l /\ 1 \in 1..l /\ e = c[l]
            BY <3>2, <5>2
          <6>2. head[t] # e
            BY <2>8, <2>9, <3>1, <6>1
          <6>3. next'[head[t]] = next[head[t]]
            BY <2>5, <2>9, <3>1, <6>2
          <6>4. next[head[t]] = c[1]
            BY <2>4, <2>7, <3>1, <5>2 DEF BoxOk, Chained
          <6> QED BY <3>3, <6>1, <6>3, <6>4
        <5> QED BY <5>1, <5>2
      <4>2. ASSUME NEW k \in 1..Len(d) PROVE next'[d[k]] = IF k = Len(d) THEN NULL ELSE d[k + 1]
        <5>1. CASE k = l + 1
          BY <3>3, <3>4, <5>1
        <5>2. CASE k = l
          <6>1. l \in 1..l /\ l # 0 /\ d[l] = c[l] /\ l # Len(d)
            BY <3>3, <5>2
          <6> QED BY <3>2, <3>3, <3>4, <5>2, <6>1
        <5>3. CASE k \in 1..l /\ k # l
          <6>1. k + 1 \in 1..l /\ d[k] = c[k] /\ d[k + 1] = c[k + 1] /\ k # Len(d)
            BY <3>3, <5>3
          <6>2. next[c[k]] = c[k + 1]
            BY <2>4, <2>7, <5>3 DEF BoxOk, Chained
          <6> QED BY <3>5, <5>3, <6>1, <6>2
        <5>4. k = l + 1 \/ k = l \/ (k \in 1..l /\ k # l)
          BY <3>3
        <5> QED BY <5>1, <5>2, <5>3, <5>4
      <4> QED BY <2>1, <3>1, <3>3, <4>1, <4>2 DEF Chained
    <3>7. Content(t, d)'
      <4>1. ASSUME NEW i \in 1..Len(d), NEW j \in 1..Len(d), i < j PROVE d[i] < d[j]
        <5>1. i \in 1..l /\ d[i] = c[i]
          BY <3>3, <4>1
        <5>2. CASE j = l + 1
          BY <2>8, <3>3, <5>1, <5>2
        <5>3. CASE j \in 1..l
          BY <2>4, <2>7, <3>3, <4>1, <5>1, <5>3 DEF BoxOk, Content
        <5>4. j = l + 1 \/ j \in 1..l
          BY <3>3
        <5> QED BY <5>2, <5>3, <5>4
      <4>2. ASSUME NEW k \in 1..Len(d) PROVE d[k] <= TopOf(t)' /\ d[k] \notin freed'
        <5>1. n \notin freed
          BY <1>1, <2>2, NewPacket
        <5>2. CASE k = l + 1
          BY <2>1, <2>6, <3>3, <5>1, <5>2
        <5>3. CASE k \in 1..l
          BY <2>1, <2>6, <2>8, <3>3, <5>3
        <5>4. k = l + 1 \/ k \in 1..l
          BY <3>3
        <5> QED BY <5>2, <5>3, <5>4
      <4> QED BY <4>1, <4>2 DEF Content
    <3>8. Fresh(t, d)'
      <4>1. head[t] <= Dummy(TopDummy) /\ (e <= n - 1 \/ (e \in Dummies /\ e <= Dummy(TopDummy)))
        BY <1>0, <2>2, <2>6, <3>1, BoxNodes
      <4>2. e <= n - 1 => e <= n
        BY <2>2 DEF Nodes
      <4>3. next'[head[t]] # UNSET
        <5>1. next'[head[t]] = d[1]
          BY <2>1, <3>1, <3>3, <3>6 DEF Chained
        <5>2. d[1] \in 1..MaxPacks
          <6>1. 1 \in 1..Len(d)
            BY <3>3
          <6> QED BY <6>1, ElementOfSeq
        <5> QED BY <5>1, <5>2 DEF UNSET
      <4> QED BY <2>1, <2>2, <2>6, <4>1, <4>2, <4>3 DEF Fresh
    <3>9. EndOk(t, d)'
      BY <2>1, <2>4 DEF EndOk
    <3>10. Whole(t, d)'
      <4>1. Draining(t)' <=> Draining(t)
        BY <2>1 DEF Draining
      <4>2. ~Draining(t) => head[t] \notin freed
        BY <1>1, <2>4, <3>1 DEF BoxOk, Whole
      <4> QED BY <1>1, <2>1, <2>2, <2>4, <3>3, <4>1, <4>2 DEF Whole
    <3>11. BoxOk(t, d)'
      BY <3>6, <3>7, <3>8, <3>9, <3>10 DEF BoxOk
    <3>12. Later(t, d)'
      <4> SUFFICES ASSUME NEW i \in DOMAIN shown', NEW k \in 1..Len(d), ~OnScreen(t, k)'
                   PROVE  shown'[i].n # d[k] /\ (shown'[i].box = t => shown'[i].n < d[k])
        BY DEF Later
      <4>1. CASE k = l + 1
        <5>1. shown'[i].n < n
          BY <1>1, <2>2, NewPacket
        <5>2. shown'[i].n \in Int
          <6>1. shown \in Seq([n : 1..MaxPacks, box : Boxes \cup {0}])
            BY <1>0 DEF TypeOK
          <6>2. shown[i] \in [n : 1..MaxPacks, box : Boxes \cup {0}]
            BY <1>1, <6>1, LenProperties, ElementOfSeq
          <6> QED BY <1>1, <6>2
        <5> QED BY <3>3, <4>1, <5>1, <5>2
      <4>2. CASE k \in 1..l
        <5>1. d[k] = c[k] /\ ~OnScreen(t, k)
          BY <2>1, <3>3, <4>2 DEF OnScreen
        <5> QED BY <1>1, <2>4, <2>7, <4>2, <5>1 DEF Later
      <4>3. k = l + 1 \/ k \in 1..l
        BY <3>3
      <4> QED BY <4>1, <4>2, <4>3
    <3>13. In(d) = In(c) \cup {n}
      <4>1. 1..Len(d) = 1..l \cup {l + 1}
        BY <3>3
      <4> QED BY <2>7, <3>3, <4>1 DEF In
    <3>14. \A x \in Owns(t, d)' : x \in Owns(t, C[t]) \/ \A u \in Boxes \ {t} : x \notin Owns(u, C[u])
      <4>1. \A u \in Boxes : n \notin Owns(u, C[u])
        BY <1>1, <2>2, NewPacket DEF Owns
      <4>2. Owns(t, d)' \subseteq Owns(t, c) \cup {n}
        BY <2>1, <3>13 DEF Owns
      <4> QED BY <2>3, <4>1, <4>2
    <3>15. PICK D : D = [C EXCEPT ![t] = d]
      OBVIOUS
    <3>16. Stored(t, C[t], d)
      <4>1. c # << >> => d[1] = c[1]
        BY <2>7, <3>3
      <4> QED BY <1>1, <1>2, <2>1, <2>2, <2>3, <3>3, <3>13, <4>1 DEF Stored
    <3>17. DrainInv(D)' /\ LostInv(D)'
      BY <1>0, <3>15, <3>16, StoreKnown
    <3>18. BoxesInv(D)'
      BY <1>0, <2>10, <3>11, <3>12, <3>14, <3>15, <3>17, Rebuilt
    <3> QED BY <3>18
  \* The packet hangs on nothing that the box has.
  <2>12. CASE e \in freed \/ e \notin In(c) \cup {head[t]}
    <3>1. \A k \in 1..l : next'[c[k]] = next[c[k]]
      <4>1. ASSUME NEW k \in 1..l PROVE c[k] # e
        <5>1. c[k] \in In(c) /\ c[k] \notin freed
          BY <2>7, <2>8 DEF In
        <5> QED BY <2>12, <5>1
      <4> QED BY <2>5, <2>8, <4>1
    <3>2. head[t] # NULL => next'[head[t]] = next[head[t]]
      BY <2>5, <2>9, <2>12
    <3>3. BoxOk(t, c)'
      <4>1. Chained(t, c)'
        BY <2>1, <2>4, <2>7, <3>1, <3>2 DEF BoxOk, Chained
      <4>2. Content(t, c)'
        <5>1. \A k \in 1..l : c[k] <= TopOf(t)' /\ c[k] \notin freed'
          BY <2>1, <2>6, <2>8
        <5> QED BY <2>4, <2>7, <5>1 DEF BoxOk, Content
      <4>3. Fresh(t, c)'
        <5>1. head[t] # NULL => head[t] <= Dummy(TopDummy)
          BY <1>0, BoxNodes
        <5>2. e <= n - 1 \/ (e \in Dummies /\ e <= Dummy(TopDummy))
          BY <1>0, <2>2, <2>6, BoxNodes
        <5>3. e <= n - 1 => e <= n
          BY <2>2 DEF Nodes
        <5>4. head[t] # NULL /\ next[head[t]] = UNSET => head[t] \in freed
          BY <1>1, <2>4 DEF BoxOk, Fresh
        <5> QED BY <2>1, <2>2, <2>6, <3>2, <5>1, <5>2, <5>3, <5>4 DEF Fresh
      <4>4. EndOk(t, c)'
        BY <2>1, <2>4 DEF EndOk
      <4>5. Whole(t, c)'
        <5>1. Draining(t)' <=> Draining(t)
          BY <2>1 DEF Draining
        <5>2. ~(head[t] # NULL /\ ~Draining(t))
          <6> SUFFICES ASSUME head[t] # NULL, ~Draining(t) PROVE FALSE
            OBVIOUS
          <6>1. head[t] \notin freed /\ (e = head[t] \/ (c # << >> /\ e = c[l]))
            BY <1>1, <2>2, <2>4, <2>7 DEF BoxOk, Whole
          <6>2. c # << >> => l \in 1..l
            BY <2>7
          <6>3. c # << >> => c[l] \in In(c) /\ c[l] \notin freed
            BY <2>7, <2>8, <6>2 DEF In
          <6> QED BY <2>12, <6>1, <6>3
        <5> QED BY <2>1, <5>1, <5>2 DEF Whole
      <4> QED BY <4>1, <4>2, <4>3, <4>4, <4>5 DEF BoxOk
    <3>4. Later(t, c)'
      BY <1>1, <2>1, <2>4 DEF Later, OnScreen
    <3>5. \A x \in Owns(t, c)' : x \in Owns(t, C[t]) \/ \A u \in Boxes \ {t} : x \notin Owns(u, C[u])
      BY <2>1, <2>3 DEF Owns
    <3>6. PICK D : D = [C EXCEPT ![t] = c]
      OBVIOUS
    <3>7. Stored(t, C[t], c)
      BY <1>1, <1>2, <2>1, <2>3 DEF Stored
    <3>8. DrainInv(D)' /\ LostInv(D)'
      BY <1>0, <3>6, <3>7, StoreKnown
    <3>9. BoxesInv(D)'
      BY <1>0, <2>10, <3>3, <3>4, <3>5, <3>6, <3>8, Rebuilt
    <3> QED BY <3>9
  <2> QED BY <2>11, <2>12
<1> QED BY <1>3, <1>4


-----------------------------------------------------------------------------
(* The invariant holds                                                     *)

LEMMA BoxesStep ==
  ASSUME ClientInv, [Next]_vars
  PROVE  \E C : BoxesInv(C)'
<1>1. PICK C : BoxesInv(C)
  BY DEF ClientInv
<1>2. CASE Login \/ Exit \/ ChatBegin \/ ChatEnd \/ SendFile \/ UNCHANGED vars
  BY <1>1, <1>2, MenuBoxes
<1>3. CASE Recv
  BY <1>1, <1>3, RecvBoxes
<1>4. CASE BoxHead
  BY <1>1, <1>4, HeadBoxes
<1>5. CASE BoxDummy
  BY <1>1, <1>5, DummyBoxes
<1>6. CASE BoxEmpty
  BY <1>1, <1>6, EmptyBoxes
<1>7. CASE BoxLink
  BY <1>1, <1>7, LinkBoxes
<1>8. CASE BoxTail
  BY <1>1, <1>8, TailBoxes
<1>9. CASE \E t \in Boxes : Drain(t)
  BY <1>1, <1>9, DrainBoxes
<1>10. CASE DrainTest
  BY <1>1, <1>10, TestBoxes
<1>11. CASE DrainAnswer
  BY <1>1, <1>11, AnswerBoxes
<1>12. CASE DrainUnlink
  BY <1>1, <1>12, UnlinkBoxes
<1>13. CASE DrainFree
  BY <1>1, <1>13, FreeBoxes
<1>14. CASE DrainNull
  BY <1>1, <1>14, NullBoxes
<1> QED BY <1>2, <1>3, <1>4, <1>5, <1>6, <1>7, <1>8, <1>9, <1>10, <1>11, <1>12, <1>13, <1>14
        DEF Next, deal, recv_PACK, Emptying

LEMMA ClientInit ==
  ASSUME Init
  PROVE  ClientInv
<1>1. /\ account = 0 /\ send_account = 0 /\ menu = "login" /\ box = 4 /\ f = NULL /\ m = NULL
      /\ recv = "off" /\ pack = [n |-> 0, type |-> 0, account |-> 0]
      /\ head = [t \in Boxes |-> NULL] /\ end = [t \in Boxes |-> NULL]
      /\ next = [x \in Nodes |-> UNSET] /\ freed = {}
      /\ shown = << >> /\ answered = << >> /\ late = {}
  BY DEF Init
<1>2. pack.n = 0 /\ pack.type = 0 /\ MaxPacks \in Nat
  BY <1>1, PacksAssumption
<1>3. TypeOK
  <2>1. PlaceType
    BY <1>1, <1>2 DEF PlaceType, Boxes, NULL
  <2>2. PackType
    BY <1>1, <1>2 DEF PackType
  <2>3. ListType
    BY <1>1, <1>2 DEF ListType, NULL, UNSET
  <2>4. HistType
    BY <1>1, EmptySeq DEF HistType
  <2> QED BY <2>1, <2>2, <2>3, <2>4 DEF TypeOK, PlaceType, PackType, ListType, HistType
<1>4. DOMAIN shown = {} /\ DOMAIN answered = {}
  <2>1. Len(shown) = 0 /\ Len(answered) = 0 /\ DOMAIN shown = 1..Len(shown) /\ DOMAIN answered = 1..Len(answered)
    BY <1>1, <1>3, EmptySeq, LenProperties DEF TypeOK
  <2> QED BY <2>1
<1>5. LateInv /\ PackInv
  BY <1>1, <1>2 DEF LateInv, PackInv, Past
<1>6. UnusedInv
  <2>1. Dummies \subseteq Nodes
    BY <1>2 DEF Dummies, Nodes
  <2> QED BY <1>1, <2>1 DEF UnusedInv
<1>7. SeenInv
  <2>1. Requests = {} /\ Answers = {}
    BY <1>4 DEF Requests, Answers
  <2>2. ShownInOrder
    BY <1>1, <1>4, <2>1 DEF ShownInOrder, AnsweredInOrder
  <2> QED BY <1>1, <1>4, <2>2 DEF SeenInv
<1>8. \E C : BoxesInv(C)
  <2>1. PICK C : C = [t \in Boxes |-> << >>]
    OBVIOUS
  <2>2. C \in [Boxes -> Seq(1..MaxPacks)] /\ \A t \in Boxes : C[t] = << >> /\ 1..Len(C[t]) = {}
    BY <2>1, EmptySeq
  <2>3. ASSUME NEW t \in Boxes PROVE BoxOk(t, C[t]) /\ Later(t, C[t]) /\ Owns(t, C[t]) = {}
    <3>1. head[t] = NULL /\ end[t] = NULL /\ recv = "off" /\ C[t] = << >> /\ 1..Len(C[t]) = {}
      BY <1>1, <2>2
    <3>2. Chained(t, C[t]) /\ Content(t, C[t]) /\ EndOk(t, C[t]) /\ Whole(t, C[t]) /\ Later(t, C[t])
      BY <3>1 DEF Chained, Content, EndOk, Whole, Later
    <3>3. Fresh(t, C[t])
      BY <3>1 DEF Fresh
    <3>4. Owns(t, C[t]) = {}
      BY <3>1 DEF Owns, In
    <3> QED BY <3>2, <3>3, <3>4 DEF BoxOk
  <2>4. Apart(C)
    BY <2>3 DEF Apart
  <2>5. DrainInv(C) /\ LostInv(C)
    BY <1>1, <1>2 DEF DrainInv, LostInv
  <2> QED BY <2>2, <2>3, <2>4, <2>5 DEF BoxesInv
<1> QED BY <1>3, <1>5, <1>6, <1>7, <1>8 DEF ClientInv

LEMMA ClientStep ==
  ASSUME ClientInv, [Next]_vars
  PROVE  ClientInv'
<1>1. TypeOK' /\ LateInv' /\ PackInv' /\ UnusedInv' /\ SeenInv'
  BY TypeStep, LateStep, PackStep, UnusedStep, SeenStep
<1>2. \E C : BoxesInv(C)'
  BY BoxesStep
<1> QED BY <1>1, <1>2 DEF ClientInv

\* The chain of every box, its end, and what the user has seen of it: the
\* invariant that the two unlocked threads keep (recv_PACK, recv_chat_fri).
THEOREM ClientSafe == Spec => []ClientInv
<1>1. Init => ClientInv
  BY ClientInit
<1>2. ClientInv /\ [Next]_vars => ClientInv'
  BY ClientStep
<1> QED BY <1>1, <1>2, PTL DEF Spec

-----------------------------------------------------------------------------
(* What is in a box                                                        *)

LEMMA FirstNumber ==
  ASSUME NEW T \in SUBSET Nat, T # {}
  PROVE  \E n \in T : \A k \in T : ~(k < n)
<1> DEFINE R == OpToRel(<, Nat)
<1>1. IsWellFoundedOn(R, Nat)
  BY NatLessThanWellFounded, Zenon
<1>2. \A x, y \in Nat : x < y => <<x, y>> \in R
  BY DEF OpToRel
<1> HIDE DEF R
<1>3. PICK n \in T : \A k \in T : ~(<<k, n>> \in R)
  BY <1>1, WFMin
<1> QED BY <1>2, <1>3

\* Numbers that grow are at least as large as their place.
LEMMA Growing ==
  ASSUME NEW c \in Seq(1..MaxPacks), \A i, j \in 1..Len(c) : i < j => c[i] < c[j]
  PROVE  Len(c) \in Nat /\ Len(c) <= MaxPacks
<1> DEFINE Bad == {k \in 1..Len(c) : c[k] < k}
<1>0. Len(c) \in Nat /\ MaxPacks \in Nat /\ \A k \in 1..Len(c) : c[k] \in 1..MaxPacks
  BY LenProperties, ElementOfSeq, PacksAssumption
<1>1. Bad = {}
  <2> SUFFICES ASSUME Bad # {} PROVE FALSE
    OBVIOUS
  <2>1. Bad \in SUBSET Nat
    BY <1>0
  <2>2. \A k : k \in Bad <=> k \in 1..Len(c) /\ c[k] < k
    OBVIOUS
  <2> HIDE DEF Bad
  <2>3. PICK n \in Bad : \A k \in Bad : ~(k < n)
    BY <2>1, FirstNumber
  <2>4. n \in 1..Len(c) /\ c[n] < n /\ c[n] \in 1..MaxPacks
    BY <1>0, <2>2, <2>3
  <2>5. n - 1 \in 1..Len(c) /\ n - 1 < n
    BY <1>0, <2>4
  <2>6. c[n - 1] < c[n] /\ c[n - 1] \in 1..MaxPacks
    BY <1>0, <2>4, <2>5
  <2>7. n - 1 \in Bad
    <3>1. \A a, b, k \in Int : a < b /\ b < k => a < k - 1
      OBVIOUS
    <3>2. c[n - 1] < n - 1
      BY <1>0, <2>4, <2>6, <3>1
    <3> QED BY <2>2, <2>5, <3>2
  <2> QED BY <2>3, <2>5, <2>7
<1>2. CASE Len(c) = 0
  BY <1>0, <1>2
<1>3. CASE Len(c) # 0
  <2>1. Len(c) \in 1..Len(c) /\ Len(c) \notin Bad
    BY <1>0, <1>1, <1>3
  <2>2. ~(c[Len(c)] < Len(c)) /\ c[Len(c)] \in 1..MaxPacks
    BY <1>0, <2>1
  <2> QED BY <1>0, <2>2
<1> QED BY <1>2, <1>3

IsNth(nth, h, nx) ==
  nth = [i \in 0..MaxPacks |-> IF i = 0 THEN h
                               ELSE IF nth[i - 1] \in Nodes /\ nx[nth[i - 1]] \in Nodes
                                      THEN nx[nth[i - 1]] ELSE NULL]

\* The walk along `next' finds exactly the packets of the box.
LEMMA KeptIn ==
  ASSUME ClientInv, NEW C, BoxesInv(C), NEW t \in Boxes
  PROVE  Kept(t) = In(C[t])
<1>0. TypeOK /\ MaxPacks \in Nat
  BY PacksAssumption DEF ClientInv
<1>1. PICK c \in Seq(1..MaxPacks) : c = C[t] /\ BoxOk(t, c)
  BY DEF BoxesInv
<1>2. PICK l \in Nat : l = Len(c) /\ (c = << >> <=> l = 0) /\ l <= MaxPacks
  <2>1. \A i, j \in 1..Len(c) : i < j => c[i] < c[j]
    BY <1>1 DEF BoxOk, Content
  <2>2. Len(c) \in Nat /\ Len(c) <= MaxPacks
    BY <2>1, Growing
  <2> QED BY <2>2, EmptySeq, LenProperties
<1>3. /\ \A k \in 1..l : c[k] \in Nodes /\ c[k] # NULL /\ next[c[k]] = IF k = l THEN NULL ELSE c[k + 1]
      /\ NULL \notin Nodes /\ UNSET \notin Nodes
  <2>1. \A k \in 1..l : c[k] \in Nodes
    BY <1>0, <1>1, <1>2, BoxNodes
  <2>2. NULL \notin Nodes /\ UNSET \notin Nodes
    BY <1>0 DEF NULL, UNSET, Nodes
  <2> QED BY <1>1, <1>2, <2>1, <2>2 DEF BoxOk, Chained
<1>4. /\ head[t] = NULL => l = 0
      /\ head[t] # NULL => /\ head[t] \in Nodes
                           /\ IF l = 0 THEN next[head[t]] \in {NULL, UNSET} ELSE next[head[t]] = c[1]
  <2>1. head[t] # NULL => head[t] \in Nodes
    BY <1>0, BoxNodes
  <2> QED BY <1>1, <1>2, <2>1 DEF BoxOk, Chained
<1>5. PICK h, nx : h = head[t] /\ nx = next
  OBVIOUS
<1> DEFINE w == [i \in 0..MaxPacks |-> IF i = 0 THEN h ELSE IF i <= l THEN c[i] ELSE NULL]
           at == CHOOSE v : IsNth(v, h, nx)
           Bad == {i \in 0..MaxPacks : at[i] # w[i]}
<1>6. Nth(t) = at
  BY <1>5, Zenon DEF Nth, IsNth
<1>7. ASSUME NEW i \in 0..MaxPacks
      PROVE  w[i] = IF i = 0 THEN h ELSE IF w[i - 1] \in Nodes /\ nx[w[i - 1]] \in Nodes
                                           THEN nx[w[i - 1]] ELSE NULL
  <2>0. w[i] = IF i = 0 THEN h ELSE IF i <= l THEN c[i] ELSE NULL
    OBVIOUS
  <2>1. CASE i = 0
    BY <2>0, <2>1
  <2>2. CASE i # 0
    <3>1. i - 1 \in 0..MaxPacks /\ (i - 1) + 1 = i
      BY <1>0, <2>2
    <3>2. w[i - 1] = IF i - 1 = 0 THEN h ELSE IF i - 1 <= l THEN c[i - 1] ELSE NULL
      BY <3>1
    <3> HIDE DEF w
    <3>3. CASE i = 1
      <4>1. w[i - 1] = h
        BY <3>2, <3>3
      <4>2. CASE l = 0
        BY <1>3, <1>4, <1>5, <2>0, <3>3, <4>1, <4>2
      <4>3. CASE l # 0
        <5>1. h \in Nodes /\ nx[h] = c[1] /\ c[1] \in Nodes /\ w[i] = c[1]
          BY <1>2, <1>3, <1>4, <1>5, <2>0, <3>3, <4>3
        <5> QED BY <2>2, <4>1, <5>1
      <4> QED BY <4>2, <4>3
    <3>4. CASE i # 1 /\ i <= l
      <4>1. i - 1 \in 1..l /\ i \in 1..l /\ i - 1 # l
        BY <1>2, <2>2, <3>4
      <4>2. w[i - 1] = c[i - 1] /\ c[i - 1] \in Nodes /\ c[i] \in Nodes /\ w[i] = c[i]
        BY <1>3, <2>0, <2>2, <3>2, <3>4, <4>1
      <4>3. nx[c[i - 1]] = c[i]
        BY <1>3, <1>5, <3>1, <4>1
      <4> QED BY <2>2, <4>2, <4>3
    <3>5. CASE i # 1 /\ i = l + 1
      <4>1. i - 1 \in 1..l /\ i - 1 = l
        BY <1>2, <2>2, <3>5
      <4>2. w[i - 1] = c[i - 1] /\ nx[c[i - 1]] = NULL /\ w[i] = NULL
        BY <1>2, <1>3, <1>5, <2>0, <2>2, <3>2, <3>5, <4>1
      <4> QED BY <1>3, <2>2, <4>2
    <3>6. CASE i # 1 /\ i > l + 1
      <4>1. w[i - 1] = NULL /\ w[i] = NULL
        BY <1>2, <2>0, <2>2, <3>2, <3>6
      <4> QED BY <1>3, <2>2, <4>1
    <3> QED BY <1>2, <3>3, <3>4, <3>5, <3>6
  <2> QED BY <2>1, <2>2
<1>8. IsNth(w, h, nx)
  <2>1. w = [i \in 0..MaxPacks |-> w[i]]
    OBVIOUS
  <2> HIDE DEF w
  <2> QED BY <1>7, <2>1 DEF IsNth
<1>9. IsNth(at, h, nx)
  BY <1>8, Zenon
<1>10. \A i \in 0..MaxPacks : w[i] = IF i = 0 THEN h ELSE IF i <= l THEN c[i] ELSE NULL
  OBVIOUS
<1> HIDE DEF w, at
<1>11. ASSUME NEW i \in 0..MaxPacks
       PROVE  at[i] = IF i = 0 THEN h ELSE IF at[i - 1] \in Nodes /\ nx[at[i - 1]] \in Nodes
                                             THEN nx[at[i - 1]] ELSE NULL
  BY <1>9, Zenon DEF IsNth
<1>12. Bad = {}
  <2> SUFFICES ASSUME Bad # {} PROVE FALSE
    OBVIOUS
  <2>1. Bad \in SUBSET Nat /\ \A i : i \in Bad <=> i \in 0..MaxPacks /\ at[i] # w[i]
    BY <1>0
  <2> HIDE DEF Bad
  <2>2. PICK n \in Bad : \A k \in Bad : ~(k < n)
    BY <2>1, FirstNumber
  <2>3. n \in 0..MaxPacks /\ at[n] # w[n]
    BY <2>1, <2>2
  <2>4. n # 0
    BY <1>7, <1>11, <2>3
  <2>5. n - 1 \in 0..MaxPacks /\ n - 1 < n
    BY <1>0, <2>3, <2>4
  <2>6. at[n - 1] = w[n - 1]
    BY <2>1, <2>2, <2>5
  <2> QED BY <1>7, <1>11, <2>3, <2>4, <2>6
<1>13. \A i \in 1..MaxPacks : Nth(t)[i] = IF i <= l THEN c[i] ELSE NULL
  <2>1. \A i \in 1..MaxPacks : i \in 0..MaxPacks /\ i # 0
    BY <1>0
  <2> QED BY <1>6, <1>10, <1>12, <2>1
<1>14. {Nth(t)[i] : i \in 1..MaxPacks} \ {NULL} = {c[k] : k \in 1..l}
  <2>1. \A k \in 1..l : k \in 1..MaxPacks /\ k <= l
    BY <1>0, <1>2
  <2>2. \A i \in 1..MaxPacks : i <= l => i \in 1..l
    BY <1>0, <1>2
  <2> QED BY <1>3, <1>13, <2>1, <2>2
<1> QED BY <1>1, <1>2, <1>14 DEF Kept, In


-----------------------------------------------------------------------------
(* The theorems                                                            *)

\* Only a packet that was appended while its box was emptied can get lost or end
\* the process; everything else was shown or is still in a box, never both.
THEOREM LossOnlyWhileDrained == Spec => []LostOnlyInDrain
<1>1. ClientInv => LostOnlyInDrain
  <2> SUFFICES ASSUME ClientInv PROVE LostOnlyInDrain
    OBVIOUS
  <2>1. PICK C : BoxesInv(C)
    BY DEF ClientInv
  <2>2. \A t \in Boxes : Kept(t) = In(C[t])
    BY <2>1, KeptIn
  <2>3. menu = "crashed" => pack.n \in late
    BY DEF ClientInv, LateInv
  <2>4. \A n \in 1..pack.n \ late :
          n \in Seen \/ (\E t \in Boxes : n \in Kept(t)) \/ (n = pack.n /\ recv # "recv")
    BY <2>1, <2>2 DEF BoxesInv, LostInv
  <2>5. ASSUME Alive, NEW t \in Boxes, NEW x \in Kept(t) \cap Seen
        PROVE  Draining(t) /\ menu \in {"answer", "unlink"} /\ x = m
    <3>1. PICK k \in 1..Len(C[t]) : x = C[t][k]
      BY <2>2, <2>5 DEF In
    <3>2. PICK i \in DOMAIN shown : x = shown[i].n
      BY <2>5 DEF Seen
    <3>3. Live /\ Later(t, C[t])
      BY <2>1, <2>5 DEF BoxesInv, Alive, Live
    <3>4. OnScreen(t, k)
      BY <3>1, <3>2, <3>3 DEF Later
    <3>5. menu \in {"answer", "unlink"} /\ box = t /\ k = 1
      BY <3>4 DEF OnScreen
    <3>6. m = C[t][1]
      BY <2>1, <3>5 DEF BoxesInv, DrainInv
    <3> QED BY <3>1, <3>5, <3>6 DEF Draining
  <2> QED BY <2>3, <2>4, <2>5 DEF LostOnlyInDrain
<1> QED BY <1>1, ClientSafe, PTL

\* A box hands its messages on in the order they came, each of them once, and the
\* friend requests are answered as they are shown (recv_ADDFR_, recv_chat_fri).
THEOREM BoxesInOrder == Spec => []ShownInOrder
<1>1. ClientInv => ShownInOrder
  BY DEF ClientInv, SeenInv
<1> QED BY <1>1, ClientSafe, PTL

\* Once both threads have left a box, its end pointer is at its last node and none
\* of its nodes was given back.
THEOREM BoxesWhole == Spec => []BoxWellFormed
<1>1. ClientInv => BoxWellFormed
  <2> SUFFICES ASSUME ClientInv, NEW t \in Boxes, Alive, head[t] # NULL, ~Draining(t), ~Appending(t)
               PROVE  /\ end[t] \in Kept(t) /\ next[end[t]] = NULL
                      /\ (Kept(t) \cup {head[t]}) \cap freed = {}
    BY DEF BoxWellFormed
  <2>0. TypeOK
    BY DEF ClientInv
  <2>1. PICK C : BoxesInv(C)
    BY DEF ClientInv
  <2>2. PICK c : c = C[t] /\ Kept(t) = In(c) /\ BoxOk(t, c)
    BY <2>1, KeptIn DEF BoxesInv
  <2>3. ~At(t) /\ Live
    BY DEF At, Appending, Past, Alive, Live
  <2>4. head[t] \notin freed /\ c # << >> /\ end[t] = c[Len(c)]
    BY <2>2, <2>3 DEF BoxOk, Whole
  <2>5. Len(c) \in 1..Len(c) /\ \A k \in 1..Len(c) : c[k] \notin freed
    BY <2>0, <2>1, <2>2, <2>4, BoxNodes
  <2>6. next[end[t]] = NULL
    BY <2>2, <2>4, <2>5 DEF BoxOk, Chained
  <2> QED BY <2>2, <2>4, <2>5, <2>6 DEF In
<1> QED BY <1>1, ClientSafe, PTL
=============================================================================
