------------------------------ MODULE LtClient ------------------------------
(***************************************************************************)
(* The chat client of Code/liuting1/chatroom (client_io.c, client_menu.c): *)
(* the menu thread and the thread of recv_PACK that login starts.          *)
(*                                                                         *)
(* Friend requests, private messages and group messages that are not for   *)
(* the chat on the screen are kept in three boxes.  A box is a linked list *)
(* with a dummy head; the thread of recv_PACK appends to it (phead/pend,   *)
(* fhead/fend, ghead/gend), the menu thread empties it and frees the dummy,*)
(* and nothing is locked: every access to the list is a step.              *)
(***************************************************************************)
EXTENDS Integers, Sequences

CONSTANTS Peers,     \* accounts and groups that packets are from
          MaxPacks   \* bound: packets that arrive after the login

ASSUME PeersAssumption == Peers \subseteq Nat \ {0}
ASSUME PacksAssumption == MaxPacks \in Nat

\* The boxes, by the type of their packets: ADD_FRIEND, CHAT_FRI, CHAT_GROUP.
Boxes == {4, 7, 15}
\* A type that is only printed, and the chunks of a file.
Plain == {5, 18}

\* Packet n is kept in node n; the dummy that is allocated for it is Dummy(n).
NULL == 0
UNSET == -1
Dummy(n) == MaxPacks + n
Nodes == 1..(2 * MaxPacks)
Dummies == (MaxPacks + 1)..(2 * MaxPacks)

VARIABLES account,       \* the user's own account
          send_account,  \* whose messages are printed at once, 0 for nobody
          menu,          \* where the menu thread is
          box, f, m,     \* the box it empties, and its two pointers
          recv,          \* where recv_PACK is
          pack,          \* its packet: number, type, account it is from
          head, end,     \* the two pointers of each box
          next,          \* the field `next' of a node
          freed,         \* nodes given back
          shown,         \* history: packets shown to the user, and from which box
          answered,      \* history: friend requests answered, in order
          late           \* history: packets appended while their box was emptied

menuVars == <<menu, box, f, m>>
listVars == <<head, end, next, freed>>
vars == <<account, send_account, menuVars, recv, pack, listVars, shown, answered, late>>

-----------------------------------------------------------------------------
(* Login                                                                   *)

\* send_login_PACK: `account' is set before the answer is known.
Login == /\ menu = "login"
         /\ \E a \in Peers, ok \in BOOLEAN :
              /\ account' = a
              /\ IF ok THEN menu' = "menu" /\ recv' = "recv" ELSE UNCHANGED <<menu, recv>>
         /\ UNCHANGED <<send_account, box, f, m, pack, listVars, shown, answered, late>>

\* '0' in either menu.
Exit == /\ menu \in {"login", "menu"}
        /\ menu' = "gone"
        /\ UNCHANGED <<account, send_account, box, f, m, recv, pack, listVars, shown, answered, late>>

-----------------------------------------------------------------------------
(* recv_PACK                                                               *)

Alive == menu \notin {"login", "gone", "crashed"}

\* The menu thread is between the first look at the box and `head = NULL'.
Draining(t) == menu \in {"test", "unlink", "answer", "free", "null"} /\ box = t

\* recv_PACK is between the decision to keep its packet and `end = new'.
Appending(t) == recv \in {"head", "dummy", "empty", "link", "tail"} /\ pack.type = t

Noted == late' = IF Draining(pack.type) THEN late \cup {pack.n} ELSE late

\* Packet n on the screen, from the box t or, with 0, at once.
Show(n, t) == [n |-> n, box |-> t]

Keeps(p) == /\ p.type \in Boxes
            /\ p.account # account
            /\ p.type # 4 => p.account # send_account

Recv == /\ Alive /\ recv = "recv" /\ pack.n < MaxPacks
        /\ \E t \in Boxes \cup Plain, a \in Peers :
             pack' = [n |-> pack.n + 1, type |-> t, account |-> a]
        /\ IF Keeps(pack') THEN recv' = "head" /\ shown' = shown
                           ELSE recv' = recv /\ shown' = Append(shown, Show(pack'.n, 0))
        /\ UNCHANGED <<account, send_account, menuVars, listVars, answered, late>>

\* if (head == NULL) head = malloc(...): the field `next' is not set.
BoxHead ==
  /\ Alive /\ recv = "head"
  /\ IF head[pack.type] = NULL
       THEN /\ head' = [head EXCEPT ![pack.type] = Dummy(pack.n)]
            /\ recv' = "dummy"
       ELSE head' = head /\ recv' = "link"
  /\ Noted
  /\ UNCHANGED <<account, send_account, menuVars, pack, end, next, freed, shown, answered>>

\* A store through NULL ends the process.
Crash == /\ menu' = "crashed"
         /\ UNCHANGED <<box, f, m, recv, listVars>>

\* head->next = NULL; the global is read again.
BoxDummy ==
  LET h == head[pack.type] IN
  /\ Alive /\ recv = "dummy"
  /\ IF h = NULL THEN Crash
                 ELSE /\ next' = IF h \in freed THEN next ELSE [next EXCEPT ![h] = NULL]
                      /\ recv' = "empty"
                      /\ UNCHANGED <<menuVars, head, end, freed>>
  /\ Noted
  /\ UNCHANGED <<account, send_account, pack, shown, answered>>

EndAtHead(t) == [end EXCEPT ![t] = head[t]]

\* end = head, read once more.
BoxEmpty ==
  /\ Alive /\ recv = "empty"
  /\ end' = EndAtHead(pack.type)
  /\ recv' = "link"
  /\ Noted
  /\ UNCHANGED <<account, send_account, menuVars, pack, head, next, freed, shown, answered>>

\* (fault: the node takes the place of the first)
LinkFirst(h, e, n) == [next EXCEPT ![n] = NULL, ![h] = n]

\* (fault: the node is put before the first)
LinkFront(h, e, n) == IF h = NULL THEN next ELSE [next EXCEPT ![n] = next[h], ![h] = n]

\* The field of the last node and of the new one; a store into a node that
\* was given back reaches nobody.
Linked(h, e, n) == [next EXCEPT ![n] = NULL, ![e] = IF e \in freed THEN next[e] ELSE n]

\* new->next = NULL; end->next = new
BoxLink ==
  LET e == end[pack.type] IN
  /\ Alive /\ recv = "link"
  /\ IF e = NULL THEN Crash
                 ELSE /\ next' = Linked(head[pack.type], e, pack.n)
                      /\ recv' = "tail"
                      /\ UNCHANGED <<menuVars, head, end, freed>>
  /\ Noted
  /\ UNCHANGED <<account, send_account, pack, shown, answered>>

\* end = new
BoxTail ==
  /\ Alive /\ recv = "tail"
  /\ end' = [end EXCEPT ![pack.type] = pack.n]
  /\ recv' = "recv"
  /\ Noted
  /\ UNCHANGED <<account, send_account, menuVars, pack, head, next, freed, shown, answered>>

-----------------------------------------------------------------------------
(* The menu thread                                                         *)

\* send_chat_fri and send_chat_group, up to the word "Bye".
ChatBegin == /\ menu = "menu" /\ menu' = "chat"
             /\ \E a \in Peers : send_account' = a
             /\ UNCHANGED <<account, box, f, m, recv, pack, listVars, shown, answered, late>>

ChatEnd == /\ menu = "chat" /\ menu' = "menu"
           /\ send_account' = 0
           /\ UNCHANGED <<account, box, f, m, recv, pack, listVars, shown, answered, late>>

\* send_file leaves the receiver in send_account.
SendFile == /\ menu = "menu"
            /\ \E a \in Peers : send_account' = a
            /\ UNCHANGED <<account, menuVars, recv, pack, listVars, shown, answered, late>>

\* recv_ADDFR_, recv_chat_fri, recv_chat_group: an empty box is left alone.
Drain(t) == /\ menu = "menu" /\ head[t] # NULL
            /\ menu' = "test" /\ box' = t /\ f' = head[t]
            /\ late' = IF Appending(t) THEN late \cup {pack.n} ELSE late
            /\ UNCHANGED <<account, send_account, m, recv, pack, listVars, shown, answered>>

\* Only a friend request is answered.
AfterShown(t) == IF t = 4 THEN "answer" ELSE "unlink"

\* while (f->next): a field that is not set may look like NULL or lead
\* anywhere.
DrainTest ==
  /\ menu = "test"
  /\ \/ /\ next[f] \in {NULL, UNSET}
        /\ menu' = "free"
        /\ UNCHANGED <<m, shown>>
     \/ /\ next[f] = UNSET
        /\ menu' = "crashed"
        /\ UNCHANGED <<m, shown>>
     \/ /\ next[f] \in Nodes
        /\ m' = next[f]
        /\ shown' = Append(shown, Show(next[f], box))
        /\ menu' = AfterShown(box)
  /\ UNCHANGED <<account, send_account, box, f, recv, pack, listVars, answered, late>>

\* y or n: packet 41 is sent.
DrainAnswer == /\ menu = "answer" /\ menu' = "unlink"
               /\ answered' = Append(answered, m)
               /\ UNCHANGED <<account, send_account, box, f, m, recv, pack, listVars, shown, late>>

Unlinked(x, y) == [next EXCEPT ![x] = next[y]]

\* f->next = m->next; free(m)
DrainUnlink == /\ menu = "unlink" /\ menu' = "test"
               /\ next' = Unlinked(f, m)
               /\ freed' = freed \cup {m}
               /\ UNCHANGED <<account, send_account, box, f, m, recv, pack, head, end, shown,
                              answered, late>>

DrainFree == /\ menu = "free" /\ menu' = "null"
             /\ freed' = freed \cup {f}
             /\ UNCHANGED <<account, send_account, box, f, m, recv, pack, head, end, next, shown,
                            answered, late>>

\* (fault: the pointer to the dummy stays)
HeadKept(t) == head

HeadCleared(t) == [head EXCEPT ![t] = NULL]

DrainNull == /\ menu = "null" /\ menu' = "menu"
             /\ head' = HeadCleared(box)
             /\ UNCHANGED <<account, send_account, box, f, m, recv, pack, end, next, freed, shown,
                            answered, late>>

-----------------------------------------------------------------------------
Init == /\ account = 0 /\ send_account = 0
        /\ menu = "login" /\ box = 4 /\ f = NULL /\ m = NULL
        /\ recv = "off" /\ pack = [n |-> 0, type |-> 0, account |-> 0]
        /\ head = [t \in Boxes |-> NULL] /\ end = [t \in Boxes |-> NULL]
        /\ next = [x \in Nodes |-> UNSET] /\ freed = {}
        /\ shown = << >> /\ answered = << >> /\ late = {}

recv_PACK == Recv \/ BoxHead \/ BoxDummy \/ BoxEmpty \/ BoxLink \/ BoxTail
Emptying == DrainTest \/ DrainAnswer \/ DrainUnlink \/ DrainFree \/ DrainNull
deal == Exit \/ ChatBegin \/ ChatEnd \/ SendFile \/ Emptying \/ \E t \in Boxes : Drain(t)

Next == Login \/ deal \/ recv_PACK

Spec == Init /\ [][Next]_vars

-----------------------------------------------------------------------------
(* Properties                                                              *)

TypeOK ==
  /\ account \in Peers \cup {0} /\ send_account \in Peers \cup {0}
  /\ menu \in {"login", "menu", "chat", "test", "answer", "unlink", "free", "null", "gone", "crashed"}
  /\ recv \in {"off", "recv", "head", "dummy", "empty", "link", "tail"}
  /\ box \in Boxes /\ f \in Dummies \cup {NULL} /\ m \in 0..MaxPacks
  /\ pack \in [n : 0..MaxPacks, type : Boxes \cup Plain \cup {0}, account : Peers \cup {0}]
  /\ head \in [Boxes -> Dummies \cup {NULL}] /\ end \in [Boxes -> Nodes \cup {NULL}]
  /\ next \in [Nodes -> UNSET..MaxPacks]
  /\ freed \subseteq Nodes /\ late \subseteq 1..MaxPacks
  /\ shown \in Seq([n : 1..MaxPacks, box : Boxes \cup {0}]) /\ answered \in Seq(1..MaxPacks)

\* The i-th node of the box t after its dummy, NULL behind the last.
Nth(t) == LET nth[i \in 0..MaxPacks] ==
                IF i = 0 THEN head[t]
                         ELSE IF nth[i - 1] \in Nodes /\ next[nth[i - 1]] \in Nodes
                                THEN next[nth[i - 1]] ELSE NULL
          IN  nth

Kept(t) == {Nth(t)[i] : i \in 1..MaxPacks} \ {NULL}

Seen == {shown[i].n : i \in DOMAIN shown}

\* A packet gets lost, and the process crashes, only when one was appended while
\* the menu thread emptied its box: every other packet was shown or is in a box,
\* and none is both, but for the one on the screen (recv_CHAT_FRI and
\* recv_chat_fri, likewise the others).
LostOnlyInDrain ==
  /\ menu = "crashed" => pack.n \in late
  /\ \A n \in 1..pack.n \ late :
       n \in Seen \/ (\E t \in Boxes : n \in Kept(t)) \/ (n = pack.n /\ recv # "recv")
  /\ Alive => \A t \in Boxes : Kept(t) \cap Seen \subseteq
       (IF Draining(t) /\ menu \in {"answer", "unlink"} THEN {m} ELSE {})

\* While nobody works on a box, its end pointer is at its last node and no node
\* of it was given back, whatever was lost before.
BoxWellFormed ==
  \A t \in Boxes : Alive /\ head[t] # NULL /\ ~Draining(t) /\ ~Appending(t) =>
    /\ end[t] \in Kept(t) /\ next[end[t]] = NULL
    /\ (Kept(t) \cup {head[t]}) \cap freed = {}

Requests == {shown[i].n : i \in {j \in DOMAIN shown : shown[j].box = 4}}
Answers == {answered[i] : i \in DOMAIN answered}

\* Each friend request that was shown is answered, once and in order, before the
\* next one is shown (recv_ADDFR_).
AnsweredInOrder ==
  /\ \A i, j \in DOMAIN answered : i < j => answered[i] < answered[j]
  /\ Answers \subseteq Requests
  /\ Requests \ Answers \subseteq (IF menu \in {"answer", "crashed"} THEN {m} ELSE {})
  /\ menu = "answer" => m \notin Answers

\* A box hands its messages on in the order they came, each of them once, also
\* while more are appended and some get lost; friend requests are answered as
\* they are shown.
ShownInOrder ==
  /\ \A i, j \in DOMAIN shown : i < j =>
       /\ shown[i].n # shown[j].n
       /\ shown[i].box = shown[j].box /\ shown[i].box # 0 => shown[i].n < shown[j].n
  /\ AnsweredInOrder
=============================================================================
