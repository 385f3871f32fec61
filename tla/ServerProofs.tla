---------------------------- MODULE ServerProofs ----------------------------
(***************************************************************************)
(* What TLAPS proves of the chat server, for every set of users, groups    *)
(* and descriptors and every bound, with replayed requests, dead peers and *)
(* restarts: the types; the friend relation, which is the table and means  *)
(* consent; accounts and members; the owners of groups; and the list of    *)
(* users online.                                                           *)
(***************************************************************************)
EXTENDS ServerProperties, SequenceTheorems, TLAPS

-----------------------------------------------------------------------------
(* The helpers                                                             *)

\* The rows of one key stay rows of the same type under the four ways to
\* change them.
LEMMA RowHelpers ==
  ASSUME NEW S, NEW rows \in Seq(S), NEW v \in S
  PROVE  /\ DeleteFirst(rows) \in Seq(S)
         /\ DeleteRows(rows) \in Seq(S)
         /\ UpdateFirst(rows, v) \in Seq(S)
         /\ UpdateRows(rows, v) \in Seq(S)
         /\ weicha_list(rows, v) \in Seq(S)
         /\ Append(rows, v) \in Seq(S)
<1>1. DeleteFirst(rows) \in Seq(S) /\ DeleteRows(rows) \in Seq(S)
  BY HeadTailProperties DEF DeleteFirst, DeleteRows
<1>2. UpdateFirst(rows, v) \in Seq(S)
  <2>1. CASE rows = << >>
    BY <2>1 DEF UpdateFirst
  <2>2. CASE rows # << >>
    <3>1. 1 \in 1..Len(rows)
      BY <2>2, EmptySeq, LenProperties
    <3> QED
      BY <2>2, <3>1, ExceptSeq DEF UpdateFirst
  <2> QED BY <2>1, <2>2
<1>3. UpdateRows(rows, v) \in Seq(S)
  <2>1. DOMAIN rows = 1..Len(rows) /\ Len(rows) \in Nat
    BY LenProperties
  <2> QED BY <2>1 DEF UpdateRows
<1>4. weicha_list(rows, v) \in Seq(S) /\ Append(rows, v) \in Seq(S)
  BY AppendProperties DEF weicha_list
<1> QED BY <1>1, <1>2, <1>3, <1>4

\* A two-level table keeps its type when the rows of one key are replaced.
LEMMA RowType ==
  ASSUME NEW A, NEW B, NEW S, NEW t \in [A -> [B -> S]],
         NEW a \in A, NEW b \in B, NEW rows \in S
  PROVE  /\ Row(t, a, b, rows) \in [A -> [B -> S]]
         /\ Row(t, a, b, rows)[a][b] = rows
         /\ \A x \in A, y \in B : <<x, y>> # <<a, b>> => Row(t, a, b, rows)[x][y] = t[x][y]
BY DEF Row

\* A request as a client makes it.
LEMMA MadeType ==
  ASSUME NEW c \in Int, NEW f \in Name0, NEW t \in Name0, NEW g \in Group0
  PROVE  Msg(c, f, t, g) \in MSG
BY DEF Msg, MSG, Password0

\* quit_group fills in the receiver and the command.
LEMMA AddressedType ==
  ASSUME NEW m \in MSG, NEW c \in Int, NEW t \in Name0
  PROVE  [m EXCEPT !.to = t, !.cmd = c] \in MSG
BY DEF MSG

\* The one change that handlers make to a message, and the slot before the first.
LEMMA MsgType ==
  /\ \A m \in MSG, c \in Int : [m EXCEPT !.cmd = c] \in MSG
  /\ UninitialisedMSG \subseteq MSG
<1>1. \A m \in MSG, c \in Int : [m EXCEPT !.cmd = c] \in MSG
  BY DEF MSG
<1>2. ZeroMSG \in MSG
  BY DEF ZeroMSG, Msg, MSG, Name0, Group0, Password0
<1> QED BY <1>1, <1>2 DEF UninitialisedMSG

-----------------------------------------------------------------------------
(* How a handler ends                                                      *)

\* A handler that returns to main leaves the process and the clients typed.
LEMMA ReturnType ==
  ASSUME TypeOK, NEW S, NEW M, ReturnMany(S, M),
         message' \in MSG, reqs' \in [Socks -> SUBSET MSG]
  PROVE  ProcType' /\ ClientType'
<1> USE DEF TypeOK, ProcType, ClientType, ReturnMany, clientVars
<1>1. pc' \in {"wait", "sigpipe"}
  BY DEF Sigpipe
<1>2. conn' \in [Socks -> {"free", "open", "closed", "reset", "broken"}]
  BY DEF Sent
<1>3. ProcType'
  BY <1>1
<1>4. ClientType'
  BY <1>2
<1> QED BY <1>3, <1>4

\* So does one that ends the process.
LEMMA DeathType ==
  ASSUME TypeOK, Segfault \/ ExitOnError
  PROVE  ProcType' /\ ClientType'
BY DEF TypeOK, ProcType, ClientType, Segfault, ExitOnError, clientVars, netVars

\* A handler that only replies keeps every type.
LEMMA ListingType ==
  ASSUME TypeOK, NEW c \in Int, NEW n, Listing(c, n)
  PROVE  TypeOK'
<1>1. message' \in MSG /\ reqs' \in [Socks -> SUBSET MSG]
  BY MsgType DEF TypeOK, ProcType, ClientType, Listing
<1>2. ProcType' /\ ClientType'
  BY <1>1, ReturnType DEF Listing
<1>3. ListType' /\ TableType'
  BY DEF TypeOK, ListType, TableType, Listing, dataVars, userVars, friendVars, groupVars, relVars
<1> QED BY <1>2, <1>3 DEF TypeOK

\* A single reply (cmd set, slot sent back) keeps the types.
LEMMA ReplyType ==
  ASSUME TypeOK, NEW c \in Int, Reply(c)
  PROVE  TypeOK'
BY ListingType DEF Reply

\* Requests that reach a client, and requests that are kept, are typed.
LEMMA ForwardType ==
  ASSUME TypeOK, NEW m \in MSG, NEW n, Forward(m, n)
  PROVE  reqs' \in [Socks -> SUBSET MSG]
BY DEF TypeOK, ClientType, Forward

\* A request_node appended to head_request keeps that list's type.
LEMMA QueueType ==
  ASSUME TypeOK, NEW k \in KeyedLists, NEW f \in Name0, NEW t \in RequestType,
         NEW g \in Group0, Queue(k, f, t, g)
  PROVE  head_request' \in [KeyedLists -> Seq(request_node)]
<1> DEFINE node == [from_name |-> f, type |-> t, to_group_name |-> g]
<1>1. node \in request_node
  BY DEF request_node
<1>2. Append(head_request[k], node) \in Seq(request_node)
  BY <1>1, AppendProperties DEF TypeOK, ListType
<1> QED BY <1>2 DEF TypeOK, ListType, Queue

-----------------------------------------------------------------------------
(* Type correctness: one lemma per module of handlers                      *)

\* reg, login and forget_password keep every type.
LEMMA AccountType ==
  ASSUME TypeOK, reg \/ login \/ forget_password
  PROVE  TypeOK'
<1> USE DEF TypeOK
<1>0. message.from \in Name0 /\ message.pw \in Password0 /\ -1 \in Int /\ -2 \in Int
  BY DEF ProcType, MSG
<1>1. CASE reg
  <2>1. CASE Reply(-1)
    BY <1>0, <2>1, ReplyType
  <2>2. CASE ~NameTaken(message.from)
    <3>1. head_user' = [head_user EXCEPT ![message.from] = weicha_list(@, message.pw)]
      BY <1>1, <2>2 DEF reg
    <3>2. head_user' \in [Name0 -> Seq(Password0)]
      <4>1. weicha_list(head_user[message.from], message.pw) \in Seq(Password0)
        BY <1>0, RowHelpers DEF ListType
      <4> QED BY <3>1, <4>1 DEF ListType
    <3>3. user' \in [Name0 -> Seq(Password0)]
      <4>1. Append(user[message.from], message.pw) \in Seq(Password0)
        BY <1>0, RowHelpers DEF TableType
      <4>2. \/ user' = user
            \/ user' = [user EXCEPT ![message.from] = Append(user[message.from], message.pw)]
        BY <1>1, <2>2 DEF reg
      <4> QED BY <4>1, <4>2 DEF TableType
    <3>4. UNCHANGED <<head, head_request, friendVars, groupVars, relVars>>
      BY <1>1, <2>2 DEF reg
    <3>5. ListType' /\ TableType'
      BY <3>2, <3>3, <3>4 DEF ListType, TableType, friendVars, groupVars, relVars
    <3>6. ProcType' /\ ClientType'
      <4>1. CASE ExitOnError
        BY <4>1, DeathType
      <4>2. CASE message' = [message EXCEPT !.cmd = 1001] /\ Return({cur}) /\ UNCHANGED reqs
        <5>1. message' \in MSG
          BY <4>2 DEF ProcType, MSG
        <5>2. reqs' \in [Socks -> SUBSET MSG]
          BY <4>2 DEF ClientType
        <5> QED BY <4>2, <5>1, <5>2, ReturnType DEF Return
      <4> QED BY <1>1, <2>2, <4>1, <4>2 DEF reg
    <3> QED BY <3>5, <3>6
  <2> QED BY <1>1, <2>1, <2>2 DEF reg
<1>2. CASE login
  <2>1. CASE Reply(-2)
    BY <1>0, <2>1, ReplyType
  <2>2. CASE ~Reply(-2)
    <3> DEFINE n == message.from
               q == head_request[n]
    <3>0. /\ head' = charu_list(n, cur)
          /\ who' = [who EXCEPT ![cur] = n]
          /\ message' = IF q = << >> THEN [message EXCEPT !.cmd = 1002]
                                     ELSE Queued(message, q, Len(q))
          /\ reqs' = [reqs EXCEPT ![cur] =
                        IF conn[cur] = "open"
                          THEN @ \cup {Queued(message, q, i) :
                                         i \in {j \in DOMAIN q : q[j].type \in {"f", "g"}}}
                          ELSE @]
          /\ pc' \in {"wait", "sigpipe"}
          /\ Sent({cur})
          /\ UNCHANGED <<cur, filedst, clientVars, head_request, dataVars>>
      BY <1>2, <2>2 DEF login, Sigpipe
    <3>1. n \in Name0 /\ q \in Seq(request_node)
      BY <1>0 DEF ListType, KeyedLists
    <3>2. \A i \in DOMAIN q : Queued(message, q, i) \in MSG
      <4> SUFFICES ASSUME NEW i \in DOMAIN q PROVE Queued(message, q, i) \in MSG
        OBVIOUS
      <4>1. DOMAIN q = 1..Len(q) /\ Len(q) \in Nat /\ \A j \in 1..Len(q) : q[j] \in request_node
        BY <3>1, LenProperties, ElementOfSeq
      <4>2. Command(q[i].type) \in Int
        BY <4>1 DEF Command, request_node, RequestType
      <4>3. q[i].from_name \in Name0
        BY <4>1 DEF request_node
      <4>4. ToAt(q, i, n) \in Name0
        BY <3>1 DEF ToAt, Name0
      <4>5. GroupAt(q, i) \in Group0
        <5> DEFINE last == {j \in 1..i : SetsGroup(q[j]) /\ \A k \in (j + 1)..i : ~SetsGroup(q[k])}
        <5>1. CASE last = {}
          BY <5>1 DEF GroupAt, Group0
        <5>2. CASE last # {}
          <6>1. (CHOOSE j \in last : TRUE) \in 1..Len(q)
            BY <4>1, <5>2
          <6>2. q[CHOOSE j \in last : TRUE].to_group_name \in Group0
            BY <4>1, <6>1 DEF request_node
          <6> QED BY <5>2, <6>2 DEF GroupAt
        <5> QED BY <5>1, <5>2
      <4> QED BY <4>2, <4>3, <4>4, <4>5 DEF Queued, MSG, ProcType, Password0
    <3>3. message' \in MSG
      <4>1. CASE q = << >>
        BY <3>0, <4>1 DEF ProcType, MSG
      <4>2. CASE q # << >>
        <5>1. Len(q) \in DOMAIN q
          BY <3>1, <4>2, EmptySeq, LenProperties
        <5> QED BY <3>0, <3>2, <4>2, <5>1
      <4> QED BY <4>1, <4>2
    <3>4. reqs' \in [Socks -> SUBSET MSG]
      BY ZenonT(40), <3>0, <3>2 DEF ClientType
    <3>5. conn' \in [Socks -> {"free", "open", "closed", "reset", "broken"}]
      BY <3>0 DEF Sent, ClientType
    <3>6. ProcType'
      BY <3>0, <3>3 DEF ProcType
    <3>7. ClientType'
      BY <3>0, <3>1, <3>4, <3>5 DEF ClientType, clientVars
    <3>8. head' \in Seq(user_date)
      <4>1. [name |-> n, socket |-> cur] \in user_date
        BY <3>1 DEF user_date, ProcType
      <4> QED BY <3>0, <4>1, AppendProperties DEF charu_list, ListType
    <3>9. ListType' /\ TableType'
      BY <3>0, <3>8 DEF ListType, TableType, dataVars, userVars, friendVars, groupVars, relVars
    <3> QED BY <3>6, <3>7, <3>9
  <2> QED BY <2>1, <2>2
<1>3. CASE forget_password
  <2>1. PICK c \in {1, 2, 3} : Reply(c)
    BY <1>3 DEF forget_password
  <2> QED BY <2>1, ReplyType
<1> QED BY <1>1, <1>2, <1>3

\* The friend list and table after the two ways to change a row.
LEMMA FriendRowsType ==
  ASSUME TypeOK, NEW u \in Name0, NEW f \in Name0,
         \/ UNCHANGED friendVars
         \/ InsertFriend(u, f, 0)
         \/ DeleteFriend(u, f)
  PROVE  /\ head_friends' \in [Name0 -> [Name0 -> Seq({0, 1})]]
         /\ friend' \in [Name0 -> [Name0 -> Seq({0, 1})]]
<1>0. /\ head_friends \in [Name0 -> [Name0 -> Seq({0, 1})]]
      /\ friend \in [Name0 -> [Name0 -> Seq({0, 1})]]
      /\ head_friends[u][f] \in Seq({0, 1})
      /\ friend[u][f] \in Seq({0, 1})
  BY DEF TypeOK, ListType, TableType
<1>1. CASE UNCHANGED friendVars
  BY <1>0, <1>1 DEF friendVars
<1>2. CASE InsertFriend(u, f, 0)
  <2>1. /\ weicha_list(head_friends[u][f], 0) \in Seq({0, 1})
        /\ Append(friend[u][f], 0) \in Seq({0, 1})
    BY <1>0, RowHelpers
  <2> QED BY ZenonT(40), <1>0, <1>2, <2>1, RowType DEF InsertFriend
<1>3. CASE DeleteFriend(u, f)
  <2>1. /\ DeleteFirst(head_friends[u][f]) \in Seq({0, 1})
        /\ DeleteRows(friend[u][f]) \in Seq({0, 1})
    BY <1>0, RowHelpers
  <2> QED BY <1>0, <1>3, <2>1, RowType DEF DeleteFriend
<1> QED BY <1>1, <1>2, <1>3

\* The first query of deal_friend_request_y keeps a friend table a table.
LEMMA AcceptingType ==
  ASSUME TypeOK, NEW a \in Name0, NEW b \in Name0
  PROVE  /\ Accepting(head_friends, b, a, UpdateFirst) \in [Name0 -> [Name0 -> Seq({0, 1})]]
         /\ Accepting(friend, b, a, UpdateRows) \in [Name0 -> [Name0 -> Seq({0, 1})]]
<1>0. /\ head_friends \in [Name0 -> [Name0 -> Seq({0, 1})]]
      /\ friend \in [Name0 -> [Name0 -> Seq({0, 1})]]
      /\ head_friends[b][a] \in Seq({0, 1})
      /\ friend[b][a] \in Seq({0, 1})
      /\ 1 \in {0, 1}
  BY DEF TypeOK, ListType, TableType
<1>1. /\ Append(head_friends[b][a], 1) \in Seq({0, 1})
      /\ UpdateFirst(head_friends[b][a], 1) \in Seq({0, 1})
  BY <1>0, RowHelpers
<1>2. /\ Append(friend[b][a], 1) \in Seq({0, 1})
      /\ UpdateRows(friend[b][a], 1) \in Seq({0, 1})
  BY <1>0, RowHelpers
<1>3. Accepting(head_friends, b, a, UpdateFirst) \in [Name0 -> [Name0 -> Seq({0, 1})]]
  BY ZenonT(40), <1>0, <1>1, RowType DEF Accepting
<1>4. Accepting(friend, b, a, UpdateRows) \in [Name0 -> [Name0 -> Seq({0, 1})]]
  BY <1>0, <1>2, RowType DEF Accepting
<1> QED BY <1>3, <1>4

\* A row of a friend table is replaced, or updated by one of the two helpers.
LEMMA FriendTableType ==
  ASSUME NEW t \in [Name0 -> [Name0 -> Seq({0, 1})]], NEW a \in Name0, NEW b \in Name0,
         NEW v \in {0, 1}
  PROVE  /\ [t EXCEPT ![a][b] = UpdateFirst(@, v)] \in [Name0 -> [Name0 -> Seq({0, 1})]]
         /\ [t EXCEPT ![a][b] = UpdateRows(@, v)] \in [Name0 -> [Name0 -> Seq({0, 1})]]
         /\ Row(t, a, b, DeleteFirst(t[a][b])) \in [Name0 -> [Name0 -> Seq({0, 1})]]
         /\ Row(t, a, b, DeleteRows(t[a][b])) \in [Name0 -> [Name0 -> Seq({0, 1})]]
<1>0. t[a][b] \in Seq({0, 1})
  OBVIOUS
<1>1. /\ UpdateFirst(t[a][b], v) \in Seq({0, 1}) /\ UpdateRows(t[a][b], v) \in Seq({0, 1})
      /\ DeleteFirst(t[a][b]) \in Seq({0, 1}) /\ DeleteRows(t[a][b]) \in Seq({0, 1})
  BY <1>0, RowHelpers
<1> QED BY <1>1 DEF Row

\* The end of an answer to a friend request.
LEMMA AnswerType ==
  ASSUME TypeOK, NEW t \in RequestType, Answer(t)
  PROVE  ProcType' /\ ClientType' /\ head_request' \in [KeyedLists -> Seq(request_node)]
<1>1. message.to \in KeyedLists /\ message.from \in Name0 /\ None \in Group0
  BY DEF TypeOK, ProcType, MSG, KeyedLists, Group0
<1>2. ProcType' /\ ClientType'
  BY ReturnType DEF Answer, Return, TypeOK, ProcType, ClientType
<1>3. CASE Online(message.from)
  BY <1>2, <1>3 DEF Answer, TypeOK, ListType
<1>4. CASE ~Online(message.from)
  BY <1>1, <1>2, <1>4, QueueType DEF Answer
<1> QED BY <1>3, <1>4

\* What is left to show when a handler changes friends only.
LEMMA FriendFrameType ==
  ASSUME TypeOK,
         ProcType', ClientType',
         head_request' \in [KeyedLists -> Seq(request_node)],
         head_friends' \in [Name0 -> [Name0 -> Seq({0, 1})]],
         friend' \in [Name0 -> [Name0 -> Seq({0, 1})]],
         UNCHANGED <<head, userVars, groupVars, relVars>>
  PROVE  TypeOK'
BY DEF TypeOK, ListType, TableType, userVars, groupVars, relVars

\* A handler that returns with the slot and the requests at the clients as they were.
LEMMA PlainReturnType ==
  ASSUME TypeOK, NEW S, Return(S), UNCHANGED <<message, reqs>>
  PROVE  ProcType' /\ ClientType'
BY ReturnType DEF Return, TypeOK, ProcType, ClientType

\* The friend handlers, from all_friends to deal_friend_request_n, keep every type.
LEMMA FriendType ==
  ASSUME TypeOK,
         \/ all_friends \/ online_friend \/ private_chat \/ add_friend \/ delete_friend
         \/ deal_friend_request_y \/ deal_friend_request_n
  PROVE  TypeOK'
<1> DEFINE u == message.from
           f == message.to
           Table == [Name0 -> [Name0 -> Seq({0, 1})]]
           Kept == [KeyedLists -> Seq(request_node)]
<1>0. /\ u \in Name0 /\ f \in Name0 /\ f \in KeyedLists /\ message \in MSG
      /\ head_friends \in Table /\ friend \in Table /\ head_request \in Kept
  BY DEF TypeOK, ProcType, MSG, KeyedLists, ListType, TableType
<1>f. "f" \in RequestType /\ "y" \in RequestType /\ "n" \in RequestType /\ None \in Group0
  BY DEF RequestType, Group0
<1>1. CASE all_friends
  BY <1>1, ListingType, ReplyType DEF all_friends
<1>2. CASE online_friend
  <2> DEFINE n == Cardinality({g \in Friends(message.from) : Online(g)})
  <2>1. Reply(121) \/ Listing(122, n + 1) \/ Listing(12, n)
    BY <1>2 DEF online_friend
  <2> HIDE DEF n
  <2> QED BY <2>1, ListingType, ReplyType
<1>3. CASE private_chat
  <2>1. CASE Reply(130) \/ Reply(131)
    BY <2>1, ReplyType
  <2>2. CASE ~(Reply(130) \/ Reply(131))
    <3>1. UNCHANGED <<head, head_request, dataVars>>
      BY <1>3, <2>2 DEF private_chat
    <3>2. ProcType' /\ ClientType'
      <4>1. CASE ExitOnError
        BY <4>1, DeathType
      <4>2. CASE ~ExitOnError
        BY <1>3, <2>2, <4>2, PlainReturnType DEF private_chat
      <4> QED BY <4>1, <4>2
    <3> QED BY <1>0, <3>1, <3>2, FriendFrameType DEF dataVars, friendVars
  <2> QED BY <2>1, <2>2
<1>4. CASE add_friend
  <2>1. CASE Reply(149) \/ Reply(141) \/ Reply(140)
    BY <2>1, ReplyType
  <2>2. CASE /\ IF Online(f)
                  THEN Return(TargetSocks(f)) /\ Forward(message, f) /\ UNCHANGED message
                  ELSE Segfault
             /\ UNCHANGED <<head, head_request, dataVars>>
    <3>1. ProcType' /\ ClientType'
      <4>1. CASE Segfault
        BY <4>1, DeathType
      <4>2. CASE Return(TargetSocks(f)) /\ Forward(message, f) /\ UNCHANGED message
        BY <1>0, <4>2, ForwardType, ReturnType DEF Return
      <4> QED BY <2>2, <4>1, <4>2
    <3> QED BY <1>0, <2>2, <3>1, FriendFrameType DEF dataVars, friendVars
  <2>3. CASE /\ InsertFriend(u, f, 0)
             /\ IF Online(f) THEN Forward(message, f) /\ UNCHANGED head_request
                             ELSE Queue(f, u, "f", None) /\ UNCHANGED reqs
             /\ Return(TargetSocks(f))
             /\ UNCHANGED <<message, head, userVars, groupVars, relVars>>
    <3>1. reqs' \in [Socks -> SUBSET MSG]
      BY <1>0, <2>3, ForwardType DEF TypeOK, ClientType
    <3>2. head_request' \in Kept
      <4>1. CASE Online(f)
        BY <1>0, <2>3, <4>1
      <4>2. CASE ~Online(f)
        BY <1>0, <1>f, <2>3, <4>2, QueueType
      <4> QED BY <4>1, <4>2
    <3>3. ProcType' /\ ClientType'
      BY <1>0, <2>3, <3>1, ReturnType DEF Return
    <3>4. head_friends' \in Table /\ friend' \in Table
      BY <1>0, <2>3, FriendRowsType
    <3> QED BY <2>3, <3>2, <3>3, <3>4, FriendFrameType
  <2>4. CASE /\ ExitOnError
             /\ UNCHANGED <<friendVars, head_request, head, userVars, groupVars, relVars>>
    BY <1>0, <2>4, DeathType, FriendFrameType DEF friendVars
  <2> QED BY <1>4, <2>1, <2>2, <2>3, <2>4 DEF add_friend
<1>5. CASE delete_friend
  <2>1. CASE Reply(150)
    BY <2>1, ReplyType
  <2>2. CASE ~Reply(150)
    <3>1. UNCHANGED <<head, head_request, userVars, groupVars, relVars>>
      BY <1>5, <2>2 DEF delete_friend
    <3>2. ProcType' /\ ClientType'
      <4>1. CASE ExitOnError \/ Segfault
        BY <4>1, DeathType
      <4>2. CASE ~(ExitOnError \/ Segfault)
        BY <1>5, <2>2, <4>2, PlainReturnType DEF delete_friend
      <4> QED BY <4>1, <4>2
    <3>3. head_friends' \in Table /\ friend' \in Table
      <4>1. CASE UNCHANGED friendVars \/ DeleteFriend(u, f)
        BY <1>0, <4>1, FriendRowsType
      <4>2. CASE /\ head_friends' = [Row(head_friends, u, f, DeleteFirst(head_friends[u][f]))
                                       EXCEPT ![f][u] = UpdateFirst(@, 0)]
                 /\ friend' = [Row(friend, u, f, DeleteRows(friend[u][f]))
                                 EXCEPT ![f][u] = UpdateRows(@, 0)]
        <5> DEFINE h == Row(head_friends, u, f, DeleteFirst(head_friends[u][f]))
                   t == Row(friend, u, f, DeleteRows(friend[u][f]))
        <5>1. h \in Table
          BY <1>0, FriendTableType
        <5>2. t \in Table
          BY <1>0, FriendTableType
        <5>3. /\ head_friends' = [h EXCEPT ![f][u] = UpdateFirst(@, 0)]
              /\ friend' = [t EXCEPT ![f][u] = UpdateRows(@, 0)]
          BY <4>2
        <5> HIDE DEF h, t
        <5>4. head_friends' \in Table
          BY <1>0, <5>1, <5>3, FriendTableType
        <5>5. friend' \in Table
          BY <1>0, <5>2, <5>3, FriendTableType
        <5> QED BY <5>4, <5>5
      <4> QED BY <1>5, <2>2, <4>1, <4>2 DEF delete_friend
    <3> QED BY <1>0, <3>1, <3>2, <3>3, FriendFrameType
  <2> QED BY <2>1, <2>2
<1>6. CASE deal_friend_request_y
  <2>0. UNCHANGED <<head, userVars, groupVars, relVars>>
    BY <1>6 DEF deal_friend_request_y
  <2>1. ProcType' /\ ClientType' /\ head_request' \in Kept
    <3>1. CASE (ExitOnError \/ Segfault) /\ UNCHANGED head_request
      BY <1>0, <3>1, DeathType
    <3>2. CASE Answer("y")
      BY <1>f, <3>2, AnswerType
    <3> QED BY <1>6, <3>1, <3>2 DEF deal_friend_request_y
  <2>2. head_friends' \in Table /\ friend' \in Table
    <3>1. CASE UNCHANGED friendVars
      BY <1>0, <3>1 DEF friendVars
    <3>2. /\ Accepting(head_friends, f, u, UpdateFirst) \in Table
          /\ Accepting(friend, f, u, UpdateRows) \in Table
      BY <1>0, AcceptingType
    <3>3. CASE /\ head_friends' = Accepting(head_friends, f, u, UpdateFirst)
               /\ friend' = Accepting(friend, f, u, UpdateRows)
      BY <3>2, <3>3
    <3>4. CASE /\ head_friends' = [Accepting(head_friends, f, u, UpdateFirst)
                                     EXCEPT ![u][f] = UpdateFirst(@, 1)]
               /\ friend' = [Accepting(friend, f, u, UpdateRows)
                               EXCEPT ![u][f] = UpdateRows(@, 1)]
      <4> DEFINE h == Accepting(head_friends, f, u, UpdateFirst)
                 t == Accepting(friend, f, u, UpdateRows)
      <4>1. /\ h \in Table /\ t \in Table
            /\ head_friends' = [h EXCEPT ![u][f] = UpdateFirst(@, 1)]
            /\ friend' = [t EXCEPT ![u][f] = UpdateRows(@, 1)]
        BY <3>2, <3>4
      <4> HIDE DEF h, t
      <4>2. head_friends' \in Table
        BY <1>0, <4>1, FriendTableType
      <4>3. friend' \in Table
        BY <1>0, <4>1, FriendTableType
      <4> QED BY <4>2, <4>3
    <3> QED BY <1>6, <3>1, <3>3, <3>4 DEF deal_friend_request_y
  <2> QED BY <2>0, <2>1, <2>2, FriendFrameType
<1>7. CASE deal_friend_request_n
  <2>0. UNCHANGED <<head, userVars, groupVars, relVars>>
    BY <1>7 DEF deal_friend_request_n
  <2>1. ProcType' /\ ClientType' /\ head_request' \in Kept
    <3>1. CASE ExitOnError /\ UNCHANGED head_request
      BY <1>0, <3>1, DeathType
    <3>2. CASE Answer("n")
      BY <1>f, <3>2, AnswerType
    <3> QED BY <1>7, <3>1, <3>2 DEF deal_friend_request_n
  <2>2. head_friends' \in Table /\ friend' \in Table
    BY <1>0, <1>7, FriendRowsType DEF deal_friend_request_n
  <2> QED BY <2>0, <2>1, <2>2, FriendFrameType
<1> QED BY <1>1, <1>2, <1>3, <1>4, <1>5, <1>6, <1>7

\* A row of a relation table is replaced, or a group emptied.
LEMMA RelationTableType ==
  ASSUME NEW t \in [Group0 -> [Name0 -> Seq({1, 2, 3})]], NEW g \in Group0, NEW u \in Name0,
         NEW v \in {1, 2, 3}
  PROVE  /\ Row(t, g, u, UpdateFirst(t[g][u], v)) \in [Group0 -> [Name0 -> Seq({1, 2, 3})]]
         /\ Row(t, g, u, UpdateRows(t[g][u], v)) \in [Group0 -> [Name0 -> Seq({1, 2, 3})]]
         /\ Row(t, g, u, DeleteFirst(t[g][u])) \in [Group0 -> [Name0 -> Seq({1, 2, 3})]]
         /\ Row(t, g, u, DeleteRows(t[g][u])) \in [Group0 -> [Name0 -> Seq({1, 2, 3})]]
         /\ Row(t, g, u, Append(t[g][u], v)) \in [Group0 -> [Name0 -> Seq({1, 2, 3})]]
         /\ Row(t, g, u, weicha_list(t[g][u], v)) \in [Group0 -> [Name0 -> Seq({1, 2, 3})]]
         /\ NoMembers(t, g) \in [Group0 -> [Name0 -> Seq({1, 2, 3})]]
<1>0. t[g][u] \in Seq({1, 2, 3}) /\ << >> \in Seq({1, 2, 3})
  OBVIOUS
<1>1. /\ UpdateFirst(t[g][u], v) \in Seq({1, 2, 3}) /\ UpdateRows(t[g][u], v) \in Seq({1, 2, 3})
      /\ DeleteFirst(t[g][u]) \in Seq({1, 2, 3}) /\ DeleteRows(t[g][u]) \in Seq({1, 2, 3})
      /\ Append(t[g][u], v) \in Seq({1, 2, 3}) /\ weicha_list(t[g][u], v) \in Seq({1, 2, 3})
  BY <1>0, RowHelpers
<1>2. NoMembers(t, g) \in [Group0 -> [Name0 -> Seq({1, 2, 3})]]
  BY <1>0 DEF NoMembers
<1> QED BY <1>1, <1>2 DEF Row

\* The rows of a group in a table of groups.
LEMMA GroupTableType ==
  ASSUME NEW t \in [Group0 -> Seq(Name0)], NEW g \in Group0, NEW o \in Name0
  PROVE  /\ [t EXCEPT ![g] = Append(@, o)] \in [Group0 -> Seq(Name0)]
         /\ [t EXCEPT ![g] = weicha_list(@, o)] \in [Group0 -> Seq(Name0)]
         /\ [t EXCEPT ![g] = DeleteFirst(@)] \in [Group0 -> Seq(Name0)]
         /\ [t EXCEPT ![g] = DeleteRows(@)] \in [Group0 -> Seq(Name0)]
<1>0. t[g] \in Seq(Name0)
  OBVIOUS
<1>1. /\ Append(t[g], o) \in Seq(Name0) /\ weicha_list(t[g], o) \in Seq(Name0)
      /\ DeleteFirst(t[g]) \in Seq(Name0) /\ DeleteRows(t[g]) \in Seq(Name0)
  BY <1>0, RowHelpers
<1> QED BY <1>1

\* The owner of a group that exists is a name.
LEMMA OwnerType ==
  ASSUME TypeOK, NEW g \in Group0, Exists(g)
  PROVE  Owner(g) \in Name0
<1>1. head_user_groups[g] \in Seq(Name0) /\ head_user_groups[g] # << >>
  BY DEF TypeOK, ListType, Exists
<1>2. 1 \in 1..Len(head_user_groups[g])
  BY <1>1, EmptySeq, LenProperties
<1> QED BY <1>1, <1>2, ElementOfSeq DEF Owner

\* The end of an answer to a request to join.
LEMMA GroupAnswerType ==
  ASSUME TypeOK, NEW t \in RequestType, GroupAnswer(t)
  PROVE  /\ ProcType' /\ ClientType' /\ head_request' \in [KeyedLists -> Seq(request_node)]
         /\ head' = head
<1>1. message.grp \in KeyedLists /\ message.grp \in Group0 /\ message.from \in Name0
  BY DEF TypeOK, ProcType, MSG, KeyedLists
<1>2. ProcType' /\ ClientType' /\ head' = head
  BY PlainReturnType DEF GroupAnswer
<1>3. CASE Online(message.from)
  BY <1>2, <1>3 DEF GroupAnswer, TypeOK, ListType
<1>4. CASE ~Online(message.from)
  BY <1>1, <1>2, <1>4, QueueType DEF GroupAnswer
<1> QED BY <1>3, <1>4

\* What is left to show when a handler changes groups only.
LEMMA GroupFrameType ==
  ASSUME TypeOK,
         ProcType', ClientType',
         head_request' \in [KeyedLists -> Seq(request_node)],
         head_user_groups' \in [Group0 -> Seq(Name0)],
         user_groups' \in [Group0 -> Seq(Name0)],
         head_group_relationship' \in [Group0 -> [Name0 -> Seq({1, 2, 3})]],
         group_relationship' \in [Group0 -> [Name0 -> Seq({1, 2, 3})]],
         UNCHANGED <<head, userVars, friendVars>>
  PROVE  TypeOK'
BY DEF TypeOK, ListType, TableType, userVars, friendVars

\* The handlers that leave groups and relations alone.
LEMMA GroupTalkType ==
  ASSUME TypeOK, view_group \/ public_chat \/ add_group \/ view_group_member
  PROVE  TypeOK'
<1> DEFINE g == message.grp
<1>0. /\ message.from \in Name0 /\ g \in Group0 /\ message \in MSG
      /\ head_request \in [KeyedLists -> Seq(request_node)]
  BY DEF TypeOK, ProcType, MSG, ListType
<1>1. CASE view_group
  <2>1. Reply(211) \/ \E n : Listing(21, n)
    BY <1>1 DEF view_group
  <2> QED BY <2>1, ListingType, ReplyType
<1>2. CASE public_chat
  <2>1. CASE Reply(220)
    BY <2>1, ReplyType
  <2>2. CASE ~Reply(220)
    <3>1. UNCHANGED <<head, head_request, dataVars>>
      BY <1>2, <2>2 DEF public_chat
    <3>2. ProcType' /\ ClientType'
      <4>1. CASE ExitOnError
        BY <4>1, DeathType
      <4>2. CASE ~ExitOnError
        <5>1. /\ \E S : Return(S)
              /\ UNCHANGED <<message, reqs>>
          BY <1>2, <2>2, <4>2 DEF public_chat
        <5> QED BY <5>1, PlainReturnType
      <4> QED BY <4>1, <4>2
    <3> QED BY <3>1, <3>2
      DEF TypeOK, ListType, TableType, dataVars, userVars, friendVars, groupVars, relVars
  <2> QED BY <2>1, <2>2
<1>3. CASE add_group
  <2>1. CASE Reply(230) \/ Reply(231)
    BY <2>1, ReplyType
  <2>2. CASE ~(Reply(230) \/ Reply(231))
    <3> DEFINE o == Owner(g)
    <3>1. /\ Exists(g)
          /\ message' = [message EXCEPT !.to = o]
          /\ IF Online(o) THEN Forward(message', o) /\ UNCHANGED head_request
                          ELSE Queue(o, message.from, "g", None) /\ UNCHANGED reqs
          /\ Return(TargetSocks(o))
          /\ UNCHANGED <<head, dataVars>>
      BY <1>3, <2>2 DEF add_group
    <3>2. o \in Name0 /\ o \in KeyedLists /\ "g" \in RequestType /\ None \in Group0
      BY <1>0, <3>1, OwnerType DEF KeyedLists, RequestType, Group0
    <3> HIDE DEF o
    <3>3. message' \in MSG
      BY <1>0, <3>1, <3>2 DEF MSG
    <3>4. /\ reqs' \in [Socks -> SUBSET MSG]
          /\ head_request' \in [KeyedLists -> Seq(request_node)]
      <4>1. CASE Online(o)
        <5>1. Forward(message', o) /\ head_request' = head_request
          BY <3>1, <4>1
        <5>2. reqs' \in [Socks -> SUBSET MSG]
          BY <3>3, <5>1 DEF TypeOK, ClientType, Forward
        <5> QED BY <1>0, <5>1, <5>2
      <4>2. CASE ~Online(o)
        <5>1. Queue(o, message.from, "g", None) /\ reqs' = reqs
          BY <3>1, <4>2
        <5> QED BY <1>0, <3>2, <5>1, QueueType DEF TypeOK, ClientType
      <4> QED BY <4>1, <4>2
    <3>5. ProcType' /\ ClientType'
      BY <3>1, <3>3, <3>4, ReturnType DEF Return
    <3> QED BY <3>1, <3>4, <3>5
      DEF TypeOK, ListType, TableType, dataVars, userVars, friendVars, groupVars, relVars
  <2> QED BY <2>1, <2>2
<1>4. CASE view_group_member
  <2>1. Reply(2510) \/ Reply(2511) \/ \E n : Listing(251, n)
    BY <1>4 DEF view_group_member
  <2> QED BY <2>1, ListingType, ReplyType
<1> QED BY <1>1, <1>2, <1>3, <1>4

\* The handlers that change them.
LEMMA GroupType ==
  ASSUME TypeOK,
         \/ quit_group \/ break_group \/ set_manager \/ create_group
         \/ deal_group_request_y \/ deal_group_request_n
  PROVE  TypeOK'
<1> DEFINE g == message.grp
           Rel == [Group0 -> [Name0 -> Seq({1, 2, 3})]]
           Grp == [Group0 -> Seq(Name0)]
           Kept == [KeyedLists -> Seq(request_node)]
<1>0. /\ message.from \in Name0 /\ message.to \in Name0 /\ g \in Group0 /\ message \in MSG
      /\ head_request \in Kept
      /\ head_group_relationship \in Rel /\ group_relationship \in Rel
      /\ head_user_groups \in Grp /\ user_groups \in Grp
      /\ reqs \in [Socks -> SUBSET MSG]
      /\ 1 \in {1, 2, 3} /\ 2 \in {1, 2, 3} /\ 3 \in {1, 2, 3}
      /\ "o" \in RequestType /\ "x" \in RequestType /\ "q" \in RequestType
  BY DEF TypeOK, ProcType, ClientType, MSG, ListType, TableType, RequestType
<1>1. CASE quit_group
  <2> DEFINE o == Owner(g)
             u == message.from
  <2>1. CASE Reply(240) \/ Reply(241)
    BY <2>1, ReplyType
  <2>2. CASE ~(Reply(240) \/ Reply(241))
    <3>0. Exists(g)
      BY <1>1, <2>2 DEF quit_group
    <3>1. o \in Name0 /\ o \in KeyedLists
      BY <1>0, <3>0, OwnerType DEF KeyedLists
    <3>2. CASE /\ message' = [message EXCEPT !.to = o, !.cmd = 242]
               /\ Return({cur})
               /\ UNCHANGED <<reqs, head, head_request, dataVars>>
      <4> HIDE DEF o
      <4>1. message' \in MSG
        <5>1. 242 \in Int
          OBVIOUS
        <5>2. message' = [message EXCEPT !.to = o, !.cmd = 242]
          BY <3>2
        <5> QED BY <1>0, <3>1, <5>1, <5>2, AddressedType
      <4>2. ProcType' /\ ClientType'
        BY <1>0, <3>2, <4>1, ReturnType DEF Return
      <4> QED BY <3>2, <4>2
        DEF TypeOK, ListType, TableType, dataVars, userVars, friendVars, groupVars, relVars
    <3>3. CASE /\ group_relationship' =
                    Row(group_relationship, g, u, DeleteRows(group_relationship[g][u]))
               /\ head_group_relationship' =
                    Row(head_group_relationship, g, u, DeleteFirst(head_group_relationship[g][u]))
               /\ message' = [message EXCEPT !.to = o, !.cmd = IF Online(o) THEN 24 ELSE 243]
               /\ IF Online(o) THEN UNCHANGED head_request ELSE Queue(o, u, "q", g)
               /\ Return({cur} \cup TargetSocks(o))
               /\ UNCHANGED reqs
               /\ UNCHANGED <<head, userVars, friendVars, groupVars>>
      <4> HIDE DEF o
      <4>1. message' \in MSG
        <5>1. (IF Online(o) THEN 24 ELSE 243) \in Int
          OBVIOUS
        <5> QED BY <1>0, <3>1, <3>3, <5>1, AddressedType
      <4>2. ProcType' /\ ClientType'
        BY <1>0, <3>3, <4>1, ReturnType DEF Return
      <4>3. head_request' \in Kept
        <5>1. CASE Online(o)
          BY <1>0, <3>3, <5>1
        <5>2. CASE ~Online(o)
          <6>1. Queue(o, u, "q", g)
            BY <3>3, <5>2
          <6> QED BY <1>0, <3>1, <6>1, QueueType
        <5> QED BY <5>1, <5>2
      <4>4. group_relationship' \in Rel
        BY <1>0, <3>3, RelationTableType
      <4>5. head_group_relationship' \in Rel
        BY <1>0, <3>3, RelationTableType
      <4>6. head_user_groups' \in Grp /\ user_groups' \in Grp
        BY <1>0, <3>3 DEF groupVars
      <4> QED BY <3>3, <4>2, <4>3, <4>4, <4>5, <4>6, GroupFrameType
    <3>4. CASE /\ ExitOnError
               /\ UNCHANGED <<relVars, head_request, head, userVars, friendVars, groupVars>>
      BY <1>0, <3>4, DeathType, GroupFrameType DEF relVars, groupVars
    <3> QED BY <1>1, <2>2, <3>2, <3>3, <3>4 DEF quit_group
  <2> QED BY <2>1, <2>2
<1>2. CASE break_group
  <2>1. CASE Reply(2520) \/ Reply(2521)
    BY <2>1, ReplyType
  <2>2. CASE ~(Reply(2520) \/ Reply(2521))
    <3>1. UNCHANGED <<head, head_request, userVars, friendVars>>
      BY <1>2, <2>2 DEF break_group
    <3>2. ProcType' /\ ClientType'
      <4>1. CASE ExitOnError \/ Segfault
        BY <4>1, DeathType
      <4>2. CASE ~(ExitOnError \/ Segfault)
        BY <1>2, <2>2, <4>2, PlainReturnType DEF break_group
      <4> QED BY <4>1, <4>2
    <3>3. user_groups' \in Grp
      <4>1. user_groups' = user_groups \/ user_groups' = [user_groups EXCEPT ![g] = DeleteRows(@)]
        BY <1>2, <2>2 DEF break_group, groupVars
      <4>2. [user_groups EXCEPT ![g] = DeleteRows(@)] \in Grp
        BY <1>0, GroupTableType
      <4> QED BY <1>0, <4>1, <4>2
    <3>4. head_user_groups' \in Grp
      <4>1. \/ head_user_groups' = head_user_groups
            \/ head_user_groups' = [head_user_groups EXCEPT ![g] = DeleteFirst(@)]
        BY <1>2, <2>2 DEF break_group, groupVars
      <4>2. [head_user_groups EXCEPT ![g] = DeleteFirst(@)] \in Grp
        BY <1>0, GroupTableType
      <4> QED BY <1>0, <4>1, <4>2
    <3>5. group_relationship' \in Rel
      <4>1. \/ group_relationship' = group_relationship
            \/ group_relationship' = NoMembers(group_relationship, g)
        BY <1>2, <2>2 DEF break_group, relVars
      <4>2. NoMembers(group_relationship, g) \in Rel
        BY <1>0, RelationTableType
      <4> QED BY <1>0, <4>1, <4>2
    <3>6. head_group_relationship' \in Rel
      <4>1. \/ head_group_relationship' = head_group_relationship
            \/ head_group_relationship' = NoMembers(head_group_relationship, g)
        BY <1>2, <2>2 DEF break_group, relVars
      <4>2. NoMembers(head_group_relationship, g) \in Rel
        BY <1>0, RelationTableType
      <4> QED BY <1>0, <4>1, <4>2
    <3> QED BY <1>0, <3>1, <3>2, <3>3, <3>4, <3>5, <3>6, GroupFrameType
  <2> QED BY <2>1, <2>2
<1>3. CASE set_manager
  <2> DEFINE u == message.to
  <2>1. CASE Reply(2531)
    BY <2>1, ReplyType
  <2>2. CASE ~Reply(2531)
    <3>1. UNCHANGED <<head, head_request, userVars, friendVars, groupVars>>
      BY SMTT(40), <1>3, <2>2 DEF set_manager, dataVars
    <3>2. ProcType' /\ ClientType'
      <4>1. CASE ExitOnError \/ Segfault
        BY <4>1, DeathType
      <4>2. CASE ~(ExitOnError \/ Segfault)
        BY SMTT(40), <1>3, <2>2, <4>2, PlainReturnType DEF set_manager
      <4> QED BY <4>1, <4>2
    <3>3. group_relationship' \in Rel
      <4>1. \/ group_relationship' = group_relationship
            \/ group_relationship' =
                 Row(group_relationship, g, u, UpdateRows(group_relationship[g][u], 2))
        BY SMTT(40), <1>3, <2>2 DEF set_manager, relVars, dataVars
      <4>2. Row(group_relationship, g, u, UpdateRows(group_relationship[g][u], 2)) \in Rel
        BY <1>0, RelationTableType
      <4> QED BY <1>0, <4>1, <4>2
    <3>4. head_group_relationship' \in Rel
      <4>1. \/ head_group_relationship' = head_group_relationship
            \/ head_group_relationship' =
                 Row(head_group_relationship, g, u, UpdateFirst(head_group_relationship[g][u], 2))
        BY SMTT(40), <1>3, <2>2 DEF set_manager, relVars, dataVars
      <4>2. Row(head_group_relationship, g, u, UpdateFirst(head_group_relationship[g][u], 2)) \in Rel
        BY <1>0, RelationTableType
      <4> QED BY <1>0, <4>1, <4>2
    <3> QED BY <1>0, <3>1, <3>2, <3>3, <3>4, GroupFrameType DEF groupVars
  <2> QED BY <2>1, <2>2
<1>4. CASE create_group
  <2> DEFINE o == message.from
  <2>1. CASE Reply(50)
    BY <2>1, ReplyType
  <2>2. CASE ~Reply(50)
    <3>1. UNCHANGED <<head, head_request, userVars, friendVars>>
      BY <1>4, <2>2 DEF create_group
    <3>2. ProcType' /\ ClientType'
      <4>1. CASE ExitOnError
        BY <4>1, DeathType
      <4>2. CASE ~ExitOnError
        BY <1>4, <2>2, <4>2, PlainReturnType DEF create_group
      <4> QED BY <4>1, <4>2
    <3>3. user_groups' \in Grp
      <4>1. user_groups' = user_groups \/ user_groups' = [user_groups EXCEPT ![g] = Append(@, o)]
        BY <1>4, <2>2 DEF create_group, groupVars
      <4>2. [user_groups EXCEPT ![g] = Append(@, o)] \in Grp
        BY <1>0, GroupTableType
      <4> QED BY <1>0, <4>1, <4>2
    <3>4. head_user_groups' \in Grp
      <4>1. \/ head_user_groups' = head_user_groups
            \/ head_user_groups' = [head_user_groups EXCEPT ![g] = weicha_list(@, o)]
        BY <1>4, <2>2 DEF create_group, groupVars
      <4>2. [head_user_groups EXCEPT ![g] = weicha_list(@, o)] \in Grp
        BY <1>0, GroupTableType
      <4> QED BY <1>0, <4>1, <4>2
    <3>5. group_relationship' \in Rel
      <4>1. \/ group_relationship' = group_relationship
            \/ group_relationship' = Row(group_relationship, g, o, Append(group_relationship[g][o], 1))
        BY <1>4, <2>2 DEF create_group, relVars
      <4>2. Row(group_relationship, g, o, Append(group_relationship[g][o], 1)) \in Rel
        BY <1>0, RelationTableType
      <4> QED BY <1>0, <4>1, <4>2
    <3>6. head_group_relationship' \in Rel
      <4>1. \/ head_group_relationship' = head_group_relationship
            \/ head_group_relationship' =
                 Row(head_group_relationship, g, o, weicha_list(head_group_relationship[g][o], 1))
        BY <1>4, <2>2 DEF create_group, relVars
      <4>2. Row(head_group_relationship, g, o, weicha_list(head_group_relationship[g][o], 1)) \in Rel
        BY <1>0, RelationTableType
      <4> QED BY <1>0, <4>1, <4>2
    <3> QED BY <1>0, <3>1, <3>2, <3>3, <3>4, <3>5, <3>6, GroupFrameType
  <2> QED BY <2>1, <2>2
<1>5. CASE deal_group_request_y
  <2> DEFINE a == message.from
  <2>1. ProcType' /\ ClientType' /\ head_request' \in Kept /\ head' = head
    BY <1>0, <1>5, GroupAnswerType DEF deal_group_request_y
  <2>2. group_relationship' \in Rel
    <3>1. \/ group_relationship' = group_relationship
          \/ group_relationship' = Row(group_relationship, g, a, Append(group_relationship[g][a], 3))
      BY <1>5 DEF deal_group_request_y
    <3>2. Row(group_relationship, g, a, Append(group_relationship[g][a], 3)) \in Rel
      BY <1>0, RelationTableType
    <3> QED BY <1>0, <3>1, <3>2
  <2>3. head_group_relationship' \in Rel
    <3>1. head_group_relationship' =
            Row(head_group_relationship, g, a, weicha_list(head_group_relationship[g][a], 3))
      BY <1>5 DEF deal_group_request_y
    <3> QED BY <1>0, <3>1, RelationTableType
  <2>4. UNCHANGED <<userVars, friendVars, groupVars>>
    BY <1>5 DEF deal_group_request_y
  <2> QED BY <1>0, <2>1, <2>2, <2>3, <2>4, GroupFrameType DEF groupVars
<1>6. CASE deal_group_request_n
  <2>1. ProcType' /\ ClientType' /\ head_request' \in Kept /\ head' = head /\ UNCHANGED dataVars
    BY <1>0, <1>6, GroupAnswerType DEF deal_group_request_n
  <2> QED BY <1>0, <2>1, GroupFrameType DEF dataVars, groupVars, relVars
<1> QED BY <1>1, <1>2, <1>3, <1>4, <1>5, <1>6

-----------------------------------------------------------------------------
(* Type correctness: files, the loop, the clients and the process          *)

\* A request is taken from a connection.
LEMMA RecvType ==
  ASSUME TypeOK, NEW s \in Socks, RecvMSG(s)
  PROVE  message' \in MSG /\ inbox' \in [Socks -> Seq(MSG)]
<1>1. inbox[s] \in Seq(MSG) /\ inbox[s] # << >>
  BY DEF TypeOK, ClientType, RecvMSG
<1>2. Head(inbox[s]) \in MSG /\ Tail(inbox[s]) \in Seq(MSG)
  BY <1>1, HeadTailProperties
<1> QED BY <1>2 DEF RecvMSG, TypeOK, ClientType

\* del_node leaves a list of users.
LEMMA DelNodeType ==
  ASSUME TypeOK, NEW s \in Socks, del_node(s)
  PROVE  head' \in Seq(user_date)
<1>0. head \in Seq(user_date) /\ Len(head) \in Nat /\ DOMAIN head = 1..Len(head)
  BY LenProperties DEF TypeOK, ListType
<1>1. CASE head = << >>
  BY <1>0, <1>1 DEF del_node
<1>2. CASE head # << >>
  <2>1. PICK i \in 1..Len(head) : head' = Unlinked(i)
    BY <1>0, <1>2 DEF del_node
  <2>2. SubSeq(head, i + 1, Len(head)) \in Seq(user_date)
    BY <1>0, <2>1, SubSeqProperties
  <2>3. SubSeq(head, 1, i - 1) \in Seq(user_date)
    BY <1>0, <2>1, SubSeqProperties
  <2>4. SubSeq(head, 1, i - 1) \o SubSeq(head, i + 1, Len(head)) \in Seq(user_date)
    BY <2>2, <2>3, ConcatProperties
  <2> QED BY <2>1, <2>2, <2>4 DEF Unlinked
<1> QED BY <1>1, <1>2

\* send_file and the chunks it forwards keep every type.
LEMMA FileType ==
  ASSUME TypeOK, send_file \/ send_file_chunk \/ send_file_end
  PROVE  TypeOK'
<1> USE DEF TypeOK
<1>1. CASE send_file
  <2>1. UNCHANGED <<head, head_request, dataVars>>
    BY <1>1 DEF send_file
  <2>2. CASE Segfault
    BY <2>1, <2>2, DeathType
      DEF ListType, TableType, dataVars, userVars, friendVars, groupVars, relVars
  <2>3. CASE ~Segfault
    <3>1. /\ filedst' = TargetSocks(message.to)
          /\ pc' \in {"file", "sigpipe"}
          /\ Sent(filedst')
          /\ UNCHANGED <<cur, message, clientVars, who, reqs>>
      BY <1>1, <2>3 DEF send_file, Sigpipe
    <3>2. ProcType'
      BY <3>1 DEF ProcType, TargetSocks
    <3>3. conn' \in [Socks -> {"free", "open", "closed", "reset", "broken"}]
      BY <3>1 DEF ClientType, Sent
    <3>4. ClientType'
      BY <3>1, <3>3 DEF ClientType, clientVars
    <3> QED BY <2>1, <3>2, <3>4
      DEF ListType, TableType, dataVars, userVars, friendVars, groupVars, relVars
  <2> QED BY <2>2, <2>3
<1>2. CASE send_file_chunk
  <2>1. message' \in MSG /\ inbox' \in [Socks -> Seq(MSG)]
    BY <1>2, RecvType DEF send_file_chunk, ProcType
  <2>2. pc' \in {"file", "wait", "segv", "sigpipe"}
    BY <1>2 DEF send_file_chunk, Sigpipe
  <2>3. conn' \in [Socks -> {"free", "open", "closed", "reset", "broken"}]
    BY <1>2 DEF send_file_chunk, Sent, ClientType
  <2>4. ProcType'
    BY <1>2, <2>1, <2>2 DEF send_file_chunk, ProcType
  <2>5. ClientType'
    BY <1>2, <2>1, <2>3 DEF send_file_chunk, ClientType
  <2>6. ListType' /\ TableType'
    BY <1>2
      DEF send_file_chunk, ListType, TableType, dataVars, userVars, friendVars, groupVars, relVars
  <2> QED BY <2>4, <2>5, <2>6
<1>3. CASE send_file_end
  <2>1. ProcType'
    BY <1>3 DEF send_file_end, ProcType
  <2>2. ClientType'
    BY <1>3 DEF send_file_end, ClientType, ProcType, clientVars
  <2>3. ListType' /\ TableType'
    BY <1>3
      DEF send_file_end, ListType, TableType, dataVars, userVars, friendVars, groupVars, relVars
  <2> QED BY <2>1, <2>2, <2>3
<1> QED BY <1>1, <1>2, <1>3

\* What is left to show when the lists and tables do not change.
LEMMA DataFrameType ==
  ASSUME TypeOK, ProcType', ClientType', UNCHANGED <<head, head_request, dataVars>>
  PROVE  TypeOK'
BY DEF TypeOK, ListType, TableType, dataVars, userVars, friendVars, groupVars, relVars

\* What main's loop does with an event (accept, recv, recv == 0, recv < 0) keeps every type.
LEMMA LoopType ==
  ASSUME TypeOK, NEW s \in Socks, Loop(s)
  PROVE  TypeOK'
<1>1. CASE Accept(s)
  <2>1. ProcType'
    BY <1>1 DEF TypeOK, ProcType, Accept, procVars
  <2>2. ClientType'
    BY <1>1, BoundsAssumption DEF TypeOK, ClientType, Accept, Spend
  <2> QED BY <1>1, <2>1, <2>2, DataFrameType DEF Accept
<1>2. CASE Recv(s)
  <2>0. message' \in MSG /\ inbox' \in [Socks -> Seq(MSG)]
    BY <1>2, RecvType DEF Recv
  <2>1. ProcType'
    BY <1>2, <2>0 DEF TypeOK, ProcType, Recv
  <2>2. ClientType'
    BY <1>2, <2>0 DEF TypeOK, ClientType, Recv, netVars
  <2> QED BY <1>2, <2>1, <2>2, DataFrameType DEF Recv
<1>3. CASE RecvEof(s)
  <2>0. head' \in Seq(user_date)
    BY <1>3, DelNodeType DEF RecvEof
  <2>1. ProcType'
    BY <1>3 DEF TypeOK, ProcType, RecvEof
  <2>2. ClientType'
    <3>1. None \in Name0 /\ << >> \in Seq(MSG)
      BY DEF Name0
    <3>2. conn' \in [Socks -> {"free", "open", "closed", "reset", "broken"}]
      BY <1>3 DEF RecvEof, CloseFd, TypeOK, ClientType
    <3>3. who' \in [Socks -> Name0] /\ filing' \in [Socks -> Seq(MSG)]
      BY <1>3, <3>1 DEF RecvEof, TypeOK, ClientType
    <3>4. reqs' \in [Socks -> SUBSET MSG]
      BY <1>3 DEF RecvEof, TypeOK, ClientType
    <3> QED BY <1>3, <3>2, <3>3, <3>4 DEF TypeOK, ClientType, RecvEof
  <2>3. ListType' /\ TableType'
    BY <1>3, <2>0
      DEF TypeOK, RecvEof, ListType, TableType, dataVars, userVars, friendVars, groupVars, relVars
  <2> QED BY <2>1, <2>2, <2>3 DEF TypeOK
<1>4. CASE RecvError(s)
  <2>1. ProcType'
    BY <1>4 DEF TypeOK, ProcType, RecvError
  <2>2. ClientType'
    BY <1>4 DEF TypeOK, ClientType, RecvError, clientVars
  <2> QED BY <1>4, <2>1, <2>2, DataFrameType DEF RecvError
<1> QED BY <1>1, <1>2, <1>3, <1>4 DEF Loop

\* A client sends m.
LEMMA SendType ==
  ASSUME TypeOK, NEW s \in Socks, NEW m \in MSG, Send(s, m),
         filing' \in [Socks -> Seq(MSG)], consented' \in SUBSET (Name0 \X Name0)
  PROVE  TypeOK'
<1>1. inbox' \in [Socks -> Seq(MSG)]
  <2>1. Append(inbox[s], m) \in Seq(MSG)
    BY AppendProperties DEF TypeOK, ClientType
  <2> QED BY <2>1 DEF TypeOK, ClientType, Send
<1>2. ProcType'
  BY DEF TypeOK, ProcType, Send, procVars
<1>3. left' \in 0..MaxEvents
  BY BoundsAssumption DEF TypeOK, ClientType, Send, Spend
<1>4. ClientType'
  BY <1>1, <1>3 DEF TypeOK, ClientType, Send, netVars
<1> QED BY <1>2, <1>4, DataFrameType DEF Send

\* A client's menu makes typed requests.
LEMMA RequestsType ==
  ASSUME NEW u \in Name0
  PROVE  Requests(u) \subseteq MSG
<1>1. /\ Names \subseteq Name0 /\ Groups \subseteq Group0 /\ None \in Name0 /\ None \in Group0
      /\ {5, 22, 23, 24, 251, 252} \subseteq Int /\ {11, 12, 21} \subseteq Int
      /\ {13, 14, 15} \subseteq Int /\ {253} \subseteq Int
  BY DEF Name0, Group0
<1> SUFFICES ASSUME NEW m \in Requests(u) PROVE m \in MSG
  OBVIOUS
<1>2. CASE \E c \in {11, 12, 21} : m = Msg(c, u, None, None)
  BY <1>1, <1>2, MadeType
<1>3. CASE \E c \in {13, 14, 15}, n \in Names : m = Msg(c, u, n, None)
  BY <1>1, <1>3, MadeType
<1>4. CASE \E c \in {5, 22, 23, 24, 251, 252}, g \in Groups : m = Msg(c, u, None, g)
  BY <1>1, <1>4, MadeType
<1>5. CASE \E c \in {253}, n \in Names, g \in Groups : m = Msg(c, u, n, g)
  BY <1>1, <1>5, MadeType
<1> QED BY <1>2, <1>3, <1>4, <1>5
  DEF Requests, FriendMenu, GroupMenu, ManageMenu, CreateMenu

\* What a client sends, and its close, keep every type.
LEMMA ClientStepType ==
  ASSUME TypeOK, NEW s \in Socks, Client(s)
  PROVE  TypeOK'
<1> DEFINE Pairs == SUBSET (Name0 \X Name0)
<1>0. /\ who[s] \in Name0 /\ reqs[s] \in SUBSET MSG
      /\ filing \in [Socks -> Seq(MSG)] /\ consented \in Pairs
      /\ Names \subseteq Name0 /\ None \in Name0 /\ None \in Group0
      /\ Passwords \subseteq Password0 /\ None \in Password0
  BY DEF TypeOK, ClientType, Name0, Group0, Password0
<1>1. CASE ClientAccount(s)
  <2>1. PICK c \in {0, 1, 2} \cap Menu, n \in Names, p \in Passwords :
          Send(s, [Msg(c, n, None, None) EXCEPT !.pw = IF c = 0 THEN None ELSE p])
    BY <1>1 DEF ClientAccount
  <2> DEFINE q == IF c = 0 THEN None ELSE p
             m == [Msg(c, n, None, None) EXCEPT !.pw = q]
  <2>2. q \in Password0 /\ c \in Int /\ n \in Name0
    BY <1>0, <2>1
  <2>3. m \in MSG
    <3> HIDE DEF q
    <3>1. Msg(c, n, None, None) \in MSG
      BY <1>0, <2>2, MadeType
    <3> QED BY <2>2, <3>1 DEF MSG
  <2> HIDE DEF m
  <2>4. Send(s, m)
    BY <2>1 DEF m
  <2> QED BY <1>0, <1>1, <2>3, <2>4, SendType DEF ClientAccount
<1>2. CASE ClientRequest(s)
  <2>1. PICK m \in Requests(who[s]) :
          /\ Send(s, m)
          /\ consented' = consented \cup (IF m.cmd = 14 THEN {<<m.from, m.to>>} ELSE {})
    BY <1>2 DEF ClientRequest
  <2>2. m \in MSG
    BY <1>0, RequestsType
  <2>3. consented' \in Pairs
    BY <1>0, <2>1, <2>2 DEF MSG
  <2> QED BY <1>0, <1>2, <2>1, <2>2, <2>3, SendType DEF ClientRequest
<1>3. CASE ClientAnswer(s)
  <2>1. PICK m \in reqs[s] :
          \/ /\ m.cmd = 14
             /\ \/ /\ Send(s, [m EXCEPT !.cmd = 311])
                   /\ consented' = consented \cup {<<m.to, m.from>>}
                \/ Send(s, [m EXCEPT !.cmd = 312]) /\ UNCHANGED consented
          \/ /\ m.cmd = 23
             /\ \E c \in {321, 322} : Send(s, [m EXCEPT !.cmd = c])
             /\ UNCHANGED consented
    BY <1>3 DEF ClientAnswer
  <2>2. m \in MSG
    BY <1>0
  <2>3. PICK c \in {311, 312, 321, 322} : Send(s, [m EXCEPT !.cmd = c])
    BY <2>1
  <2>4. [m EXCEPT !.cmd = c] \in MSG
    BY <2>2 DEF MSG
  <2>5. consented' \in Pairs
    <3>1. <<m.to, m.from>> \in Name0 \X Name0
      BY <2>2 DEF MSG
    <3> QED BY <1>0, <2>1, <3>1
  <2> DEFINE k == [m EXCEPT !.cmd = c]
  <2>6. k \in MSG /\ Send(s, k)
    BY <2>3, <2>4
  <2> HIDE DEF k
  <2> QED BY <1>0, <1>3, <2>5, <2>6, SendType DEF ClientAnswer
<1>4. CASE ClientFile(s)
  <2>0. consented' = consented /\ \A m \in MSG : <<m>> \in Seq(MSG)
    BY <1>4 DEF ClientFile
  <2>1. ASSUME NEW n \in Names, Send(s, Msg(6, who[s], n, None)),
               filing' = [filing EXCEPT ![s] = <<Msg(6, who[s], n, None)>>]
        PROVE  TypeOK'
    <3> DEFINE m == Msg(6, who[s], n, None)
    <3>1. m \in MSG
      <4>1. 6 \in Int /\ n \in Name0
        BY <1>0
      <4> QED BY <1>0, <4>1, MadeType
    <3>2. Send(s, m) /\ filing' = [filing EXCEPT ![s] = <<m>>]
      BY <2>1
    <3> HIDE DEF m
    <3>3. filing' \in [Socks -> Seq(MSG)]
      BY <1>0, <2>0, <3>1, <3>2
    <3> QED BY <1>0, <2>0, <3>1, <3>2, <3>3, SendType
  <2>2. ASSUME filing[s] # << >>, NEW full \in BOOLEAN,
               Send(s, [filing[s][1] EXCEPT !.full = full]),
               filing' = [filing EXCEPT ![s] = IF full THEN <<Msg(6, None, None, None)>>
                                                       ELSE << >>]
        PROVE  TypeOK'
    <3> DEFINE m == filing[s][1]
               k == [m EXCEPT !.full = full]
               z == Msg(6, None, None, None)
    <3>1. m \in MSG
      <4>1. filing[s] \in Seq(MSG)
        BY <1>0
      <4>2. 1 \in 1..Len(filing[s])
        BY <2>2, <4>1, EmptySeq, LenProperties
      <4> QED BY <4>1, <4>2, ElementOfSeq
    <3>2. k \in MSG
      <4> HIDE DEF m
      <4> QED BY <3>1 DEF MSG
    <3>3. z \in MSG
      <4>1. 6 \in Int
        OBVIOUS
      <4> QED BY <1>0, <4>1, MadeType
    <3>4. Send(s, k) /\ filing' = [filing EXCEPT ![s] = IF full THEN <<z>> ELSE << >>]
      BY <2>2
    <3> HIDE DEF k, z
    <3>5. (IF full THEN <<z>> ELSE << >>) \in Seq(MSG)
      BY <2>0, <3>3
    <3>6. filing' \in [Socks -> Seq(MSG)]
      BY <1>0, <3>4, <3>5
    <3> QED BY <1>0, <2>0, <3>2, <3>4, <3>6, SendType
  <2>3. CASE /\ filing' = [filing EXCEPT ![s] = << >>]
             /\ UNCHANGED <<inbox, left, procVars, netVars, reqs, head, head_request, dataVars>>
    <3>1. filing' \in [Socks -> Seq(MSG)]
      BY <1>0, <2>3
    <3>2. ProcType' /\ ClientType'
      BY <2>0, <2>3, <3>1 DEF TypeOK, ProcType, ClientType, procVars, netVars
    <3> QED BY <2>3, <3>2, DataFrameType
  <2> QED BY <1>4, <2>1, <2>2, <2>3 DEF ClientFile
<1>5. CASE ClientClose(s)
  <2>1. PICK c \in {"closed", "reset", "broken"} : conn' = [conn EXCEPT ![s] = c]
    BY <1>5 DEF ClientClose
  <2>2. ProcType' /\ ClientType'
    BY <1>5, <2>1 DEF TypeOK, ProcType, ClientType, ClientClose, procVars, clientVars
  <2> QED BY <1>5, <2>2, DataFrameType DEF ClientClose
<1> QED BY <1>1, <1>2, <1>3, <1>4, <1>5 DEF Client

\* The end of the process and its restart over the tables keep every type.
LEMMA ProcessType ==
  ASSUME TypeOK, Die \/ Shutdown \/ Restart
  PROVE  TypeOK'
<1>1. CASE Die \/ Shutdown
  <2>0. Stop
    BY <1>1 DEF Die, Shutdown
  <2>1. ProcType'
    BY <2>0 DEF TypeOK, ProcType, Stop
  <2>2. ClientType'
    <3>1. None \in Name0 /\ << >> \in Seq(MSG)
      BY DEF Name0
    <3>2. /\ inbox' \in [Socks -> Seq(MSG)] /\ filing' \in [Socks -> Seq(MSG)]
          /\ who' \in [Socks -> Name0]
      BY <2>0, <3>1 DEF Stop, Disconnected
    <3> QED BY <2>0, <3>2 DEF TypeOK, ClientType, Stop, Disconnected
  <2>3. ListType' /\ TableType'
    <3>1. /\ head' \in Seq(user_date)
          /\ head_request' \in [KeyedLists -> Seq(request_node)]
      BY <2>0 DEF Stop
    <3> QED BY <2>0, <3>1
      DEF TypeOK, Stop, ListType, TableType, dataVars, userVars, friendVars, groupVars, relVars
  <2> QED BY <2>1, <2>2, <2>3 DEF TypeOK
<1>2. CASE Restart
  <2>1. ProcType'
    BY <1>2, MsgType DEF TypeOK, ProcType, Restart
  <2>2. ClientType'
    BY <1>2 DEF TypeOK, ClientType, Restart, clientVars, netVars
  <2>3. ListType' /\ TableType'
    BY <1>2 DEF TypeOK, ListType, TableType, Restart, ReadTables
  <2> QED BY <2>1, <2>2, <2>3 DEF TypeOK
<1> QED BY <1>1, <1>2

\* The server as main leaves it before its loop has the types.
LEMMA InitType == Init => TypeOK
<1> SUFFICES ASSUME Init PROVE TypeOK
  OBVIOUS
<1>0. /\ << >> \in Seq(MSG) /\ << >> \in Seq({0, 1}) /\ << >> \in Seq(Name0)
      /\ << >> \in Seq({1, 2, 3}) /\ << >> \in Seq(request_node) /\ << >> \in Seq(user_date)
      /\ << >> \in Seq(Password0) /\ None \in Name0
  BY DEF Name0
<1>1. ProcType
  BY MsgType DEF Init, ProcType
<1>2. ClientType
  <2>1. inbox \in [Socks -> Seq(MSG)] /\ filing \in [Socks -> Seq(MSG)]
    BY <1>0 DEF Init
  <2>2. who \in [Socks -> Name0] /\ reqs \in [Socks -> SUBSET MSG]
    BY <1>0 DEF Init
  <2> QED BY <2>1, <2>2, BoundsAssumption DEF Init, ClientType
<1>3. user \in [Name0 -> Seq(Password0)]
  <2>1. PICK p \in Passwords :
          user = [n \in Name0 |-> IF n \in Registered THEN <<p>> ELSE << >>]
    BY DEF Init
  <2>2. <<p>> \in Seq(Password0)
    BY <2>1 DEF Password0
  <2> QED BY <1>0, <2>1, <2>2
<1>4. friend \in [Name0 -> [Name0 -> Seq({0, 1})]]
  BY <1>0 DEF Init
<1>5. user_groups \in [Group0 -> Seq(Name0)]
  BY <1>0 DEF Init
<1>6. group_relationship \in [Group0 -> [Name0 -> Seq({1, 2, 3})]]
  BY <1>0 DEF Init
<1>7. head_request \in [KeyedLists -> Seq(request_node)] /\ head \in Seq(user_date)
  BY <1>0 DEF Init
<1>8. /\ head_user = user /\ head_friends = friend /\ head_user_groups = user_groups
      /\ head_group_relationship = group_relationship
  BY DEF Init
<1> QED BY <1>1, <1>2, <1>3, <1>4, <1>5, <1>6, <1>7, <1>8 DEF TypeOK, ListType, TableType

\* TypeOK is inductive: every step of the server, its clients and its operator keeps it.
LEMMA StepType == TypeOK /\ [Next]_vars => TypeOK'
<1> SUFFICES ASSUME TypeOK, [Next]_vars PROVE TypeOK'
  OBVIOUS
<1>1. CASE \E s \in Socks : Loop(s) \/ Client(s)
  BY <1>1, LoopType, ClientStepType
<1>2. CASE chuli_request
  <2>1. CASE no_case
    <3>1. ProcType' /\ ClientType'
      BY <2>1 DEF TypeOK, ProcType, ClientType, no_case, clientVars, netVars
    <3> QED BY <2>1, <3>1, DataFrameType DEF no_case
  <2> QED BY <1>2, <2>1, AccountType, FriendType, GroupTalkType, GroupType, FileType
    DEF chuli_request
<1>3. CASE send_file_chunk \/ send_file_end
  BY <1>3, FileType
<1>4. CASE Die \/ Shutdown \/ Restart
  BY <1>4, ProcessType
<1>5. CASE UNCHANGED vars
  <2>1. ProcType' /\ ClientType'
    BY <1>5 DEF TypeOK, ProcType, ClientType, vars, procVars, clientVars, netVars
  <2> QED BY <1>5, <2>1, DataFrameType DEF vars
<1> QED BY <1>1, <1>2, <1>3, <1>4, <1>5 DEF Next

\* Every slot, list and table keeps its type in every behaviour of the server:
\* no handler, replay or restart stores what no search could read.
THEOREM TypeCorrect == Spec => []TypeOK
BY InitType, StepType, PTL DEF Spec

-----------------------------------------------------------------------------
(* List and table                                                          *)

\* With at most one row per pair, what the list code does to the first row is
\* what the query does to all rows.
LEMMA ShortRows ==
  ASSUME NEW S, NEW rows \in Seq(S), Len(rows) <= 1, NEW v \in S
  PROVE  /\ DeleteFirst(rows) = DeleteRows(rows)
         /\ UpdateFirst(rows, v) = UpdateRows(rows, v)
         /\ Len(DeleteRows(rows)) <= 1
         /\ Len(UpdateRows(rows, v)) <= 1
<1>0. Len(rows) \in Nat /\ DOMAIN rows = 1..Len(rows)
  BY LenProperties
<1>1. CASE rows = << >>
  <2>1. DOMAIN rows = {} /\ DOMAIN << >> = {}
    BY <1>0, <1>1
  <2>2. UpdateRows(rows, v) = << >>
    BY <1>1, <2>1 DEF UpdateRows
  <2> QED BY <1>1, <2>2 DEF DeleteFirst, DeleteRows, UpdateFirst
<1>2. CASE rows # << >>
  <2>1. Len(rows) = 1 /\ DOMAIN rows = {1}
    BY <1>0, <1>2, EmptySeq
  <2>2. Tail(rows) = << >>
    <3>1. Tail(rows) \in Seq(S) /\ Len(Tail(rows)) = 0
      BY <1>2, <2>1, HeadTailProperties
    <3> QED BY <3>1, EmptySeq
  <2>3. [rows EXCEPT ![1] = v] = [i \in DOMAIN rows |-> v]
    <3>1. rows = [i \in {1} |-> rows[i]]
      BY <2>1, LenProperties
    <3> QED BY <2>1, <3>1
  <2>4. UpdateRows(rows, v) \in Seq(S) /\ DOMAIN UpdateRows(rows, v) = {1}
    BY <2>1, RowHelpers DEF UpdateRows
  <2>5. Len(UpdateRows(rows, v)) = 1
    <3>1. 1..Len(UpdateRows(rows, v)) = {1} /\ Len(UpdateRows(rows, v)) \in Nat
      BY <2>4, LenProperties
    <3>2. 1 \in 1..Len(UpdateRows(rows, v))
      BY <3>1
    <3>3. Len(UpdateRows(rows, v)) \in 1..Len(UpdateRows(rows, v))
      BY <3>1, <3>2
    <3> QED BY <3>1, <3>3
  <2> QED BY <1>2, <2>2, <2>3, <2>5 DEF DeleteFirst, DeleteRows, UpdateFirst, UpdateRows
<1> QED BY <1>1, <1>2

\* The steps other than the four handlers and Restart leave the friends alone.
LEMMA FriendsUntouched ==
  ASSUME [Next]_vars, ~Restart, ~add_friend, ~delete_friend,
         ~deal_friend_request_y, ~deal_friend_request_n
  PROVE  UNCHANGED friendVars /\ (Running' => Running)
<1> USE DEF dataVars, friendVars, Running
<1>1. ASSUME NEW s \in Socks, Loop(s)
      PROVE  UNCHANGED friendVars /\ (Running' => Running)
  BY <1>1 DEF Loop, Accept, Recv, RecvEof, RecvError, procVars
<1>2. ASSUME NEW s \in Socks, Client(s)
      PROVE  UNCHANGED friendVars /\ (Running' => Running)
  BY <1>2 DEF Client, ClientAccount, ClientRequest, ClientAnswer, ClientFile, ClientClose,
              Send, procVars
<1>3. CASE chuli_request
  <2>0. pc = "dispatch"
    BY <1>3 DEF chuli_request, Handling, reg, login, forget_password, all_friends, online_friend,
                private_chat, view_group, public_chat, add_group, quit_group, view_group_member,
                break_group, set_manager, deal_group_request_y, deal_group_request_n,
                create_group, send_file, no_case
  <2>1. UNCHANGED friendVars
    <3> USE DEF Reply, Listing
    <3>1. CASE reg \/ login \/ forget_password
      BY <3>1 DEF reg, login, forget_password
    <3>2. CASE all_friends \/ online_friend \/ private_chat
      BY <3>2 DEF all_friends, online_friend, private_chat
    <3>3. CASE view_group \/ public_chat \/ add_group \/ view_group_member
      BY <3>3 DEF view_group, public_chat, add_group, view_group_member
    <3>4. CASE quit_group \/ break_group
      BY <3>4 DEF quit_group, break_group
    <3>5. CASE set_manager \/ create_group \/ deal_group_request_y \/ deal_group_request_n
      BY <3>5 DEF set_manager, create_group, deal_group_request_y, deal_group_request_n
    <3>6. CASE send_file \/ no_case
      BY <3>6 DEF send_file, no_case
    <3> QED BY <1>3, <3>1, <3>2, <3>3, <3>4, <3>5, <3>6 DEF chuli_request
  <2> QED BY <2>0, <2>1
<1>4. CASE send_file_chunk \/ send_file_end
  BY <1>4 DEF send_file_chunk, send_file_end
<1>5. CASE Die \/ Shutdown
  BY <1>5 DEF Die, Shutdown, Stop
<1>6. CASE UNCHANGED vars
  BY <1>6 DEF vars, procVars
<1> QED BY <1>1, <1>2, <1>3, <1>4, <1>5, <1>6 DEF Next

\* The four handlers that do change them run with list and table equal, and
\* leave them equal or end the process.
LEMMA FriendsMirrored ==
  ASSUME TypeOK, FriendListMirrorsTable,
         add_friend \/ delete_friend \/ deal_friend_request_y \/ deal_friend_request_n
  PROVE  FriendListMirrorsTable'
<1> DEFINE u == message.from
           f == message.to
           Table == [Name0 -> [Name0 -> Seq({0, 1})]]
           Short(t) == \A x, y \in Name0 : Len(t[x][y]) <= 1
<1>0. /\ u \in Name0 /\ f \in Name0 /\ friend \in Table /\ head_friends \in Table
      /\ pc = "dispatch" /\ head_friends = friend /\ Short(friend)
  BY DEF TypeOK, ProcType, MSG, TableType, ListType, FriendListMirrorsTable, Running,
         Handling, add_friend, delete_friend, deal_friend_request_y, deal_friend_request_n
<1>1. ASSUME head_friends' = friend', Short(friend')
      PROVE  FriendListMirrorsTable'
  BY <1>1 DEF FriendListMirrorsTable
<1>2. ASSUME NEW t \in Table, Short(t), NEW x \in Name0, NEW y \in Name0, NEW rows \in Seq({0, 1}),
             Len(rows) <= 1
      PROVE  Row(t, x, y, rows) \in Table /\ Short(Row(t, x, y, rows))
  BY <1>2 DEF Row
<1>3. ASSUME NEW t \in Table, Short(t), NEW x \in Name0, NEW y \in Name0, NEW v \in {0, 1}
      PROVE  /\ DeleteFirst(t[x][y]) = DeleteRows(t[x][y])
             /\ UpdateFirst(t[x][y], v) = UpdateRows(t[x][y], v)
             /\ DeleteRows(t[x][y]) \in Seq({0, 1}) /\ Len(DeleteRows(t[x][y])) <= 1
             /\ UpdateRows(t[x][y], v) \in Seq({0, 1}) /\ Len(UpdateRows(t[x][y], v)) <= 1
  <2>1. t[x][y] \in Seq({0, 1}) /\ Len(t[x][y]) <= 1
    BY <1>3
  <2> QED BY <2>1, ShortRows, RowHelpers
<1>4. CASE UNCHANGED friendVars
  BY <1>0, <1>1, <1>4 DEF friendVars
<1>5. CASE DeleteFriend(u, f)
  <2>1. /\ DeleteFirst(friend[u][f]) = DeleteRows(friend[u][f])
        /\ DeleteRows(friend[u][f]) \in Seq({0, 1}) /\ Len(DeleteRows(friend[u][f])) <= 1
    BY <1>0, <1>3
  <2>2. head_friends' = friend' /\ friend' = Row(friend, u, f, DeleteRows(friend[u][f]))
    BY <1>0, <1>5, <2>1 DEF DeleteFriend
  <2>3. Short(Row(friend, u, f, DeleteRows(friend[u][f])))
    BY <1>0, <1>2, <2>1
  <2> QED BY <1>1, <2>2, <2>3
<1>6. CASE add_friend
  <2>1. CASE ~IsFriend(u, f) /\ InsertFriend(u, f, 0)
    <3>1. Append(friend[u][f], 0) = <<0>>
      <4>1. friend[u][f] = << >>
        BY <1>0, <2>1 DEF IsFriend
      <4> QED BY <4>1
    <3>2. head_friends' = friend' /\ friend' = Row(friend, u, f, <<0>>)
      BY <1>0, <2>1, <3>1 DEF InsertFriend, weicha_list
    <3>3. Short(Row(friend, u, f, <<0>>))
      <4>1. <<0>> \in Seq({0, 1}) /\ Len(<<0>>) <= 1
        OBVIOUS
      <4> QED BY <1>0, <1>2, <4>1
    <3> QED BY <1>1, <3>2, <3>3
  <2> QED BY <1>4, <1>6, <2>1 DEF add_friend, Reply, Listing, dataVars
<1>7. CASE delete_friend
  <2>1. CASE /\ head_friends' = [Row(head_friends, u, f, DeleteFirst(head_friends[u][f]))
                                   EXCEPT ![f][u] = UpdateFirst(@, 0)]
             /\ friend' = [Row(friend, u, f, DeleteRows(friend[u][f]))
                             EXCEPT ![f][u] = UpdateRows(@, 0)]
    <3> DEFINE t == Row(friend, u, f, DeleteRows(friend[u][f]))
    <3>1. /\ DeleteFirst(friend[u][f]) = DeleteRows(friend[u][f])
          /\ DeleteRows(friend[u][f]) \in Seq({0, 1}) /\ Len(DeleteRows(friend[u][f])) <= 1
      BY <1>0, <1>3
    <3>2. t \in Table /\ Short(t)
      BY <1>0, <1>2, <3>1
    <3>3. /\ head_friends' = [t EXCEPT ![f][u] = UpdateFirst(@, 0)]
          /\ friend' = [t EXCEPT ![f][u] = UpdateRows(@, 0)]
      BY <1>0, <2>1, <3>1
    <3> HIDE DEF t
    <3>4. /\ UpdateFirst(t[f][u], 0) = UpdateRows(t[f][u], 0)
          /\ UpdateRows(t[f][u], 0) \in Seq({0, 1}) /\ Len(UpdateRows(t[f][u], 0)) <= 1
      BY <1>0, <1>3, <3>2
    <3>5. head_friends' = friend' /\ friend' = Row(t, f, u, UpdateRows(t[f][u], 0))
      BY <3>3, <3>4 DEF Row
    <3>6. Short(Row(t, f, u, UpdateRows(t[f][u], 0)))
      BY <1>0, <1>2, <3>2, <3>4
    <3> QED BY <1>1, <3>5, <3>6
  <2> QED BY <1>4, <1>5, <1>7, <2>1 DEF delete_friend, Reply, Listing, dataVars
<1>8. CASE deal_friend_request_y
  <2> DEFINE t == Accepting(friend, f, u, UpdateRows)
  <2>1. /\ UpdateFirst(friend[f][u], 1) = UpdateRows(friend[f][u], 1)
        /\ UpdateRows(friend[f][u], 1) \in Seq({0, 1}) /\ Len(UpdateRows(friend[f][u], 1)) <= 1
    BY <1>0, <1>3
  <2>2. Accepting(head_friends, f, u, UpdateFirst) = t
    BY <1>0, <2>1 DEF Accepting
  <2>3. t \in Table /\ Short(t)
    <3>1. CASE friend[f][u] = << >>
      <4>1. Append(friend[f][u], 1) = <<1>> /\ <<1>> \in Seq({0, 1}) /\ Len(<<1>>) <= 1
        BY <3>1
      <4>2. t = Row(friend, f, u, <<1>>)
        BY <1>0, <3>1, <4>1 DEF Accepting
      <4>3. Row(friend, f, u, <<1>>) \in Table /\ Short(Row(friend, f, u, <<1>>))
        BY <1>0, <1>2, <4>1
      <4> HIDE DEF t
      <4> QED BY <4>2, <4>3
    <3>2. CASE friend[f][u] # << >>
      <4>1. t = Row(friend, f, u, UpdateRows(friend[f][u], 1))
        BY <1>0, <3>2 DEF Accepting
      <4>2. /\ Row(friend, f, u, UpdateRows(friend[f][u], 1)) \in Table
            /\ Short(Row(friend, f, u, UpdateRows(friend[f][u], 1)))
        BY <1>0, <1>2, <2>1
      <4> HIDE DEF t
      <4> QED BY <4>1, <4>2
    <3> QED BY <3>1, <3>2
  <2>4. CASE /\ head_friends' = Accepting(head_friends, f, u, UpdateFirst)
             /\ friend' = Accepting(friend, f, u, UpdateRows)
    BY <1>1, <2>2, <2>3, <2>4
  <2>5. CASE /\ head_friends' = [Accepting(head_friends, f, u, UpdateFirst)
                                   EXCEPT ![u][f] = UpdateFirst(@, 1)]
             /\ friend' = [Accepting(friend, f, u, UpdateRows)
                             EXCEPT ![u][f] = UpdateRows(@, 1)]
    <3>1. /\ head_friends' = [t EXCEPT ![u][f] = UpdateFirst(@, 1)]
          /\ friend' = [t EXCEPT ![u][f] = UpdateRows(@, 1)]
      BY <2>2, <2>5
    <3> HIDE DEF t
    <3>2. /\ UpdateFirst(t[u][f], 1) = UpdateRows(t[u][f], 1)
          /\ UpdateRows(t[u][f], 1) \in Seq({0, 1}) /\ Len(UpdateRows(t[u][f], 1)) <= 1
      BY <1>0, <1>3, <2>3
    <3>3. head_friends' = friend' /\ friend' = Row(t, u, f, UpdateRows(t[u][f], 1))
      BY <3>1, <3>2 DEF Row
    <3>4. Short(Row(t, u, f, UpdateRows(t[u][f], 1)))
      BY <1>0, <1>2, <2>3, <3>2
    <3> QED BY <1>1, <3>3, <3>4
  <2> QED BY <1>4, <1>8, <2>4, <2>5 DEF deal_friend_request_y
<1>9. CASE deal_friend_request_n
  BY <1>4, <1>5, <1>9 DEF deal_friend_request_n
<1> QED BY <1>6, <1>7, <1>8, <1>9

\* Every step keeps the friend list and the friend table equal.
LEMMA StepMirrored ==
  TypeOK /\ FriendListMirrorsTable /\ [Next]_vars => FriendListMirrorsTable'
<1> SUFFICES ASSUME TypeOK, FriendListMirrorsTable, [Next]_vars
             PROVE  FriendListMirrorsTable'
  OBVIOUS
<1>1. CASE add_friend \/ delete_friend \/ deal_friend_request_y \/ deal_friend_request_n
  BY <1>1, FriendsMirrored
<1>2. CASE Restart
  BY <1>2 DEF Restart, ReadTables, FriendListMirrorsTable
<1>3. CASE ~(add_friend \/ delete_friend \/ deal_friend_request_y \/ deal_friend_request_n \/ Restart)
  BY <1>3, FriendsUntouched DEF FriendListMirrorsTable, friendVars
<1> QED BY <1>1, <1>2, <1>3

\* The friend list of a running server is the friend table, with one row at
\* most for each pair, whatever requests, answers, replays, refused queries and
\* restarts came before: the list code's "first row" and the query's "all rows"
\* never differ.
THEOREM FriendMirror == Spec => []FriendListMirrorsTable
<1>1. Init => FriendListMirrorsTable
  BY DEF Init, FriendListMirrorsTable
<1> QED BY <1>1, StepMirrored, TypeCorrect, PTL DEF Spec

-----------------------------------------------------------------------------
(* Consent                                                                 *)

\* A handler changes the slot, the requests at the clients and head_request.
LEMMA HandlerConsents ==
  ASSUME ConsentKept, UNCHANGED clientVars,
         Consenting(message'),
         \A s \in Socks : \A m \in reqs'[s] : Consenting(m),
         RequestsConsented'
  PROVE  ConsentKept'
<1>1. consented' = consented /\ inbox' = inbox /\ filing' = filing
  BY DEF clientVars
<1> QED BY <1>1 DEF ConsentKept, Consenting, RequestsConsented

\* A handler that leaves slot, requests and queue alone keeps ConsentKept.
LEMMA SilentConsents ==
  ASSUME ConsentKept, UNCHANGED <<clientVars, message, reqs, head_request>>
  PROVE  ConsentKept'
<1>1. consented' = consented /\ inbox' = inbox /\ filing' = filing
  BY DEF clientVars
<1> QED BY <1>1 DEF ConsentKept, Consenting, RequestsConsented

\* A handler that crashes or exits changes no message.
LEMMA DeathConsents ==
  ASSUME ConsentKept, Segfault \/ ExitOnError, UNCHANGED head_request
  PROVE  ConsentKept'
BY SilentConsents DEF Segfault, ExitOnError

\* A handler's return to main changes neither inbox nor history.
LEMMA ReturnConsents ==
  ASSUME ConsentKept, NEW S, Return(S), UNCHANGED <<message, reqs, head_request>>
  PROVE  ConsentKept'
BY SilentConsents DEF Return, ReturnMany

\* No reply is a friend request or its acceptance.
LEMMA ListingConsents ==
  ASSUME TypeOK, ConsentKept, NEW c \in Int, c \notin {14, 311}, NEW n, Listing(c, n)
  PROVE  ConsentKept'
<1>1. message' = [message EXCEPT !.cmd = c] /\ UNCHANGED <<clientVars, reqs, head_request>>
  BY DEF Listing, ReturnMany
<1>2. message'.cmd = c
  BY <1>1 DEF TypeOK, ProcType, MSG
<1>3. Consenting(message')
  BY <1>2 DEF Consenting
<1>4. RequestsConsented' /\ \A s \in Socks : \A m \in reqs'[s] : Consenting(m)
  BY <1>1 DEF ConsentKept, RequestsConsented, clientVars
<1> QED BY <1>1, <1>3, <1>4, HandlerConsents

\* A reply whose cmd is no request and no acceptance keeps ConsentKept.
LEMMA ReplyConsents ==
  ASSUME TypeOK, ConsentKept, NEW c \in Int, c \notin {14, 311}, Reply(c)
  PROVE  ConsentKept'
BY ListingConsents DEF Reply

\* Forwarding a consenting message gives the clients consenting requests.
LEMMA ForwardConsents ==
  ASSUME ConsentKept, NEW m, Consenting(m), NEW n, Forward(m, n)
  PROVE  \A s \in Socks : \A k \in reqs'[s] : Consenting(k)
BY DEF ConsentKept, Forward

\* Queueing a request that has consent keeps RequestsConsented.
LEMMA QueueConsents ==
  ASSUME TypeOK, ConsentKept, consented' = consented,
         NEW k \in KeyedLists, NEW f \in Name0, NEW t \in RequestType, NEW g \in Group0,
         Queue(k, f, t, g),
         t = "f" => <<f, k>> \in consented,
         t = "y" => {<<f, k>>, <<k, f>>} \subseteq consented
  PROVE  RequestsConsented'
<1> DEFINE node == [from_name |-> f, type |-> t, to_group_name |-> g]
<1>0. node \in request_node /\ head_request[k] \in Seq(request_node)
  BY DEF request_node, TypeOK, ListType
<1>1. /\ DOMAIN head_request'[k] = 1..(Len(head_request[k]) + 1)
      /\ Len(head_request[k]) \in Nat
      /\ \A i \in 1..Len(head_request[k]) : head_request'[k][i] = head_request[k][i]
      /\ head_request'[k][Len(head_request[k]) + 1] = node
      /\ \A j \in KeyedLists \ {k} : head_request'[j] = head_request[j]
      /\ DOMAIN head_request[k] = 1..Len(head_request[k])
  <2>1. head_request'[k] = Append(head_request[k], node)
    BY DEF Queue, TypeOK, ListType
  <2>2. head_request'[k] \in Seq(request_node)
    BY <1>0, <2>1, AppendProperties
  <2>3. \A j \in KeyedLists \ {k} : head_request'[j] = head_request[j]
    BY DEF Queue, TypeOK, ListType
  <2> QED BY <1>0, <2>1, <2>2, <2>3, AppendProperties, LenProperties
<1> SUFFICES ASSUME NEW j \in KeyedLists, NEW i \in DOMAIN head_request'[j]
             PROVE  LET r == head_request'[j][i]
                    IN  /\ r.type = "f" => <<r.from_name, j>> \in consented
                        /\ r.type = "y" => {<<r.from_name, j>>, <<j, r.from_name>>} \subseteq consented
  BY DEF RequestsConsented
<1>2. CASE j # k
  <2>1. head_request'[j][i] = head_request[j][i] /\ i \in DOMAIN head_request[j]
    BY <1>1, <1>2
  <2> QED BY <2>1 DEF ConsentKept, RequestsConsented
<1>3. CASE j = k /\ i \in 1..Len(head_request[k])
  <2>1. head_request'[j][i] = head_request[j][i] /\ i \in DOMAIN head_request[j]
    BY <1>1, <1>3
  <2> QED BY <2>1 DEF ConsentKept, RequestsConsented
<1>4. CASE j = k /\ i = Len(head_request[k]) + 1
  BY <1>1, <1>4
<1> QED BY <1>1, <1>2, <1>3, <1>4

\* login sends what head_request keeps, in the shape it was kept.
LEMMA LoginConsents ==
  ASSUME TypeOK, ConsentKept, login
  PROVE  ConsentKept'
<1>1. CASE Reply(-2)
  <2>1. -2 \in Int /\ -2 \notin {14, 311}
    OBVIOUS
  <2> QED BY <1>1, <2>1, ReplyConsents
<1>2. CASE ~Reply(-2)
  <2> DEFINE n == message.from
             q == head_request[n]
  <2>0. /\ message' = IF q = << >> THEN [message EXCEPT !.cmd = 1002] ELSE Queued(message, q, Len(q))
        /\ reqs' = [reqs EXCEPT ![cur] =
                      IF conn[cur] = "open"
                        THEN @ \cup {Queued(message, q, i) :
                                       i \in {j \in DOMAIN q : q[j].type \in {"f", "g"}}}
                        ELSE @]
        /\ UNCHANGED <<clientVars, head_request>>
    BY <1>2 DEF login
  <2>1. /\ n \in KeyedLists /\ q \in Seq(request_node) /\ DOMAIN q = 1..Len(q) /\ Len(q) \in Nat
        /\ message \in MSG
    BY LenProperties DEF TypeOK, ProcType, MSG, KeyedLists, ListType
  <2>2. \A i \in DOMAIN q : Consenting(Queued(message, q, i))
    <3> SUFFICES ASSUME NEW i \in DOMAIN q PROVE Consenting(Queued(message, q, i))
      OBVIOUS
    <3> DEFINE m == Queued(message, q, i)
    <3>1. q[i].type \in RequestType /\ i \in 1..i
      <4>1. q[i] \in request_node
        BY <2>1, ElementOfSeq
      <4> QED BY <2>1, <4>1 DEF request_node
    <3>2. m.cmd = Command(q[i].type) /\ m.from = q[i].from_name /\ m.to = ToAt(q, i, n)
      BY <2>1 DEF Queued, MSG
    <3>3. /\ Command(q[i].type) = 14 => q[i].type = "f"
          /\ Command(q[i].type) = 311 => q[i].type = "y"
      BY <3>1 DEF Command, RequestType
    <3>4. q[i].type # "o" => ToAt(q, i, n) = n
      BY <3>1 DEF ToAt
    <3>5. /\ q[i].type = "f" => <<q[i].from_name, n>> \in consented
          /\ q[i].type = "y" => {<<q[i].from_name, n>>, <<n, q[i].from_name>>} \subseteq consented
      BY <2>1 DEF ConsentKept, RequestsConsented
    <3> HIDE DEF m
    <3>6. Consenting(m)
      BY <3>2, <3>3, <3>4, <3>5 DEF Consenting
    <3> QED BY <3>6 DEF m
  <2>3. Consenting(message')
    <3>1. CASE q = << >>
      <4>1. message'.cmd = 1002
        BY <2>0, <2>1, <3>1 DEF MSG
      <4> QED BY <4>1 DEF Consenting
    <3>2. CASE q # << >>
      <4>1. Len(q) \in DOMAIN q
        BY <2>1, <3>2, EmptySeq
      <4> QED BY <2>0, <2>2, <3>2, <4>1
    <3> QED BY <3>1, <3>2
  <2>4. \A s \in Socks : \A m \in reqs'[s] : Consenting(m)
    BY <2>0, <2>2 DEF ConsentKept, TypeOK, ClientType
  <2>5. RequestsConsented'
    BY <2>0 DEF ConsentKept, RequestsConsented, clientVars
  <2> QED BY <2>0, <2>3, <2>4, <2>5, HandlerConsents
<1> QED BY <1>1, <1>2

\* The handlers of requests between users.
LEMMA RequestConsents ==
  ASSUME TypeOK, ConsentKept,
         \/ add_friend \/ deal_friend_request_y \/ deal_friend_request_n
         \/ add_group \/ quit_group \/ deal_group_request_y \/ deal_group_request_n
  PROVE  ConsentKept'
<1>0. /\ message \in MSG /\ message.from \in Name0 /\ message.to \in KeyedLists
      /\ message.grp \in Group0 /\ message.grp \in KeyedLists /\ None \in Group0
      /\ RequestType = {"f", "y", "n", "g", "o", "x", "q"}
      /\ Consenting(message) /\ RequestsConsented
      /\ \A s \in Socks : \A m \in reqs[s] : Consenting(m)
  BY DEF TypeOK, ProcType, MSG, KeyedLists, Group0, RequestType, ConsentKept
<1>1. ASSUME NEW t \in {"y", "n"}, Answer(t), t = "y" => message.cmd = 311
      PROVE  ConsentKept'
  <2>1. UNCHANGED <<clientVars, message, reqs>> /\ consented' = consented
    BY <1>1 DEF Answer, Return, ReturnMany, clientVars
  <2>2. CASE Online(message.from)
    BY <1>1, <2>1, <2>2, SilentConsents DEF Answer
  <2>3. CASE ~Online(message.from)
    <3>1. Queue(message.to, message.from, t, None)
      BY <1>1, <2>3 DEF Answer
    <3>2. t = "y" => {<<message.from, message.to>>, <<message.to, message.from>>} \subseteq consented
      BY <1>0, <1>1 DEF Consenting
    <3>3. t \in RequestType /\ t # "f"
      BY <1>0, <1>1
    <3>4. RequestsConsented'
      BY <1>0, <2>1, <3>1, <3>2, <3>3, QueueConsents
    <3> QED BY <1>0, <2>1, <3>4, HandlerConsents
  <2> QED BY <2>2, <2>3
<1>2. ASSUME NEW t \in {"o", "x"}, GroupAnswer(t)
      PROVE  ConsentKept'
  <2>1. UNCHANGED <<clientVars, message, reqs>> /\ consented' = consented
    BY <1>2 DEF GroupAnswer, Return, ReturnMany, clientVars
  <2>2. CASE Online(message.from)
    BY <1>2, <2>1, <2>2, SilentConsents DEF GroupAnswer
  <2>3. CASE ~Online(message.from)
    <3>1. Queue(message.grp, message.from, t, message.grp)
      BY <1>2, <2>3 DEF GroupAnswer
    <3>2. t \in RequestType /\ t # "f" /\ t # "y"
      BY <1>0, <1>2
    <3>3. RequestsConsented'
      BY <1>0, <2>1, <3>1, <3>2, QueueConsents
    <3> QED BY <1>0, <2>1, <3>3, HandlerConsents
  <2> QED BY <2>2, <2>3
<1>3. CASE add_friend
  <2> DEFINE f == message.to
  <2>1. CASE Reply(149) \/ Reply(141) \/ Reply(140)
    BY <2>1, ReplyConsents
  <2>2. CASE /\ \E S : Return(S)
             /\ Forward(message, f)
             /\ UNCHANGED <<message, head_request>>
    <3>1. UNCHANGED clientVars /\ consented' = consented
      BY <2>2 DEF Return, ReturnMany, clientVars
    <3>2. \A s \in Socks : \A m \in reqs'[s] : Consenting(m)
      BY <1>0, <2>2, ForwardConsents
    <3>3. RequestsConsented'
      BY <1>0, <2>2, <3>1 DEF RequestsConsented
    <3> QED BY <1>0, <2>2, <3>1, <3>2, <3>3, HandlerConsents
  <2>3. CASE (Segfault \/ ExitOnError) /\ UNCHANGED head_request
    BY <2>3, DeathConsents
  <2>4. CASE /\ Queue(f, message.from, "f", None) /\ message.cmd = 14
             /\ \E S : Return(S)
             /\ UNCHANGED <<message, reqs>>
    <3>1. UNCHANGED clientVars /\ consented' = consented
      BY <2>4 DEF Return, ReturnMany, clientVars
    <3>2. <<message.from, f>> \in consented /\ "f" \in RequestType
      BY <1>0, <2>4 DEF Consenting
    <3>3. RequestsConsented'
      BY <1>0, <2>4, <3>1, <3>2, QueueConsents
    <3> QED BY <1>0, <2>4, <3>1, <3>3, HandlerConsents
  <2>5. message.cmd = 14
    BY <1>3 DEF add_friend, Handling
  <2> QED BY <1>3, <2>1, <2>2, <2>3, <2>4, <2>5 DEF add_friend
<1>4. CASE deal_friend_request_y
  <2>1. CASE Answer("y")
    BY <1>1, <1>4, <2>1 DEF deal_friend_request_y, Handling
  <2>2. CASE ~Answer("y")
    BY <1>4, <2>2, DeathConsents DEF deal_friend_request_y
  <2> QED BY <2>1, <2>2
<1>5. CASE deal_friend_request_n
  <2>1. CASE Answer("n")
    BY <1>1, <2>1
  <2>2. CASE ~Answer("n")
    BY <1>5, <2>2, DeathConsents DEF deal_friend_request_n
  <2> QED BY <2>1, <2>2
<1>6. CASE add_group
  <2>1. CASE Reply(230) \/ Reply(231)
    BY <2>1, ReplyConsents
  <2>2. CASE ~(Reply(230) \/ Reply(231))
    <3> DEFINE o == Owner(message.grp)
    <3>1. /\ Exists(message.grp) /\ message.cmd = 23
          /\ message' = [message EXCEPT !.to = o]
          /\ IF Online(o) THEN Forward(message', o) /\ UNCHANGED head_request
                          ELSE Queue(o, message.from, "g", None) /\ UNCHANGED reqs
          /\ UNCHANGED clientVars /\ consented' = consented
      BY <1>6, <2>2 DEF add_group, Return, ReturnMany, clientVars, Handling
    <3>2. o \in KeyedLists
      BY <1>0, <3>1, OwnerType DEF KeyedLists
    <3> HIDE DEF o
    <3>3. message'.cmd = 23
      BY <1>0, <3>1 DEF MSG
    <3>4. Consenting(message')
      BY <3>3 DEF Consenting
    <3>5. CASE Online(o)
      <4>1. Forward(message', o) /\ head_request' = head_request
        BY <3>1, <3>5
      <4>2. \A s \in Socks : \A m \in reqs'[s] : Consenting(m)
        BY <1>0, <3>4, <4>1 DEF Forward
      <4>3. RequestsConsented'
        BY <1>0, <3>1, <4>1 DEF RequestsConsented
      <4> QED BY <3>1, <3>4, <4>2, <4>3, HandlerConsents
    <3>6. CASE ~Online(o)
      <4>1. Queue(o, message.from, "g", None) /\ reqs' = reqs /\ "g" \in RequestType
        BY <1>0, <3>1, <3>6
      <4>2. RequestsConsented'
        BY <1>0, <3>1, <3>2, <4>1, QueueConsents
      <4> QED BY <1>0, <3>1, <3>4, <4>1, <4>2, HandlerConsents
    <3> QED BY <3>5, <3>6
  <2> QED BY <2>1, <2>2
<1>7. CASE quit_group
  <2>1. CASE Reply(240) \/ Reply(241)
    BY <2>1, ReplyConsents
  <2>2. CASE ExitOnError /\ UNCHANGED head_request
    BY <2>2, DeathConsents
  <2>3. CASE ~(Reply(240) \/ Reply(241)) /\ ~(ExitOnError /\ UNCHANGED head_request)
    <3> DEFINE o == Owner(message.grp)
    <3>1. /\ Exists(message.grp)
          /\ \E c \in {24, 242, 243} : message' = [message EXCEPT !.to = o, !.cmd = c]
          /\ head_request' = head_request \/ Queue(o, message.from, "q", message.grp)
          /\ UNCHANGED <<clientVars, reqs>> /\ consented' = consented
      BY <1>7, <2>3 DEF quit_group, Return, ReturnMany, clientVars
    <3>2. o \in KeyedLists
      BY <1>0, <3>1, OwnerType DEF KeyedLists
    <3> HIDE DEF o
    <3>3. message'.cmd \in {24, 242, 243}
      BY <1>0, <3>1 DEF MSG
    <3>4. Consenting(message')
      BY <3>3 DEF Consenting
    <3>5. RequestsConsented'
      <4>1. CASE head_request' = head_request
        BY <1>0, <3>1, <4>1 DEF RequestsConsented
      <4>2. CASE Queue(o, message.from, "q", message.grp)
        <5>1. "q" \in RequestType /\ "q" # "f" /\ "q" # "y"
          BY <1>0
        <5>2. message.from \in Name0 /\ message.grp \in Group0 /\ consented' = consented
          BY <1>0, <3>1
        <5> QED BY <3>2, <4>2, <5>1, <5>2, QueueConsents
      <4> QED BY <3>1, <4>1, <4>2
    <3> QED BY <1>0, <3>1, <3>4, <3>5, HandlerConsents
  <2> QED BY <2>1, <2>2, <2>3
<1>8. CASE deal_group_request_y
  BY <1>2, <1>8 DEF deal_group_request_y
<1>9. CASE deal_group_request_n
  BY <1>2, <1>9 DEF deal_group_request_n
<1> QED BY <1>3, <1>4, <1>5, <1>6, <1>7, <1>8, <1>9

\* The handlers that leave head_request and the clients' requests alone.
LEMMA ReplyingConsents ==
  ASSUME TypeOK, ConsentKept,
         \/ reg \/ forget_password \/ all_friends \/ online_friend \/ private_chat
         \/ delete_friend \/ view_group \/ public_chat \/ view_group_member
         \/ break_group \/ set_manager \/ create_group \/ send_file \/ no_case
  PROVE  ConsentKept'
<1>1. CASE reg
  <2>1. CASE Reply(-1)
    <3>1. -1 \in Int /\ -1 \notin {14, 311}
      OBVIOUS
    <3> QED BY <2>1, <3>1, ReplyConsents
  <2>2. CASE ExitOnError /\ UNCHANGED head_request
    BY <2>2, DeathConsents
  <2>3. CASE /\ message' = [message EXCEPT !.cmd = 1001]
             /\ Return({cur}) /\ UNCHANGED <<reqs, head_request>>
    <3>1. message'.cmd = 1001 /\ UNCHANGED clientVars /\ consented' = consented
      BY <2>3 DEF TypeOK, ProcType, MSG, Return, ReturnMany, clientVars
    <3>2. Consenting(message')
      BY <3>1 DEF Consenting
    <3>3. RequestsConsented' /\ \A s \in Socks : \A m \in reqs'[s] : Consenting(m)
      BY <2>3, <3>1 DEF ConsentKept, RequestsConsented
    <3> QED BY <3>1, <3>2, <3>3, HandlerConsents
  <2> QED BY <1>1, <2>1, <2>2, <2>3 DEF reg
<1>2. CASE forget_password
  BY <1>2, ReplyConsents DEF forget_password
<1>3. CASE all_friends
  <2>1. Reply(111) \/ \E n : Listing(11, n)
    BY <1>3 DEF all_friends
  <2> QED BY <2>1, ReplyConsents, ListingConsents
<1>4. CASE online_friend
  <2>1. Reply(121) \/ (\E n : Listing(122, n)) \/ (\E n : Listing(12, n))
    BY <1>4 DEF online_friend
  <2> QED BY <2>1, ReplyConsents, ListingConsents
<1>5. CASE private_chat
  <2>1. \/ Reply(130) \/ Reply(131)
        \/ (\E S : Return(S)) /\ UNCHANGED <<message, reqs, head_request>>
        \/ ExitOnError /\ UNCHANGED head_request
    BY <1>5 DEF private_chat
  <2>2. CASE Reply(130) \/ Reply(131)
    BY <2>2, ReplyConsents
  <2>3. CASE (\E S : Return(S)) /\ UNCHANGED <<message, reqs, head_request>>
    BY <2>3, ReturnConsents
  <2>4. CASE ExitOnError /\ UNCHANGED head_request
    BY <2>4, DeathConsents
  <2> QED BY <2>1, <2>2, <2>3, <2>4
<1>6. CASE delete_friend
  <2>1. \/ Reply(150)
        \/ (\E S : Return(S)) /\ UNCHANGED <<message, reqs, head_request>>
        \/ ExitOnError /\ UNCHANGED head_request
        \/ Segfault /\ UNCHANGED head_request
    BY <1>6 DEF delete_friend
  <2>2. CASE Reply(150)
    BY <2>2, ReplyConsents
  <2>3. CASE (\E S : Return(S)) /\ UNCHANGED <<message, reqs, head_request>>
    BY <2>3, ReturnConsents
  <2>4. CASE ExitOnError /\ UNCHANGED head_request
    BY <2>4, DeathConsents
  <2>5. CASE Segfault /\ UNCHANGED head_request
    BY <2>5, DeathConsents
  <2> QED BY <2>1, <2>2, <2>3, <2>4, <2>5
<1>7. CASE view_group
  <2>1. Reply(211) \/ \E n : Listing(21, n)
    BY <1>7 DEF view_group
  <2> QED BY <2>1, ReplyConsents, ListingConsents
<1>8. CASE public_chat
  <2>1. \/ Reply(220)
        \/ (\E S : Return(S)) /\ UNCHANGED <<message, reqs, head_request>>
        \/ ExitOnError /\ UNCHANGED head_request
    BY <1>8 DEF public_chat
  <2> QED BY <2>1, ReplyConsents, DeathConsents, ReturnConsents
<1>9. CASE view_group_member
  <2>1. Reply(2510) \/ Reply(2511) \/ \E n : Listing(251, n)
    BY <1>9 DEF view_group_member
  <2> QED BY <2>1, ReplyConsents, ListingConsents
<1>10. CASE break_group
  <2>1. \/ Reply(2520) \/ Reply(2521)
        \/ (\E S : Return(S)) /\ UNCHANGED <<message, reqs, head_request>>
        \/ ExitOnError /\ UNCHANGED head_request
        \/ Segfault /\ UNCHANGED head_request
    BY <1>10 DEF break_group
  <2>2. CASE Reply(2520) \/ Reply(2521)
    BY <2>2, ReplyConsents
  <2>3. CASE (\E S : Return(S)) /\ UNCHANGED <<message, reqs, head_request>>
    BY <2>3, ReturnConsents
  <2>4. CASE ExitOnError /\ UNCHANGED head_request
    BY <2>4, DeathConsents
  <2>5. CASE Segfault /\ UNCHANGED head_request
    BY <2>5, DeathConsents
  <2> QED BY <2>1, <2>2, <2>3, <2>4, <2>5
<1>11. CASE set_manager
  <2>1. \/ Reply(2531)
        \/ (\E S : Return(S)) /\ UNCHANGED <<message, reqs, head_request>>
        \/ ExitOnError /\ UNCHANGED head_request
        \/ Segfault /\ UNCHANGED head_request
    BY SMTT(40), <1>11 DEF set_manager
  <2>2. CASE Reply(2531)
    BY <2>2, ReplyConsents
  <2>3. CASE (\E S : Return(S)) /\ UNCHANGED <<message, reqs, head_request>>
    BY <2>3, ReturnConsents
  <2>4. CASE ExitOnError /\ UNCHANGED head_request
    BY <2>4, DeathConsents
  <2>5. CASE Segfault /\ UNCHANGED head_request
    BY <2>5, DeathConsents
  <2> QED BY <2>1, <2>2, <2>3, <2>4, <2>5
<1>12. CASE create_group
  <2>1. \/ Reply(50)
        \/ (\E S : Return(S)) /\ UNCHANGED <<message, reqs, head_request>>
        \/ ExitOnError /\ UNCHANGED head_request
    BY <1>12 DEF create_group
  <2>2. CASE Reply(50)
    BY <2>2, ReplyConsents
  <2>3. CASE (\E S : Return(S)) /\ UNCHANGED <<message, reqs, head_request>>
    BY <2>3, ReturnConsents
  <2>4. CASE ExitOnError /\ UNCHANGED head_request
    BY <2>4, DeathConsents
  <2> QED BY <2>1, <2>2, <2>3, <2>4
<1>13. CASE send_file \/ no_case
  BY <1>13, DeathConsents, SilentConsents DEF send_file, no_case
<1> QED BY <1>1, <1>2, <1>3, <1>4, <1>5, <1>6, <1>7, <1>8, <1>9, <1>10, <1>11, <1>12, <1>13

\* The users' consent only grows.
LEMMA ConsentGrows == [Next]_vars => consented \subseteq consented'
<1> SUFFICES ASSUME [Next]_vars PROVE consented \subseteq consented'
  OBVIOUS
<1> USE DEF clientVars
<1>1. ASSUME NEW s \in Socks, Loop(s)
      PROVE  consented \subseteq consented'
  BY <1>1 DEF Loop, Accept, Recv, RecvEof, RecvError
<1>2. ASSUME NEW s \in Socks, Client(s)
      PROVE  consented \subseteq consented'
  BY <1>2 DEF Client, ClientAccount, ClientRequest, ClientAnswer, ClientFile, ClientClose
<1>3. CASE chuli_request
  <2> USE DEF Reply, Listing, Return, ReturnMany, Segfault, ExitOnError
  <2>1. CASE reg \/ login \/ forget_password
    BY <2>1 DEF reg, login, forget_password
  <2>2. CASE all_friends \/ online_friend \/ private_chat \/ add_friend \/ delete_friend
    BY <2>2 DEF all_friends, online_friend, private_chat, add_friend, delete_friend
  <2>3. CASE deal_friend_request_y \/ deal_friend_request_n
    BY <2>3 DEF deal_friend_request_y, deal_friend_request_n, Answer
  <2>4. CASE view_group \/ public_chat \/ add_group \/ view_group_member
    BY <2>4 DEF view_group, public_chat, add_group, view_group_member
  <2>5. CASE quit_group \/ break_group \/ set_manager \/ create_group
    BY SMTT(40), <2>5 DEF quit_group, break_group, set_manager, create_group
  <2>6. CASE deal_group_request_y \/ deal_group_request_n
    BY <2>6 DEF deal_group_request_y, deal_group_request_n, GroupAnswer
  <2>7. CASE send_file \/ no_case
    BY <2>7 DEF send_file, no_case
  <2> QED BY <1>3, <2>1, <2>2, <2>3, <2>4, <2>5, <2>6, <2>7 DEF chuli_request
<1>4. CASE send_file_chunk \/ send_file_end
  BY <1>4 DEF send_file_chunk, send_file_end
<1>5. CASE Die \/ Shutdown \/ Restart
  BY <1>5 DEF Die, Shutdown, Restart, Stop
<1>6. CASE UNCHANGED vars
  BY <1>6 DEF vars
<1> QED BY <1>1, <1>2, <1>3, <1>4, <1>5, <1>6 DEF Next

\* A client sends m, and what it tells of its consent is true by then.
LEMMA SendConsents ==
  ASSUME TypeOK, ConsentKept, NEW s \in Socks, NEW m \in MSG, Send(s, m),
         consented \subseteq consented',
         m.cmd = 14 => <<m.from, m.to>> \in consented',
         m.cmd = 311 => {<<m.from, m.to>>, <<m.to, m.from>>} \subseteq consented',
         \A t \in Socks : \A i \in DOMAIN filing'[t] : filing'[t][i].cmd = 6
  PROVE  ConsentKept'
<1> DEFINE C(k) == /\ k.cmd = 14 => <<k.from, k.to>> \in consented'
                   /\ k.cmd = 311 => {<<k.from, k.to>>, <<k.to, k.from>>} \subseteq consented'
<1>0. UNCHANGED <<message, reqs, head_request>>
  BY DEF Send, procVars
<1>1. \A k : Consenting(k) => C(k)
  BY DEF Consenting
<1>2. C(message') /\ \A t \in Socks : \A k \in reqs'[t] : C(k)
  BY <1>0, <1>1 DEF ConsentKept
<1>3. RequestsConsented'
  BY <1>0 DEF ConsentKept, RequestsConsented
<1>4. \A t \in Socks : \A i \in DOMAIN inbox'[t] : C(inbox'[t][i])
  <2> SUFFICES ASSUME NEW t \in Socks, NEW i \in DOMAIN inbox'[t] PROVE C(inbox'[t][i])
    OBVIOUS
  <2>0. inbox[t] \in Seq(MSG) /\ C(m)
    BY DEF TypeOK, ClientType
  <2>1. CASE t = s
    <3>1. inbox'[t] = Append(inbox[t], m)
      BY <2>1 DEF Send, TypeOK, ClientType
    <3>2. inbox'[t] \in Seq(MSG) /\ Len(inbox'[t]) = Len(inbox[t]) + 1
      BY <2>0, <3>1, AppendProperties
    <3>3. /\ i \in 1..(Len(inbox[t]) + 1) /\ Len(inbox[t]) \in Nat
          /\ DOMAIN inbox[t] = 1..Len(inbox[t])
      BY <2>0, <3>2, LenProperties
    <3>4. CASE i \in 1..Len(inbox[t])
      <4>1. inbox'[t][i] = inbox[t][i] /\ i \in DOMAIN inbox[t]
        BY <2>0, <3>1, <3>3, <3>4, AppendProperties
      <4>2. Consenting(inbox[t][i])
        BY <4>1 DEF ConsentKept
      <4> QED BY <1>1, <4>1, <4>2
    <3>5. CASE i = Len(inbox[t]) + 1
      <4>1. inbox'[t][i] = m
        BY <2>0, <3>1, <3>5, AppendProperties
      <4> QED BY <2>0, <4>1
    <3> QED BY <3>3, <3>4, <3>5
  <2>2. CASE t # s
    <3>1. inbox'[t] = inbox[t]
      BY <2>2 DEF Send, TypeOK, ClientType
    <3>2. Consenting(inbox[t][i])
      BY <3>1 DEF ConsentKept
    <3> QED BY <1>1, <3>1, <3>2
  <2> QED BY <2>1, <2>2
<1> QED BY <1>2, <1>3, <1>4 DEF ConsentKept, Consenting

\* A message is taken from a connection.
LEMMA RecvConsents ==
  ASSUME TypeOK, ConsentKept, NEW s \in Socks, RecvMSG(s), consented' = consented,
         UNCHANGED <<filing, reqs, head_request>>
  PROVE  ConsentKept'
<1>0. inbox[s] \in Seq(MSG) /\ inbox[s] # << >>
  BY DEF TypeOK, ClientType, RecvMSG
<1>1. /\ 1 \in DOMAIN inbox[s] /\ message' = inbox[s][1]
      /\ inbox'[s] = Tail(inbox[s]) /\ \A t \in Socks \ {s} : inbox'[t] = inbox[t]
      /\ DOMAIN inbox[s] = 1..Len(inbox[s]) /\ Len(inbox[s]) \in Nat
  BY <1>0, EmptySeq, LenProperties DEF RecvMSG, TypeOK, ClientType
<1>2. Consenting(message')
  BY <1>1 DEF ConsentKept
<1>3. \A t \in Socks : \A i \in DOMAIN inbox'[t] : Consenting(inbox'[t][i])
  <2> SUFFICES ASSUME NEW t \in Socks, NEW i \in DOMAIN inbox'[t] PROVE Consenting(inbox'[t][i])
    OBVIOUS
  <2>1. CASE t = s
    <3>1. /\ Tail(inbox[s]) \in Seq(MSG) /\ Len(Tail(inbox[s])) = Len(inbox[s]) - 1
          /\ \A j \in 1..Len(Tail(inbox[s])) : Tail(inbox[s])[j] = inbox[s][j + 1]
      BY <1>0, HeadTailProperties
    <3>2. i \in 1..(Len(inbox[s]) - 1)
      BY <1>1, <2>1, <3>1, LenProperties
    <3>3. inbox'[t][i] = inbox[s][i + 1] /\ i + 1 \in DOMAIN inbox[s]
      <4>1. i \in Int /\ 1 <= i /\ i <= Len(inbox[s]) - 1
        BY <1>1, <3>2
      <4>2. i \in 1..Len(Tail(inbox[s])) /\ i + 1 \in 1..Len(inbox[s])
        BY <1>1, <3>1, <4>1
      <4> QED BY <1>1, <2>1, <3>1, <4>2
    <3> QED BY <3>3 DEF ConsentKept
  <2>2. CASE t # s
    BY <1>1, <2>2 DEF ConsentKept
  <2> QED BY <2>1, <2>2
<1> QED BY <1>2, <1>3 DEF ConsentKept, Consenting, RequestsConsented

\* What main's loop does with an event keeps ConsentKept, a replayed slot included.
LEMMA LoopConsents ==
  ASSUME TypeOK, ConsentKept, NEW s \in Socks, Loop(s)
  PROVE  ConsentKept'
<1>1. CASE Accept(s)
  BY <1>1 DEF Accept, procVars, ConsentKept, Consenting, RequestsConsented
<1>2. CASE Recv(s)
  BY <1>2, RecvConsents DEF Recv
<1>3. CASE RecvEof(s)
  <2>1. /\ UNCHANGED <<message, inbox, consented, head_request>>
        /\ \A t \in Socks : reqs'[t] \subseteq reqs[t]
        /\ \A t \in Socks : filing'[t] = filing[t] \/ filing'[t] = << >>
    BY <1>3 DEF RecvEof, TypeOK, ClientType
  <2>2. \A t \in Socks : \A i \in DOMAIN filing'[t] : filing'[t][i].cmd = 6
    <3>1. DOMAIN << >> = {}
      OBVIOUS
    <3> QED BY <2>1, <3>1 DEF ConsentKept
  <2> QED BY <2>1, <2>2 DEF ConsentKept, Consenting, RequestsConsented
<1>4. CASE RecvError(s)
  BY <1>4, SilentConsents DEF RecvError
<1> QED BY <1>1, <1>2, <1>3, <1>4 DEF Loop

\* What a client sends is consented to in the step that sends it.
LEMMA ClientConsents ==
  ASSUME TypeOK, ConsentKept, NEW s \in Socks, Client(s)
  PROVE  ConsentKept'
<1>0. /\ \A t \in Socks : \A i \in DOMAIN filing[t] : filing[t][i].cmd = 6
      /\ who[s] \in Name0 /\ reqs[s] \in SUBSET MSG
      /\ Names \subseteq Name0 /\ None \in Name0 /\ None \in Group0
      /\ Passwords \subseteq Password0 /\ None \in Password0
      /\ filing \in [Socks -> Seq(MSG)]
  BY DEF ConsentKept, TypeOK, ClientType, Name0, Group0, Password0
<1>1. CASE ClientAccount(s)
  <2>1. PICK c \in {0, 1, 2} \cap Menu, n \in Names, p \in Passwords :
          Send(s, [Msg(c, n, None, None) EXCEPT !.pw = IF c = 0 THEN None ELSE p])
    BY <1>1 DEF ClientAccount
  <2> DEFINE q == IF c = 0 THEN None ELSE p
             m == [Msg(c, n, None, None) EXCEPT !.pw = q]
  <2>2. q \in Password0 /\ c \in Int /\ n \in Name0
    BY <1>0, <2>1
  <2>3. m \in MSG /\ m.cmd = c
    <3> HIDE DEF q
    <3>1. Msg(c, n, None, None) \in MSG /\ Msg(c, n, None, None).cmd = c
      BY <1>0, <2>2, MadeType DEF Msg
    <3> QED BY <2>2, <3>1 DEF MSG
  <2> HIDE DEF m
  <2>4. Send(s, m) /\ m.cmd # 14 /\ m.cmd # 311
    BY <2>1, <2>3 DEF m
  <2>5. filing' = filing /\ consented' = consented
    BY <1>1 DEF ClientAccount
  <2> QED BY ZenonT(40), <1>0, <2>3, <2>4, <2>5, SendConsents
<1>2. CASE ClientRequest(s)
  <2>1. PICK m \in Requests(who[s]) :
          /\ Send(s, m)
          /\ consented' = consented \cup (IF m.cmd = 14 THEN {<<m.from, m.to>>} ELSE {})
    BY <1>2 DEF ClientRequest
  <2>2. m \in MSG /\ filing' = filing
    BY <1>0, <1>2, RequestsType DEF ClientRequest
  <2>3. m.cmd # 311
    BY <2>1 DEF Requests, FriendMenu, GroupMenu, ManageMenu, CreateMenu, Msg
  <2> QED BY ZenonT(40), <1>0, <2>1, <2>2, <2>3, SendConsents
<1>3. CASE ClientAnswer(s)
  <2>1. PICK m \in reqs[s] :
          \/ /\ m.cmd = 14
             /\ \/ /\ Send(s, [m EXCEPT !.cmd = 311])
                   /\ consented' = consented \cup {<<m.to, m.from>>}
                \/ Send(s, [m EXCEPT !.cmd = 312]) /\ UNCHANGED consented
          \/ /\ m.cmd = 23
             /\ \E c \in {321, 322} : Send(s, [m EXCEPT !.cmd = c])
             /\ UNCHANGED consented
    BY <1>3 DEF ClientAnswer
  <2>2. m \in MSG /\ Consenting(m) /\ filing' = filing
    BY <1>0, <1>3, <2>1 DEF ConsentKept, ClientAnswer
  <2>3. PICK c \in {311, 312, 321, 322} :
          /\ Send(s, [m EXCEPT !.cmd = c])
          /\ c = 311 => m.cmd = 14 /\ consented' = consented \cup {<<m.to, m.from>>}
          /\ c # 311 => consented' = consented
    BY <2>1
  <2> DEFINE k == [m EXCEPT !.cmd = c]
  <2>4. k \in MSG /\ k.cmd = c /\ k.from = m.from /\ k.to = m.to
    BY <2>2 DEF MSG
  <2>5. Send(s, k)
    BY <2>3
  <2> HIDE DEF k
  <2>6. /\ consented \subseteq consented' /\ k.cmd # 14
        /\ k.cmd = 311 => {<<k.from, k.to>>, <<k.to, k.from>>} \subseteq consented'
    BY <2>2, <2>3, <2>4 DEF Consenting
  <2> QED BY <1>0, <2>2, <2>4, <2>5, <2>6, SendConsents
<1>4. CASE ClientFile(s)
  <2>0. consented' = consented
    BY <1>4 DEF ClientFile
  <2>1. ASSUME NEW n \in Names, Send(s, Msg(6, who[s], n, None)),
               filing' = [filing EXCEPT ![s] = <<Msg(6, who[s], n, None)>>]
        PROVE  ConsentKept'
    <3> DEFINE m == Msg(6, who[s], n, None)
    <3>1. m \in MSG /\ m.cmd = 6
      <4>1. 6 \in Int /\ n \in Name0
        BY <1>0
      <4> QED BY <1>0, <4>1, MadeType DEF Msg
    <3>2. Send(s, m) /\ filing' = [filing EXCEPT ![s] = <<m>>]
      BY <2>1
    <3> HIDE DEF m
    <3>3. \A t \in Socks : \A i \in DOMAIN filing'[t] : filing'[t][i].cmd = 6
      BY <1>0, <3>1, <3>2
    <3>4. m.cmd # 14 /\ m.cmd # 311 /\ consented \subseteq consented'
      BY <2>0, <3>1
    <3> QED BY <3>1, <3>2, <3>3, <3>4, SendConsents
  <2>2. ASSUME filing[s] # << >>, NEW full \in BOOLEAN,
               Send(s, [filing[s][1] EXCEPT !.full = full]),
               filing' = [filing EXCEPT ![s] = IF full THEN <<Msg(6, None, None, None)>>
                                                       ELSE << >>]
        PROVE  ConsentKept'
    <3> DEFINE m == filing[s][1]
               k == [m EXCEPT !.full = full]
               z == Msg(6, None, None, None)
    <3>1. m \in MSG /\ m.cmd = 6
      <4>1. filing[s] \in Seq(MSG)
        BY <1>0
      <4>2. 1 \in 1..Len(filing[s]) /\ DOMAIN filing[s] = 1..Len(filing[s])
        BY <2>2, <4>1, EmptySeq, LenProperties
      <4> QED BY <1>0, <4>1, <4>2, ElementOfSeq
    <3>2. k \in MSG /\ k.cmd = 6
      <4> HIDE DEF m
      <4> QED BY <3>1 DEF MSG
    <3>3. z.cmd = 6
      BY DEF Msg
    <3>4. Send(s, k) /\ filing' = [filing EXCEPT ![s] = IF full THEN <<z>> ELSE << >>]
      BY <2>2
    <3> HIDE DEF k, z
    <3>5. \A t \in Socks : \A i \in DOMAIN filing'[t] : filing'[t][i].cmd = 6
      <4>1. DOMAIN << >> = {} /\ DOMAIN <<z>> = {1} /\ <<z>>[1] = z
        OBVIOUS
      <4>2. CASE full
        BY <1>0, <3>3, <3>4, <4>1, <4>2
      <4>3. CASE ~full
        BY <1>0, <3>4, <4>1, <4>3
      <4> QED BY <4>2, <4>3
    <3>6. k.cmd # 14 /\ k.cmd # 311 /\ consented \subseteq consented'
      BY <2>0, <3>2
    <3> QED BY <3>2, <3>4, <3>5, <3>6, SendConsents
  <2>3. CASE /\ filing' = [filing EXCEPT ![s] = << >>]
             /\ UNCHANGED <<inbox, left, procVars, netVars, reqs, head, head_request, dataVars>>
    <3>1. \A t \in Socks : \A i \in DOMAIN filing'[t] : filing'[t][i].cmd = 6
      <4>1. DOMAIN << >> = {}
        OBVIOUS
      <4> QED BY <1>0, <2>3, <4>1
    <3> QED BY <2>0, <2>3, <3>1 DEF ConsentKept, Consenting, RequestsConsented, procVars
  <2> QED BY <1>4, <2>1, <2>2, <2>3 DEF ClientFile
<1>5. CASE ClientClose(s)
  BY <1>5, SilentConsents DEF ClientClose, procVars
<1> QED BY <1>1, <1>2, <1>3, <1>4, <1>5 DEF Client

\* The end of the process drops messages, a restart brings only a slot that is no request.
LEMMA ProcessConsents ==
  ASSUME ConsentKept, Die \/ Shutdown \/ Restart
  PROVE  ConsentKept'
<1>0. DOMAIN << >> = {}
  OBVIOUS
<1>1. CASE Die \/ Shutdown
  <2>1. /\ UNCHANGED <<message, consented>>
        /\ inbox' = [s \in Socks |-> << >>] /\ filing' = [s \in Socks |-> << >>]
        /\ reqs' = [s \in Socks |-> {}] /\ head_request' = [k \in KeyedLists |-> << >>]
    BY <1>1 DEF Die, Shutdown, Stop, Disconnected
  <2> QED BY <1>0, <2>1 DEF ConsentKept, Consenting, RequestsConsented
<1>2. CASE Restart
  <2>1. message'.cmd \in {0, -1}
    BY <1>2 DEF Restart, UninitialisedMSG, ZeroMSG, Msg
  <2>2. Consenting(message')
    BY <2>1 DEF Consenting
  <2> QED BY <1>2, <2>2, HandlerConsents DEF Restart, ConsentKept, RequestsConsented, clientVars
<1> QED BY <1>1, <1>2

\* ConsentKept is inductive relative to TypeOK.
LEMMA StepConsents == TypeOK /\ ConsentKept /\ [Next]_vars => ConsentKept'
<1> SUFFICES ASSUME TypeOK, ConsentKept, [Next]_vars PROVE ConsentKept'
  OBVIOUS
<1>1. CASE \E s \in Socks : Loop(s) \/ Client(s)
  BY <1>1, LoopConsents, ClientConsents
<1>2. CASE chuli_request
  BY <1>2, LoginConsents, RequestConsents, ReplyingConsents DEF chuli_request
<1>3. CASE send_file_chunk
  BY <1>3, RecvConsents DEF send_file_chunk, TypeOK, ProcType
<1>4. CASE send_file_end
  BY <1>4, SilentConsents DEF send_file_end
<1>5. CASE Die \/ Shutdown \/ Restart
  BY <1>5, ProcessConsents
<1>6. CASE UNCHANGED vars
  BY <1>6, SilentConsents DEF vars, procVars
<1> QED BY <1>1, <1>2, <1>3, <1>4, <1>5, <1>6 DEF Next

\* The four handlers put into the table only what the message in the slot, and
\* so its users, consented to.
LEMMA RowsConsented ==
  ASSUME TypeOK, FriendListMirrorsTable, ConsentKept, RowsHaveConsent, [Next]_vars,
         add_friend \/ delete_friend \/ deal_friend_request_y \/ deal_friend_request_n
  PROVE  RowsHaveConsent'
<1> DEFINE u == message.from
           f == message.to
           Table == [Name0 -> [Name0 -> Seq({0, 1})]]
           Good(x, y, rows) == \A i \in DOMAIN rows :
                                 /\ <<x, y>> \in consented
                                 /\ rows[i] = 1 => <<y, x>> \in consented
           Known(t) == \A x, y \in Name0 : Good(x, y, t[x][y])
<1>0. /\ u \in Name0 /\ f \in Name0 /\ friend \in Table /\ head_friends = friend
      /\ Consenting(message) /\ Known(friend)
  BY DEF TypeOK, ProcType, MSG, TableType, FriendListMirrorsTable, Running, ConsentKept,
         RowsHaveConsent, Handling, add_friend, delete_friend, deal_friend_request_y,
         deal_friend_request_n
<1>1. ASSUME Known(friend') PROVE RowsHaveConsent'
  BY <1>1, ConsentGrows DEF RowsHaveConsent
<1>2. ASSUME NEW t \in Table, Known(t), NEW x \in Name0, NEW y \in Name0,
             NEW rows \in Seq({0, 1}), Good(x, y, rows)
      PROVE  Row(t, x, y, rows) \in Table /\ Known(Row(t, x, y, rows))
  BY <1>2 DEF Row
<1> HIDE DEF Good, Known
<1>3. ASSUME NEW t \in Table, Known(t), NEW x \in Name0, NEW y \in Name0
      PROVE  /\ DeleteRows(t[x][y]) \in Seq({0, 1}) /\ Good(x, y, DeleteRows(t[x][y]))
             /\ UpdateRows(t[x][y], 0) \in Seq({0, 1}) /\ Good(x, y, UpdateRows(t[x][y], 0))
             /\ <<y, x>> \in consented =>
                  UpdateRows(t[x][y], 1) \in Seq({0, 1}) /\ Good(x, y, UpdateRows(t[x][y], 1))
  <2>1. t[x][y] \in Seq({0, 1}) /\ Good(x, y, t[x][y]) /\ 0 \in {0, 1} /\ 1 \in {0, 1}
    BY <1>3 DEF Known
  <2>2. /\ DeleteRows(t[x][y]) \in Seq({0, 1})
        /\ UpdateRows(t[x][y], 0) \in Seq({0, 1}) /\ UpdateRows(t[x][y], 1) \in Seq({0, 1})
    BY <2>1, RowHelpers
  <2>3. Good(x, y, DeleteRows(t[x][y]))
    <3>1. DOMAIN << >> = {}
      OBVIOUS
    <3> QED BY <3>1 DEF DeleteRows, Good
  <2>4. /\ DOMAIN UpdateRows(t[x][y], 0) = DOMAIN t[x][y]
        /\ DOMAIN UpdateRows(t[x][y], 1) = DOMAIN t[x][y]
        /\ \A i \in DOMAIN t[x][y] : UpdateRows(t[x][y], 0)[i] # 1
    BY DEF UpdateRows
  <2>5. Good(x, y, UpdateRows(t[x][y], 0))
    BY <2>1, <2>4 DEF Good
  <2>6. <<y, x>> \in consented => Good(x, y, UpdateRows(t[x][y], 1))
    BY <2>1, <2>4 DEF Good
  <2> QED BY <2>2, <2>3, <2>5, <2>6
<1>4. CASE UNCHANGED friendVars
  BY <1>0, <1>1, <1>4 DEF friendVars
<1>5. CASE DeleteFriend(u, f)
  <2>1. DeleteRows(friend[u][f]) \in Seq({0, 1}) /\ Good(u, f, DeleteRows(friend[u][f]))
    BY <1>0, <1>3
  <2>2. Known(Row(friend, u, f, DeleteRows(friend[u][f])))
    BY <1>0, <1>2, <2>1
  <2> QED BY <1>1, <1>5, <2>2 DEF DeleteFriend
<1>6. CASE add_friend
  <2>1. CASE ~IsFriend(u, f) /\ InsertFriend(u, f, 0)
    <3>1. friend[u][f] = << >> /\ <<u, f>> \in consented
      BY <1>0, <1>6, <2>1 DEF IsFriend, Consenting, add_friend, Handling
    <3>2. friend' = Row(friend, u, f, <<0>>)
      BY <2>1, <3>1 DEF InsertFriend
    <3>3. <<0>> \in Seq({0, 1}) /\ Good(u, f, <<0>>)
      BY <3>1 DEF Good
    <3>4. Known(Row(friend, u, f, <<0>>))
      BY <1>0, <1>2, <3>3
    <3> QED BY <1>1, <3>2, <3>4
  <2> QED BY <1>4, <1>6, <2>1 DEF add_friend, Reply, Listing, dataVars
<1>7. CASE delete_friend
  <2>1. CASE friend' = [Row(friend, u, f, DeleteRows(friend[u][f]))
                          EXCEPT ![f][u] = UpdateRows(@, 0)]
    <3> DEFINE t == Row(friend, u, f, DeleteRows(friend[u][f]))
    <3>1. DeleteRows(friend[u][f]) \in Seq({0, 1}) /\ Good(u, f, DeleteRows(friend[u][f]))
      BY <1>0, <1>3
    <3>2. t \in Table /\ Known(t)
      BY <1>0, <1>2, <3>1
    <3>3. friend' = [t EXCEPT ![f][u] = UpdateRows(@, 0)]
      BY <2>1
    <3> HIDE DEF t
    <3>4. UpdateRows(t[f][u], 0) \in Seq({0, 1}) /\ Good(f, u, UpdateRows(t[f][u], 0))
      BY <1>0, <1>3, <3>2
    <3>5. Known(Row(t, f, u, UpdateRows(t[f][u], 0)))
      BY <1>0, <1>2, <3>2, <3>4
    <3>6. friend' = Row(t, f, u, UpdateRows(t[f][u], 0))
      BY <3>3 DEF Row
    <3> QED BY <1>1, <3>5, <3>6
  <2> QED BY <1>4, <1>5, <1>7, <2>1 DEF delete_friend, Reply, Listing, dataVars
<1>8. CASE deal_friend_request_y
  <2> DEFINE t == Accepting(friend, f, u, UpdateRows)
  <2>1. <<u, f>> \in consented /\ <<f, u>> \in consented
    BY <1>0, <1>8 DEF Consenting, deal_friend_request_y, Handling
  <2>2. t \in Table /\ Known(t)
    <3>1. CASE friend[f][u] = << >>
      <4>1. /\ Append(friend[f][u], 1) = <<1>> /\ <<1>> \in Seq({0, 1})
            /\ Good(f, u, <<1>>)
        BY <2>1, <3>1 DEF Good
      <4>2. t = Row(friend, f, u, <<1>>)
        BY <1>0, <3>1, <4>1 DEF Accepting
      <4>3. Row(friend, f, u, <<1>>) \in Table /\ Known(Row(friend, f, u, <<1>>))
        BY <1>0, <1>2, <4>1
      <4> HIDE DEF t
      <4> QED BY <4>2, <4>3
    <3>2. CASE friend[f][u] # << >>
      <4>1. t = Row(friend, f, u, UpdateRows(friend[f][u], 1))
        BY <1>0, <3>2 DEF Accepting
      <4>2. UpdateRows(friend[f][u], 1) \in Seq({0, 1}) /\ Good(f, u, UpdateRows(friend[f][u], 1))
        BY <1>0, <1>3, <2>1
      <4>3. /\ Row(friend, f, u, UpdateRows(friend[f][u], 1)) \in Table
            /\ Known(Row(friend, f, u, UpdateRows(friend[f][u], 1)))
        BY <1>0, <1>2, <4>2
      <4> HIDE DEF t
      <4> QED BY <4>1, <4>3
    <3> QED BY <3>1, <3>2
  <2>3. CASE friend' = Accepting(friend, f, u, UpdateRows)
    BY <1>1, <2>2, <2>3
  <2>4. CASE friend' = [Accepting(friend, f, u, UpdateRows) EXCEPT ![u][f] = UpdateRows(@, 1)]
    <3>1. friend' = [t EXCEPT ![u][f] = UpdateRows(@, 1)]
      BY <2>4
    <3> HIDE DEF t
    <3>2. UpdateRows(t[u][f], 1) \in Seq({0, 1}) /\ Good(u, f, UpdateRows(t[u][f], 1))
      BY <1>0, <1>3, <2>1, <2>2
    <3>3. Known(Row(t, u, f, UpdateRows(t[u][f], 1)))
      BY <1>0, <1>2, <2>2, <3>2
    <3>4. friend' = Row(t, u, f, UpdateRows(t[u][f], 1))
      BY <3>1 DEF Row
    <3> QED BY <1>1, <3>3, <3>4
  <2> QED BY <1>4, <1>8, <2>3, <2>4 DEF deal_friend_request_y
<1>9. CASE deal_friend_request_n
  BY <1>4, <1>5, <1>9 DEF deal_friend_request_n
<1> QED BY <1>6, <1>7, <1>8, <1>9

\* The inductive invariant of the friend relation.
FriendInv == TypeOK /\ FriendListMirrorsTable /\ ConsentKept /\ RowsHaveConsent

\* The inductive invariant of the friend relation, established by Init and kept by every step.
LEMMA FriendInductive == Spec => []FriendInv
<1>1. Init => FriendInv
  <2> SUFFICES ASSUME Init PROVE FriendListMirrorsTable /\ ConsentKept /\ RowsHaveConsent
    BY InitType DEF FriendInv
  <2>0. DOMAIN << >> = {}
    OBVIOUS
  <2>1. FriendListMirrorsTable /\ RowsHaveConsent
    BY <2>0 DEF Init, FriendListMirrorsTable, RowsHaveConsent
  <2>2. message.cmd \in {0, -1}
    BY DEF Init, UninitialisedMSG, ZeroMSG, Msg
  <2>3. Consenting(message)
    BY <2>2 DEF Consenting
  <2>4. ConsentKept
    BY <2>0, <2>3 DEF Init, ConsentKept, RequestsConsented
  <2> QED BY <2>1, <2>4
<1>2. FriendInv /\ [Next]_vars => FriendInv'
  <2> SUFFICES ASSUME FriendInv, [Next]_vars PROVE RowsHaveConsent'
    BY StepType, StepMirrored, StepConsents DEF FriendInv
  <2>1. CASE add_friend \/ delete_friend \/ deal_friend_request_y \/ deal_friend_request_n
    BY <2>1, RowsConsented DEF FriendInv
  <2>2. CASE ~(add_friend \/ delete_friend \/ deal_friend_request_y \/ deal_friend_request_n)
    <3>1. friend' = friend
      BY <2>2, FriendsUntouched DEF friendVars, Restart
    <3> QED BY <3>1, ConsentGrows DEF FriendInv, RowsHaveConsent
  <2> QED BY <2>1, <2>2
<1> QED BY <1>1, <1>2, PTL DEF Spec

\* Nobody becomes anybody's friend without both having asked or accepted: no
\* request kept for later, repeated answer, replayed message, refused query or
\* restart puts a row into the friend table that its users did not consent to.
THEOREM ConsentSafe == Spec => []RowsHaveConsent
BY FriendInductive, PTL DEF FriendInv

\* Every message that could become a row carries consent, wherever it waits.
THEOREM MessagesConsented == Spec => []ConsentKept
BY FriendInductive, PTL DEF FriendInv

\* private_chat passes a message on only between users who consented to each
\* other, although it never looks at the status of their rows.
THEOREM ChatConsented == Spec => ChatOnlyBetweenConsenting
<1> DEFINE Chat == Handling(13) /\ pc' = "wait" /\ message'.cmd = 13 =>
                     {<<message.from, message.to>>, <<message.to, message.from>>} \subseteq consented
<1>1. FriendInv /\ [Next]_vars => [Chat]_vars
  <2> SUFFICES ASSUME FriendInv, [Next]_vars, Handling(13), pc' = "wait", message'.cmd = 13
               PROVE  {<<message.from, message.to>>, <<message.to, message.from>>} \subseteq consented
    OBVIOUS
  <2>0. pc = "dispatch" /\ message.cmd = 13
    BY DEF Handling
  <2>1. private_chat
    <3>1. ASSUME NEW s \in Socks, Loop(s) \/ Client(s) PROVE FALSE
      <4>1. CASE Loop(s)
        BY <2>0, <4>1 DEF Loop, Accept, Recv, RecvEof, RecvError
      <4>2. CASE Client(s)
        BY <2>0, <4>2 DEF Client, ClientAccount, ClientRequest, ClientAnswer, ClientFile,
                          ClientClose, Send, procVars
      <4> QED BY <3>1, <4>1, <4>2
    <3>2. ~(send_file_chunk \/ send_file_end \/ Die \/ Shutdown \/ Restart) /\ ~UNCHANGED vars
      BY <2>0 DEF send_file_chunk, send_file_end, Die, Shutdown, Restart, vars, procVars
    <3>3. chuli_request
      BY <3>1, <3>2 DEF Next
    <3> QED BY <2>0, <3>3
      DEF chuli_request, Handling, reg, login, forget_password, all_friends, online_friend,
          add_friend, delete_friend, deal_friend_request_y, deal_friend_request_n,
          view_group, public_chat, add_group, quit_group, view_group_member, break_group,
          set_manager, deal_group_request_y, deal_group_request_n, create_group, send_file,
          no_case, Commands
  <2>2. message \in MSG /\ message.from \in Name0 /\ message.to \in Name0
    BY DEF FriendInv, TypeOK, ProcType, MSG
  <2>3. ~Reply(130) /\ ~Reply(131)
    BY <2>2 DEF Reply, Listing, MSG
  <2>4. IsFriend(message.from, message.to) /\ IsFriend(message.to, message.from)
    BY <2>1, <2>3 DEF private_chat, ReceiverKnowsSender
  <2>5. ASSUME NEW x \in Name0, NEW y \in Name0, IsFriend(x, y)
        PROVE  <<x, y>> \in consented
    <3>1. friend[x][y] # << >> /\ friend[x][y] \in Seq({0, 1})
      BY <2>0, <2>5 DEF IsFriend, FriendInv, FriendListMirrorsTable, Running, TypeOK, TableType
    <3>2. 1 \in DOMAIN friend[x][y]
      BY <3>1, EmptySeq, LenProperties
    <3> QED BY <3>2 DEF FriendInv, RowsHaveConsent
  <2> QED BY <2>2, <2>4, <2>5
<1> QED BY <1>1, FriendInductive, PTL DEF Spec, ChatOnlyBetweenConsenting

-----------------------------------------------------------------------------
(* Accounts                                                                *)

\* Nothing but reg and Restart touches the accounts, and only Restart brings a
\* server back.
LEMMA UsersUntouched ==
  ASSUME [Next]_vars, ~Restart, ~reg
  PROVE  UNCHANGED userVars /\ (Running' => Running)
<1> USE DEF dataVars, userVars, Running
<1>1. ASSUME NEW s \in Socks, Loop(s) \/ Client(s)
      PROVE  UNCHANGED userVars /\ (Running' => Running)
  BY <1>1 DEF Loop, Accept, Recv, RecvEof, RecvError, procVars, Client, ClientAccount,
              ClientRequest, ClientAnswer, ClientFile, ClientClose, Send
<1>2. CASE chuli_request
  <2>0. pc = "dispatch"
    BY ZenonT(40), <1>2 DEF chuli_request, Handling, login, forget_password, all_friends, online_friend,
                private_chat, add_friend, delete_friend, deal_friend_request_y,
                deal_friend_request_n, view_group, public_chat, add_group, quit_group,
                view_group_member, break_group, set_manager, deal_group_request_y,
                deal_group_request_n, create_group, send_file, no_case
  <2>1. UNCHANGED userVars
    <3> USE DEF Reply, Listing
    <3>1. CASE login \/ forget_password \/ all_friends \/ online_friend \/ private_chat
      BY <3>1 DEF login, forget_password, all_friends, online_friend, private_chat
    <3>2. CASE add_friend \/ delete_friend \/ deal_friend_request_y \/ deal_friend_request_n
      BY <3>2 DEF add_friend, delete_friend, deal_friend_request_y, deal_friend_request_n
    <3>3. CASE view_group \/ public_chat \/ add_group \/ view_group_member
      BY <3>3 DEF view_group, public_chat, add_group, view_group_member
    <3>4. CASE quit_group \/ break_group
      BY <3>4 DEF quit_group, break_group
    <3>5. CASE set_manager \/ create_group \/ deal_group_request_y \/ deal_group_request_n
      BY <3>5 DEF set_manager, create_group, deal_group_request_y, deal_group_request_n
    <3>6. CASE send_file \/ no_case
      BY <3>6 DEF send_file, no_case
    <3> QED BY <1>2, <3>1, <3>2, <3>3, <3>4, <3>5, <3>6 DEF chuli_request
  <2> QED BY <2>0, <2>1
<1>3. CASE send_file_chunk \/ send_file_end
  BY <1>3 DEF send_file_chunk, send_file_end
<1>4. CASE Die \/ Shutdown
  BY <1>4 DEF Die, Shutdown, Stop
<1>5. CASE UNCHANGED vars
  BY <1>5 DEF vars, procVars
<1> QED BY <1>1, <1>2, <1>3, <1>4, <1>5 DEF Next

\* reg inserts a row only under a name without one.
LEMMA RegMirrored ==
  ASSUME TypeOK, OneAccountPerName, reg
  PROVE  OneAccountPerName'
<1> DEFINE n == message.from
           p == message.pw
<1>0. /\ n \in Name0 /\ p \in Password0 /\ pc = "dispatch"
      /\ user \in [Name0 -> Seq(Password0)] /\ head_user = user
  BY DEF TypeOK, ProcType, MSG, TableType, OneAccountPerName, Running, Handling, reg
<1>1. CASE UNCHANGED userVars
  BY <1>0, <1>1 DEF OneAccountPerName, userVars
<1>2. CASE ~NameTaken(n) /\ user' = [user EXCEPT ![n] = Append(@, p)]
           /\ head_user' = [head_user EXCEPT ![n] = weicha_list(@, p)]
  <2>0. user[n] = << >>
    BY <1>0, <1>2 DEF NameTaken
  <2>1. Append(user[n], p) = <<p>> /\ Len(<<p>>) = 1
    BY <2>0
  <2>2. head_user' = user' /\ user' = [user EXCEPT ![n] = <<p>>]
    BY <1>0, <1>2, <2>1 DEF weicha_list
  <2> QED BY <1>0, <2>1, <2>2 DEF OneAccountPerName
<1>3. CASE ExitOnError /\ user' = user
  BY <1>3 DEF ExitOnError, OneAccountPerName, Running
<1> QED BY <1>1, <1>2, <1>3 DEF reg, Reply, Listing, dataVars

\* Every step keeps accounts unique and the list equal to the table.
LEMMA StepAccounts == TypeOK /\ OneAccountPerName /\ [Next]_vars => OneAccountPerName'
<1>1. ASSUME OneAccountPerName, Restart PROVE OneAccountPerName'
  BY <1>1 DEF Restart, ReadTables, OneAccountPerName
<1>2. ASSUME OneAccountPerName, [Next]_vars, ~Restart, ~reg PROVE OneAccountPerName'
  BY <1>2, UsersUntouched DEF OneAccountPerName, userVars
<1> QED BY <1>1, <1>2, RegMirrored

\* No name ever has two accounts, whichever clients register it at the same
\* time and however often reg is replayed, and a refused insert leaves no
\* account behind that only memory knows: login reads what the table holds.
THEOREM AccountsUnique == Spec => []OneAccountPerName
<1>1. Init => OneAccountPerName
  <2> SUFFICES ASSUME Init PROVE OneAccountPerName
    OBVIOUS
  <2>1. PICK p \in Passwords :
          user = [n \in Name0 |-> IF n \in Registered THEN <<p>> ELSE << >>]
    BY DEF Init
  <2>2. \A n \in Name0 : Len(user[n]) <= 1
    BY <2>1
  <2> QED BY <2>2 DEF Init, OneAccountPerName
<1> QED BY <1>1, StepAccounts, TypeCorrect, PTL DEF Spec

-----------------------------------------------------------------------------
(* Members                                                                 *)

\* The steps other than five handlers and Restart leave groups and relations alone.
LEMMA RelationsUntouched ==
  ASSUME [Next]_vars, ~Restart, ~quit_group, ~break_group, ~set_manager,
         ~deal_group_request_y, ~create_group
  PROVE  UNCHANGED <<groupVars, relVars>> /\ (Running' => Running)
<1> USE DEF dataVars, groupVars, relVars, Running
<1>1. ASSUME NEW s \in Socks, Loop(s) \/ Client(s)
      PROVE  UNCHANGED <<groupVars, relVars>> /\ (Running' => Running)
  BY <1>1 DEF Loop, Accept, Recv, RecvEof, RecvError, procVars, Client, ClientAccount,
              ClientRequest, ClientAnswer, ClientFile, ClientClose, Send
<1>2. CASE chuli_request
  <2>0. pc = "dispatch"
    BY <1>2 DEF chuli_request, Handling, reg, login, forget_password, all_friends, online_friend,
                private_chat, add_friend, delete_friend, deal_friend_request_y,
                deal_friend_request_n, view_group, public_chat, add_group,
                view_group_member, deal_group_request_n, send_file, no_case
  <2>1. UNCHANGED <<groupVars, relVars>>
    <3> USE DEF Reply, Listing
    <3>1. CASE reg \/ login \/ forget_password \/ all_friends \/ online_friend \/ private_chat
      BY <3>1 DEF reg, login, forget_password, all_friends, online_friend, private_chat
    <3>2. CASE add_friend \/ delete_friend \/ deal_friend_request_y \/ deal_friend_request_n
      BY <3>2 DEF add_friend, delete_friend, deal_friend_request_y, deal_friend_request_n
    <3>3. CASE view_group \/ public_chat \/ add_group \/ view_group_member
      BY <3>3 DEF view_group, public_chat, add_group, view_group_member
    <3>4. CASE deal_group_request_n \/ send_file \/ no_case
      BY <3>4 DEF deal_group_request_n, send_file, no_case
    <3> QED BY <1>2, <3>1, <3>2, <3>3, <3>4 DEF chuli_request
  <2> QED BY <2>0, <2>1
<1>3. CASE send_file_chunk \/ send_file_end
  BY <1>3 DEF send_file_chunk, send_file_end
<1>4. CASE Die \/ Shutdown
  BY <1>4 DEF Die, Shutdown, Stop
<1>5. CASE UNCHANGED vars
  BY <1>5 DEF vars, procVars
<1> QED BY <1>1, <1>2, <1>3, <1>4, <1>5 DEF Next

\* Which rows are empty after a change of one key's rows.
LEMMA RowsLeft ==
  ASSUME NEW S, NEW rows \in Seq(S), NEW v \in S
  PROVE  /\ DeleteRows(rows) = << >>
         /\ rows # << >> => UpdateFirst(rows, v) # << >>
         /\ rows = << >> => UpdateRows(rows, v) = << >>
         /\ weicha_list(rows, v) # << >>
<1>1. DeleteRows(rows) = << >>
  BY DEF DeleteRows
<1>2. rows # << >> => UpdateFirst(rows, v) # << >>
  <2> SUFFICES ASSUME rows # << >> PROVE UpdateFirst(rows, v) # << >>
    OBVIOUS
  <2>1. 1 \in DOMAIN rows
    BY EmptySeq, LenProperties
  <2>2. DOMAIN UpdateFirst(rows, v) = DOMAIN rows
    BY DEF UpdateFirst
  <2> QED BY <2>1, <2>2
<1>3. rows = << >> => UpdateRows(rows, v) = << >>
  BY DEF UpdateRows
<1>4. weicha_list(rows, v) # << >>
  <2>1. Len(Append(rows, v)) = Len(rows) + 1 /\ Len(rows) \in Nat
    BY AppendProperties, LenProperties
  <2> QED BY <2>1 DEF weicha_list
<1> QED BY <1>1, <1>2, <1>3, <1>4

\* The five handlers take nobody out of the list who stays in the table.
LEMMA RelationsMirrored ==
  ASSUME TypeOK, MembersInList,
         quit_group \/ break_group \/ set_manager \/ deal_group_request_y \/ create_group
  PROVE  MembersInList'
<1> DEFINE g == message.grp
           Table == [Group0 -> [Name0 -> Seq({1, 2, 3})]]
           Known(l, t) == \A h \in Group0, u \in Name0 : t[h][u] # << >> => l[h][u] # << >>
<1>0. /\ g \in Group0 /\ message.from \in Name0 /\ message.to \in Name0
      /\ group_relationship \in Table /\ head_group_relationship \in Table
      /\ pc = "dispatch" /\ Known(head_group_relationship, group_relationship)
  BY DEF TypeOK, ProcType, MSG, TableType, ListType, MembersInList, Running,
         Handling, quit_group, break_group, set_manager, deal_group_request_y, create_group
<1>1. ASSUME Known(head_group_relationship', group_relationship')
      PROVE  MembersInList'
  BY <1>1 DEF MembersInList
<1>2. ASSUME NEW u \in Name0, NEW l \in Seq({1, 2, 3}), NEW t \in Seq({1, 2, 3}), t # << >> => l # << >>,
             head_group_relationship' = Row(head_group_relationship, g, u, l),
             group_relationship' = Row(group_relationship, g, u, t)
      PROVE  MembersInList'
  <2>1. Known(Row(head_group_relationship, g, u, l), Row(group_relationship, g, u, t))
    BY <1>0, <1>2 DEF Row
  <2> QED BY <1>1, <1>2, <2>1
<1>3. CASE UNCHANGED relVars
  BY <1>0, <1>1, <1>3 DEF relVars
<1>4. CASE ExitOnError
  BY <1>4 DEF ExitOnError, MembersInList, Running
<1>5. ASSUME NEW u \in Name0, NEW v \in {1, 2, 3}
      PROVE  LET l == head_group_relationship[g][u]
                 t == group_relationship[g][u]
             IN  /\ DeleteFirst(l) \in Seq({1, 2, 3}) /\ DeleteRows(t) \in Seq({1, 2, 3})
                 /\ UpdateFirst(l, v) \in Seq({1, 2, 3}) /\ UpdateRows(t, v) \in Seq({1, 2, 3})
                 /\ weicha_list(l, v) \in Seq({1, 2, 3}) /\ Append(t, v) \in Seq({1, 2, 3})
                 /\ t \in Seq({1, 2, 3})
                 /\ DeleteRows(t) = << >> /\ weicha_list(l, v) # << >>
                 /\ UpdateRows(t, v) # << >> => UpdateFirst(l, v) # << >>
  <2>1. /\ head_group_relationship[g][u] \in Seq({1, 2, 3})
        /\ group_relationship[g][u] \in Seq({1, 2, 3})
        /\ group_relationship[g][u] # << >> => head_group_relationship[g][u] # << >>
    BY <1>0, <1>5
  <2> QED BY <1>5, <2>1, RowHelpers, RowsLeft
<1>6. CASE quit_group
  <2>1. CASE /\ group_relationship' = Row(group_relationship, g, message.from,
                                          DeleteRows(group_relationship[g][message.from]))
             /\ head_group_relationship' = Row(head_group_relationship, g, message.from,
                                               DeleteFirst(head_group_relationship[g][message.from]))
    BY <1>0, <1>2, <1>5, <2>1
  <2> QED BY <1>3, <1>4, <1>6, <2>1 DEF quit_group, Reply, Listing, dataVars
<1>7. CASE break_group
  <2>1. CASE /\ group_relationship' = NoMembers(group_relationship, g)
             /\ head_group_relationship' = NoMembers(head_group_relationship, g)
    <3>1. Known(NoMembers(head_group_relationship, g), NoMembers(group_relationship, g))
      BY <1>0 DEF NoMembers
    <3> QED BY <1>1, <2>1, <3>1
  <2> QED BY <1>3, <1>4, <1>7, <2>1 DEF break_group, Reply, Listing, dataVars
<1>8. CASE set_manager
  <2>1. CASE /\ group_relationship' = Row(group_relationship, g, message.to,
                                          UpdateRows(group_relationship[g][message.to], 2))
             /\ head_group_relationship' = Row(head_group_relationship, g, message.to,
                                               UpdateFirst(head_group_relationship[g][message.to], 2))
    BY <1>0, <1>2, <1>5, <2>1
  <2> QED BY <1>3, <1>4, <1>8, <2>1 DEF set_manager, Reply, Listing, dataVars
<1>9. CASE deal_group_request_y
  <2> DEFINE a == message.from
  <2>1. head_group_relationship' = Row(head_group_relationship, g, a,
                                       weicha_list(head_group_relationship[g][a], 3))
    BY <1>9 DEF deal_group_request_y
  <2>2. CASE group_relationship' = Row(group_relationship, g, a, Append(group_relationship[g][a], 3))
    BY <1>0, <1>2, <1>5, <2>1, <2>2
  <2>3. CASE group_relationship' = group_relationship
    <3>1. group_relationship' = Row(group_relationship, g, a, group_relationship[g][a])
      BY <1>0, <2>3 DEF Row
    <3> QED BY <1>0, <1>2, <1>5, <2>1, <3>1
  <2> QED BY <1>9, <2>2, <2>3 DEF deal_group_request_y
<1>10. CASE create_group
  <2>1. CASE /\ group_relationship' = Row(group_relationship, g, message.from,
                                          Append(group_relationship[g][message.from], 1))
             /\ head_group_relationship' = Row(head_group_relationship, g, message.from,
                                               weicha_list(head_group_relationship[g][message.from], 1))
    BY <1>0, <1>2, <1>5, <2>1
  <2> QED BY <1>3, <1>4, <1>10, <2>1 DEF create_group, Reply, Listing, dataVars
<1> QED BY <1>6, <1>7, <1>8, <1>9, <1>10

\* Every step keeps the members of the table in the list.
LEMMA StepMembers == TypeOK /\ MembersInList /\ [Next]_vars => MembersInList'
<1>1. ASSUME MembersInList, Restart PROVE MembersInList'
  BY <1>1 DEF Restart, ReadTables, MembersInList
<1>2. ASSUME MembersInList, [Next]_vars, ~Restart, ~quit_group, ~break_group, ~set_manager,
             ~deal_group_request_y, ~create_group
      PROVE  MembersInList'
  BY <1>2, RelationsUntouched DEF MembersInList, relVars
<1> QED BY <1>1, <1>2, RelationsMirrored

\* Whoever is a member by the table is one for the running server, whatever
\* queries were refused, checked or not, and whatever was replayed: a restart
\* never makes a member of someone the server did not treat as one.
THEOREM MembersKnown == Spec => []MembersInList
<1>1. Init => MembersInList
  BY DEF Init, MembersInList
<1> QED BY <1>1, StepMembers, TypeCorrect, PTL DEF Spec

-----------------------------------------------------------------------------
(* Owners                                                                  *)

HasOne(rows) == \E i \in DOMAIN rows : rows[i] = 1

\* The owner o[g] of a group has a row in it, and nobody else one of type 1.
Owned(o, r) ==
  \A g \in Group0 :
    /\ o[g] # << >> => r[g][o[g][1]] # << >>
    /\ \A u \in Name0 : HasOne(r[g][u]) => o[g] # << >> /\ o[g][1] = u

\* The tables and the lists both know one owner for each group, and the same.
OwnersInv ==
  /\ Running => head_user_groups = user_groups
  /\ \A g \in Group0 : Len(user_groups[g]) <= 1
  /\ Owned(user_groups, group_relationship)
  /\ Running => Owned(head_user_groups, head_group_relationship)

\* What the helpers do to rows of type 1: none of them makes one but an insert.
LEMMA OnesLeft ==
  ASSUME NEW rows \in Seq({1, 2, 3})
  PROVE  /\ HasOne(DeleteFirst(rows)) => HasOne(rows)
         /\ ~HasOne(DeleteRows(rows)) /\ ~HasOne(UpdateRows(rows, 2))
         /\ HasOne(UpdateFirst(rows, 2)) => HasOne(rows)
         /\ HasOne(Append(rows, 3)) => HasOne(rows)
         /\ weicha_list(rows, 3) = Append(rows, 3)
<1>0. Len(rows) \in Nat /\ DOMAIN rows = 1..Len(rows)
  BY LenProperties
<1>1. HasOne(DeleteFirst(rows)) => HasOne(rows)
  <2> SUFFICES ASSUME rows # << >>, HasOne(Tail(rows)) PROVE HasOne(rows)
    BY DEF DeleteFirst
  <2>1. PICK i \in DOMAIN Tail(rows) : Tail(rows)[i] = 1
    BY DEF HasOne
  <2>2. Len(Tail(rows)) = Len(rows) - 1 /\ Tail(rows) \in Seq({1, 2, 3})
        /\ \A k \in 1..Len(Tail(rows)) : Tail(rows)[k] = rows[k + 1]
    BY HeadTailProperties
  <2>3. i \in 1..Len(Tail(rows))
    BY <2>1, <2>2, LenProperties
  <2> QED BY <1>0, <2>1, <2>2, <2>3 DEF HasOne
<1>2. ~HasOne(DeleteRows(rows)) /\ ~HasOne(UpdateRows(rows, 2))
  BY DEF HasOne, DeleteRows, UpdateRows
<1>3. HasOne(UpdateFirst(rows, 2)) => HasOne(rows)
  BY <1>0 DEF HasOne, UpdateFirst
<1>4. HasOne(Append(rows, 3)) => HasOne(rows)
  <2>1. /\ Len(Append(rows, 3)) = Len(rows) + 1 /\ Append(rows, 3) \in Seq({1, 2, 3})
        /\ \A i \in 1..Len(rows) : Append(rows, 3)[i] = rows[i]
        /\ Append(rows, 3)[Len(rows) + 1] = 3
    BY AppendProperties
  <2>2. DOMAIN Append(rows, 3) = 1..(Len(rows) + 1)
    BY <2>1, LenProperties
  <2> QED BY <1>0, <2>1, <2>2 DEF HasOne
<1> QED BY <1>1, <1>2, <1>3, <1>4 DEF weicha_list

\* A row at the end of others, and the first of at most one taken away.
LEMMA FirstAndLast ==
  ASSUME NEW S, NEW rows \in Seq(S), NEW v \in S
  PROVE  /\ Append(rows, v) \in Seq(S) /\ Append(rows, v) # << >>
         /\ Len(rows) <= 1 => DeleteFirst(rows) = << >>
<1>0. Len(rows) \in Nat
  BY LenProperties
<1>1. Append(rows, v) \in Seq(S) /\ Len(Append(rows, v)) = Len(rows) + 1
  BY AppendProperties
<1>2. Append(rows, v) # << >>
  BY <1>0, <1>1, EmptySeq
<1>3. ASSUME Len(rows) <= 1, rows # << >> PROVE Tail(rows) = << >>
  <2>1. Tail(rows) \in Seq(S) /\ Len(Tail(rows)) = Len(rows) - 1
    BY <1>3, HeadTailProperties
  <2>2. Len(Tail(rows)) \in Nat
    BY <2>1, LenProperties
  <2>3. Len(Tail(rows)) = 0
    BY <1>0, <1>3, <2>1, <2>2
  <2> QED BY <2>1, <2>3, EmptySeq
<1> QED BY <1>1, <1>2, <1>3 DEF DeleteFirst

\* The rows of one user in one group change.
LEMMA OwnedRow ==
  ASSUME NEW o, NEW r \in [Group0 -> [Name0 -> Seq({1, 2, 3})]], Owned(o, r),
         \A g \in Group0 : o[g] # << >> => o[g][1] \in Name0,
         NEW g \in Group0, NEW u \in Name0, NEW rows,
         o[g] # << >> /\ o[g][1] = u => rows # << >>,
         HasOne(rows) => o[g] # << >> /\ o[g][1] = u
  PROVE  Owned(o, Row(r, g, u, rows))
<1> DEFINE q == Row(r, g, u, rows)
<1>1. /\ q[g][u] = rows
      /\ \A h \in Group0, v \in Name0 : h # g \/ v # u => q[h][v] = r[h][v]
  BY SMTT(30) DEF Row
<1> HIDE DEF q
<1>2. ASSUME NEW h \in Group0, o[h] # << >> PROVE q[h][o[h][1]] # << >>
  <2>1. o[h][1] \in Name0 /\ r[h][o[h][1]] # << >>
    BY <1>2 DEF Owned
  <2>2. CASE h = g /\ o[h][1] = u
    BY <1>1, <1>2, <2>2
  <2>3. CASE ~(h = g /\ o[h][1] = u)
    BY <1>1, <2>1, <2>3
  <2> QED BY <2>2, <2>3
<1>3. ASSUME NEW h \in Group0, NEW v \in Name0, HasOne(q[h][v])
      PROVE  o[h] # << >> /\ o[h][1] = v
  <2>1. HasOne(r[h][v]) => o[h] # << >> /\ o[h][1] = v
    BY DEF Owned
  <2>2. CASE h = g /\ v = u
    BY <1>1, <1>3, <2>2
  <2>3. CASE ~(h = g /\ v = u)
    BY <1>1, <1>3, <2>1, <2>3
  <2> QED BY <2>2, <2>3
<1>4. Owned(o, q)
  BY <1>2, <1>3, Zenon DEF Owned
<1> QED BY <1>4 DEF q

\* A group is created: nobody had a row of type 1 in it.
LEMMA OwnedNew ==
  ASSUME NEW o \in [Group0 -> Seq(Name0)], NEW r \in [Group0 -> [Name0 -> Seq({1, 2, 3})]],
         Owned(o, r), \A g \in Group0 : o[g] # << >> => o[g][1] \in Name0,
         NEW g \in Group0, NEW u \in Name0, NEW rows, o[g] = << >>, rows # << >>
  PROVE  Owned([o EXCEPT ![g] = <<u>>], Row(r, g, u, rows))
<1> DEFINE p == [o EXCEPT ![g] = <<u>>]
<1>1. p[g] = <<u>> /\ p[g] # << >> /\ p[g][1] = u /\ \A h \in Group0 : h # g => p[h] = o[h]
  OBVIOUS
<1> HIDE DEF p
<1>2. Owned(p, Row(r, g, u, rows))
  <2> DEFINE q == Row(r, g, u, rows)
  <2>1. /\ q[g][u] = rows
        /\ \A h \in Group0, v \in Name0 : h # g \/ v # u => q[h][v] = r[h][v]
    BY SMTT(30) DEF Row
  <2> HIDE DEF q
  <2>2. ASSUME NEW h \in Group0, p[h] # << >> PROVE q[h][p[h][1]] # << >>
    <3>1. CASE h = g
      BY <1>1, <2>1, <3>1
    <3>2. CASE h # g
      <4>1. p[h] = o[h] /\ o[h][1] \in Name0 /\ r[h][o[h][1]] # << >>
        BY <1>1, <2>2, <3>2 DEF Owned
      <4> QED BY <2>1, <3>2, <4>1
    <3> QED BY <3>1, <3>2
  <2>3. ASSUME NEW h \in Group0, NEW v \in Name0, HasOne(q[h][v])
        PROVE  p[h] # << >> /\ p[h][1] = v
    <3>1. HasOne(r[h][v]) => o[h] # << >> /\ o[h][1] = v
      BY DEF Owned
    <3>2. CASE h = g
      BY <1>1, <2>1, <2>3, <3>1, <3>2
    <3>3. CASE h # g
      BY <1>1, <2>1, <2>3, <3>1, <3>3
    <3> QED BY <3>2, <3>3
  <2>4. Owned(p, q)
    BY <2>2, <2>3, Zenon DEF Owned
  <2> QED BY <2>4 DEF q
<1> QED BY <1>2 DEF p

\* The five handlers keep one owner, in the group and alone with type 1, when
\* the database refuses nothing.
LEMMA HandlersOwned ==
  ASSUME DbMayFail = FALSE, TypeOK, OwnersInv,
         quit_group \/ break_group \/ set_manager \/ deal_group_request_y \/ create_group
  PROVE  OwnersInv'
<1> DEFINE g == message.grp
           Table == [Group0 -> [Name0 -> Seq({1, 2, 3})]]
           o == user_groups
<1>0. /\ g \in Group0 /\ message.from \in Name0 /\ message.to \in Name0
      /\ group_relationship \in Table /\ head_group_relationship \in Table
      /\ o \in [Group0 -> Seq(Name0)] /\ head_user_groups = o
      /\ Owned(o, group_relationship) /\ Owned(o, head_group_relationship)
      /\ \A h \in Group0 : Len(o[h]) <= 1
  BY DEF TypeOK, ProcType, MSG, TableType, ListType, OwnersInv, Running,
         Handling, quit_group, break_group, set_manager, deal_group_request_y, create_group
<1>1. ASSUME head_user_groups' = user_groups', \A h \in Group0 : Len(user_groups'[h]) <= 1,
             Owned(user_groups', group_relationship'), Owned(user_groups', head_group_relationship')
      PROVE  OwnersInv'
  BY <1>1 DEF OwnersInv
<1>2. ~ExitOnError
  BY DEF ExitOnError
<1>3. \A h \in Group0 : o[h] # << >> => o[h][1] \in Name0
  <2> SUFFICES ASSUME NEW h \in Group0, o[h] # << >> PROVE o[h][1] \in Name0
    OBVIOUS
  <2>1. 1 \in 1..Len(o[h]) /\ o[h] \in Seq(Name0)
    BY <1>0, EmptySeq, LenProperties
  <2> QED BY <2>1, ElementOfSeq
<1>4. ASSUME NEW u \in Name0, NEW l \in Seq({1, 2, 3}), NEW t \in Seq({1, 2, 3}),
             o[g] # << >> /\ o[g][1] = u => l # << >> /\ t # << >>,
             HasOne(l) \/ HasOne(t) => o[g] # << >> /\ o[g][1] = u,
             head_group_relationship' = Row(head_group_relationship, g, u, l),
             group_relationship' = Row(group_relationship, g, u, t), UNCHANGED groupVars
      PROVE  OwnersInv'
  <2>1. Owned(o, Row(head_group_relationship, g, u, l)) /\ Owned(o, Row(group_relationship, g, u, t))
    BY <1>0, <1>3, <1>4, OwnedRow
  <2> QED BY <1>0, <1>1, <1>4, <2>1 DEF groupVars
<1>5. CASE UNCHANGED <<groupVars, relVars>>
  BY <1>0, <1>1, <1>5 DEF groupVars, relVars
<1>6. ASSUME NEW u \in Name0
      PROVE  LET l == head_group_relationship[g][u]
                 t == group_relationship[g][u]
             IN  /\ l \in Seq({1, 2, 3}) /\ t \in Seq({1, 2, 3})
                 /\ o[g] # << >> /\ o[g][1] = u => l # << >> /\ t # << >>
                 /\ HasOne(l) \/ HasOne(t) => o[g] # << >> /\ o[g][1] = u
  BY <1>0, <1>6 DEF Owned
<1>7. CASE quit_group
  <2> DEFINE u == message.from
             l == head_group_relationship[g][u]
             t == group_relationship[g][u]
  <2>1. CASE /\ ~IsOwner(u, g) /\ UNCHANGED groupVars
             /\ group_relationship' = Row(group_relationship, g, u, DeleteRows(t))
             /\ head_group_relationship' = Row(head_group_relationship, g, u, DeleteFirst(l))
    <3>1. DeleteFirst(l) \in Seq({1, 2, 3}) /\ DeleteRows(t) \in Seq({1, 2, 3})
      BY <1>0, <1>6, RowHelpers
    <3>2. HasOne(DeleteFirst(l)) => HasOne(l)
      BY <1>0, <1>6, OnesLeft
    <3>3. ~HasOne(DeleteRows(t))
      BY <1>0, <1>6, OnesLeft
    <3>4. ~(o[g] # << >> /\ o[g][1] = u)
      BY <1>0, <2>1 DEF IsOwner
    <3> HIDE DEF l, t
    <3>5. HasOne(l) => o[g] # << >> /\ o[g][1] = u
      BY <1>0, <1>6 DEF l
    <3> QED BY <1>0, <1>4, <2>1, <3>1, <3>2, <3>3, <3>4, <3>5
  <2> QED BY <1>2, <1>5, <1>7, <2>1 DEF quit_group, Reply, Listing, dataVars
<1>8. CASE break_group
  <2>1. CASE /\ user_groups' = [user_groups EXCEPT ![g] = DeleteRows(@)]
             /\ head_user_groups' = [head_user_groups EXCEPT ![g] = DeleteFirst(@)]
             /\ group_relationship' = NoMembers(group_relationship, g)
             /\ head_group_relationship' = NoMembers(head_group_relationship, g)
    <3>1. DeleteFirst(o[g]) = << >>
      <4>1. o[g] \in Seq(Name0) /\ Len(o[g]) <= 1
        BY <1>0
      <4> QED BY <1>0, <4>1, FirstAndLast
    <3>2. user_groups' = [o EXCEPT ![g] = << >>] /\ head_user_groups' = user_groups'
      BY <1>0, <2>1, <3>1 DEF DeleteRows
    <3>3. \A h \in Group0 : Len(user_groups'[h]) <= 1
      BY <1>0, <3>2
    <3>4. ASSUME NEW r \in Table, Owned(o, r) PROVE Owned([o EXCEPT ![g] = << >>], NoMembers(r, g))
      BY <1>0, <3>4 DEF Owned, NoMembers, HasOne
    <3> QED BY <1>0, <1>1, <2>1, <3>2, <3>3, <3>4
  <2> QED BY <1>2, <1>5, <1>8, <2>1 DEF break_group, Reply, Listing, dataVars
<1>9. CASE set_manager
  <2> DEFINE u == message.to
             l == head_group_relationship[g][u]
             t == group_relationship[g][u]
  <2>1. CASE /\ InGroup(u, g) /\ UNCHANGED groupVars
             /\ group_relationship' = Row(group_relationship, g, u, UpdateRows(t, 2))
             /\ head_group_relationship' = Row(head_group_relationship, g, u, UpdateFirst(l, 2))
    <3>1. UpdateFirst(l, 2) \in Seq({1, 2, 3}) /\ UpdateRows(t, 2) \in Seq({1, 2, 3})
      BY <1>0, <1>6, RowHelpers
    <3>2. HasOne(UpdateFirst(l, 2)) => HasOne(l)
      BY <1>0, <1>6, OnesLeft
    <3>3. ~HasOne(UpdateRows(t, 2))
      BY <1>0, <1>6, OnesLeft
    <3>4. l # << >> => UpdateFirst(l, 2) # << >>
      BY <1>0, <1>6, RowsLeft
    <3>5. t # << >> => UpdateRows(t, 2) # << >>
      <4>1. DOMAIN UpdateRows(t, 2) = DOMAIN t
        BY DEF UpdateRows
      <4>2. t # << >> => 1 \in DOMAIN t
        BY <1>0, <1>6, EmptySeq, LenProperties
      <4> QED BY <4>1, <4>2
    <3> HIDE DEF l, t
    <3>6. /\ HasOne(l) => o[g] # << >> /\ o[g][1] = u
          /\ o[g] # << >> /\ o[g][1] = u => l # << >> /\ t # << >>
      BY <1>0, <1>6 DEF l, t
    <3> QED BY <1>0, <1>4, <2>1, <3>1, <3>2, <3>3, <3>4, <3>5, <3>6
  <2> QED BY <1>2, <1>5, <1>9, <2>1 DEF set_manager, Reply, Listing, Segfault, dataVars
<1>10. CASE deal_group_request_y
  <2> DEFINE u == message.from
             l == head_group_relationship[g][u]
             t == group_relationship[g][u]
  <2>1. /\ group_relationship' = Row(group_relationship, g, u, Append(t, 3))
        /\ head_group_relationship' = Row(head_group_relationship, g, u, weicha_list(l, 3))
        /\ UNCHANGED groupVars
    BY <1>10 DEF deal_group_request_y
  <2>2. /\ Append(l, 3) \in Seq({1, 2, 3}) /\ Append(t, 3) \in Seq({1, 2, 3})
        /\ Append(l, 3) # << >> /\ Append(t, 3) # << >>
    <3>1. l \in Seq({1, 2, 3}) /\ t \in Seq({1, 2, 3}) /\ 3 \in {1, 2, 3}
      BY <1>0, <1>6
    <3> HIDE DEF l, t
    <3> QED BY <3>1, FirstAndLast
  <2>3. (HasOne(Append(l, 3)) => HasOne(l)) /\ weicha_list(l, 3) = Append(l, 3)
    BY <1>0, <1>6, OnesLeft
  <2>4. HasOne(Append(t, 3)) => HasOne(t)
    BY <1>0, <1>6, OnesLeft
  <2> HIDE DEF l, t
  <2>5. HasOne(l) \/ HasOne(t) => o[g] # << >> /\ o[g][1] = u
    BY <1>0, <1>6 DEF l, t
  <2> QED BY <1>0, <1>4, <2>1, <2>2, <2>3, <2>4, <2>5
<1>11. CASE create_group
  <2> DEFINE u == message.from
             l == head_group_relationship[g][u]
             t == group_relationship[g][u]
  <2>1. CASE /\ ~Exists(g)
             /\ user_groups' = [user_groups EXCEPT ![g] = Append(@, u)]
             /\ head_user_groups' = [head_user_groups EXCEPT ![g] = weicha_list(@, u)]
             /\ group_relationship' = Row(group_relationship, g, u, Append(t, 1))
             /\ head_group_relationship' = Row(head_group_relationship, g, u, weicha_list(l, 1))
    <3>1. o[g] = << >> /\ Append(o[g], u) = <<u>>
      <4>1. o[g] = << >>
        BY <1>0, <2>1 DEF Exists
      <4> QED BY <1>0, <4>1
    <3>2. user_groups' = [o EXCEPT ![g] = <<u>>] /\ head_user_groups' = user_groups'
      BY <1>0, <2>1, <3>1 DEF weicha_list
    <3>3. \A h \in Group0 : Len(user_groups'[h]) <= 1
      BY <1>0, <3>2
    <3>4. ASSUME NEW r \in Table, Owned(o, r), NEW rows \in Seq({1, 2, 3}), rows # << >>
          PROVE  Owned([o EXCEPT ![g] = <<u>>], Row(r, g, u, rows))
      BY <1>0, <1>3, <3>1, <3>4, OwnedNew
    <3>5. /\ Append(l, 1) \in Seq({1, 2, 3}) /\ Append(t, 1) \in Seq({1, 2, 3})
          /\ Append(l, 1) # << >> /\ Append(t, 1) # << >>
      <4>1. l \in Seq({1, 2, 3}) /\ t \in Seq({1, 2, 3}) /\ 1 \in {1, 2, 3}
        BY <1>0, <1>6
      <4> HIDE DEF l, t
      <4> QED BY <4>1, FirstAndLast
    <3>6. weicha_list(l, 1) = Append(l, 1)
      BY DEF weicha_list
    <3> HIDE DEF l, t
    <3>7. Owned(user_groups', group_relationship') /\ Owned(user_groups', head_group_relationship')
      <4>1. /\ Owned([o EXCEPT ![g] = <<u>>], Row(group_relationship, g, u, Append(t, 1)))
            /\ Owned([o EXCEPT ![g] = <<u>>], Row(head_group_relationship, g, u, Append(l, 1)))
        BY <1>0, <3>4, <3>5, ZenonT(30)
      <4> QED BY <2>1, <3>2, <3>6, <4>1
    <3> QED BY <1>1, <3>2, <3>3, <3>7
  <2> QED BY <1>2, <1>5, <1>11, <2>1 DEF create_group, Reply, Listing, dataVars
<1> QED BY <1>7, <1>8, <1>9, <1>10, <1>11

\* Every step keeps the owners.
LEMMA StepOwners == DbMayFail = FALSE /\ TypeOK /\ OwnersInv /\ [Next]_vars => OwnersInv'
<1>1. ASSUME OwnersInv, Restart PROVE OwnersInv'
  BY <1>1 DEF Restart, ReadTables, OwnersInv
<1>2. ASSUME OwnersInv, [Next]_vars, ~Restart, ~quit_group, ~break_group, ~set_manager,
             ~deal_group_request_y, ~create_group
      PROVE  OwnersInv'
  BY <1>2, RelationsUntouched DEF OwnersInv, groupVars, relVars
<1> QED BY <1>1, <1>2, HandlersOwned

LEMMA OwnersKept ==
  ASSUME DbMayFail = FALSE
  PROVE  Spec => []OwnersInv
<1>1. Init => OwnersInv
  BY DEF Init, OwnersInv, Owned, HasOne
<1> QED BY <1>1, StepOwners, TypeCorrect, PTL DEF Spec

\* The owner of a group stays one of its members, through quits, replays and
\* restarts, as long as the database refuses nothing: an insert that fails after
\* the first one of create_group leaves an owner who is no member.
THEOREM OwnersAreMembers ==
  ASSUME DbMayFail = FALSE
  PROVE  Spec => []OwnerIsMember
<1>1. OwnersInv => OwnerIsMember
  BY DEF OwnersInv, Owned, OwnerIsMember, Exists, Owner, InGroup
<1> QED BY <1>1, OwnersKept, PTL

\* Only the owner of an existing group passes the test of set_manager, as long as
\* the database refuses nothing: after a delete that fails in the middle of
\* break_group the former owner's row is read again at the next start.
THEOREM OnlyOwnersManage ==
  ASSUME DbMayFail = FALSE
  PROVE  Spec => []TypeOneIsOwner
<1>1. OwnersInv => TypeOneIsOwner
  BY DEF OwnersInv, Owned, HasOne, TypeOneIsOwner, Exists, Owner
<1> QED BY <1>1, OwnersKept, PTL

-----------------------------------------------------------------------------
(* Sessions                                                                *)

\* The nodes of `head' are live and have names of users.
NodesInv == OnlineNodesLive /\ \A i \in DOMAIN head : head[i].name # None

\* A login is in the slot only while it is being handled, for the connection
\* that sent it; a zeroed slot names nobody.
SlotInv ==
  /\ message.cmd = 0 => message.from = None
  /\ Running /\ message.cmd = 2 =>
       pc = "dispatch" /\ conn[cur] # "free" /\ who[cur] = None /\ message.from # None

\* The slot is not a login or registration, or a file is being passed on: then
\* its connection is a user's, or has nothing more to be read.
BusyInv ==
  pc = "file" \/ (pc = "dispatch" /\ message.cmd \notin {1, 2}) =>
    who[cur] # None \/ (conn[cur] \in {"free", "broken"} /\ inbox[cur] = << >>)

\* What a connection may hold: a login alone, and other requests of users only.
InboxInv(s) ==
  \A i \in DOMAIN inbox[s] :
    /\ inbox[s][i].cmd # 0
    /\ inbox[s][i].cmd \notin {1, 2} => who[s] # None
    /\ inbox[s][i].cmd = 2 => /\ inbox[s][i].from # None /\ who[s] = None /\ conn[s] # "free"
                              /\ Len(inbox[s]) = 1 /\ ~(pc = "dispatch" /\ cur = s)

FilingInv(s) == \A i \in DOMAIN filing[s] : filing[s][i].cmd = 6

SessionInv == /\ NodesInv /\ SlotInv /\ BusyInv
              /\ \A s \in Socks : InboxInv(s) /\ FilingInv(s)

\* Sending breaks connections, and neither opens nor closes one.
ConnKept == \A s \in Socks : /\ conn'[s] = "free" <=> conn[s] = "free"
                             /\ conn[s] = "broken" => conn'[s] = "broken"

\* A handler that has nothing to do with sessions.
Quiet == /\ UNCHANGED <<head, who, inbox, filing, cur>> /\ ConnKept
         /\ pc' \notin {"dispatch", "file"} /\ message'.cmd \notin {0, 2}

\* The ways a handler ends keep the connections.
LEMMA EndsQuiet ==
  /\ \A S, M : ReturnMany(S, M) => /\ UNCHANGED <<who, inbox, filing, cur>> /\ ConnKept
                                   /\ pc' \notin {"dispatch", "file"}
  /\ Segfault \/ ExitOnError => /\ UNCHANGED <<who, inbox, filing, cur, message>> /\ ConnKept
                                /\ pc' \notin {"dispatch", "file"}
<1>1. ASSUME NEW S, Sent(S) PROVE ConnKept
  BY <1>1 DEF Sent, ConnKept
<1>2. ASSUME NEW S, NEW M, ReturnMany(S, M)
      PROVE  UNCHANGED <<who, inbox, filing, cur>> /\ ConnKept /\ pc' \notin {"dispatch", "file"}
  BY <1>1, <1>2 DEF ReturnMany, clientVars, Sigpipe
<1>3. ASSUME Segfault \/ ExitOnError
      PROVE  /\ UNCHANGED <<who, inbox, filing, cur, message>> /\ ConnKept
             /\ pc' \notin {"dispatch", "file"}
  BY <1>3 DEF Segfault, ExitOnError, clientVars, netVars, ConnKept
<1> QED BY <1>2, <1>3

\* An answer with a command of its own.
LEMMA ReplyQuiet ==
  ASSUME message \in MSG, NEW c \in Int \ {0, 2}, NEW n, Listing(c, n)
  PROVE  Quiet
<1>1. message'.cmd = c /\ UNCHANGED head
  BY DEF Listing, MSG
<1>2. /\ UNCHANGED <<who, inbox, filing, cur>> /\ ConnKept
      /\ pc' \notin {"dispatch", "file"}
  BY EndsQuiet DEF Listing
<1> QED BY <1>1, <1>2 DEF Quiet

\* Of the handlers only login, send_file and forget_password for a name have
\* anything to do with sessions.
LEMMA QuietHandlers ==
  ASSUME TypeOK, chuli_request, ~login, ~send_file, message.cmd = 0 => message.from = None
  PROVE  Quiet
<1>0. message \in MSG
  BY DEF TypeOK, ProcType
<1>1. ASSUME NEW c \in Int \ {0, 2}, Reply(c) PROVE Quiet
  BY <1>0, <1>1, ReplyQuiet DEF Reply
<1>2. ASSUME NEW c \in Int \ {0, 2}, NEW n, Listing(c, n) PROVE Quiet
  BY <1>0, <1>2, ReplyQuiet
<1>3. ASSUME NEW S, Return(S), head' = head, message'.cmd \notin {0, 2} PROVE Quiet
  BY <1>3, EndsQuiet DEF Quiet, Return
<1>4. ASSUME Segfault \/ ExitOnError, head' = head, message.cmd \notin {0, 2} PROVE Quiet
  <2>1. /\ UNCHANGED <<who, inbox, filing, cur, message>> /\ ConnKept
        /\ pc' \notin {"dispatch", "file"}
    BY <1>4, EndsQuiet
  <2> QED BY <1>4, <2>1 DEF Quiet
<1>5. CASE reg
  <2>1. CASE Reply(-1)
    BY <1>1, <2>1
  <2>2. CASE message' = [message EXCEPT !.cmd = 1001] /\ Return({cur}) /\ head' = head
    <3>1. message'.cmd = 1001
      BY <1>0, <2>2 DEF MSG
    <3> QED BY <1>3, <2>2, <3>1
  <2>3. CASE ExitOnError /\ head' = head
    BY <1>4, <1>5, <2>3 DEF reg, Handling
  <2> QED BY <1>5, <2>1, <2>2, <2>3 DEF reg
<1>6. CASE forget_password
  BY <1>1, <1>6 DEF forget_password, Handling
<1>7. CASE all_friends \/ online_friend
  <2>1. {11, 12, 111, 121, 122} \subseteq Int \ {0, 2}
    OBVIOUS
  <2>2. ASSUME NEW c \in {11, 12, 111, 121, 122}, NEW n, Listing(c, n) PROVE Quiet
    BY <1>2, <2>1, <2>2, Zenon
  <2>3. \E c \in {11, 12, 111, 121, 122} : \E n : Listing(c, n)
    BY <1>7, Zenon DEF all_friends, online_friend, Reply
  <2> QED BY <2>2, <2>3, Zenon
<1>8. CASE private_chat \/ public_chat
  BY <1>1, <1>3, <1>4, <1>8 DEF private_chat, public_chat, Handling
<1>9. CASE add_friend
  BY <1>1, <1>3, <1>4, <1>9 DEF add_friend, Handling
<1>10. CASE delete_friend
  BY <1>1, <1>3, <1>4, <1>10 DEF delete_friend, Handling
<1>11. CASE deal_friend_request_y \/ deal_friend_request_n
  BY <1>3, <1>4, <1>11 DEF deal_friend_request_y, deal_friend_request_n, Answer, Handling
<1>12. CASE view_group \/ view_group_member
  BY <1>1, <1>2, <1>12 DEF view_group, view_group_member
<1>13. CASE add_group
  <2>1. CASE Reply(230) \/ Reply(231)
    BY <1>1, <2>1
  <2>2. CASE /\ message' = [message EXCEPT !.to = Owner(message.grp)]
             /\ Return(TargetSocks(Owner(message.grp))) /\ head' = head
    <3>1. message'.cmd = 23
      BY <1>0, <1>13, <2>2 DEF MSG, add_group, Handling
    <3> QED BY <1>3, <2>2, <3>1
  <2> QED BY <1>13, <2>1, <2>2 DEF add_group
<1>14. CASE quit_group
  <2> DEFINE o == Owner(message.grp)
  <2>1. CASE Reply(240) \/ Reply(241)
    BY <1>1, <2>1
  <2>2. CASE ExitOnError /\ head' = head
    BY <1>4, <1>14, <2>2 DEF quit_group, Handling
  <2>3. \/ Reply(240) \/ Reply(241) \/ (ExitOnError /\ head' = head)
        \/ \E S : /\ Return(S) /\ head' = head
                  /\ \E c \in {242, IF Online(o) THEN 24 ELSE 243} :
                       message' = [message EXCEPT !.to = o, !.cmd = c]
    <3>1. ~(Reply(240) \/ Reply(241) \/ (ExitOnError /\ head' = head)) =>
            \/ message' = [message EXCEPT !.to = o, !.cmd = 242] /\ Return({cur}) /\ head' = head
            \/ /\ message' = [message EXCEPT !.to = o, !.cmd = IF Online(o) THEN 24 ELSE 243]
               /\ Return({cur} \cup TargetSocks(o)) /\ head' = head
      BY <1>14 DEF quit_group
    <3> QED BY <3>1, Zenon
  <2> HIDE DEF o
  <2>4. \A c \in {242, IF Online(o) THEN 24 ELSE 243} : c \in {24, 242, 243}
    OBVIOUS
  <2>5. CASE \E S : /\ Return(S) /\ head' = head
                    /\ \E c \in {242, IF Online(o) THEN 24 ELSE 243} :
                         message' = [message EXCEPT !.to = o, !.cmd = c]
    <3>1. PICK S : /\ Return(S) /\ head' = head
                   /\ \E c \in {242, IF Online(o) THEN 24 ELSE 243} :
                        message' = [message EXCEPT !.to = o, !.cmd = c]
      BY <2>5
    <3>2. PICK c \in {242, IF Online(o) THEN 24 ELSE 243} :
            message' = [message EXCEPT !.to = o, !.cmd = c]
      BY <3>1
    <3>3. message'.cmd = c /\ c \in {24, 242, 243}
      BY <1>0, <2>4, <3>2 DEF MSG
    <3> QED BY <1>3, <3>1, <3>3
  <2> QED BY <2>1, <2>2, <2>3, <2>5, Zenon
<1>15. CASE break_group
  BY <1>1, <1>3, <1>4, <1>15 DEF break_group, Handling
<1>16. CASE set_manager
  BY <1>1, <1>3, <1>4, <1>16 DEF set_manager, Handling
<1>17. CASE deal_group_request_y \/ deal_group_request_n
  BY <1>3, <1>17 DEF deal_group_request_y, deal_group_request_n, GroupAnswer, Handling
<1>18. CASE create_group
  BY <1>1, <1>3, <1>4, <1>18 DEF create_group, Handling
<1>19. CASE no_case
  BY <1>19 DEF no_case, Commands, Quiet, ConnKept, clientVars, netVars
<1> QED BY <1>5, <1>6, <1>7, <1>8, <1>9, <1>10, <1>11, <1>12, <1>13, <1>14, <1>15, <1>16, <1>17,
           <1>18, <1>19 DEF chuli_request

\* A quiet step keeps all that is said of sessions.
LEMMA QuietKeeps ==
  ASSUME TypeOK, SessionInv, Quiet
  PROVE  SessionInv'
<1>0. head \in Seq(user_date) /\ \A i \in DOMAIN head : head[i].socket \in Socks
  <2>1. head \in Seq(user_date) /\ DOMAIN head = 1..Len(head)
    BY LenProperties DEF TypeOK, ListType
  <2>2. \A i \in DOMAIN head : head[i] \in user_date
    BY <2>1, ElementOfSeq
  <2> QED BY <2>1, <2>2 DEF user_date
<1>1. NodesInv'
  BY <1>0 DEF SessionInv, NodesInv, OnlineNodesLive, Quiet, ConnKept
<1>2. SlotInv' /\ BusyInv'
  BY DEF SlotInv, BusyInv, Quiet, Running
<1>3. ASSUME NEW s \in Socks PROVE InboxInv(s)' /\ FilingInv(s)'
  BY DEF SessionInv, InboxInv, FilingInv, Quiet, ConnKept
<1> QED BY <1>1, <1>2, <1>3 DEF SessionInv

\* The nodes del_node leaves are other nodes of the list than the one it stopped
\* at, each once.
LEMMA UnlinkedNodes ==
  ASSUME head \in Seq(user_date), NEW i \in 1..Len(head)
  PROVE  \E K \in [DOMAIN Unlinked(i) -> DOMAIN head] :
           /\ \A a \in DOMAIN Unlinked(i) : K[a] # i /\ Unlinked(i)[a] = head[K[a]]
           /\ \A a, b \in DOMAIN Unlinked(i) : K[a] = K[b] => a = b
<1>0. Len(head) \in Nat /\ DOMAIN head = 1..Len(head)
  BY LenProperties
<1> DEFINE n == Len(head)
           t == SubSeq(head, i + 1, n)
<1>1. ASSUME NEW a \in Int, NEW b \in Int, 1 <= a, a <= b + 1, b <= n
      PROVE  /\ SubSeq(head, a, b) \in Seq(user_date) /\ Len(SubSeq(head, a, b)) = b - a + 1
             /\ \A k \in 1..(b - a + 1) : SubSeq(head, a, b)[k] = head[a + k - 1]
  <2>1. \A k \in a..b : head[k] \in user_date
    BY <1>0, <1>1, ElementOfSeq
  <2>2. /\ SubSeq(head, a, b) \in Seq(user_date)
        /\ Len(SubSeq(head, a, b)) = IF a <= b THEN b - a + 1 ELSE 0
        /\ \A k \in 1..(b - a + 1) : SubSeq(head, a, b)[k] = head[a + k - 1]
    BY <2>1, SubSeqProperties, SMTT(30)
  <2> QED BY <1>1, <2>2
<1>4. t \in Seq(user_date) /\ Len(t) = n - i /\ \A a \in 1..(n - i) : t[a] = head[a + i]
  <2>1. /\ t \in Seq(user_date) /\ Len(t) = n - (i + 1) + 1
        /\ \A k \in 1..(n - (i + 1) + 1) : t[k] = head[i + 1 + k - 1]
    <3>1. i + 1 \in Int /\ n \in Int /\ 1 <= i + 1 /\ i + 1 <= n + 1 /\ n <= n
      BY <1>0
    <3> QED BY <1>1, <3>1, ZenonT(30)
  <2> HIDE DEF t
  <2>2. n - (i + 1) + 1 = n - i /\ \A k \in 1..(n - i) : i + 1 + k - 1 = k + i
    BY <1>0
  <2> QED BY <2>1, <2>2
<1>2. CASE i <= 2
  <2> DEFINE K == [a \in 1..(n - i) |-> a + i]
  <2>1. Unlinked(i) = t /\ DOMAIN t = 1..(n - i)
    BY <1>2, <1>4, LenProperties DEF Unlinked
  <2> HIDE DEF t
  <2>2. K \in [1..(n - i) -> 1..n]
    BY <1>0
  <2>3. \A a \in 1..(n - i) : K[a] # i /\ t[a] = head[K[a]]
    BY <1>0, <1>4
  <2>4. \A a, b \in 1..(n - i) : K[a] = K[b] => a = b
    BY <1>0
  <2> HIDE DEF K
  <2>5. K \in [DOMAIN Unlinked(i) -> DOMAIN head]
    BY <1>0, <2>1, <2>2
  <2> WITNESS K \in [DOMAIN Unlinked(i) -> DOMAIN head]
  <2> QED BY <2>1, <2>3, <2>4
<1>3. CASE i > 2
  <2> DEFINE h == SubSeq(head, 1, i - 1)
             K == [a \in 1..(n - 1) |-> IF a < i THEN a ELSE a + 1]
  <2>1. /\ h \in Seq(user_date) /\ Len(h) = i - 1 /\ \A a \in 1..(i - 1) : h[a] = head[a]
    <3>1. i - 1 \in Int /\ 1 <= 1 /\ 1 <= i - 1 + 1 /\ i - 1 <= n
      BY <1>0
    <3>2. /\ h \in Seq(user_date) /\ Len(h) = i - 1 - 1 + 1
          /\ \A k \in 1..(i - 1 - 1 + 1) : h[k] = head[1 + k - 1]
      BY <1>1, <3>1, SMTT(30)
    <3> HIDE DEF h
    <3>3. i - 1 - 1 + 1 = i - 1 /\ \A k \in 1..(i - 1) : 1 + k - 1 = k
      OBVIOUS
    <3> QED BY <3>2, <3>3
  <2>2. Unlinked(i) = h \o t
    <3>1. ~(i <= 2)
      BY <1>0, <1>3
    <3> QED BY <3>1, Zenon DEF Unlinked
  <2> HIDE DEF h, t
  <2>3. /\ h \o t \in Seq(user_date) /\ Len(h \o t) = n - 1
        /\ \A a \in 1..(n - 1) : (h \o t)[a] = IF a <= i - 1 THEN h[a] ELSE t[a - (i - 1)]
    <3>1. /\ h \o t \in Seq(user_date) /\ Len(h \o t) = Len(h) + Len(t)
          /\ \A a \in 1..(Len(h) + Len(t)) :
               (h \o t)[a] = IF a <= Len(h) THEN h[a] ELSE t[a - Len(h)]
      BY <1>4, <2>1, ConcatProperties, ZenonT(30)
    <3>2. Len(h) + Len(t) = n - 1
      BY <1>0, <1>4, <2>1
    <3> QED BY <2>1, <3>1, <3>2
  <2>4. DOMAIN (h \o t) = 1..(n - 1)
    BY <2>3, LenProperties
  <2>5. ASSUME NEW a \in 1..(n - 1)
        PROVE  K[a] \in 1..n /\ K[a] # i /\ (h \o t)[a] = head[K[a]]
    BY <1>0, <1>4, <2>1, <2>3
  <2>6. K \in [1..(n - 1) -> 1..n]
    BY <1>0, <2>5
  <2>7. \A a, b \in 1..(n - 1) : K[a] = K[b] => a = b
    BY <1>0
  <2> HIDE DEF K
  <2>8. K \in [DOMAIN Unlinked(i) -> DOMAIN head]
    BY <1>0, <2>2, <2>4, <2>6
  <2> WITNESS K \in [DOMAIN Unlinked(i) -> DOMAIN head]
  <2> QED BY <2>2, <2>4, <2>5, <2>7
<1> QED BY <1>0, <1>2, <1>3

\* The descriptor that is closed leaves the list, whoever leaves it with it.
LEMMA DelNodeNodes ==
  ASSUME TypeOK, NodesInv, NEW s \in Socks, del_node(s),
         conn' = [conn EXCEPT ![s] = "free"], who' = [who EXCEPT ![s] = None]
  PROVE  NodesInv'
<1>0. /\ head \in Seq(user_date) /\ DOMAIN head = 1..Len(head) /\ Len(head) \in Nat
      /\ conn \in [Socks -> {"free", "open", "closed", "reset", "broken"}]
      /\ who \in [Socks -> Name0]
  BY LenProperties DEF TypeOK, ListType, ClientType
<1>1. \A k \in DOMAIN head : head[k].socket \in Socks
  <2>1. \A k \in DOMAIN head : head[k] \in user_date
    BY <1>0, ElementOfSeq
  <2> QED BY <2>1 DEF user_date
<1>2. CASE head = << >>
  BY <1>2 DEF del_node, NodesInv, OnlineNodesLive
<1>3. CASE head # << >>
  <2>1. PICK i \in 1..Len(head) : StopsAt(i, s) /\ head' = Unlinked(i)
    BY <1>0, <1>3 DEF del_node
  <2>2. PICK K \in [DOMAIN Unlinked(i) -> DOMAIN head] :
          /\ \A a \in DOMAIN Unlinked(i) : K[a] # i /\ Unlinked(i)[a] = head[K[a]]
          /\ \A a, b \in DOMAIN Unlinked(i) : K[a] = K[b] => a = b
    BY <1>0, <2>1, UnlinkedNodes
  <2>3. ASSUME NEW k \in DOMAIN head, k # i PROVE head[k].socket # s
    <3>1. CASE k < i
      BY <1>0, <2>1, <2>3, <3>1 DEF StopsAt
    <3>2. CASE k > i
      BY <1>0, <2>1, <2>3, <3>2 DEF StopsAt, NodesInv, OnlineNodesLive
    <3> QED BY <1>0, <2>3, <3>1, <3>2
  <2>4. ASSUME NEW a \in DOMAIN head'
        PROVE  /\ K[a] \in DOMAIN head /\ head'[a] = head[K[a]] /\ head[K[a]].socket # s
               /\ head[K[a]].socket \in Socks
    BY <1>1, <2>1, <2>2, <2>3
  <2>5. ASSUME NEW a \in DOMAIN head'
        PROVE  /\ conn'[head'[a].socket] # "free" /\ who'[head'[a].socket] = head'[a].name
               /\ head'[a].name # None
    BY <1>0, <2>4 DEF NodesInv, OnlineNodesLive
  <2>6. ASSUME NEW a \in DOMAIN head', NEW b \in DOMAIN head', head'[a].socket = head'[b].socket
        PROVE  a = b
    <3>1. K[a] = K[b]
      BY <2>4, <2>6 DEF NodesInv, OnlineNodesLive
    <3> QED BY <2>1, <2>2, <3>1
  <2> QED BY <2>5, <2>6 DEF NodesInv, OnlineNodesLive
<1> QED BY <1>2, <1>3

\* What login leaves in the slot is neither zero nor a login.
LEMMA LoginSlot ==
  ASSUME TypeOK, login
  PROVE  message'.cmd \notin {0, 2}
<1> DEFINE n == message.from
           q == head_request[n]
<1>0. /\ message \in MSG /\ n \in KeyedLists /\ q \in Seq(request_node)
  BY DEF TypeOK, ProcType, ListType, MSG, KeyedLists
<1>1. CASE Reply(-2)
  BY <1>0, <1>1 DEF Reply, Listing, MSG
<1>2. CASE message' = [message EXCEPT !.cmd = 1002]
  BY <1>0, <1>2 DEF MSG
<1>3. CASE q # << >> /\ message' = Queued(message, q, Len(q))
  <2>1. q[Len(q)] \in request_node
    <3> HIDE DEF q
    <3>1. Len(q) \in 1..Len(q)
      BY <1>0, <1>3, EmptySeq, LenProperties
    <3> QED BY <1>0, <3>1, ElementOfSeq
  <2>2. q[Len(q)].type \in RequestType
    BY <2>1 DEF request_node
  <2> DEFINE t == q[Len(q)].type
  <2> HIDE DEF t
  <2>3. Command(t) \in {14, 23, 24, 311, 312, 321, 322}
    BY <2>2 DEF t, RequestType, Command
  <2>4. message'.cmd = Command(t)
    BY <1>0, <1>3 DEF t, Queued, MSG
  <2> QED BY <2>3, <2>4
<1> QED BY <1>1, <1>2, <1>3 DEF login

\* A successful login appends the node of a connection that has none.
LEMMA LoginKeeps ==
  ASSUME TypeOK, SessionInv, login
  PROVE  SessionInv'
<1>0. /\ head \in Seq(user_date) /\ DOMAIN head = 1..Len(head) /\ Len(head) \in Nat
      /\ conn \in [Socks -> {"free", "open", "closed", "reset", "broken"}]
      /\ who \in [Socks -> Name0] /\ cur \in Socks /\ message \in MSG
  BY LenProperties DEF TypeOK, ListType, ClientType, ProcType
<1>1. /\ pc = "dispatch" /\ conn[cur] # "free" /\ who[cur] = None /\ message.from # None
  BY DEF login, Handling, SessionInv, SlotInv, Running
<1>2. CASE Reply(-2)
  <2>1. -2 \in Int \ {0, 2}
    OBVIOUS
  <2> QED BY <1>0, <1>2, <2>1, ReplyQuiet, QuietKeeps DEF Reply
<1>3. CASE ~Reply(-2)
  <2>1. /\ head' = Append(head, [name |-> message.from, socket |-> cur])
        /\ who' = [who EXCEPT ![cur] = message.from] /\ Sent({cur})
        /\ UNCHANGED <<cur, inbox, filing>> /\ pc' \in {"wait", "sigpipe"}
    BY <1>3 DEF login, charu_list, clientVars, Sigpipe
  <2>2. ConnKept
    BY <2>1 DEF Sent, ConnKept
  <2>3. message'.cmd \notin {0, 2}
    BY LoginSlot
  <2> DEFINE u == [name |-> message.from, socket |-> cur]
             n == Len(head)
  <2>4. u \in user_date
    BY <1>0 DEF user_date, MSG
  <2>5. /\ DOMAIN head' = 1..(n + 1) /\ head'[n + 1] = u
        /\ \A i \in 1..n : head'[i] = head[i]
    <3> HIDE DEF u
    <3>1. head' \in Seq(user_date) /\ Len(head') = n + 1
      BY <1>0, <2>1, <2>4, AppendProperties DEF u
    <3>2. head'[n + 1] = u /\ \A i \in 1..n : head'[i] = head[i]
      BY <1>0, <2>1, <2>4, AppendProperties DEF u
    <3> QED BY <3>1, <3>2, LenProperties
  <2>6. ASSUME NEW i \in 1..n
        PROVE  /\ head[i].socket \in Socks /\ head[i].socket # cur
               /\ who[head[i].socket] = head[i].name /\ conn[head[i].socket] # "free"
               /\ head[i].name # None
               /\ \A j \in 1..n : head[j].socket = head[i].socket => j = i
    <3>1. head[i] \in user_date
      BY <1>0, ElementOfSeq
    <3>2. head[i].socket \in Socks
      BY <3>1 DEF user_date
    <3> QED BY <1>0, <1>1, <3>2 DEF SessionInv, NodesInv, OnlineNodesLive
  <2>7. NodesInv'
    <3>1. ASSUME NEW i \in 1..n
          PROVE  /\ conn'[head'[i].socket] # "free" /\ who'[head'[i].socket] = head'[i].name
                 /\ head'[i].name # None
      BY <1>0, <2>1, <2>2, <2>5, <2>6 DEF ConnKept
    <3>2. /\ conn'[head'[n + 1].socket] # "free" /\ head'[n + 1].name # None
          /\ who'[head'[n + 1].socket] = head'[n + 1].name
      BY <1>0, <1>1, <2>1, <2>2, <2>5 DEF ConnKept
    <3>3. \A i, j \in 1..(n + 1) : head'[i].socket = head'[j].socket => i = j
      <4>1. \A i \in 1..n : head'[i].socket # cur
        BY <2>5, <2>6
      <4>2. head'[n + 1].socket = cur
        BY <2>5
      <4> QED BY <1>0, <2>5, <2>6, <4>1, <4>2
    <3>4. \A i \in 1..(n + 1) : i \in 1..n \/ i = n + 1
      BY <1>0
    <3> HIDE DEF n
    <3> QED BY <2>5, <3>1, <3>2, <3>3, <3>4 DEF NodesInv, OnlineNodesLive
  <2>8. SlotInv' /\ BusyInv'
    BY <2>1, <2>3 DEF SlotInv, BusyInv, Running
  <2>9. ASSUME NEW s \in Socks PROVE InboxInv(s)' /\ FilingInv(s)'
    BY <1>0, <1>1, <2>1, <2>2 DEF SessionInv, InboxInv, FilingInv, ConnKept
  <2> QED BY <2>7, <2>8, <2>9 DEF SessionInv
<1> QED BY <1>2, <1>3

\* A request that is taken leaves the rest of its connection as it should be.
LEMMA TakenKeeps ==
  ASSUME TypeOK, NEW s \in Socks, InboxInv(s), RecvMSG(s), UNCHANGED who
  PROVE  /\ message' = inbox[s][1] /\ 1 \in DOMAIN inbox[s]
         /\ InboxInv(s)'
         /\ \A t \in Socks \ {s} : inbox'[t] = inbox[t]
<1> DEFINE q == inbox[s]
<1>0. /\ inbox \in [Socks -> Seq(MSG)] /\ q \in Seq(MSG) /\ q # << >>
  BY DEF TypeOK, ClientType, RecvMSG
<1>1. /\ Len(q) \in Nat /\ DOMAIN q = 1..Len(q) /\ Len(q) # 0
  BY <1>0, LenProperties, EmptySeq
<1>2. /\ Tail(q) \in Seq(MSG) /\ Len(Tail(q)) = Len(q) - 1
      /\ \A i \in 1..(Len(q) - 1) : Tail(q)[i] = q[i + 1]
  BY <1>0, HeadTailProperties
<1>3. DOMAIN Tail(q) = 1..(Len(q) - 1)
  BY <1>2, LenProperties
<1>4. Head(q) = q[1]
  BY <1>0
<1>5. inbox'[s] = Tail(q) /\ message' = Head(q) /\ \A t \in Socks \ {s} : inbox'[t] = inbox[t]
  BY <1>0 DEF RecvMSG
<1>6. ASSUME NEW i \in 1..(Len(q) - 1)
      PROVE  /\ i + 1 \in DOMAIN q /\ inbox'[s][i] = q[i + 1]
             /\ q[i + 1].cmd # 2
  <2>1. i + 1 \in DOMAIN q /\ inbox'[s][i] = q[i + 1] /\ Len(q) # 1
    BY <1>1, <1>2, <1>5
  <2> QED BY <2>1 DEF InboxInv
<1>7. InboxInv(s)'
  <2>1. DOMAIN inbox'[s] = 1..(Len(q) - 1)
    BY <1>3, <1>5
  <2> HIDE DEF q
  <2>2. ASSUME NEW i \in DOMAIN inbox'[s]
        PROVE  /\ inbox'[s][i].cmd \notin {0, 2}
               /\ inbox'[s][i].cmd # 1 => who'[s] # None
    BY <1>6, <2>1, <2>2 DEF InboxInv, q
  <2> QED BY <2>2 DEF InboxInv
<1> QED BY <1>1, <1>4, <1>5, <1>7

\* Passing a file on reads the connection of a user, or one that is at its end.
LEMMA FileKeeps ==
  ASSUME TypeOK, SessionInv, send_file \/ send_file_chunk \/ send_file_end
  PROVE  SessionInv'
<1>0. /\ head \in Seq(user_date) /\ \A i \in DOMAIN head : head[i].socket \in Socks
      /\ conn \in [Socks -> {"free", "open", "closed", "reset", "broken"}] /\ cur \in Socks
  <2>1. head \in Seq(user_date) /\ DOMAIN head = 1..Len(head)
    BY LenProperties DEF TypeOK, ListType
  <2>2. \A i \in DOMAIN head : head[i] \in user_date
    BY <2>1, ElementOfSeq
  <2> QED BY <2>1, <2>2 DEF user_date, TypeOK, ClientType, ProcType
<1>1. ASSUME ConnKept, UNCHANGED <<head, who>> PROVE NodesInv'
  BY <1>0, <1>1 DEF SessionInv, NodesInv, OnlineNodesLive, ConnKept
<1>2. CASE send_file
  <2>1. /\ UNCHANGED <<cur, message, inbox, filing, who, head>>
        /\ pc = "dispatch" /\ message.cmd = 6
        /\ pc' \in {"file", "sigpipe", "segv"}
    BY <1>2 DEF send_file, Handling, Segfault, Sigpipe, clientVars, netVars
  <2>2. ConnKept
    <3>1. ASSUME NEW S, Sent(S) PROVE ConnKept
      BY <3>1 DEF Sent, ConnKept
    <3>2. CASE conn' = conn
      BY <3>2 DEF ConnKept
    <3> QED BY <1>2, <3>1, <3>2 DEF send_file, Segfault, netVars
  <2>3. SlotInv' /\ BusyInv'
    BY <1>0, <2>1, <2>2 DEF SessionInv, SlotInv, BusyInv, Running, ConnKept
  <2>4. ASSUME NEW s \in Socks PROVE InboxInv(s)' /\ FilingInv(s)'
    BY <2>1, <2>2 DEF SessionInv, InboxInv, FilingInv, ConnKept
  <2> QED BY <1>1, <2>1, <2>2, <2>3, <2>4 DEF SessionInv
<1>3. CASE send_file_chunk
  <2>1. /\ UNCHANGED <<cur, filing, who, head>> /\ pc = "file" /\ RecvMSG(cur)
        /\ pc' \in {"file", "wait", "segv", "sigpipe"}
    BY <1>3 DEF send_file_chunk, Sigpipe
  <2>2. ConnKept
    <3>1. ASSUME NEW S, Sent(S) PROVE ConnKept
      BY <3>1 DEF Sent, ConnKept
    <3> QED BY <1>3, <3>1 DEF send_file_chunk
  <2>3. /\ message' = inbox[cur][1] /\ 1 \in DOMAIN inbox[cur]
        /\ InboxInv(cur)'
        /\ \A t \in Socks \ {cur} : inbox'[t] = inbox[t]
    BY <1>0, <2>1, TakenKeeps DEF SessionInv
  <2>4. who[cur] # None
    BY <2>1 DEF SessionInv, BusyInv, RecvMSG
  <2>5. message'.cmd \notin {0, 2}
    BY <1>0, <2>3, <2>4 DEF SessionInv, InboxInv
  <2>6. SlotInv' /\ BusyInv'
    BY <2>1, <2>4, <2>5 DEF SlotInv, BusyInv
  <2>7. ASSUME NEW s \in Socks PROVE InboxInv(s)' /\ FilingInv(s)'
    BY <2>1, <2>2, <2>3 DEF SessionInv, InboxInv, FilingInv, ConnKept
  <2> QED BY <1>1, <2>1, <2>2, <2>6, <2>7 DEF SessionInv
<1>4. CASE send_file_end
  <2>1. /\ UNCHANGED <<cur, message, inbox, filing, who, head>> /\ pc = "file" /\ pc' = "wait"
    BY <1>4 DEF send_file_end, clientVars
  <2>2. ConnKept
    BY <1>0, <1>4 DEF send_file_end, ConnKept
  <2>3. SlotInv' /\ BusyInv'
    BY <2>1 DEF SessionInv, SlotInv, BusyInv, Running
  <2>4. ASSUME NEW s \in Socks PROVE InboxInv(s)' /\ FilingInv(s)'
    BY <2>1, <2>2 DEF SessionInv, InboxInv, FilingInv, ConnKept
  <2> QED BY <1>1, <2>1, <2>2, <2>3, <2>4 DEF SessionInv
<1> QED BY <1>2, <1>3, <1>4

\* Accepting a connection, receiving from one and closing one keep the sessions.
LEMMA LoopKeeps ==
  ASSUME TypeOK, SessionInv, NEW s \in Socks, Loop(s)
  PROVE  SessionInv'
<1>0. /\ head \in Seq(user_date) /\ \A i \in DOMAIN head : head[i].socket \in Socks
      /\ conn \in [Socks -> {"free", "open", "closed", "reset", "broken"}]
      /\ who \in [Socks -> Name0] /\ inbox \in [Socks -> Seq(MSG)]
      /\ filing \in [Socks -> Seq(MSG)]
  <2>1. head \in Seq(user_date) /\ DOMAIN head = 1..Len(head)
    BY LenProperties DEF TypeOK, ListType
  <2>2. \A i \in DOMAIN head : head[i] \in user_date
    BY <2>1, ElementOfSeq
  <2> QED BY <2>1, <2>2 DEF user_date, TypeOK, ClientType
<1>1. CASE Accept(s)
  <2>1. /\ UNCHANGED <<pc, cur, message, inbox, filing, who, head>> /\ pc = "wait"
        /\ conn' = [conn EXCEPT ![s] = "open"]
    BY <1>1 DEF Accept, procVars
  <2>2. NodesInv'
    BY <1>0, <2>1 DEF SessionInv, NodesInv, OnlineNodesLive
  <2>3. SlotInv' /\ BusyInv'
    BY <2>1 DEF SessionInv, SlotInv, BusyInv, Running
  <2>4. ASSUME NEW t \in Socks PROVE InboxInv(t)' /\ FilingInv(t)'
    BY <1>0, <2>1 DEF SessionInv, InboxInv, FilingInv
  <2> QED BY <2>2, <2>3, <2>4 DEF SessionInv
<1>2. CASE Recv(s)
  <2>1. /\ UNCHANGED <<filing, conn, who, head>> /\ pc = "wait" /\ RecvMSG(s)
        /\ pc' = "dispatch" /\ cur' = s
    BY <1>2 DEF Recv, netVars
  <2>2. /\ message' = inbox[s][1] /\ 1 \in DOMAIN inbox[s]
        /\ InboxInv(s)'
        /\ \A t \in Socks \ {s} : inbox'[t] = inbox[t]
    BY <2>1, TakenKeeps DEF SessionInv
  <2>3. NodesInv'
    BY <2>1 DEF SessionInv, NodesInv, OnlineNodesLive
  <2>4. /\ message'.cmd # 0
        /\ message'.cmd \notin {1, 2} => who[s] # None
        /\ message'.cmd = 2 => message'.from # None /\ who[s] = None /\ conn[s] # "free"
    BY <2>2 DEF SessionInv, InboxInv
  <2>5. SlotInv' /\ BusyInv'
    BY <2>1, <2>4 DEF SlotInv, BusyInv
  <2>6. ASSUME NEW t \in Socks PROVE InboxInv(t)' /\ FilingInv(t)'
    BY <2>1, <2>2 DEF SessionInv, InboxInv, FilingInv
  <2> QED BY <2>3, <2>5, <2>6 DEF SessionInv
<1>3. CASE RecvEof(s)
  <2>1. /\ UNCHANGED <<inbox, message>> /\ pc = "wait" /\ inbox[s] = << >>
        /\ pc' = "dispatch" /\ cur' = s /\ del_node(s)
        /\ conn' = [conn EXCEPT ![s] = "free"] /\ who' = [who EXCEPT ![s] = None]
        /\ filing' = [filing EXCEPT ![s] = << >>]
    BY <1>3 DEF RecvEof, CloseFd
  <2>2. NodesInv'
    BY <2>1, DelNodeNodes DEF SessionInv
  <2>3. SlotInv' /\ BusyInv'
    BY <1>0, <2>1 DEF SessionInv, SlotInv, BusyInv, Running
  <2>4. ASSUME NEW t \in Socks PROVE InboxInv(t)' /\ FilingInv(t)'
    BY <1>0, <2>1 DEF SessionInv, InboxInv, FilingInv
  <2> QED BY <2>2, <2>3, <2>4 DEF SessionInv
<1>4. CASE RecvError(s)
  <2>1. /\ UNCHANGED <<message, inbox, filing, who, head>> /\ pc = "wait" /\ inbox[s] = << >>
        /\ pc' = "dispatch" /\ cur' = s /\ conn' = [conn EXCEPT ![s] = "broken"]
    BY <1>4 DEF RecvError, clientVars
  <2>2. NodesInv'
    BY <1>0, <2>1 DEF SessionInv, NodesInv, OnlineNodesLive
  <2>3. SlotInv' /\ BusyInv'
    BY <1>0, <2>1 DEF SessionInv, SlotInv, BusyInv, Running
  <2>4. ASSUME NEW t \in Socks PROVE InboxInv(t)' /\ FilingInv(t)'
    BY <1>0, <2>1 DEF SessionInv, InboxInv, FilingInv
  <2> QED BY <2>2, <2>3, <2>4 DEF SessionInv
<1> QED BY <1>1, <1>2, <1>3, <1>4 DEF Loop

\* A message is sent after what its connection holds already.
LEMMA SentLast ==
  ASSUME TypeOK, NEW s \in Socks, NEW m \in MSG, Send(s, m)
  PROVE  LET n == Len(inbox[s])
         IN  /\ n \in Nat /\ DOMAIN inbox[s] = 1..n
             /\ DOMAIN inbox'[s] = 1..(n + 1) /\ Len(inbox'[s]) = n + 1
             /\ inbox'[s][n + 1] = m /\ \A i \in 1..n : inbox'[s][i] = inbox[s][i]
             /\ \A t \in Socks \ {s} : inbox'[t] = inbox[t]
<1> DEFINE q == inbox[s]
<1>0. inbox \in [Socks -> Seq(MSG)] /\ q \in Seq(MSG)
  BY DEF TypeOK, ClientType
<1>1. inbox'[s] = Append(q, m) /\ \A t \in Socks \ {s} : inbox'[t] = inbox[t]
  BY <1>0 DEF Send
<1> HIDE DEF q
<1>2. /\ Append(q, m) \in Seq(MSG) /\ Len(Append(q, m)) = Len(q) + 1
      /\ \A i \in 1..Len(q) : Append(q, m)[i] = q[i] /\ Append(q, m)[Len(q) + 1] = m
      /\ Append(q, m)[Len(q) + 1] = m
  BY <1>0, AppendProperties
<1>3. DOMAIN Append(q, m) = 1..(Len(q) + 1) /\ Len(q) \in Nat /\ DOMAIN q = 1..Len(q)
  BY <1>0, <1>2, LenProperties
<1> QED BY <1>1, <1>2, <1>3 DEF q

\* A user's request, and a login on a connection without a user, keep the sessions.
LEMMA SendKeeps ==
  ASSUME TypeOK, SessionInv, NEW s \in Socks, NEW m \in MSG, Send(s, m), conn[s] = "open",
         \/ who[s] # None /\ m.cmd \notin {0, 1, 2}
         \/ LoggedOut(s) /\ m.cmd \in {1, 2} /\ m.from # None,
         \A t \in Socks : FilingInv(t)'
  PROVE  SessionInv'
<1>0. UNCHANGED <<pc, cur, message, conn, who, head>>
  BY DEF Send, procVars, netVars
<1>1. NodesInv'
  BY <1>0 DEF SessionInv, NodesInv, OnlineNodesLive
<1> DEFINE n == Len(inbox[s])
<1>2. /\ n \in Nat /\ DOMAIN inbox[s] = 1..n
      /\ DOMAIN inbox'[s] = 1..(n + 1) /\ Len(inbox'[s]) = n + 1
      /\ inbox'[s][n + 1] = m /\ \A i \in 1..n : inbox'[s][i] = inbox[s][i]
      /\ \A t \in Socks \ {s} : inbox'[t] = inbox[t]
  BY SentLast
<1> HIDE DEF n
<1>3. SlotInv'
  BY <1>0 DEF SessionInv, SlotInv, Running
<1>4. BusyInv'
  <2>1. cur \in Socks
    BY DEF TypeOK, ProcType
  <2> QED BY <1>0, <1>2, <2>1 DEF SessionInv, BusyInv
<1>5. InboxInv(s)'
  <2>1. CASE who[s] # None /\ m.cmd \notin {0, 1, 2}
    <3>1. ASSUME NEW i \in 1..(n + 1) PROVE inbox'[s][i].cmd \notin {0, 2}
      <4>1. CASE i \in 1..n
        BY <1>2, <2>1, <4>1 DEF SessionInv, InboxInv
      <4>2. CASE i = n + 1
        BY <1>2, <2>1, <4>2
      <4> QED BY <1>2, <4>1, <4>2
    <3> QED BY <1>0, <1>2, <2>1, <3>1 DEF InboxInv
  <2>2. CASE LoggedOut(s) /\ m.cmd \in {1, 2} /\ m.from # None
    <3>1. n = 0 /\ who[s] = None /\ conn[s] = "open" /\ ~(pc = "dispatch" /\ cur = s)
      BY <2>2, EmptySeq DEF LoggedOut, n
    <3>2. DOMAIN inbox'[s] = {1} /\ inbox'[s][1] = m /\ Len(inbox'[s]) = 1
      BY <1>2, <3>1
    <3> QED BY <1>0, <2>2, <3>1, <3>2 DEF InboxInv
  <2> QED BY <2>1, <2>2
<1>6. ASSUME NEW t \in Socks, t # s PROVE InboxInv(t)'
  <2>1. inbox'[t] = inbox[t] /\ InboxInv(t)
    BY <1>2, <1>6 DEF SessionInv
  <2> QED BY <1>0, <2>1 DEF InboxInv
<1> QED BY <1>1, <1>3, <1>4, <1>5, <1>6 DEF SessionInv

\* What a client does keeps the sessions, when it never asks for a forgotten
\* password.
LEMMA ClientKeeps ==
  ASSUME 0 \notin Menu, TypeOK, SessionInv, NEW s \in Socks, Client(s)
  PROVE  SessionInv'
<1>0. /\ conn \in [Socks -> {"free", "open", "closed", "reset", "broken"}]
      /\ who \in [Socks -> Name0] /\ filing \in [Socks -> Seq(MSG)] /\ reqs \in [Socks -> SUBSET MSG]
      /\ \A t \in Socks : FilingInv(t)
  BY DEF TypeOK, ClientType, SessionInv
<1>f. ASSUME UNCHANGED filing PROVE \A t \in Socks : FilingInv(t)'
  BY <1>0, <1>f DEF FilingInv
<1>m. ASSUME NEW m \in MSG, NEW c \in Int PROVE [m EXCEPT !.cmd = c] \in MSG /\ [m EXCEPT !.cmd = c].cmd = c
  BY DEF MSG
<1>1. CASE ClientAccount(s)
  <2>1. PICK c \in {0, 1, 2} \cap Menu, n \in Names, p \in Passwords :
          Send(s, [Msg(c, n, None, None) EXCEPT !.pw = IF c = 0 THEN None ELSE p])
    BY <1>1 DEF ClientAccount
  <2> DEFINE m == [Msg(c, n, None, None) EXCEPT !.pw = IF c = 0 THEN None ELSE p]
  <2>2. m \in MSG /\ m.cmd = c /\ m.from = n /\ c \in {1, 2} /\ n # None
    <3>1. c \in {1, 2} /\ n \in Name0 /\ None \in Name0 /\ None \in Group0 /\ n # None
      BY NoneAssumption DEF Name0, Group0
    <3>2. c \in Int /\ (IF c = 0 THEN None ELSE p) \in Password0
      BY <3>1 DEF Password0
    <3> QED BY <3>1, <3>2 DEF Msg, MSG
  <2>3. Send(s, m) /\ LoggedOut(s) /\ conn[s] = "open" /\ UNCHANGED filing
    BY <1>1, <2>1 DEF ClientAccount, LoggedOut
  <2> HIDE DEF m
  <2> QED BY <1>f, <2>2, <2>3, SendKeeps
<1>2. CASE ClientRequest(s)
  <2>1. PICK m \in Requests(who[s]) : Send(s, m)
    BY <1>2 DEF ClientRequest
  <2>2. m \in MSG
    <3>1. who[s] \in Name0
      BY <1>0
    <3> QED BY <3>1, RequestsType, Zenon
  <2>3. m.cmd \notin {0, 1, 2}
    <3>1. CASE m \in FriendMenu(who[s])
      BY <3>1 DEF FriendMenu, Msg
    <3>2. CASE m \in GroupMenu(who[s])
      BY <3>2 DEF GroupMenu, Msg
    <3>3. CASE m \in ManageMenu(who[s]) \cup CreateMenu(who[s])
      BY <3>3 DEF ManageMenu, CreateMenu, Msg
    <3> QED BY <3>1, <3>2, <3>3 DEF Requests
  <2>4. conn[s] = "open" /\ who[s] # None /\ UNCHANGED filing
    BY <1>2 DEF ClientRequest, LoggedIn
  <2> QED BY <1>f, <2>1, <2>2, <2>3, <2>4, SendKeeps
<1>3. CASE ClientAnswer(s)
  <2>1. PICK m \in reqs[s], c \in {311, 312, 321, 322} : Send(s, [m EXCEPT !.cmd = c])
    <3>1. PICK m \in reqs[s] :
            \/ /\ m.cmd = 14
               /\ \/ /\ Send(s, [m EXCEPT !.cmd = 311])
                     /\ consented' = consented \cup {<<m.to, m.from>>}
                  \/ Send(s, [m EXCEPT !.cmd = 312]) /\ UNCHANGED consented
            \/ /\ m.cmd = 23
               /\ \E c \in {321, 322} : Send(s, [m EXCEPT !.cmd = c])
               /\ UNCHANGED consented
      BY <1>3, Zenon DEF ClientAnswer
    <3>2. \E c \in {311, 312, 321, 322} : Send(s, [m EXCEPT !.cmd = c])
      BY <3>1
    <3> QED BY <3>2
  <2> DEFINE a == [m EXCEPT !.cmd = c]
  <2>2. a \in MSG /\ a.cmd = c
    <3>1. m \in MSG /\ c \in Int
      BY <1>0
    <3> QED BY <1>m, <3>1
  <2>3. conn[s] = "open" /\ who[s] # None /\ UNCHANGED filing
    BY <1>3 DEF ClientAnswer, LoggedIn
  <2>4. Send(s, a)
    BY <2>1
  <2> HIDE DEF a
  <2> QED BY <1>f, <2>2, <2>3, <2>4, SendKeeps
<1>4. CASE ClientFile(s)
  <2>0. conn[s] = "open" /\ who[s] # None
    BY <1>4 DEF ClientFile
  <2>1. ASSUME NEW m \in MSG, m.cmd = 6, Send(s, m), NEW f, f = << >> \/ \E k \in MSG : k.cmd = 6 /\ f = <<k>>,
               filing' = [filing EXCEPT ![s] = f]
        PROVE  SessionInv'
    <3>1. \A t \in Socks : FilingInv(t)'
      BY <1>0, <2>1 DEF FilingInv
    <3> QED BY <2>0, <2>1, <3>1, SendKeeps
  <2>2. ASSUME NEW u \in Name0, NEW n \in Name0
        PROVE  Msg(6, u, n, None) \in MSG /\ Msg(6, u, n, None).cmd = 6
    BY DEF Msg, MSG, Group0, Password0
  <2>3. CASE \E n \in Names : /\ Send(s, Msg(6, who[s], n, None))
                              /\ filing' = [filing EXCEPT ![s] = <<Msg(6, who[s], n, None)>>]
    <3>1. PICK n \in Names : /\ Send(s, Msg(6, who[s], n, None))
                             /\ filing' = [filing EXCEPT ![s] = <<Msg(6, who[s], n, None)>>]
      BY <2>3
    <3>2. who[s] \in Name0 /\ n \in Name0
      BY <1>0 DEF Name0
    <3> QED BY <2>1, <2>2, <3>1, <3>2
  <2>4. CASE /\ filing[s] # << >>
             /\ \E full \in BOOLEAN :
                  /\ Send(s, [filing[s][1] EXCEPT !.full = full])
                  /\ filing' = [filing EXCEPT ![s] = IF full THEN <<Msg(6, None, None, None)>>
                                                              ELSE << >>]
    <3>1. PICK full \in BOOLEAN :
                  /\ Send(s, [filing[s][1] EXCEPT !.full = full])
                  /\ filing' = [filing EXCEPT ![s] = IF full THEN <<Msg(6, None, None, None)>>
                                                              ELSE << >>]
      BY <2>4
    <3>2. filing[s][1] \in MSG /\ filing[s][1].cmd = 6
      <4>1. filing[s] \in Seq(MSG) /\ 1 \in DOMAIN filing[s] /\ 1 \in 1..Len(filing[s])
        BY <1>0, <2>4, LenProperties, EmptySeq
      <4> QED BY <1>0, <4>1, ElementOfSeq DEF FilingInv
    <3> DEFINE m == [filing[s][1] EXCEPT !.full = full]
               f == IF full THEN <<Msg(6, None, None, None)>> ELSE << >>
    <3>3. m \in MSG /\ m.cmd = 6
      BY <3>2 DEF MSG
    <3>4. f = << >> \/ \E k \in MSG : k.cmd = 6 /\ f = <<k>>
      BY <2>2 DEF Name0
    <3>5. Send(s, m) /\ filing' = [filing EXCEPT ![s] = f]
      BY <3>1
    <3> HIDE DEF m, f
    <3> QED BY <2>1, <3>3, <3>4, <3>5
  <2>5. CASE filing' = [filing EXCEPT ![s] = << >>] /\ UNCHANGED <<inbox, procVars, netVars, head>>
    <3>1. \A t \in Socks : FilingInv(t)'
      BY <1>0, <2>5 DEF FilingInv
    <3>2. UNCHANGED <<pc, cur, message, conn, who, inbox, head>>
      BY <2>5 DEF procVars, netVars
    <3> QED BY <3>1, <3>2
          DEF SessionInv, NodesInv, OnlineNodesLive, SlotInv, BusyInv, Running, InboxInv
  <2> QED BY <1>4, <2>3, <2>4, <2>5 DEF ClientFile
<1>5. CASE ClientClose(s)
  <2>1. UNCHANGED <<pc, cur, message, inbox, filing, who, head>> /\ conn[s] = "open"
    BY <1>5 DEF ClientClose, procVars, clientVars
  <2>2. ConnKept
    BY <1>0, <1>5 DEF ClientClose, ConnKept
  <2>3. NodesInv'
    <3>1. \A i \in DOMAIN head : head[i].socket \in Socks
      <4>1. head \in Seq(user_date) /\ DOMAIN head = 1..Len(head)
        BY LenProperties DEF TypeOK, ListType
      <4>2. \A i \in DOMAIN head : head[i] \in user_date
        BY <4>1, ElementOfSeq
      <4> QED BY <4>2 DEF user_date
    <3> QED BY <2>1, <2>2, <3>1 DEF SessionInv, NodesInv, OnlineNodesLive, ConnKept
  <2>4. SlotInv' /\ BusyInv'
    <3>1. cur \in Socks
      BY DEF TypeOK, ProcType
    <3> QED BY <2>1, <2>2, <3>1 DEF SessionInv, SlotInv, BusyInv, Running, ConnKept
  <2>5. ASSUME NEW t \in Socks PROVE InboxInv(t)' /\ FilingInv(t)'
    BY <2>1, <2>2 DEF SessionInv, InboxInv, FilingInv, ConnKept
  <2> QED BY <2>3, <2>4, <2>5 DEF SessionInv
<1> QED BY <1>1, <1>2, <1>3, <1>4, <1>5 DEF Client

\* Every step keeps the sessions.
LEMMA StepSessions ==
  ASSUME 0 \notin Menu, TypeOK, SessionInv, [Next]_vars
  PROVE  SessionInv'
<1>1. ASSUME NEW s \in Socks, Loop(s) \/ Client(s) PROVE SessionInv'
  BY <1>1, LoopKeeps, ClientKeeps
<1>2. CASE chuli_request
  <2>1. CASE ~login /\ ~send_file
    BY <1>2, <2>1, QuietHandlers, QuietKeeps DEF SessionInv, SlotInv
  <2> QED BY <2>1, LoginKeeps, FileKeeps
<1>3. CASE send_file_chunk \/ send_file_end
  BY <1>3, FileKeeps
<1>4. CASE Die \/ Shutdown
  <2>1. Stop
    BY <1>4 DEF Die, Shutdown
  <2>2. NodesInv' /\ SlotInv' /\ BusyInv'
    BY <2>1 DEF Stop, NodesInv, OnlineNodesLive, SessionInv, SlotInv, BusyInv, Running
  <2>3. ASSUME NEW s \in Socks PROVE InboxInv(s)' /\ FilingInv(s)'
    BY <2>1 DEF Stop, Disconnected, InboxInv, FilingInv
  <2> QED BY <2>2, <2>3 DEF SessionInv
<1>5. CASE Restart
  <2>1. UNCHANGED <<conn, who, head, inbox, filing>> /\ pc' = "wait"
    BY <1>5 DEF Restart, clientVars, netVars
  <2>2. message'.cmd # 2 /\ message'.from = None
    BY <1>5 DEF Restart, UninitialisedMSG, ZeroMSG, Msg
  <2> QED BY <2>1, <2>2
        DEF SessionInv, NodesInv, OnlineNodesLive, SlotInv, BusyInv, InboxInv, FilingInv
<1>6. CASE UNCHANGED vars
  BY <1>6 DEF vars, procVars, clientVars, netVars, SessionInv, NodesInv, OnlineNodesLive, SlotInv,
              BusyInv, InboxInv, FilingInv, Running
<1> QED BY <1>1, <1>2, <1>3, <1>4, <1>5, <1>6 DEF Next

\* Nobody who is gone stays in the list of users online: each of its nodes is a
\* connection of its own, held and logged in under that name, whatever del_node
\* drops with the node it is after.  It is assumed that no client asks for a
\* forgotten password: the answer 2 to a name, left in the slot, is a login for
\* the next descriptor that is closed.
THEOREM SessionsLive ==
  ASSUME 0 \notin Menu
  PROVE  Spec => []OnlineNodesLive
<1>1. Init => SessionInv
  <2> SUFFICES ASSUME Init PROVE SessionInv
    OBVIOUS
  <2>1. message.cmd # 2 /\ message.from = None
    BY DEF Init, UninitialisedMSG, ZeroMSG, Msg
  <2> QED BY <2>1 DEF Init, SessionInv, NodesInv, OnlineNodesLive, SlotInv, BusyInv, InboxInv, FilingInv
<1>2. TypeOK /\ SessionInv /\ [Next]_vars => SessionInv'
  BY StepSessions
<1>3. SessionInv => OnlineNodesLive
  BY DEF SessionInv, NodesInv
<1> QED BY <1>1, <1>2, <1>3, TypeCorrect, PTL DEF Spec
=============================================================================
