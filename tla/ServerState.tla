---------------------------- MODULE ServerState ----------------------------
(***************************************************************************)
(* The state of the chat server of Code/huqingwei/chat_room/epoll.c and    *)
(* the helpers its handlers share.                                         *)
(*                                                                         *)
(* The server is one thread around epoll_wait.  It mirrors four MySQL      *)
(* tables in linked lists, keeps the list `head' of the users that are     *)
(* online and the list `head_request' of the requests for users that are   *)
(* not.  A handler runs to its end before the next event is looked at, so  *)
(* it is one action.                                                       *)
(*                                                                         *)
(* Lists and tables are grouped by the key that every search compares:     *)
(* rows with different keys never meet in the code, rows with the same key *)
(* keep their order.                                                       *)
(***************************************************************************)
EXTENDS Integers, Sequences, FiniteSets

CONSTANTS Names,       \* user names
          Groups,      \* group names
          Socks,       \* descriptors that accept can return
          Passwords,   \* passwords users type
          None,        \* the string of a zeroed field
          DbMayFail    \* whether MySQL may refuse an insert, update or delete

ASSUME NoneAssumption == None \notin Names \cup Groups \cup Passwords
ASSUME DbAssumption == DbMayFail \in BOOLEAN

VARIABLES pc,       \* where main is
          cur,      \* the descriptor of the event being handled
          message,  \* main's MSG, a stack slot that no iteration clears
          filedst,  \* send_file's `current': the descriptor it forwards to
          conn,     \* the connection behind a descriptor
          inbox,    \* requests sent by the client and not yet received
          filing,   \* the MSG of a client inside its own send_file
          who,      \* the name the client logged in with
          reqs,     \* requests (14, 23) that reached the client
          head,                                             \* users online
          head_user, user,                                  \* list, table
          head_friends, friend,                             \* list, table
          head_user_groups, user_groups,                    \* list, table
          head_group_relationship, group_relationship,      \* list, table
          head_request,                                     \* list only
          left,     \* bound: connections and requests still to come
          consented \* history: <<u, f>> when u asked for or accepted f

procVars == <<pc, cur, message, filedst>>
clientVars == <<inbox, filing, consented, left>>
netVars == <<conn, who>>
userVars == <<head_user, user>>
friendVars == <<head_friends, friend>>
groupVars == <<head_user_groups, user_groups>>
relVars == <<head_group_relationship, group_relationship>>
dataVars == <<userVars, friendVars, groupVars, relVars>>
vars == <<procVars, clientVars, netVars, reqs, head, head_request, dataVars>>

Name0 == Names \cup {None}
Group0 == Groups \cup {None}
Password0 == Passwords \cup {None}

(***************************************************************************)
(* The fields of MSG that decide something.  `from' stands for             *)
(* user_infor.name, from_name and group.group_owner: each command reads    *)
(* one of them and the client fills in its own name.  `grp' stands for     *)
(* to_group_name and group.group_name.  `full' says once_len >= 1024.      *)
(***************************************************************************)
MSG == [cmd : Int, from : Name0, to : Name0, grp : Group0,
        pw : Password0, full : BOOLEAN]

Msg(c, f, t, g) == [cmd |-> c, from |-> f, to |-> t, grp |-> g,
                    pw |-> None, full |-> FALSE]

\* A zeroed MSG; `cmd' 0 is forget_password.
ZeroMSG == Msg(0, None, None, None)

\* What main finds in the slot before the first recv: fresh stack pages are
\* zero, and what the loader may have left there is no command.
UninitialisedMSG == {ZeroMSG, [ZeroMSG EXCEPT !.cmd = -1]}

RequestType == {"f", "y", "n", "g", "o", "x", "q"}
request_node == [from_name : Name0, type : RequestType, to_group_name : Group0]
user_date == [name : Name0, socket : Socks]

-----------------------------------------------------------------------------
(* The list of users online                                                *)

\* `head' is searched by name from its first node on.
IsFirst(i, n) == /\ i \in DOMAIN head
                 /\ head[i].name = n
                 /\ \A j \in DOMAIN head : j < i => head[j].name # n

\* The socket a search for n ends at: at most one, none when n is offline.
TargetSocks(n) == {s \in Socks : \E i \in DOMAIN head :
                                   IsFirst(i, n) /\ head[i].socket = s}

Online(n) == \E i \in DOMAIN head : head[i].name = n

\* (fault: date.socket is never assigned)
CharuListNoSocket(n, s) == Append(head, [name |-> n, socket |-> None])

charu_list(n, s) == Append(head, [name |-> n, socket |-> s])

\* Where del_node's search stops: the first node but the last that has the
\* socket, and the last node when none of them has it.
StopsAt(i, s) == /\ i \in DOMAIN head
                 /\ \A j \in 1..(i - 1) : head[j].socket # s
                 /\ i = Len(head) \/ head[i].socket = s

\* (fault: when prev == head, only the first node is unlinked)
UnlinkedHead(i) == SubSeq(head, 2, Len(head))

\* `prev == head' holds for the first node and for the second.
Unlinked(i) == IF i <= 2 THEN SubSeq(head, i + 1, Len(head))
                         ELSE SubSeq(head, 1, i - 1) \o SubSeq(head, i + 1, Len(head))

del_node(s) == IF head = << >>
                 THEN head' = head
                 ELSE \E i \in DOMAIN head : StopsAt(i, s) /\ head' = Unlinked(i)

-----------------------------------------------------------------------------
(* Rows of a list or table under one key                                   *)

\* (fault: nothing is linked when *phead == NULL)
WeichaListLosesFirst(rows, v) == IF rows = << >> THEN rows ELSE Append(rows, v)

\* The new row goes to the end of its list.
weicha_list(rows, v) == Append(rows, v)

\* while(current != NULL) ... free or unlink, break: the first row only.
DeleteFirst(rows) == IF rows = << >> THEN rows ELSE Tail(rows)
\* delete from ... where: every row.
DeleteRows(rows) == << >>
\* current->... = v : the first row only.
UpdateFirst(rows, v) == IF rows = << >> THEN rows ELSE [rows EXCEPT ![1] = v]
\* update ... where: every row.
UpdateRows(rows, v) == [i \in DOMAIN rows |-> v]

\* The field of a two-level table.
Row(t, k1, k2, rows) == [t EXCEPT ![k1][k2] = rows]

\* (fault: a descriptor whose client has hung up is not read any more)
RecvFromOpen(s) == /\ conn[s] = "open" /\ inbox[s] # << >>
                   /\ message' = Head(inbox[s])
                   /\ inbox' = [inbox EXCEPT ![s] = Tail(@)]

\* recv returns a whole MSG of the connection s into the slot.
RecvMSG(s) == /\ inbox[s] # << >>
              /\ message' = Head(inbox[s])
              /\ inbox' = [inbox EXCEPT ![s] = Tail(@)]

-----------------------------------------------------------------------------
(* How a handler ends                                                      *)

Handling(c) == pc = "dispatch" /\ message.cmd = c

\* A send to a peer that has gone succeeds or fails once and breaks the
\* connection: the next one raises SIGPIPE, whose default action ends the
\* process.  A send to a descriptor already closed only fails.
Sent(S) == conn' = [s \in Socks |-> IF s \in S /\ conn[s] \in {"closed", "reset"}
                                      THEN "broken" ELSE conn[s]]

\* Sending to S, to the sockets in M more than once, may raise SIGPIPE.
Sigpipe(S, M) == /\ pc' = "sigpipe"
                 /\ \/ \E s \in S : conn[s] = "broken"
                    \/ \E s \in M : conn[s] \in {"closed", "reset"}

\* The handler has sent to S, to M more than once, and returns to main.
ReturnMany(S, M) == /\ pc' = "wait" \/ Sigpipe(S, M)
                    /\ Sent(S)
                    /\ UNCHANGED <<cur, filedst, clientVars, who>>

Return(S) == ReturnMany(S, {})

\* message->cmd = c; send(conn_fd, message, ...), n times; return;
Listing(c, n) == /\ message' = [message EXCEPT !.cmd = c]
                 /\ ReturnMany({cur}, IF n > 1 THEN {cur} ELSE {})
                 /\ UNCHANGED <<reqs, head, head_request, dataVars>>

Reply(c) == Listing(c, 1)

\* A NULL pointer is dereferenced.
Segfault == pc' = "segv" /\ UNCHANGED <<cur, message, filedst, clientVars, netVars, reqs>>

\* mysql_real_query fails and the handler calls exit(1).
ExitOnError == /\ DbMayFail
               /\ pc' = "exit"
               /\ UNCHANGED <<cur, message, filedst, clientVars, netVars, reqs>>

\* Send the slot m to the user named n, if online: requests stay with the client.
Forward(m, n) == reqs' = [s \in Socks |-> IF s \in TargetSocks(n) /\ conn[s] = "open"
                                             /\ m.cmd \in {14, 23}
                                            THEN reqs[s] \cup {m} ELSE reqs[s]]

\* Append a request_node under the name (or group) it is kept for.
Queue(k, f, t, g) ==
  head_request' = [head_request EXCEPT
                     ![k] = Append(@, [from_name |-> f, type |-> t, to_group_name |-> g])]
=============================================================================
