----------------------------- MODULE ChatServer -----------------------------
(***************************************************************************)
(* main of Code/huqingwei/chat_room/epoll.c with the handlers it           *)
(* dispatches to, the clients of client1.c as far as the server can see    *)
(* them, and the process's life: it stops, crashes and is started again    *)
(* over the same database.                                                 *)
(***************************************************************************)
EXTENDS ServerAccount, ServerFriend, ServerGroup, ServerFile

CONSTANTS Registered,   \* the accounts in the database at the start
          Menu,         \* the commands the users of an instance choose
          MayReset,     \* whether a connection may end in a reset
          MaxInflight,  \* bound: requests sent and not yet received
          MaxEvents     \* bound: connections made and requests sent

ASSUME RegisteredAssumption == Registered \subseteq Names
ASSUME MenuAssumption == Menu \subseteq Int
ASSUME ResetAssumption == MayReset \in BOOLEAN
ASSUME BoundsAssumption == MaxInflight \in Nat /\ MaxEvents \in Nat

KeyedLists == Name0 \cup Group0

Running == pc \in {"wait", "dispatch", "file"}

ProcType ==
  /\ pc \in {"down", "wait", "dispatch", "file", "segv", "exit", "sigpipe"}
  /\ cur \in Socks
  /\ message \in MSG
  /\ filedst \in SUBSET Socks

ClientType ==
  /\ conn \in [Socks -> {"free", "open", "closed", "reset", "broken"}]
  /\ inbox \in [Socks -> Seq(MSG)]
  /\ filing \in [Socks -> Seq(MSG)]
  /\ who \in [Socks -> Name0]
  /\ reqs \in [Socks -> SUBSET MSG]
  /\ left \in 0..MaxEvents
  /\ consented \in SUBSET (Name0 \X Name0)

ListType ==
  /\ head \in Seq(user_date)
  /\ head_user \in [Name0 -> Seq(Password0)]
  /\ head_friends \in [Name0 -> [Name0 -> Seq({0, 1})]]
  /\ head_user_groups \in [Group0 -> Seq(Name0)]
  /\ head_group_relationship \in [Group0 -> [Name0 -> Seq({1, 2, 3})]]
  /\ head_request \in [KeyedLists -> Seq(request_node)]

TableType ==
  /\ user \in [Name0 -> Seq(Password0)]
  /\ friend \in [Name0 -> [Name0 -> Seq({0, 1})]]
  /\ user_groups \in [Group0 -> Seq(Name0)]
  /\ group_relationship \in [Group0 -> [Name0 -> Seq({1, 2, 3})]]

\* Every variable keeps its type: a slot, list or table of epoll.c never holds
\* something no handler can have put there.
TypeOK == ProcType /\ ClientType /\ ListType /\ TableType

-----------------------------------------------------------------------------
(* The process                                                             *)

\* read_mysql_user, _friend, _user_groups and _group_relationship.
ReadTables == /\ head_user' = user
              /\ head_friends' = friend
              /\ head_user_groups' = user_groups
              /\ head_group_relationship' = group_relationship

Init ==
  /\ pc = "wait"
  /\ cur \in Socks
  /\ message \in UninitialisedMSG
  /\ filedst = {}
  /\ conn = [s \in Socks |-> "free"]
  /\ inbox = [s \in Socks |-> << >>]
  /\ filing = [s \in Socks |-> << >>]
  /\ who = [s \in Socks |-> None]
  /\ reqs = [s \in Socks |-> {}]
  /\ \E p \in Passwords :
       user = [n \in Name0 |-> IF n \in Registered THEN <<p>> ELSE << >>]
  /\ friend = [u \in Name0 |-> [f \in Name0 |-> << >>]]
  /\ user_groups = [g \in Group0 |-> << >>]
  /\ group_relationship = [g \in Group0 |-> [u \in Name0 |-> << >>]]
  /\ head_user = user
  /\ head_friends = friend
  /\ head_user_groups = user_groups
  /\ head_group_relationship = group_relationship
  /\ head = << >>
  /\ head_request = [k \in KeyedLists |-> << >>]
  /\ left = MaxEvents
  /\ consented = {}

\* The kernel closes the descriptors of a process that is gone.
Disconnected == /\ conn' = [s \in Socks |-> "free"]
                /\ inbox' = [s \in Socks |-> << >>]
                /\ filing' = [s \in Socks |-> << >>]
                /\ who' = [s \in Socks |-> None]
                /\ reqs' = [s \in Socks |-> {}]

\* The process ends: its memory and its connections go, the tables stay.
Stop ==
  /\ pc' = "down"
  /\ Disconnected
  /\ head' = << >>
  /\ head_request' = [k \in KeyedLists |-> << >>]
  /\ UNCHANGED <<cur, message, filedst, consented, left, dataVars>>

Die == pc \in {"segv", "exit", "sigpipe"} /\ Stop

\* SIGINT: epoll_wait is interrupted and main leaves its loop.
Shutdown == pc = "wait" /\ Stop

\* main from its first line to the loop.
Restart ==
  /\ pc = "down"
  /\ pc' = "wait"
  /\ message' \in UninitialisedMSG
  /\ ReadTables
  /\ UNCHANGED <<cur, filedst, clientVars, netVars, reqs, head, head_request,
                 user, friend, user_groups, group_relationship>>

-----------------------------------------------------------------------------
(* The loop                                                                *)

\* One of the MaxEvents connections and requests of an instance.
Spend == left > 0 /\ left' = left - 1

Accept(s) ==
  /\ pc = "wait"
  /\ conn[s] = "free"
  /\ conn' = [conn EXCEPT ![s] = "open"]
  /\ Spend
  /\ UNCHANGED <<procVars, inbox, filing, consented, who, reqs, head, head_request, dataVars>>

\* recv returns a whole MSG.
Recv(s) ==
  /\ pc = "wait"
  /\ RecvMSG(s)
  /\ pc' = "dispatch"
  /\ cur' = s
  /\ UNCHANGED <<filedst, filing, consented, left, netVars, reqs, head, head_request, dataVars>>

\* (fault: the descriptor is not closed)
KeepOpen(s) == conn' = conn

\* epoll_ctl(epfd, EPOLL_CTL_DEL, fd, NULL); close(fd);
CloseFd(s) == conn' = [conn EXCEPT ![s] = "free"]

\* recv returns 0: the user leaves the list, the descriptor is closed, and
\* chuli_request is called all the same, with the MSG of an earlier event.
RecvEof(s) ==
  /\ pc = "wait"
  /\ conn[s] \in {"closed", "broken"} /\ inbox[s] = << >>
  /\ del_node(s)
  /\ CloseFd(s)
  /\ who' = [who EXCEPT ![s] = None]
  /\ reqs' = [reqs EXCEPT ![s] = {}]
  /\ filing' = [filing EXCEPT ![s] = << >>]
  /\ pc' = "dispatch"
  /\ cur' = s
  /\ UNCHANGED <<message, filedst, inbox, consented, left, head_request, dataVars>>

\* recv returns -1 (ECONNRESET), once: again an earlier MSG is dispatched.
RecvError(s) ==
  /\ pc = "wait"
  /\ conn[s] = "reset" /\ inbox[s] = << >>
  /\ conn' = [conn EXCEPT ![s] = "broken"]
  /\ pc' = "dispatch"
  /\ cur' = s
  /\ UNCHANGED <<message, filedst, clientVars, who, reqs, head, head_request, dataVars>>

Commands == {0, 1, 2, 5, 6, 11, 12, 13, 14, 15, 21, 22, 23, 24,
             251, 252, 253, 311, 312, 321, 322}

\* chuli_request without a case for the command.
no_case ==
  /\ pc = "dispatch"
  /\ message.cmd \notin Commands
  /\ pc' = "wait"
  /\ UNCHANGED <<cur, message, filedst, clientVars, netVars, reqs, head, head_request, dataVars>>

chuli_request ==
  \/ forget_password \/ reg \/ login
  \/ all_friends \/ online_friend \/ private_chat \/ add_friend \/ delete_friend
  \/ view_group \/ public_chat \/ add_group \/ quit_group
  \/ view_group_member \/ break_group \/ set_manager
  \/ deal_friend_request_y \/ deal_friend_request_n
  \/ deal_group_request_y \/ deal_group_request_n
  \/ create_group \/ send_file \/ no_case

-----------------------------------------------------------------------------
(* The clients                                                             *)

\* A client that has not logged in waits for the answer to what it sent.
LoggedOut(s) == /\ conn[s] = "open" /\ who[s] = None
                /\ inbox[s] = << >> /\ ~(pc = "dispatch" /\ cur = s)

LoggedIn(s) == conn[s] = "open" /\ who[s] # None /\ filing[s] = << >>

Inflight == Cardinality(UNION {{t} \X DOMAIN inbox[t] : t \in Socks})

Send(s, m) == /\ Spend
              /\ Inflight < MaxInflight
              /\ inbox' = [inbox EXCEPT ![s] = Append(@, m)]
              /\ UNCHANGED <<procVars, netVars, reqs, head, head_request, dataVars>>

\* reg, login and forget_password of the client.
ClientAccount(s) ==
  /\ LoggedOut(s)
  /\ \E c \in {0, 1, 2} \cap Menu, n \in Names, p \in Passwords :
       Send(s, [Msg(c, n, None, None) EXCEPT !.pw = IF c = 0 THEN None ELSE p])
  /\ UNCHANGED <<filing, consented>>

\* What the menus of the client let a user send: the command and nobody, a
\* user, a group, or both.
FriendMenu(u) == {Msg(c, u, None, None) : c \in {11, 12} \cap Menu}
                   \cup {Msg(c, u, n, None) : c \in {13, 14, 15} \cap Menu, n \in Names}

GroupMenu(u) == {Msg(c, u, None, None) : c \in {21} \cap Menu}
                  \cup {Msg(c, u, None, g) : c \in {22, 23, 24} \cap Menu, g \in Groups}

ManageMenu(u) == {Msg(c, u, None, g) : c \in {251, 252} \cap Menu, g \in Groups}
                   \cup {Msg(c, u, n, g) : c \in {253} \cap Menu, n \in Names, g \in Groups}

CreateMenu(u) == {Msg(c, u, None, g) : c \in {5} \cap Menu, g \in Groups}

Requests(u) == FriendMenu(u) \cup GroupMenu(u) \cup ManageMenu(u) \cup CreateMenu(u)

ClientRequest(s) ==
  /\ LoggedIn(s)
  /\ \E m \in Requests(who[s]) :
       /\ Send(s, m)
       /\ consented' = consented \cup (IF m.cmd = 14 THEN {<<m.from, m.to>>} ELSE {})
  /\ UNCHANGED filing

\* The request shown to the user goes back as the answer, with its cmd
\* changed; del_head leaves it at the head of the client's list.
ClientAnswer(s) ==
  /\ LoggedIn(s)
  /\ \E m \in reqs[s] :
       \/ /\ m.cmd = 14
          /\ \/ /\ Send(s, [m EXCEPT !.cmd = 311])
                /\ consented' = consented \cup {<<m.to, m.from>>}
             \/ Send(s, [m EXCEPT !.cmd = 312]) /\ UNCHANGED consented
       \/ /\ m.cmd = 23
          /\ \E c \in {321, 322} : Send(s, [m EXCEPT !.cmd = c])
          /\ UNCHANGED consented
  /\ UNCHANGED filing

\* send_file of the client: the header, then the chunks, each but the first
\* in a zeroed MSG; a file may be empty or end on a full chunk.
ClientFile(s) ==
  /\ conn[s] = "open" /\ who[s] # None
  /\ \/ /\ filing[s] = << >> /\ 6 \in Menu
        /\ \E n \in Names : LET m == Msg(6, who[s], n, None)
                            IN  Send(s, m) /\ filing' = [filing EXCEPT ![s] = <<m>>]
     \/ /\ filing[s] # << >>
        /\ \E full \in BOOLEAN :
             /\ Send(s, [filing[s][1] EXCEPT !.full = full])
             /\ filing' = [filing EXCEPT ![s] = IF full THEN <<Msg(6, None, None, None)>>
                                                         ELSE << >>]
     \/ /\ filing[s] # << >>
        /\ filing' = [filing EXCEPT ![s] = << >>]
        /\ UNCHANGED <<inbox, left, procVars, netVars, reqs, head, head_request, dataVars>>
  /\ UNCHANGED consented

\* The client closes; when it has not read all that was sent to it, or more is
\* on its way, its kernel resets the connection, in place of or after the FIN.
ClientClose(s) ==
  /\ conn[s] = "open"
  /\ \/ conn' = [conn EXCEPT ![s] = "closed"]
     \/ MayReset /\ \E c \in {"reset", "broken"} : conn' = [conn EXCEPT ![s] = c]
  /\ UNCHANGED <<procVars, clientVars, who, reqs, head, head_request, dataVars>>

-----------------------------------------------------------------------------
Loop(s) == Accept(s) \/ Recv(s) \/ RecvEof(s) \/ RecvError(s)

Client(s) == \/ ClientAccount(s) \/ ClientRequest(s) \/ ClientAnswer(s)
             \/ ClientFile(s) \/ ClientClose(s)

Next == \/ \E s \in Socks : Loop(s) \/ Client(s)
        \/ chuli_request \/ send_file_chunk \/ send_file_end
        \/ Die \/ Shutdown \/ Restart

Spec == Init /\ [][Next]_vars
=============================================================================
