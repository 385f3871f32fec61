------------------------------ MODULE LtServer ------------------------------
(***************************************************************************)
(* The chat server of Code/liuting1/chatroom (server_init.c,               *)
(* server_deal.c), with the clients that talk to it.                       *)
(*                                                                         *)
(* One thread around epoll_wait: an event is one action.  The server sees  *)
(* of the network only the order in which packets and disconnections       *)
(* arrive, so a client's send and the server's recv are one step too.      *)
(*                                                                         *)
(* recv_PACK receives into a local variable that nothing initialises: at   *)
(* the end of a connection, and after a failed recv, it holds the last     *)
(* packet of any client.                                                   *)
(***************************************************************************)
EXTENDS LtTables

CONSTANTS Registered,  \* accounts that exist at the beginning
          Befriended,  \* pairs that are friends at the beginning
          Menu,        \* packet types that the users of an instance choose
          MayMistype,  \* whether passwords are mistyped
          MayReset,    \* whether a client may die with unread packets
          MaxEvents    \* bound: connections and packets in a behaviour

ASSUME RegisteredAssumption == Registered \in 0..MaxId
ASSUME FriendsAssumption == Befriended \subseteq Ids \X Ids
ASSUME MenuAssumption == Menu \subseteq Nat
ASSUME SwitchAssumption == MayMistype \in BOOLEAN /\ MayReset \in BOOLEAN
ASSUME BoundAssumption == MaxEvents \in Nat

VARIABLES pc,      \* "run" or "down"
          pack,    \* recv_PACK's stack slot
          g,       \* the cache g[100], by the account that sends
          group_send_account, group_send_name,   \* the last group's name
          off,     \* the list phead .. pend, by the account it waits for
          file_send_account, f,                  \* the last file's receiver
          conn,    \* the connection behind a descriptor
          who,     \* the account its client is logged in with, 0 for none
          inbox,   \* its socket in the login menu, its friend requests later
          left,    \* bound: events still to come
          nsent, nhanded,   \* history: chats for an account, of them sent on
          asked, accepted   \* history: who asked for a friend, who agreed

nameVars == <<group_send_account, group_send_name>>
fileVars == <<file_send_account, f>>
chatVars == <<nsent, nhanded>>
askVars == <<asked, accepted>>
vars == <<tables, mysql, pc, pack, g, nameVars, off, fileVars, conn, who, inbox, left,
          chatVars, askVars>>

\* The fields of PACK that decide something: `set' is the account written in
\* `mes'; `flag' says of `mes' that it is the right password, "success" or
\* "Bye".
PACK == [type : Nat, account : Nat, send_account : Nat, set : Nat, flag : BOOLEAN]

Pack(t, a, b, m, k) == [type |-> t, account |-> a, send_account |-> b, set |-> m, flag |-> k]

\* A zeroed stack: no command, and an account that nobody has.
NoPack == Pack(99, 0, 0, 0, FALSE)

\* A packet of the server: where it is sent, its type, whom it is from, and
\* for a chat its number among those for the same account.
Out(s, t, a, n) == [to |-> s, type |-> t, from |-> a, n |-> n]

-----------------------------------------------------------------------------
(* Sending                                                                 *)

Hits(out, s) == {i \in DOMAIN out : out[i].to = s}

\* A send to a peer that has gone breaks the connection and the next one
\* may raise SIGPIPE, which ends the process; a send to a descriptor that is
\* closed, or no socket, only fails.
Sigpipe(c, out) == \E s \in Fds : \/ c[s] = "broken" /\ Hits(out, s) # {}
                                  \/ /\ c[s] \in {"closed", "reset"}
                                     /\ \E i, j \in Hits(out, s) : i # j

Transmit(c, out) ==
  /\ pc' = "run" \/ (Sigpipe(c, out) /\ pc' = "down")
  /\ conn' = [s \in Fds |-> IF Hits(out, s) # {} /\ c[s] \in {"closed", "reset"}
                              THEN "broken" ELSE c[s]]

\* A client in the main menu takes packets at once and keeps the friend
\* requests; one in the login menu leaves everything in the socket.
Stays(o, s, a) == o.to = s /\ (a = 0 \/ (o.type = 4 /\ o.from # a))

Arriving(out, s, a) ==
  LET kept[i \in 0..Len(out)] ==
        IF i = 0 THEN << >>
        ELSE IF Stays(out[i], s, a) THEN Append(kept[i - 1], out[i]) ELSE kept[i - 1]
  IN  kept[Len(out)]

\* The handler sends the packets `out' to clients that have `box', and returns.
SendTo(box, c, out) ==
  /\ Transmit(c, out)
  /\ inbox' = [s \in Fds |-> IF c[s] = "open" THEN box[s] \o Arriving(out, s, who[s])
                                              ELSE box[s]]
  /\ who' = who

Send(c, out) == SendTo(inbox, c, out)

\* One packet to cli_fd.
Reply(c, s, t) == Send(c, <<Out(s, t, 0, 0)>>)

Closed(b) == mysql' = ~b

-----------------------------------------------------------------------------
(* The list of packets for users offline                                   *)

deal_fri_off(b, o) == off' = [off EXCEPT ![b] = Append(@, o)]

\* (fault: the first node of an account stays)
ProOffKeeps(a) == [off EXCEPT ![a] = IF @ = << >> THEN @ ELSE <<@[1]>>]

\* Everything for a is sent and unlinked.
pro_off(a) == [off EXCEPT ![a] = << >>]

-----------------------------------------------------------------------------
(* Accounts                                                                *)

\* (fault: the descriptor is left as it was)
LoginCacheStale(a, s) == [i \in Ids |-> [g[i] EXCEPT !.use_online[a] = TRUE]]

\* Every cache is told, after a wrong password as well.
LoginCache(a, s) == [i \in Ids |-> [g[i] EXCEPT !.use_online[a] = TRUE, !.use_fd[a] = s]]

\* The client takes the first packet in its socket for the answer.
LoginAnswer(c, s, a, q) ==
  /\ who' = IF c[s] = "open" /\ q[1].type = 0 THEN [who EXCEPT ![s] = a] ELSE who
  /\ inbox' = IF c[s] = "open"
                THEN [inbox EXCEPT ![s] = Arriving(Tail(q), s, who'[s])] ELSE inbox

deal_login(c, s, p) ==
  LET a == p.account
      ok == p.flag /\ Account(a)
      out == <<Out(s, IF ok THEN 0 ELSE 98, 0, 0)>>
               \o [i \in DOMAIN off[a] |-> [off[a][i] EXCEPT !.to = s]]
  IN  /\ IF ok THEN MYSQL_login(a, s) ELSE user' = user
      /\ off' = pro_off(a)
      /\ nhanded' = [nhanded EXCEPT ![a] = nsent[a]]
      /\ g' = LoginCache(a, IF Account(a) THEN user'[a].sock_fd ELSE 0)
      /\ Transmit(c, out)
      /\ LoginAnswer(c, s, a, inbox[s] \o out)
      /\ Closed(TRUE)
      /\ UNCHANGED <<friends, groups, g_meber, nameVars, fileVars, nsent>>

MenuAnswer(c, s) ==
  /\ Transmit(c, <<Out(s, 0, 0, 0)>>)
  /\ inbox' = IF c[s] = "open" THEN [inbox EXCEPT ![s] = Tail(Append(@, Out(s, 0, 0, 0)))]
                               ELSE inbox
  /\ UNCHANGED <<who, g, nameVars, off, fileVars, chatVars>>

deal_regist(c, s, p) ==
  /\ MYSQL_regist
  /\ MenuAnswer(c, s)
  /\ Closed(TRUE)
  /\ UNCHANGED <<friends, groups, g_meber>>

deal_repass(c, s, p) ==
  /\ MenuAnswer(c, s)
  /\ Closed(p.flag /\ Account(p.account))
  /\ UNCHANGED tables

-----------------------------------------------------------------------------
(* Friends                                                                 *)

\* online[0] of MYSQL_find_fd is not set when there is no such account.
Status(b) == IF Account(b) THEN {user[b].online} ELSE {0, 1}

\* Send o to b, or keep it for b, by the status of the account x.
SendOrKeep(c, x, b, first, o) ==
  \E st \in Status(x) :
    IF st = 0 THEN deal_fri_off(b, o) /\ Send(c, first)
              ELSE off' = off /\ Send(c, Append(first, [o EXCEPT !.to = MYSQL_find_fd(x)]))

deal_chat_fri(c, s, p) ==
  LET a == p.account
      b == p.send_account
      n == IF Account(b) THEN nsent[b] + 1 ELSE 0
  IN  /\ \/ ~MYSQL_find_frirela(a, b) /\ Reply(c, s, 7) /\ UNCHANGED <<off, chatVars>>
         \/ /\ MYSQL_find_frirela(a, b)
            /\ SendOrKeep(c, b, b, << >>, Out(0, 7, a, n))
            /\ nsent' = [nsent EXCEPT ![b] = IF Account(b) THEN n ELSE @]
            /\ nhanded' = [nhanded EXCEPT ![b] = IF Account(b) /\ off' = off THEN n ELSE @]
      /\ Closed(TRUE)
      /\ UNCHANGED <<tables, g, nameVars, fileVars>>

deal_addfriend(c, s, p) ==
  LET a == p.account
      b == p.send_account
  IN  /\ \/ (MYSQL_find_frirela(a, b) \/ ~Account(b)) /\ Reply(c, s, 41) /\ off' = off
         \/ /\ ~MYSQL_find_frirela(a, b) /\ Account(b)
            /\ SendOrKeep(c, b, b, << >>, Out(0, 4, a, 0))
      /\ Closed(TRUE)
      /\ UNCHANGED <<tables, g, nameVars, fileVars, chatVars>>

\* recv_ADDFR_ of the client: the request that was answered is unlinked.
Answered(s) == [inbox EXCEPT ![s] = IF @ = << >> THEN @ ELSE Tail(@)]

\* (fault: a refusal is stored as well)
AgreedAlways(p) == TRUE

\* strcmp(recv_pack.mes, "success") == 0
Agreed(p) == p.flag

\* The answer to a request; whether the other one is online is not looked at.
recv_addfr_PACK(c, s, p) ==
  /\ IF Agreed(p) THEN MYSQL_addfriend_store(p.account, p.send_account) ELSE friends' = friends
  /\ SendTo(Answered(s), c, <<Out(MYSQL_find_fd(p.send_account), 41, p.account, 0)>>)
  /\ Closed(TRUE)
  /\ UNCHANGED <<user, groups, g_meber, g, nameVars, off, fileVars, chatVars>>

\* One packet to cli_fd for each account in L.
Listing(c, s, L) == Send(c, [i \in Ids |-> Out(IF i \in L THEN s ELSE 0, 5, 0, 0)])

deal_list_fri(c, s, p) ==
  /\ Listing(c, s, {b \in Ids : <<p.account, b>> \in friends})
  /\ Closed(TRUE)
  /\ UNCHANGED <<tables, g, nameVars, off, fileVars, chatVars>>

\* The listing ends at the first friend, in the order of the rows, who is
\* offline.
deal_online_fri(c, s, p) ==
  /\ \E L \in SUBSET {b \in DOMAIN user : <<p.account, b>> \in friends /\ user[b].online = 1} :
       Listing(c, s, L)
  /\ Closed(TRUE)
  /\ UNCHANGED <<tables, g, nameVars, off, fileVars, chatVars>>

deal_store_fri(c, s, p) ==
  /\ Reply(c, s, 8)
  /\ Closed(FALSE)
  /\ UNCHANGED <<tables, g, nameVars, off, fileVars, chatVars>>

deal_dele_fri(c, s, p) ==
  /\ MYSQL_dele_fri(p.account, p.send_account)
  /\ Send(c, << >>)
  /\ Closed(FALSE)
  /\ UNCHANGED <<user, groups, g_meber, g, nameVars, off, fileVars, chatVars>>

-----------------------------------------------------------------------------
(* Groups                                                                  *)

\* What no group command touches.
GroupFrame == UNCHANGED <<user, friends, g, nameVars, fileVars, chatVars>>

deal_creat_group(c, s, p) ==
  /\ MYSQL_creat_group(p.account)
  /\ Reply(c, s, 10)
  /\ Closed(TRUE)
  /\ off' = off /\ GroupFrame

\* The two questions of deal_join_group.
MayJoin(a, gr) == MYSQL_find_group(gr) /\ ~MYSQL_find_group_member(a, gr)

deal_join_group(c, s, p) ==
  /\ IF MayJoin(p.account, p.send_account) THEN MYSQL_join_group(p.account, p.send_account)
                                           ELSE g_meber' = g_meber
  /\ Reply(c, s, 11)
  /\ Closed(TRUE)
  /\ UNCHANGED <<groups, off>> /\ GroupFrame

\* An owner may go as well.
deal_quit_group(c, s, p) ==
  /\ IF MYSQL_find_group_member(p.account, p.send_account)
       THEN MYSQL_quit_group(p.account, p.send_account) ELSE g_meber' = g_meber
  /\ Reply(c, s, 12)
  /\ Closed(TRUE)
  /\ UNCHANGED <<groups, off>> /\ GroupFrame

deal_dele_group(c, s, p) ==
  /\ IF MYSQL_find_gowner(p.account, p.send_account)
       THEN MYSQL_dele_group(p.send_account) ELSE UNCHANGED <<groups, g_meber>>
  /\ Reply(c, s, 13)
  /\ Closed(TRUE)
  /\ off' = off /\ GroupFrame

deal_group_mes(c, s, p) ==
  /\ Reply(c, s, 14)
  /\ Closed(TRUE)
  /\ UNCHANGED <<groups, g_meber, off>> /\ GroupFrame

deal_find_store_g(c, s, p) ==
  /\ Reply(c, s, 16)
  /\ Closed(~MYSQL_find_group(p.send_account))
  /\ UNCHANGED <<groups, g_meber, off>> /\ GroupFrame

deal_set_up(c, s, p) ==
  LET may == MYSQL_find_gowner(p.account, p.send_account)
             /\ MYSQL_find_group_member(p.set, p.send_account)
  IN  /\ IF may THEN MYSQL_set_up(p.send_account, p.set) ELSE g_meber' = g_meber
      /\ Reply(c, s, 17)
      /\ Closed(~may)
      /\ UNCHANGED <<groups, off>> /\ GroupFrame

\* MYSQL_find_fd is asked for the number of the group, not for the one who is
\* to be told.
deal_join_user(c, s, p) ==
  LET gr == p.send_account
      may == MYSQL_find_group_member(p.account, gr) /\ ~MYSQL_find_group_member(p.set, gr)
  IN  /\ IF may THEN /\ MYSQL_join_group(p.set, gr)
                     /\ SendOrKeep(c, gr, p.set, <<Out(s, 20, 0, 0)>>, Out(0, 20, p.account, 0))
                ELSE Reply(c, s, 20) /\ UNCHANGED <<g_meber, off>>
      /\ Closed(TRUE)
      /\ UNCHANGED groups /\ GroupFrame

\* Whether the other one is a member, or the owner, is not asked.
deal_dele_user(c, s, p) ==
  LET gr == p.send_account
  IN  /\ IF MYSQL_find_group_vip(p.account, gr)
           THEN /\ MYSQL_quit_group(p.set, gr)
                /\ SendOrKeep(c, gr, p.set, <<Out(s, 21, 0, 0)>>, Out(0, 21, p.account, 0))
           ELSE Reply(c, s, 21) /\ UNCHANGED <<g_meber, off>>
      /\ Closed(TRUE)
      /\ UNCHANGED groups /\ GroupFrame

-----------------------------------------------------------------------------
(* Group chat                                                              *)

\* The cache of the sender a after the members of gr were read into it; what
\* MYSQL_find_user leaves for an account that does not exist is unset.
Loaded(a, gr, on, fd) ==
  LET M == MYSQL_group_mes(gr)
      old == g[a]
      Of(m, set, unset, kept) == IF m \notin M THEN kept ELSE IF Account(m) THEN set ELSE unset
  IN  [group_account |-> TRUE,
       use_account |-> old.use_account \cup M,
       use_online |-> [m \in Ids |-> Of(m, Account(m) /\ user[m].online = 1, on, old.use_online[m])],
       use_fd |-> [m \in Ids |-> Of(m, MYSQL_find_fd(m), fd, old.use_fd[m])]]

\* The cache is filled by the first packet of a sender and never again, for
\* whatever group; a refusal counts.
deal_chat_group(c, s, p) ==
  LET a == p.account
      gr == p.send_account
      first == ~g[a].group_account
      changed == group_send_account # gr
      name == IF changed THEN MYSQL_find_group(gr) ELSE group_send_name
  IN  /\ IF first /\ ~MYSQL_find_group_member(a, gr)
           THEN /\ g' = [g EXCEPT ![a].group_account = TRUE]
                /\ Reply(c, s, 15)
                /\ Closed(TRUE)
                /\ UNCHANGED <<nameVars, off>>
           ELSE /\ \E on \in BOOLEAN, fd \in Fd0 :
                     g' = [g EXCEPT ![a] = IF first THEN Loaded(a, gr, on, fd) ELSE @]
                /\ IF p.flag
                     THEN Send(c, << >>) /\ Closed(first) /\ UNCHANGED <<nameVars, off>>
                     ELSE /\ group_send_account' = gr
                          /\ group_send_name' = name
                          /\ Closed(~(changed /\ name))
                          /\ LET k == g'[a]
                                 To(m) == m \in k.use_account /\ k.use_fd[m] # s
                             IN  IF name
                                   THEN /\ Send(c, [m \in Ids |-> Out(IF To(m) /\ k.use_online[m]
                                                                        THEN k.use_fd[m] ELSE 0, 15, gr, 0)])
                                        /\ off' = [m \in Ids |-> IF To(m) /\ ~k.use_online[m]
                                                                   THEN Append(off[m], Out(0, 15, gr, 0))
                                                                   ELSE off[m]]
                                   ELSE Reply(c, s, 15) /\ off' = off
      /\ UNCHANGED <<tables, fileVars, chatVars>>

-----------------------------------------------------------------------------
(* Files                                                                   *)

\* The descriptor is asked for when the receiver is another one than last time.
send_file(c, s, p) ==
  LET b == p.send_account
      changed == file_send_account # b
  IN  /\ file_send_account' = b
      /\ f' = IF changed THEN MYSQL_find_fd(b) ELSE f
      /\ Send(c, <<Out(f', 18, 0, 0)>>)
      /\ Closed(changed)
      /\ UNCHANGED <<tables, g, nameVars, off, chatVars>>

\* MYSQL_init, and no case: the packet of a client that exits.
no_case(c, s, p) ==
  /\ Send(c, << >>)
  /\ Closed(FALSE)
  /\ UNCHANGED <<tables, g, nameVars, off, fileVars, chatVars>>

-----------------------------------------------------------------------------
(* The loop                                                                *)

\* c are the connections as recv has left them.
deal(c, s, p) ==
  /\ pack' = p
  /\ CASE p.type = 1 -> deal_login(c, s, p)        [] p.type = 2 -> deal_regist(c, s, p)
       [] p.type = 3 -> deal_repass(c, s, p)       [] p.type = 4 -> deal_addfriend(c, s, p)
       [] p.type = 41 -> recv_addfr_PACK(c, s, p)  [] p.type = 5 -> deal_list_fri(c, s, p)
       [] p.type = 6 -> deal_online_fri(c, s, p)   [] p.type = 7 -> deal_chat_fri(c, s, p)
       [] p.type = 8 -> deal_store_fri(c, s, p)    [] p.type = 9 -> deal_dele_fri(c, s, p)
       [] p.type = 10 -> deal_creat_group(c, s, p) [] p.type = 11 -> deal_join_group(c, s, p)
       [] p.type = 12 -> deal_quit_group(c, s, p)  [] p.type = 13 -> deal_dele_group(c, s, p)
       [] p.type = 14 -> deal_group_mes(c, s, p)   [] p.type = 15 -> deal_chat_group(c, s, p)
       [] p.type = 16 -> deal_find_store_g(c, s, p) [] p.type = 17 -> deal_set_up(c, s, p)
       [] p.type = 18 -> send_file(c, s, p)        [] p.type = 20 -> deal_join_user(c, s, p)
       [] p.type = 21 -> deal_dele_user(c, s, p)   [] OTHER -> no_case(c, s, p)

Accept(s) ==
  /\ pc = "run" /\ conn[s] = "free" /\ left > 0
  /\ conn' = [conn EXCEPT ![s] = "open"]
  /\ left' = left - 1
  /\ UNCHANGED <<tables, mysql, pc, pack, g, nameVars, off, fileVars, who, inbox, chatVars, askVars>>

\* recv returns 0: the account of whatever packet came last goes offline.
RecvEof(s) ==
  /\ pc = "run" /\ conn[s] \in {"closed", "broken"}
  /\ MYSQL_exit(pack.account)
  /\ conn' = [conn EXCEPT ![s] = "free"]
  /\ g' = [i \in Ids |-> [g[i] EXCEPT !.use_online = [m \in Ids |-> @[m] /\ m # pack.account]]]
  /\ UNCHANGED <<friends, groups, g_meber, mysql, pc, pack, nameVars, off, fileVars, who, inbox,
                 left, chatVars, askVars>>

\* recv returns -1 (ECONNRESET): the last packet is dealt with once more.
RecvError(s) ==
  /\ pc = "run" /\ conn[s] = "reset"
  /\ deal([conn EXCEPT ![s] = "broken"], s, pack)
  /\ UNCHANGED <<left, askVars>>

-----------------------------------------------------------------------------
(* The clients                                                             *)

\* Fields that a client's PACK leaves unset, or uses for a length.
Unset == Ids \cup {0}
Typed == IF MayMistype THEN BOOLEAN ELSE {TRUE}

MenuPackets == {Pack(1, a, 0, 0, k) : a \in Ids, k \in Typed}
               \cup {Pack(2, a, 0, 0, FALSE) : a \in Unset}
               \cup {Pack(3, a, 0, 0, k) : a \in Ids, k \in Typed}

Packets(a) == {Pack(4, a, b, 0, FALSE) : b \in Ids \ {a}}
              \cup {Pack(t, a, 0, 0, FALSE) : t \in {5, 6, 10}}
              \cup {Pack(t, a, b, 0, FALSE) : t \in {7, 8, 9, 11, 12, 13}, b \in Ids}
              \cup {Pack(t, x, b, 0, FALSE) : t \in {14, 16, 18}, x \in Unset, b \in Ids}
              \cup {Pack(15, a, b, 0, k) : b \in Ids, k \in BOOLEAN}
              \cup {Pack(t, a, b, m, FALSE) : t \in {17, 20, 21}, b \in Ids, m \in Ids}

\* A packet of the client of s arrives and is dealt with.
Recv(s, p) == /\ pc = "run" /\ conn[s] = "open" /\ left > 0
              /\ p.type \in Menu
              /\ left' = left - 1
              /\ deal(conn, s, p)

ClientMenu(s) == /\ who[s] = 0
                 /\ \E p \in MenuPackets : Recv(s, p)
                 /\ UNCHANGED askVars

ClientRequest(s) == /\ who[s] # 0
                    /\ \E p \in Packets(who[s]) :
                         /\ Recv(s, p)
                         /\ asked' = IF p.type = 4 THEN asked \cup {<<p.account, p.send_account>>}
                                                   ELSE asked
                    /\ accepted' = accepted

\* recv_ADDFR_: the first request of the box is answered.
ClientAnswer(s) ==
  /\ who[s] # 0 /\ inbox[s] # << >>
  /\ \E k \in BOOLEAN :
       /\ Recv(s, Pack(41, who[s], inbox[s][1].from, 0, k))
       /\ accepted' = IF k THEN accepted \cup {<<who[s], inbox[s][1].from>>} ELSE accepted
  /\ asked' = asked

\* '0' in the main menu: the packet EXIT, then the process ends.
ClientExit(s) ==
  /\ pc = "run" /\ conn[s] = "open" /\ who[s] # 0
  /\ pack' = Pack(0, who[s], 0, 0, FALSE)
  /\ conn' = [conn EXCEPT ![s] = "closed"]
  /\ who' = [who EXCEPT ![s] = 0]
  /\ inbox' = [inbox EXCEPT ![s] = << >>]
  /\ Closed(FALSE)
  /\ UNCHANGED <<tables, pc, g, nameVars, off, fileVars, left, chatVars, askVars>>

\* '0' in the login menu, or the process is killed.
ClientClose(s) ==
  /\ pc = "run" /\ conn[s] = "open"
  /\ conn' \in {[conn EXCEPT ![s] = "closed"]}
                 \cup (IF MayReset THEN {[conn EXCEPT ![s] = "reset"]} ELSE {})
  /\ who' = [who EXCEPT ![s] = 0]
  /\ inbox' = [inbox EXCEPT ![s] = << >>]
  /\ UNCHANGED <<tables, mysql, pc, pack, g, nameVars, off, fileVars, left, chatVars, askVars>>

-----------------------------------------------------------------------------
(* The process                                                             *)

NoCache == [group_account |-> FALSE, use_account |-> {},
            use_online |-> [m \in Ids |-> FALSE], use_fd |-> [m \in Ids |-> 0]]

\* What a new process starts with; a client has to be started again too.
Started(handed) ==
  /\ mysql' = FALSE /\ pack' = NoPack
  /\ g' = [i \in Ids |-> NoCache]
  /\ group_send_account' = 0 /\ group_send_name' = FALSE
  /\ off' = [i \in Ids |-> << >>]
  /\ file_send_account' = 0 /\ f' = 0
  /\ conn' = [s \in Fds |-> "free"]
  /\ who' = [s \in Fds |-> 0]
  /\ inbox' = [s \in Fds |-> << >>]
  /\ nhanded' = handed

Kill == /\ pc = "run" /\ pc' = "down"
        /\ UNCHANGED <<tables, mysql, pack, g, nameVars, off, fileVars, conn, who, inbox, left,
                       chatVars, askVars>>

Restart == /\ pc = "down" /\ pc' = "run"
           /\ MYSQL_main_init
           /\ Started(nsent)
           /\ UNCHANGED <<friends, groups, g_meber, left, nsent, askVars>>

Init == /\ user = [a \in 1..Registered |-> [online |-> 0, sock_fd |-> 0]]
        /\ friends = Befriended \cup {<<p[2], p[1]>> : p \in Befriended}
        /\ groups = << >> /\ g_meber = {}
        /\ pc = "run" /\ mysql = FALSE /\ pack = NoPack
        /\ g = [i \in Ids |-> NoCache]
        /\ group_send_account = 0 /\ group_send_name = FALSE
        /\ off = [i \in Ids |-> << >>]
        /\ file_send_account = 0 /\ f = 0
        /\ conn = [s \in Fds |-> "free"]
        /\ who = [s \in Fds |-> 0]
        /\ inbox = [s \in Fds |-> << >>]
        /\ left = MaxEvents
        /\ nsent = [a \in Ids |-> 0] /\ nhanded = [a \in Ids |-> 0]
        /\ asked = {<<p[2], p[1]>> : p \in Befriended} /\ accepted = Befriended

Next == \/ \E s \in Fds : \/ Accept(s) \/ RecvEof(s) \/ RecvError(s)
                          \/ ClientMenu(s) \/ ClientRequest(s) \/ ClientAnswer(s)
                          \/ ClientExit(s) \/ ClientClose(s)
        \/ Kill \/ Restart

Spec == Init /\ [][Next]_vars

-----------------------------------------------------------------------------
(* Properties                                                              *)

OutType == [to : Fd0, type : Nat, from : Nat, n : Nat]

TypeOK ==
  /\ user \in Seq([online : 0..1, sock_fd : Fd0]) /\ Len(user) <= MaxId
  /\ friends \subseteq Ids \X Ids
  /\ groups \in Seq(0..MaxId) /\ Len(groups) <= MaxId
  /\ g_meber \subseteq Ids \X Ids \X (0..2)
  /\ pc \in {"run", "down"} /\ mysql \in BOOLEAN /\ pack \in PACK
  /\ g \in [Ids -> [group_account : BOOLEAN, use_account : SUBSET Ids,
                    use_online : [Ids -> BOOLEAN], use_fd : [Ids -> Fd0]]]
  /\ group_send_account \in Nat /\ group_send_name \in BOOLEAN
  /\ off \in [Ids -> Seq(OutType)]
  /\ file_send_account \in Nat /\ f \in Fd0
  /\ conn \in [Fds -> {"free", "open", "closed", "reset", "broken"}]
  /\ who \in [Fds -> 0..MaxId] /\ inbox \in [Fds -> Seq(OutType)]
  /\ left \in 0..MaxEvents
  /\ nsent \in [Ids -> Nat] /\ nhanded \in [Ids -> Nat]
  /\ asked \subseteq Ids \X Ids /\ accepted \subseteq Ids \X Ids

\* The positions of the chat messages kept for b.
KeptChats(b) == {i \in DOMAIN off[b] : off[b][i].n # 0}

\* What is kept for b are exactly the chats that were accepted for b and not
\* yet sent on, in the order they came (deal_fri_off, pro_off): no login,
\* disconnection, group message or restart repeats, reorders or overtakes one.
ChatQueueExact ==
  \A b \in Ids :
    /\ {off[b][i].n : i \in KeptChats(b)} = (nhanded[b] + 1)..nsent[b]
    /\ \A i, j \in KeptChats(b) : i < j => off[b][i].n < off[b][j].n

\* For a user who is online, all caches of deal_chat_group name the descriptor
\* of the table (deal_login, deal_chat_group).
CachedFd == \A i \in Ids : \A a \in g[i].use_account \cap DOMAIN user :
              user[a].online = 1 => g[i].use_fd[a] = user[a].sock_fd

\* A member row belongs to a group that exists, whatever queries are refused
\* (deal_join_group, deal_join_user, MYSQL_dele_group); a member has one row, and
\* the row with flag 1 is the owner's (MYSQL_creat_group, MYSQL_set_up): who may
\* dissolve a group and who is shown as its owner agree.
MembersOfGroups ==
  \A r \in g_meber : /\ r[1] \in DOMAIN groups /\ groups[r[1]] # 0
                     /\ \A q \in g_meber : (q[1] = r[1] /\ q[2] = r[2] => q = r)
                     /\ (r[3] = 1 => groups[r[1]] = r[2])

\* Two accounts are friends only after one of them agreed to a request that
\* the other had sent (recv_addfr_PACK), replayed packets included.
FriendsAnswered == \A r \in friends :
  \E q \in {<<r[1], r[2]>>, <<r[2], r[1]>>} : q \in accepted /\ \E b \in Ids : <<q[2], b>> \in asked
=============================================================================
