------------------------------ MODULE LtTables ------------------------------
(***************************************************************************)
(* The MySQL tables of the chat server of Code/liuting1/chatroom and the   *)
(* statements of MYSQL.c.                                                  *)
(*                                                                         *)
(* Accounts and groups are numbered by AUTO_INCREMENT, each from 1, so the *)
(* number of a group is also the number of an account.  A table is a       *)
(* sequence indexed by that number, or the set of its rows.  The           *)
(* statements run inside one handler of a single-threaded server; a write  *)
(* may be refused, and the caller then goes on.                            *)
(***************************************************************************)
EXTENDS Integers, Sequences

CONSTANTS MaxId,      \* bound: accounts and groups that are ever created
          Fds,        \* descriptors that accept can return
          DbMayFail   \* whether MySQL may refuse an insert, update or delete

ASSUME IdAssumption == MaxId \in Nat
ASSUME FdAssumption == 0 \notin Fds
ASSUME DbAssumption == DbMayFail \in BOOLEAN

VARIABLES user,     \* user: online and sock_fd, by account
          friends,  \* friends: rows <<id1, id2>>
          groups,   \* groups: the owner by group number, 0 when deleted
          g_meber,  \* g_meber: rows <<group_id, group_member, member_flag>>
          mysql     \* whether the global handle is connected

tables == <<user, friends, groups, g_meber>>

Ids == 1..MaxId
Fd0 == Fds \cup {0}

\* What a write leaves in a table: its result, or nothing when it is refused.
Written(new, old) == {new} \cup (IF DbMayFail THEN {old} ELSE {})

-----------------------------------------------------------------------------
(* Queries                                                                 *)

Account(a) == a \in DOMAIN user

\* atoi(row[4]); an account that does not exist gives -1, which like 0 is
\* no socket.
MYSQL_find_fd(a) == IF Account(a) THEN user[a].sock_fd ELSE 0

MYSQL_find_frirela(a, b) == <<a, b>> \in friends

MYSQL_find_group(g) == g \in DOMAIN groups /\ groups[g] # 0

MYSQL_group_mes(g) == {a \in Ids : \E f \in 0..2 : <<g, a, f>> \in g_meber}

MYSQL_find_group_member(a, g) == \E f \in 0..2 : <<g, a, f>> \in g_meber

MYSQL_find_gowner(a, g) == g \in DOMAIN groups /\ groups[g] = a

MYSQL_find_group_vip(a, g) == \E f \in 1..2 : <<g, a, f>> \in g_meber

-----------------------------------------------------------------------------
(* Writes                                                                  *)

\* update user set online = 0, when the process starts; it goes on when this
\* is refused.
MYSQL_main_init ==
  user' \in Written([a \in DOMAIN user |-> [user[a] EXCEPT !.online = 0]], user)

MYSQL_login(a, s) == user' \in Written([user EXCEPT ![a] = [online |-> 1, sock_fd |-> s]], user)

MYSQL_regist == /\ Len(user) < MaxId
                /\ user' \in Written(Append(user, [online |-> 0, sock_fd |-> 0]), user)

\* The query is sent on whatever the last handler left in the handle.
MYSQL_exit(a) == user' \in IF mysql /\ Account(a)
                             THEN Written([user EXCEPT ![a].online = 0], user)
                             ELSE {user}

\* The second insert is tried when the first one succeeded.
MYSQL_addfriend_store(a, b) ==
  \/ friends' = friends \cup {<<a, b>>, <<b, a>>}
  \/ DbMayFail /\ friends' \in {friends \cup {<<a, b>>}, friends}

MYSQL_dele_fri(a, b) == friends' \in Written(friends \ {<<a, b>>, <<b, a>>}, friends)

\* The insert of the owner's row is not looked at.
MYSQL_creat_group(a) ==
  /\ Len(groups) < MaxId
  /\ \/ /\ groups' = Append(groups, a)
        /\ g_meber' \in Written(g_meber \cup {<<Len(groups) + 1, a, 1>>}, g_meber)
     \/ DbMayFail /\ UNCHANGED <<groups, g_meber>>

MYSQL_join_group(a, g) == g_meber' \in Written(g_meber \cup {<<g, a, 0>>}, g_meber)

MYSQL_quit_group(a, g) == g_meber' \in Written(g_meber \ {<<g, a, f>> : f \in 0..2}, g_meber)

\* (fault: the group goes first)
DeleGroupFirst(g) ==
  \/ /\ groups' = [groups EXCEPT ![g] = 0]
     /\ g_meber' \in Written({r \in g_meber : r[1] # g}, g_meber)
  \/ DbMayFail /\ UNCHANGED <<groups, g_meber>>

\* The members go first; the group stays when that fails.
MYSQL_dele_group(g) ==
  \/ /\ g_meber' = {r \in g_meber : r[1] # g}
     /\ groups' \in Written([groups EXCEPT ![g] = 0], groups)
  \/ DbMayFail /\ UNCHANGED <<groups, g_meber>>

\* update g_meber set member_flag = 2 where ...
MYSQL_set_up(g, a) ==
  g_meber' \in Written((g_meber \ {<<g, a, f>> : f \in 0..2}) \cup {<<g, a, 2>>}, g_meber)
=============================================================================
