-------------------------- MODULE ServerProperties --------------------------
(***************************************************************************)
(* What is claimed of the chat server: the properties its code keeps, and  *)
(* a statement of one of its comments that it does not.                    *)
(***************************************************************************)
EXTENDS ChatServer

-----------------------------------------------------------------------------
(* Kept by the code                                                        *)

\* The list of users online never names a user who is gone: each node stands
\* for its own connection, which is still held and logged in under that name.
\* del_node, whatever else it drops, always drops the node of the descriptor
\* that is being closed, so a descriptor that accept hands out again is free
\* of its former user.  This holds as long as nobody asks for a forgotten
\* password: the answers 1 and 2 stay in the slot and, dispatched again at the
\* next disconnections, are reg and login for a closed descriptor.
OnlineNodesLive ==
  \A i \in DOMAIN head :
    /\ conn[head[i].socket] # "free"
    /\ who[head[i].socket] = head[i].name
    /\ \A j \in DOMAIN head : head[j].socket = head[i].socket => j = i

\* The friend list in memory and the friend table agree after every handler,
\* although the queries act on all rows of a pair and the list code on the
\* first: no sequence of requests, answers and replays makes a second row.
FriendListMirrorsTable ==
  /\ Running => head_friends = friend
  /\ \A u, f \in Name0 : Len(friend[u][f]) <= 1

\* Nobody gets a friend without having asked for or accepted him, and a row
\* with status 1 means that both sides did so, at some time, themselves:
\* offline delivery, repeated answers and replays invent no consent.
RowsHaveConsent ==
  \A u, f \in Name0 : \A i \in DOMAIN friend[u][f] :
    /\ <<u, f>> \in consented
    /\ friend[u][f][i] = 1 => <<f, u>> \in consented

\* The message asks for or accepts what its users did ask for or accept.
Consenting(m) ==
  /\ m.cmd = 14 => <<m.from, m.to>> \in consented
  /\ m.cmd = 311 => {<<m.from, m.to>>, <<m.to, m.from>>} \subseteq consented

\* So do the requests kept for users offline.
RequestsConsented ==
  \A k \in KeyedLists : \A i \in DOMAIN head_request[k] :
    LET r == head_request[k][i]
    IN  /\ r.type = "f" => <<r.from_name, k>> \in consented
        /\ r.type = "y" => {<<r.from_name, k>>, <<k, r.from_name>>} \subseteq consented

\* Every message that could become a row, wherever it waits -- in the slot (for
\* a replay), on a connection, at a client or in head_request -- was made by
\* users who did ask or accept.
ConsentKept ==
  /\ Consenting(message)
  /\ \A s \in Socks : \A i \in DOMAIN inbox[s] : Consenting(inbox[s][i])
  /\ \A s \in Socks : \A m \in reqs[s] : Consenting(m)
  /\ \A s \in Socks : \A i \in DOMAIN filing[s] : filing[s][i].cmd = 6
  /\ RequestsConsented

\* private_chat passes a message on only between users who have both asked
\* for or accepted the other.
ChatOnlyBetweenConsenting ==
  [][Handling(13) /\ pc' = "wait" /\ message'.cmd = 13 =>
       {<<message.from, message.to>>, <<message.to, message.from>>} \subseteq consented]_vars

\* A name has at most one account, and the list used for login is the table.
OneAccountPerName ==
  /\ Running => head_user = user
  /\ \A n \in Name0 : Len(user[n]) <= 1

\* The owner of a group is always one of its members: no quit, replayed quit
\* or restart takes the owner out.
OwnerIsMember ==
  /\ Running => \A g \in Group0 : Exists(g) => InGroup(Owner(g), g)
  /\ \A g \in Group0 : user_groups[g] # << >> => group_relationship[g][user_groups[g][1]] # << >>

\* Only the owner of an existing group has a row of type 1 in it, so nobody
\* else passes the test of set_manager.
TypeOneIsOwner ==
  Running => \A g \in Group0, u \in Name0 :
               \A i \in DOMAIN head_group_relationship[g][u] :
                 head_group_relationship[g][u][i] = 1 => Exists(g) /\ Owner(g) = u

\* Whoever the table makes a member is a member in memory, even when MySQL
\* refuses an insert that deal_group_request_y does not check.
MembersInList ==
  Running => \A g \in Group0, u \in Name0 :
               group_relationship[g][u] # << >> => head_group_relationship[g][u] # << >>

-----------------------------------------------------------------------------
(* Liveness                                                                *)

\* epoll_wait reports every ready descriptor in each round, so none is passed
\* over for ever (strong fairness: the loop is busy in between), and a handler
\* that has begun goes on.  Clients and the operator promise nothing.
FairSpec ==
  /\ Spec
  /\ WF_vars(chuli_request) /\ WF_vars(send_file_chunk) /\ WF_vars(send_file_end)
  /\ WF_vars(Die)
  /\ \A s \in Socks : SF_vars(Recv(s)) /\ SF_vars(RecvEof(s)) /\ SF_vars(RecvError(s))

\* send_file waits for a chunk, and its client, still connected, sends none.
Stalled == pc = "file" /\ conn[cur] = "open" /\ inbox[cur] = << >>

\* A request that was sent is received, or lost with the process, unless some
\* client keeps the loop in send_file for ever by stopping in the middle of a
\* file: that one thing, and no other request, replay or failure, holds it.
RequestServed == <>[]Stalled \/ \A s \in Socks : inbox[s] # << >> ~> inbox[s] = << >>

\* The descriptor of a client that has gone is closed, with the same exception:
\* a client that goes in the middle of its own file does not hold the loop.
DisconnectNoticed ==
  <>[]Stalled \/ \A s \in Socks : conn[s] \in {"closed", "reset", "broken"} ~> conn[s] = "free"

-----------------------------------------------------------------------------
(* Stated by a comment, and not kept                                       *)

\* epoll.c:328 "only data sent by a client is handled": dispatching for a
\* descriptor that has just been closed has no effect on the tables.
OnlyClientData ==
  [][pc = "dispatch" /\ conn[cur] = "free" => UNCHANGED <<user, friend, user_groups, group_relationship>>]_vars
=============================================================================
