---------------------------- MODULE ServerFriend ----------------------------
(***************************************************************************)
(* Friends: the lists all_friends and online_friend, private_chat, and the *)
(* life of a friend relation (add_friend, deal_friend_request_y and _n,    *)
(* delete_friend) of epoll.c.                                              *)
(*                                                                         *)
(* head_friends[u][f] holds the status of the rows with f_username = u and *)
(* f_friendname = f: 0 asked for or given up by the other, 1 accepted.     *)
(***************************************************************************)
EXTENDS ServerState

Friends(u) == {f \in Name0 : \E i \in DOMAIN head_friends[u][f] : head_friends[u][f][i] = 1}

all_friends ==
  /\ Handling(11)
  /\ \/ Friends(message.from) = {} /\ Reply(111)
     \/ Friends(message.from) # {} /\ Listing(11, Cardinality(Friends(message.from)))

\* One message per friend online; `flag' says in the end only whether the last
\* friend in the list, f, is online.
online_friend ==
  /\ Handling(12)
  /\ LET n == Cardinality({f \in Friends(message.from) : Online(f)})
     IN  \/ Friends(message.from) = {} /\ Reply(121)
         \/ \E f \in Friends(message.from) : \/ ~Online(f) /\ Listing(122, n + 1)
                                             \/ Online(f) /\ Listing(12, n)

\* f_username = u, f_friendname = f: some row.
IsFriend(u, f) == head_friends[u][f] # << >>

\* (fault: the row of the sender is searched for a second time)
SenderKnowsReceiver(m) == IsFriend(m.from, m.to)

\* The second search of private_chat: the receiver has the sender.
ReceiverKnowsSender(m) == IsFriend(m.to, m.from)

\* A row in both directions is enough, whatever its status.
private_chat ==
  /\ Handling(13)
  /\ \/ ~IsFriend(message.from, message.to) /\ Reply(130)
     \/ IsFriend(message.from, message.to) /\ ~ReceiverKnowsSender(message) /\ Reply(131)
     \/ /\ IsFriend(message.from, message.to) /\ ReceiverKnowsSender(message)
        /\ \/ Return(TargetSocks(message.to)) /\ UNCHANGED <<message, reqs>>
           \/ ExitOnError
        /\ UNCHANGED <<head, head_request, dataVars>>

\* (fault: the new row is stored as accepted)
InsertAccepted(u, f, v) ==
  /\ head_friends' = Row(head_friends, u, f, weicha_list(head_friends[u][f], 1))
  /\ friend' = Row(friend, u, f, Append(friend[u][f], 1))

\* Insert a row <<u, f>> with status v in the list and in the table.
InsertFriend(u, f, v) ==
  /\ head_friends' = Row(head_friends, u, f, weicha_list(head_friends[u][f], v))
  /\ friend' = Row(friend, u, f, Append(friend[u][f], v))

add_friend ==
  /\ Handling(14)
  /\ LET u == message.from
         f == message.to
     IN  \/ u = f /\ Reply(149)
         \/ u # f /\ head_user[f] = << >> /\ Reply(141)
         \/ /\ u # f /\ head_user[f] # << >> /\ IsFriend(u, f)
            /\ \/ head_friends[u][f][1] = 1 /\ Reply(140)
               \/ /\ head_friends[u][f][1] = 0   \* asked before: forward again
                  /\ IF Online(f)
                       THEN Return(TargetSocks(f)) /\ Forward(message, f) /\ UNCHANGED message
                       ELSE Segfault
                  /\ UNCHANGED <<head, head_request, dataVars>>
         \/ /\ u # f /\ head_user[f] # << >> /\ ~IsFriend(u, f)
            /\ \/ /\ InsertFriend(u, f, 0)
                  /\ IF Online(f) THEN Forward(message, f) /\ UNCHANGED head_request
                                  ELSE Queue(f, u, "f", None) /\ UNCHANGED reqs
                  /\ Return(TargetSocks(f))
                  /\ UNCHANGED message
               \/ ExitOnError /\ UNCHANGED <<friendVars, head_request>>
            /\ UNCHANGED <<head, userVars, groupVars, relVars>>

\* (fault: the query is not run)
DeleteFriendInList(u, f) ==
  head_friends' = Row(head_friends, u, f, DeleteFirst(head_friends[u][f])) /\ friend' = friend

\* delete from friend where ...; unlink the first node.
DeleteFriend(u, f) ==
  /\ head_friends' = Row(head_friends, u, f, DeleteFirst(head_friends[u][f]))
  /\ friend' = Row(friend, u, f, DeleteRows(friend[u][f]))

\* The own row goes; the row of a friend that was accepted falls back to 0.
\* A friend without a row is a NULL `current_friend'.
delete_friend ==
  /\ Handling(15)
  /\ LET u == message.from
         f == message.to
     IN  \/ ~IsFriend(u, f) /\ Reply(150)
         \/ /\ IsFriend(u, f) /\ head_friends[u][f][1] = 0
            /\ \/ DeleteFriend(u, f) /\ Return({cur}) /\ UNCHANGED <<message, reqs>>
               \/ ExitOnError /\ UNCHANGED friendVars
            /\ UNCHANGED <<head, head_request, userVars, groupVars, relVars>>
         \/ /\ IsFriend(u, f) /\ head_friends[u][f][1] = 1
            /\ \/ /\ head_friends' = [Row(head_friends, u, f, DeleteFirst(head_friends[u][f]))
                                        EXCEPT ![f][u] = UpdateFirst(@, 0)]
                  /\ friend' = [Row(friend, u, f, DeleteRows(friend[u][f]))
                                  EXCEPT ![f][u] = UpdateRows(@, 0)]
                  /\ IF head_friends'[f][u] # << >>
                       THEN Return({cur}) /\ UNCHANGED <<message, reqs>>
                       ELSE Segfault
               \/ ExitOnError /\ UNCHANGED friendVars      \* the delete fails
               \/ ExitOnError /\ DeleteFriend(u, f)        \* the update fails
            /\ UNCHANGED <<head, head_request, userVars, groupVars, relVars>>

\* Tell the applicant, or keep the answer -- under the name of the one who
\* answered, which is what to_name holds.
Answer(t) == LET a == message.from
             IN  /\ IF Online(a) THEN UNCHANGED head_request
                                 ELSE Queue(message.to, a, t, None)
                 /\ Return(TargetSocks(a))
                 /\ UNCHANGED <<message, reqs>>

\* The list and the table after the first query of deal_friend_request_y:
\* b's own row for a becomes 1, inserted when there is none.
Accepting(t, b, a, Update(_, _)) ==
  Row(t, b, a, IF head_friends[b][a] = << >> THEN Append(t[b][a], 1) ELSE Update(t[b][a], 1))

\* a asked, b accepts.  A row of a that is gone is a NULL `current_friend'.
deal_friend_request_y ==
  /\ Handling(311)
  /\ LET a == message.from
         b == message.to
     IN  \/ /\ head_friends' = [Accepting(head_friends, b, a, UpdateFirst)
                                  EXCEPT ![a][b] = UpdateFirst(@, 1)]
            /\ friend' = [Accepting(friend, b, a, UpdateRows) EXCEPT ![a][b] = UpdateRows(@, 1)]
            /\ IF head_friends'[a][b] # << >>
                 THEN Answer("y")
                 ELSE Segfault /\ UNCHANGED head_request
         \/ /\ ExitOnError                                  \* the first query fails
            /\ UNCHANGED <<friendVars, head_request>>
         \/ /\ ExitOnError                                  \* the second one fails
            /\ head_friends' = Accepting(head_friends, b, a, UpdateFirst)
            /\ friend' = Accepting(friend, b, a, UpdateRows)
            /\ UNCHANGED head_request
  /\ UNCHANGED <<head, userVars, groupVars, relVars>>

\* a asked, b refuses: the row of a goes, whatever its status is by now.
deal_friend_request_n ==
  /\ Handling(312)
  /\ \/ DeleteFriend(message.from, message.to) /\ Answer("n")
     \/ ExitOnError /\ UNCHANGED <<friendVars, head_request>>
  /\ UNCHANGED <<head, userVars, groupVars, relVars>>
=============================================================================
