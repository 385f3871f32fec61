---------------------------- MODULE ServerGroup ----------------------------
(***************************************************************************)
(* Groups: create_group, break_group, add_group and its two answers,       *)
(* quit_group, set_manager, public_chat and the two listings of epoll.c.   *)
(*                                                                         *)
(* head_user_groups[g] holds the owners of the rows named g;               *)
(* head_group_relationship[g][u] the types of the rows that make u a       *)
(* member of g: 1 owner, 2 manager, 3 member.                              *)
(***************************************************************************)
EXTENDS ServerState

Exists(g) == head_user_groups[g] # << >>
Owner(g) == head_user_groups[g][1]
\* (fault: the owner is not compared)
NobodyOwns(u, g) == FALSE

IsOwner(u, g) == head_user_groups[g][1] = u

InGroup(u, g) == head_group_relationship[g][u] # << >>

\* One message per row.
view_group ==
  /\ Handling(21)
  /\ LET rows == UNION {{g} \X DOMAIN head_group_relationship[g][message.from] : g \in Group0}
     IN  \/ rows = {} /\ Reply(211)
         \/ rows # {} /\ Listing(21, Cardinality(rows))

\* One record per member, and the slot to every member that is online.  The
\* to_name it leaves in the slot is overwritten before it is read.
public_chat ==
  /\ Handling(22)
  /\ \/ ~InGroup(message.from, message.grp) /\ Reply(220)
     \/ LET others == {u \in Name0 \ {message.from} : InGroup(u, message.grp)}
        IN  /\ InGroup(message.from, message.grp)
            /\ \/ /\ Return(UNION {TargetSocks(u) : u \in others})
                  /\ UNCHANGED <<message, reqs>>
               \/ others # {} /\ ExitOnError
            /\ UNCHANGED <<head, head_request, dataVars>>

\* An owner that is offline finds the request in the list, without the group.
add_group ==
  /\ Handling(23)
  /\ LET g == message.grp
     IN  \/ InGroup(message.from, g) /\ Reply(230)
         \/ ~InGroup(message.from, g) /\ ~Exists(g) /\ Reply(231)
         \/ /\ ~InGroup(message.from, g) /\ Exists(g)
            /\ message' = [message EXCEPT !.to = Owner(g)]
            /\ IF Online(Owner(g))
                 THEN Forward(message', Owner(g)) /\ UNCHANGED head_request
                 ELSE Queue(Owner(g), message.from, "g", None) /\ UNCHANGED reqs
            /\ Return(TargetSocks(Owner(g)))
            /\ UNCHANGED <<head, dataVars>>

\* The query deletes every row of the member, the list loses the first.
quit_group ==
  /\ Handling(24)
  /\ LET g == message.grp
         u == message.from
     IN  \/ ~Exists(g) /\ Reply(240)
         \/ Exists(g) /\ IsOwner(u, g) /\ Reply(241)
         \/ /\ Exists(g) /\ ~IsOwner(u, g) /\ ~InGroup(u, g)
            /\ message' = [message EXCEPT !.to = Owner(g), !.cmd = 242]
            /\ Return({cur})
            /\ UNCHANGED <<reqs, head, head_request, dataVars>>
         \/ /\ Exists(g) /\ ~IsOwner(u, g) /\ InGroup(u, g)
            /\ \/ /\ group_relationship' =
                       Row(group_relationship, g, u, DeleteRows(group_relationship[g][u]))
                  /\ head_group_relationship' =
                       Row(head_group_relationship, g, u, DeleteFirst(head_group_relationship[g][u]))
                  /\ message' = [message EXCEPT !.to = Owner(g),
                                                !.cmd = IF Online(Owner(g)) THEN 24 ELSE 243]
                  /\ IF Online(Owner(g)) THEN UNCHANGED head_request
                                         ELSE Queue(Owner(g), u, "q", g)
                  /\ Return({cur} \cup TargetSocks(Owner(g)))
                  /\ UNCHANGED reqs
               \/ ExitOnError /\ UNCHANGED <<relVars, head_request>>
            /\ UNCHANGED <<head, userVars, friendVars, groupVars>>

\* One message per row; the to_name it leaves behind is not read.
view_group_member ==
  /\ Handling(251)
  /\ LET g == message.grp
         rows == UNION {{u} \X DOMAIN head_group_relationship[g][u] : u \in Name0}
     IN  \/ ~Exists(g) /\ Reply(2510)
         \/ Exists(g) /\ ~InGroup(message.from, g) /\ Reply(2511)
         \/ Exists(g) /\ InGroup(message.from, g) /\ Listing(251, Cardinality(rows))

\* (fault: the members stay)
MembersStay(t, g) == t

\* delete from group_relationship where group_name = g
NoMembers(t, g) == [t EXCEPT ![g] = [u \in Name0 |-> << >>]]

\* The walk over the relations reads the `next' of a node it has freed when
\* that node was the first of the list: it reads what was there, or garbage.
break_group ==
  /\ Handling(252)
  /\ LET g == message.grp
         nogroup == [user_groups EXCEPT ![g] = DeleteRows(@)]
     IN  \/ ~Exists(g) /\ Reply(2520)
         \/ Exists(g) /\ ~IsOwner(message.from, g) /\ Reply(2521)
         \/ /\ Exists(g) /\ IsOwner(message.from, g)
            /\ \/ /\ user_groups' = nogroup
                  /\ head_user_groups' = [head_user_groups EXCEPT ![g] = DeleteFirst(@)]
                  /\ group_relationship' = NoMembers(group_relationship, g)
                  /\ head_group_relationship' = NoMembers(head_group_relationship, g)
                  /\ \/ Return({cur}) /\ UNCHANGED <<message, reqs>>
                     \/ (\E u \in Name0 : InGroup(u, g)) /\ Segfault
               \/ ExitOnError /\ UNCHANGED <<groupVars, relVars>>   \* the first delete fails
               \/ /\ ExitOnError                                    \* the second one fails
                  /\ user_groups' = nogroup
                  /\ UNCHANGED <<head_user_groups, relVars>>
            /\ UNCHANGED <<head, head_request, userVars, friendVars>>

\* The type of the row searched for is printed before the search is known to
\* have succeeded: whoever is not an owner dereferences NULL.
set_manager ==
  /\ Handling(253)
  /\ LET g == message.grp
         u == message.to
     IN  \/ /\ \A i \in DOMAIN head_group_relationship[g][message.from] :
                 head_group_relationship[g][message.from][i] # 1
            /\ Segfault
            /\ UNCHANGED <<head, head_request, dataVars>>
         \/ /\ \E i \in DOMAIN head_group_relationship[g][message.from] :
                 head_group_relationship[g][message.from][i] = 1
            /\ \/ ~InGroup(u, g) /\ Reply(2531)
               \/ /\ InGroup(u, g)
                  /\ \/ /\ group_relationship' =
                             Row(group_relationship, g, u, UpdateRows(group_relationship[g][u], 2))
                        /\ head_group_relationship' =
                             Row(head_group_relationship, g, u,
                                 UpdateFirst(head_group_relationship[g][u], 2))
                        /\ Return({cur})
                        /\ UNCHANGED <<message, reqs>>
                     \/ ExitOnError /\ UNCHANGED relVars
                  /\ UNCHANGED <<head, head_request, userVars, friendVars, groupVars>>

\* Tell the applicant, or keep the answer -- under the name of the group.
GroupAnswer(t) == /\ IF Online(message.from)
                       THEN UNCHANGED head_request
                       ELSE Queue(message.grp, message.from, t, message.grp)
                  /\ Return(TargetSocks(message.from))
                  /\ UNCHANGED <<message, reqs, head>>

\* The result of the insert is not looked at.
deal_group_request_y ==
  /\ Handling(321)
  /\ LET g == message.grp
         a == message.from
     IN  /\ \/ group_relationship' =
                 Row(group_relationship, g, a, Append(group_relationship[g][a], 3))
            \/ DbMayFail /\ UNCHANGED group_relationship
         /\ head_group_relationship' =
              Row(head_group_relationship, g, a, weicha_list(head_group_relationship[g][a], 3))
  /\ GroupAnswer("o")
  /\ UNCHANGED <<userVars, friendVars, groupVars>>

deal_group_request_n == Handling(322) /\ GroupAnswer("x") /\ UNCHANGED dataVars

create_group ==
  /\ Handling(5)
  /\ LET g == message.grp
         o == message.from
     IN  \/ Exists(g) /\ Reply(50)
         \/ /\ ~Exists(g)
            /\ \/ /\ user_groups' = [user_groups EXCEPT ![g] = Append(@, o)]
                  /\ head_user_groups' = [head_user_groups EXCEPT ![g] = weicha_list(@, o)]
                  /\ group_relationship' =
                       Row(group_relationship, g, o, Append(group_relationship[g][o], 1))
                  /\ head_group_relationship' =
                       Row(head_group_relationship, g, o, weicha_list(head_group_relationship[g][o], 1))
                  /\ Return({cur})
                  /\ UNCHANGED <<message, reqs>>
               \/ ExitOnError /\ UNCHANGED <<groupVars, relVars>>   \* the first insert fails
               \/ /\ ExitOnError                                    \* the second one fails
                  /\ user_groups' = [user_groups EXCEPT ![g] = Append(@, o)]
                  /\ UNCHANGED <<head_user_groups, relVars>>
            /\ UNCHANGED <<head, head_request, userVars, friendVars>>
=============================================================================
