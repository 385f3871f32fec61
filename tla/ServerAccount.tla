--------------------------- MODULE ServerAccount ---------------------------
(***************************************************************************)
(* Accounts: reg, login and forget_password of epoll.c.                    *)
(***************************************************************************)
EXTENDS ServerState

\* (fault: the name is not searched for)
NameNeverTaken(n) == FALSE

NameTaken(n) == head_user[n] # << >>

\* The list takes the row before the query runs: a refused insert ends the
\* process, and the list with it.
reg ==
  /\ Handling(1)
  /\ \/ /\ NameTaken(message.from)
        /\ Reply(-1)
     \/ /\ ~NameTaken(message.from)
        /\ head_user' = [head_user EXCEPT ![message.from] = weicha_list(@, message.pw)]
        /\ \/ /\ user' = [user EXCEPT ![message.from] = Append(@, message.pw)]
              /\ message' = [message EXCEPT !.cmd = 1001]
              /\ Return({cur})
              /\ UNCHANGED reqs
           \/ ExitOnError /\ user' = user
        /\ UNCHANGED <<head, head_request, friendVars, groupVars, relVars>>

\* (fault: the commands of requests and acceptances are swapped)
CommandSwapped(t) == CASE t = "f" -> 311 [] t = "y" -> 14 [] t = "n" -> 312 [] t = "g" -> 23
                       [] t = "o" -> 321 [] t = "x" -> 322 [] t = "q" -> 24

\* The command a queued request is sent with.
Command(t) == CASE t = "f" -> 14 [] t = "y" -> 311 [] t = "n" -> 312 [] t = "g" -> 23
                [] t = "o" -> 321 [] t = "x" -> 322 [] t = "q" -> 24

\* The group name in the slot when node i is sent: only o, x and q nodes set it.
SetsGroup(r) == r.type \in {"o", "x", "q"}

GroupAt(q, i) ==
  LET last == {j \in 1..i : SetsGroup(q[j]) /\ \A k \in (j + 1)..i : ~SetsGroup(q[k])}
  IN  IF last = {} THEN None ELSE q[CHOOSE j \in last : TRUE].to_group_name

\* The receiver in the slot when node i is sent: an o node does not set it.
ToAt(q, i, n) == IF \E j \in 1..i : q[j].type # "o" THEN n ELSE None

\* The slot as it is sent for node i of the requests q kept for n (the password
\* still in it is read by none of these commands, and dropped).
Queued(m, q, i) == [m EXCEPT !.cmd = Command(q[i].type), !.from = q[i].from_name,
                             !.to = ToAt(q, i, m.from), !.grp = GroupAt(q, i),
                             !.pw = None]

\* Every request kept for the name is sent, and stays in the list.
login ==
  /\ Handling(2)
  /\ \/ /\ \A i \in DOMAIN head_user[message.from] : head_user[message.from][i] # message.pw
        /\ Reply(-2)
     \/ LET n == message.from
            q == head_request[n]
        IN  /\ \E i \in DOMAIN head_user[n] : head_user[n][i] = message.pw
            /\ head' = charu_list(n, cur)
            /\ who' = [who EXCEPT ![cur] = n]
            /\ message' = IF q = << >> THEN [message EXCEPT !.cmd = 1002]
                                       ELSE Queued(message, q, Len(q))
            /\ reqs' = [reqs EXCEPT ![cur] =
                          IF conn[cur] = "open"
                            THEN @ \cup {Queued(message, q, i) :
                                           i \in {j \in DOMAIN q : q[j].type \in {"f", "g"}}}
                            ELSE @]
            /\ pc' = "wait" \/ Sigpipe({cur}, IF q = << >> THEN {} ELSE {cur})
            /\ Sent({cur})
            /\ UNCHANGED <<cur, filedst, clientVars, head_request, dataVars>>

\* 1: no such account, 2: another telephone, 3: the telephone is sent back as
\* the password.  The replies 1 and 2 are commands of their own.  Telephones are
\* left out: a user may type any; a zeroed MSG holds the one that a replayed reg
\* stored for the empty name.
forget_password ==
  /\ Handling(0)
  /\ \/ head_user[message.from] = << >> /\ Reply(1)
     \/ head_user[message.from] # << >> /\ message.from # None /\ Reply(2)
     \/ head_user[message.from] # << >> /\ Reply(3)
=============================================================================
