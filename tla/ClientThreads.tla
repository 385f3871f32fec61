---------------------------- MODULE ClientThreads ----------------------------
(***************************************************************************)
(* The threads of the chat client of Code/huqingwei/chat_room (client1.c): *)
(* server_message, which receives, and the menu thread in deal_request.    *)
(* They share the lists head_friend and head_group.                        *)
(*                                                                         *)
(* charu_list and del_head run under the mutex; the menu thread reads the  *)
(* first node without it, in several accesses, while charu_list may be     *)
(* filling that very node: del_head gives the first node back and assigns  *)
(* only its own parameter, so the list still starts with it.  malloc may   *)
(* return it again, and free may overwrite its `next', which lies where    *)
(* glibc keeps the size of a free chunk.                                   *)
(***************************************************************************)
EXTENDS Integers, Sequences

CONSTANTS MaxMsgs,   \* bound: messages of the server
          Parts      \* pieces in which a MSG of a file can arrive

ASSUME MsgsAssumption == MaxMsgs \in Nat
ASSUME PartsAssumption == Parts \in Nat \ {0}

\* The lists, by the command of their requests, and their nodes.
Lists == {14, 23}
Nodes == 1..MaxMsgs
NULL == 0
WILD == -1   \* an address that cannot be read
MIXED == -1  \* a request of which only a part has been written

VARIABLES menu,      \* where the menu thread is
          list,      \* the list whose first request it shows
          message,   \* its copy of that request
          shown,     \* the requests that the lines on the screen are about
          recv,      \* where server_message is
          sum,       \* recv_file: pieces of the MSG received so far
          msg,       \* the MSG that arrives: number, cmd, whether once_len is 1024
          new_node,  \* the node that charu_list fills
          head,      \* head_friend and head_group
          request, next,   \* the two fields of a node
          used,      \* nodes malloc has given away
          written,   \* the file: numbers of the chunks in it
          sending,   \* the server is in send_file for this client
          sent,      \* history: the chunks of 1024 bytes it sent of the file
          gone,      \* history: a sender went in the middle of its file
          arrived,   \* history: requests put into each list
          answers    \* history: requests answered, with the ones shown

showVars == <<list, message, shown>>
listVars == <<new_node, head, request, next, used, arrived>>
serverVars == <<msg, sending, sent, gone>>
vars == <<menu, showVars, recv, sum, written, serverVars, listVars, answers>>

Running == menu \notin {"exit", "segv", "abort"}

-----------------------------------------------------------------------------
(* The lists                                                               *)

\* The nodes from n on: the k-th is NULL behind the end and WILD behind a
\* node whose `next' was overwritten.
From(n, nx) == LET at[k \in 0..MaxMsgs] ==
                     IF k = 0 THEN n ELSE IF at[k - 1] \in Nodes THEN nx[at[k - 1]] ELSE at[k - 1]
               IN  at

Chain(t) == LET at == From(head[t], next) IN {at[k] : k \in 0..MaxMsgs} \cap Nodes

\* (fault: the list begins with the new node)
LinkFront(n, last, nx) == [nx EXCEPT ![n] = last]

\* (fault: the new node leads back to the first)
LinkRing(n, last, nx) == [nx EXCEPT ![last] = n, ![n] = last]

\* current->next = new_node
Link(n, last, nx) == [nx EXCEPT ![last] = n]

\* malloc, and the assignment of the request, which takes its time.
NewNode ==
  /\ Running /\ recv = "lock" /\ recv' = "fill"
  /\ \E n \in Nodes \ used : /\ new_node' = n
                             /\ used' = used \cup {n}
                             /\ request' = [request EXCEPT ![n] = MIXED]
  /\ UNCHANGED <<menu, showVars, sum, written, serverVars, head, next, arrived, answers>>

\* The new node goes to the end of the list t.  The walk to the end crashes at
\* an address that cannot be read, and never ends in a ring: the thread then
\* keeps the mutex.
charu_list(t, n) ==
  LET nx == [next EXCEPT ![n] = NULL]
      at == From(head[t], nx)
  IN  /\ request' = [request EXCEPT ![n] = msg.n]
      /\ arrived' = [arrived EXCEPT ![t] = Append(@, msg.n)]
      /\ \/ /\ head[t] = NULL
            /\ head' = [head EXCEPT ![t] = n] /\ next' = nx
            /\ recv' = "recv" /\ menu' = menu
         \/ /\ head[t] # NULL /\ at[MaxMsgs] = NULL
            /\ \E k \in 0..MaxMsgs :
                 at[k] \in Nodes /\ nx[at[k]] = NULL /\ next' = Link(n, at[k], nx)
            /\ recv' = "recv" /\ UNCHANGED <<menu, head>>
         \/ /\ at[MaxMsgs] = WILD
            /\ menu' = "segv" /\ UNCHANGED <<recv, head, next>>
         \/ /\ at[MaxMsgs] \in Nodes
            /\ recv' = "hung" /\ next' = nx /\ UNCHANGED <<menu, head>>

-----------------------------------------------------------------------------
(* server_message                                                          *)

\* The next MSG of the server (epoll.c): inside send_file a chunk, or whatever
\* else the sender sends, which ends the file as a short chunk does; outside it
\* any command, 6 being the header of a file.
Sends(c, full) ==
  /\ msg.n < MaxMsgs /\ (full => sending /\ c = 6)
  /\ msg' = [n |-> msg.n + 1, cmd |-> c, full |-> full]
  /\ sending' = IF sending THEN full ELSE c = 6
  /\ sent' = IF full THEN Append(sent, msg.n + 1)
             ELSE IF c = 6 /\ ~sending THEN << >> ELSE sent
  /\ gone' = gone

\* Anything but a request is printed, and a file is opened.
Recv ==
  /\ Running /\ recv = "recv"
  /\ \E c \in Lists \cup {11, 6}, full \in BOOLEAN :
       /\ Sends(c, full)
       /\ recv' = CASE c \in Lists -> "lock" [] c = 6 -> "file" [] OTHER -> "recv"
       /\ IF c = 6 THEN sum' = 0 /\ written' = << >> ELSE UNCHANGED <<sum, written>>
  /\ UNCHANGED <<menu, showVars, listVars, answers>>

RecvRequest ==
  /\ Running /\ recv = "fill"
  /\ charu_list(msg.cmd, new_node)
  /\ UNCHANGED <<showVars, sum, written, serverVars, new_node, used, answers>>

\* (fault: a piece is taken for a MSG only when it is a whole one)
WholePiece(old, k) == k = Parts

\* if(sum == sizeof(MSG))
Complete(old, k) == old + k = Parts

NewSum(old, k) == (old + k) % Parts

\* recv_file: the next piece.  A chunk of 1024 bytes is written; a shorter one,
\* and any other message that comes instead of it, ends the file unwritten.
RecvPiece ==
  /\ Running /\ recv = "file"
  /\ IF sum = 0 THEN \E c \in Lists \cup {11, 6}, full \in BOOLEAN : Sends(c, full)
                ELSE UNCHANGED serverVars
  /\ \E k \in 1..(Parts - sum) :
       /\ sum' = NewSum(sum, k)
       /\ IF Complete(sum, k) /\ msg'.full
            THEN written' = Append(written, msg'.n) ELSE written' = written
       /\ recv' = IF Complete(sum, k) /\ ~msg'.full THEN "recv" ELSE "file"
  /\ UNCHANGED <<menu, showVars, listVars, answers>>

\* The sender is gone, perhaps before its header is dispatched once more: the
\* server leaves send_file, and the receiver is not told.
SenderGone ==
  /\ Running /\ sending
  /\ sending' = FALSE /\ gone' = TRUE
  /\ UNCHANGED <<menu, showVars, recv, sum, written, msg, sent, listVars, answers>>

\* recv returns 0: recv_file goes back to server_message, whose thread ends.
RecvEof ==
  /\ Running
  /\ \/ recv = "file" /\ recv' = "eof"
     \/ recv \in {"recv", "eof"} /\ recv' = "ended"
  /\ UNCHANGED <<menu, showVars, sum, written, serverVars, listVars, answers>>

-----------------------------------------------------------------------------
(* friend_request, group_request                                           *)

First(t) == request[head[t]]

\* friend_request prints the name in the first node ...
FirstLine ==
  /\ menu = "face" /\ head[14] # NULL
  /\ menu' = "copy" /\ list' = 14 /\ shown' = {First(14)}
  /\ UNCHANGED <<message, recv, sum, written, serverVars, listVars, answers>>

\* ... group_request prints nothing yet.
FirstGroup ==
  /\ menu = "face" /\ head[23] # NULL
  /\ menu' = "copy" /\ list' = 23 /\ shown' = {}
  /\ UNCHANGED <<message, recv, sum, written, serverVars, listVars, answers>>

\* message = current->request; group_request then prints from the copy.
Copy ==
  /\ menu = "copy"
  /\ message' = First(list)
  /\ \/ list = 14 /\ menu' = "line" /\ shown' = shown
     \/ list = 23 /\ menu' = "asked" /\ shown' = {message'}
  /\ UNCHANGED <<list, recv, sum, written, serverVars, listVars, answers>>

\* friend_request prints the name in the node once more; the user thinks it over.
SecondLine ==
  /\ menu = "line" /\ menu' = "asked"
  /\ shown' = shown \cup {First(list)}
  /\ UNCHANGED <<list, message, recv, sum, written, serverVars, listVars, answers>>

\* (fault: the node is read again after the user has answered)
AnswerReread(t, copy) == First(t)

AnswerTo(t, copy) == copy

\* y or n: 311 or 312, 321 or 322.
Answer ==
  /\ menu = "asked" /\ menu' = "lock"
  /\ answers' = Append(answers, [list |-> list, shown |-> shown, req |-> AnswerTo(list, message)])
  /\ UNCHANGED <<showVars, recv, sum, written, serverVars, listVars>>

\* del_head, under the mutex; free finds out about a node that is free already.
del_head ==
  LET n == head[list] IN
  /\ menu = "lock" /\ recv \notin {"fill", "hung"}
  /\ IF n \in used
       THEN /\ used' = used \ {n}
            /\ next' \in {next, [next EXCEPT ![n] = WILD]}
            /\ menu' = "face"
       ELSE menu' = "abort" /\ UNCHANGED <<used, next>>
  /\ UNCHANGED <<showVars, recv, sum, written, serverVars, new_node, head, request, arrived, answers>>

\* 0 in user_face.
Exit == /\ menu = "face" /\ menu' = "exit"
        /\ UNCHANGED <<showVars, recv, sum, written, serverVars, listVars, answers>>

-----------------------------------------------------------------------------
Init == /\ menu = "face" /\ list = 14 /\ message = 0 /\ shown = {}
        /\ recv = "recv" /\ msg = [n |-> 0, cmd |-> 0, full |-> FALSE]
        /\ sending = FALSE /\ sent = << >> /\ gone = FALSE
        /\ new_node = NULL /\ head = [t \in Lists |-> NULL]
        /\ request = [n \in Nodes |-> 0] /\ next = [n \in Nodes |-> NULL] /\ used = {}
        /\ sum = 0 /\ written = << >>
        /\ arrived = [t \in Lists |-> << >>] /\ answers = << >>

Next == \/ Recv \/ NewNode \/ RecvRequest \/ RecvPiece \/ SenderGone \/ RecvEof
        \/ FirstLine \/ FirstGroup \/ Copy \/ SecondLine \/ Answer \/ del_head \/ Exit

Spec == Init /\ [][Next]_vars

-----------------------------------------------------------------------------
(* Properties                                                              *)

TypeOK ==
  /\ menu \in {"face", "copy", "line", "asked", "lock", "exit", "segv", "abort"}
  /\ recv \in {"recv", "lock", "fill", "file", "hung", "eof", "ended"}
  /\ list \in Lists /\ message \in MIXED..MaxMsgs /\ shown \subseteq MIXED..MaxMsgs
  /\ msg \in [n : 0..MaxMsgs, cmd : Lists \cup {0, 6, 11}, full : BOOLEAN]
  /\ sum \in 0..(Parts - 1) /\ sending \in BOOLEAN /\ gone \in BOOLEAN
  /\ new_node \in Nodes \cup {NULL}
  /\ head \in [Lists -> Nodes \cup {NULL}] /\ used \subseteq Nodes
  /\ request \in [Nodes -> MIXED..MaxMsgs] /\ next \in [Nodes -> WILD..MaxMsgs]
  /\ written \in Seq(1..MaxMsgs) /\ sent \in Seq(1..MaxMsgs)
  /\ arrived \in [Lists -> Seq(1..MaxMsgs)]
  /\ answers \in Seq([list : Lists, shown : SUBSET (MIXED..MaxMsgs), req : MIXED..MaxMsgs])

Unanswered == \A i \in DOMAIN answers : FALSE

\* Until the first answer the lists are right: each holds its requests in the
\* order they came, in nodes of its own (charu_list, under either interleaving).
ListsRightUntilAnswer ==
  Running /\ Unanswered =>
    /\ \A t \in Lists : LET at == From(head[t], next) IN
         /\ \A k \in 1..Len(arrived[t]) : at[k - 1] \in used /\ request[at[k - 1]] = arrived[t][k]
         /\ at[Len(arrived[t])] = NULL
    /\ Chain(14) \cap Chain(23) = {}

\* Where the lines that the user has read agree, the answer that goes to the
\* server is about the request they name, although the node may be filled anew
\* while it is printed, copied and printed again, or while the user thinks; and
\* the first answer is about the request that came first to its list.
AnswersWhatWasSeen ==
  /\ \A i \in DOMAIN answers : \A r \in answers[i].shown :
       answers[i].shown = {r} => answers[i].req = r
  /\ Unanswered \/ LET a == answers[1] IN a.shown = {a.req} /\ a.req = arrived[a.list][1]

\* The client crashes, or hangs with the mutex locked, only after an answer, and
\* free aborts only at the second answer.
CorruptOnlyAfterAnswer ==
  /\ menu = "segv" \/ recv = "hung" => ~Unanswered
  /\ menu = "abort" => Len(answers) > 1

\* As long as no sender goes in the middle of a file, the receiver is in step
\* with send_file of the server, whatever the pieces in which the MSGs arrive and
\* however the file ends: no chunk is taken for a command and no request for a
\* chunk, and the file holds the full chunks sent, each once and in order.
FileInStep ==
  ~gone /\ recv \notin {"eof", "ended"} =>
    /\ recv = "file" <=> sending \/ sum # 0
    /\ sent = IF sum # 0 /\ msg.full THEN Append(written, msg.n) ELSE written
=============================================================================
