------------------------------- MODULE Framed -------------------------------
(***************************************************************************)
(* The framed chat, Solution/wuxinyue/chatroom: proto.c and socket.c, the  *)
(* epoll server of server.c and the clients of client.c, client_menu.c.    *)
(*                                                                         *)
(* A packet is a head and a body.  TCP keeps the order of the bytes and    *)
(* may part them anywhere: a stream is a sequence of pieces, a head has    *)
(* HeadLen of them, a body BodyLen and an answer RespLen, and a piece      *)
(* carries the packet that it belongs to and its place there.              *)
(***************************************************************************)
EXTENDS Integers, Sequences, FiniteSets

CONSTANTS Clients,
          HeadLen, BodyLen, RespLen,
          MaxCalls,      \* bound: menu choices of one client
          SysMayFail     \* whether accept or epoll_ctl may fail

ASSUME FramedClients == "listen" \notin Clients /\ "none" \notin Clients
ASSUME FramedLens == HeadLen \in Nat \ {0} /\ BodyLen \in Nat \ {0} /\ RespLen \in Nat \ {0}
ASSUME FramedBounds == MaxCalls \in Nat /\ SysMayFail \in BOOLEAN

Names == {"zhangxue", "other"}
Register(n) == [type |-> "REGISTER", name |-> n]
\* create_request_login writes neither a name nor a password.
Login == [type |-> "LOGIN", name |-> "none"]
Requests == {Register(n) : n \in Names} \cup {Login}
Statuses == {"success", "user exist!"}
NoRequest == [type |-> "none", name |-> "none"]

VARIABLES cli,       \* where a client is
          req,       \* its request
          calls,     \* how many it has made
          got,       \* nread of tcp_read
          shown,     \* what its user was told last
          up,        \* the pieces on their way to the server
          inb,       \* those that have arrived there
          down,      \* the pieces that the client has not read
          eof,       \* whether the client has closed its side
          reset,     \* whether a RST has come from it
          conn,      \* the connection, as the server sees it
          srv,       \* where the server is
          todo,      \* the events of epoll_wait that it has not looked at
          cur, head, \* the connection that it reads, and the head it has
          stop,
          split,     \* history: clients whose packet did not arrive in one piece
          late       \* history: batches of events begun after SIGINT

cliVars == <<cli, req, calls, got, shown>>
netVars == <<up, inb, down, eof, reset, conn>>
srvVars == <<srv, todo, cur, head, stop, late>>
vars == <<cliVars, netVars, srvVars, split>>

Packet(r) == [i \in 1..(HeadLen + BodyLen) |-> [of |-> r, at |-> i]]

Drop(s, n) == SubSeq(s, n + 1, Len(s))
Take(s, n) == SubSeq(s, 1, n)
AtMost(n, m) == IF n < m THEN n ELSE m

-----------------------------------------------------------------------------
(* The client                                                              *)

Ended == {"aborted", "gone"}

\* close: a RST when an answer was left unread.
CloseClient(c) ==
  /\ eof' = [eof EXCEPT ![c] = TRUE]
  /\ reset' = [reset EXCEPT ![c] = @ \/ down[c] # << >>]
  /\ down' = [down EXCEPT ![c] = << >>]
  /\ shown' = [shown EXCEPT ![c] = "ended"]

client_start(c) ==
  /\ cli[c] = "off"
  /\ IF srv \in {"end", "dead"}
       THEN cli' = [cli EXCEPT ![c] = "aborted"] /\ shown' = [shown EXCEPT ![c] = "ended"] /\ conn' = conn
       ELSE cli' = [cli EXCEPT ![c] = "menu"] /\ conn' = [conn EXCEPT ![c] = "pending"] /\ shown' = shown
  /\ UNCHANGED <<req, calls, got, up, inb, down, eof, reset, srvVars, split>>

\* The packet is written whole; on a connection that the server has closed the
\* write fails, or nobody gets it.
Send(c, r) ==
  /\ cli[c] = "menu" /\ calls[c] < MaxCalls
  /\ cli' = [cli EXCEPT ![c] = "wait"]
  /\ req' = [req EXCEPT ![c] = r]
  /\ calls' = [calls EXCEPT ![c] = @ + 1]
  /\ got' = [got EXCEPT ![c] = 0]
  /\ shown' = [shown EXCEPT ![c] = "nothing"]
  /\ up' = [up EXCEPT ![c] = IF conn[c] = "closed" THEN @ ELSE @ \o Packet(r)]
  /\ UNCHANGED <<inb, down, eof, reset, conn, srvVars, split>>

user_register(c) == \E n \in Names : Send(c, Register(n))
user_login(c) == Send(c, Login)

\* (fault: one read, however much that brings)
ReadOnce(n) == TRUE

\* The loop of tcp_read is left when everything is there.
ReadDone(n) == n = RespLen

\* tcp_read: some pieces more.  With the last one the status is shown; a read
\* that gave too little ends the client.
Receive(c) ==
  /\ cli[c] = "wait"
  /\ \E k \in 1..Len(down[c]) :
       LET n == got[c] + k
           short == ReadDone(n) /\ n # RespLen
           left == Drop(down[c], k)
       IN  /\ got' = [got EXCEPT ![c] = n]
           /\ cli' = [cli EXCEPT ![c] = IF short THEN "aborted" ELSE IF ReadDone(n) THEN "menu" ELSE "wait"]
           /\ shown' = [shown EXCEPT ![c] = IF short THEN "ended" ELSE IF ReadDone(n) THEN down[c][1] ELSE @]
           /\ down' = [down EXCEPT ![c] = IF short THEN << >> ELSE left]
           /\ eof' = [eof EXCEPT ![c] = short]
           /\ reset' = [reset EXCEPT ![c] = short /\ left # << >>]
  /\ UNCHANGED <<req, calls, up, inb, conn, srvVars, split>>

\* The connection is gone: tcp_read gives too little, or tcp_write failed.
AbortClient(c) ==
  /\ cli[c] = "wait" /\ conn[c] = "closed" /\ down[c] = << >>
  /\ cli' = [cli EXCEPT ![c] = "aborted"]
  /\ CloseClient(c)
  /\ UNCHANGED <<req, calls, got, up, inb, conn, srvVars, split>>

\* client_destroy from the menu, or the user kills the client.
Leave(c) ==
  /\ cli[c] \in {"menu", "wait"}
  /\ cli' = [cli EXCEPT ![c] = "gone"]
  /\ CloseClient(c)
  /\ UNCHANGED <<req, calls, got, up, inb, conn, srvVars, split>>

\* Some pieces arrive.
Deliver(c) ==
  /\ up[c] # << >> /\ conn[c] # "closed"
  /\ \E k \in 1..Len(up[c]) :
       /\ inb' = [inb EXCEPT ![c] = @ \o Take(up[c], k)]
       /\ up' = [up EXCEPT ![c] = Drop(@, k)]
  /\ UNCHANGED <<cliVars, down, eof, reset, conn, srvVars, split>>

-----------------------------------------------------------------------------
(* The server                                                              *)

\* What an end of the server's side leaves of some connections.
Closed(C) ==
  /\ conn' = [c \in Clients |-> IF c \in C THEN "closed" ELSE conn[c]]
  /\ up' = [c \in Clients |-> IF c \in C THEN << >> ELSE up[c]]
  /\ inb' = [c \in Clients |-> IF c \in C THEN << >> ELSE inb[c]]
  /\ UNCHANGED <<down, eof, reset>>

Known == {c \in Clients : conn[c] \in {"pending", "open"}}

\* (fault: the loop does not look at `stop')
NeverStop == FALSE

StopSeen == stop

\* while (!server->stop); server_destory and the exit of main close everything.
Loop ==
  /\ srv = "top"
  /\ IF StopSeen THEN srv' = "end" /\ Closed(Known) ELSE srv' = "epoll" /\ UNCHANGED netVars
  /\ UNCHANGED <<cliVars, todo, cur, head, stop, split, late>>

\* A client that has closed makes its socket readable when all has arrived; a
\* RST makes it more than readable, and that is not EPOLLIN alone.
Finished(c) == eof[c] /\ up[c] = << >>
Readable(c) == inb[c] # << >> \/ Finished(c)
Ready == {[fd |-> c, in |-> ~reset[c]] : c \in {d \in Clients : conn[d] = "open" /\ (Readable(d) \/ reset[d])}}
         \cup {[fd |-> "listen", in |-> TRUE] : c \in {d \in Clients : conn[d] = "pending"}}

EpollWait ==
  /\ srv = "epoll" /\ Ready # {}
  /\ srv' = "batch" /\ todo' = Ready
  /\ late' = IF stop THEN late + 1 ELSE late
  /\ UNCHANGED <<cliVars, netVars, cur, head, stop, split>>

BatchDone ==
  /\ srv = "batch" /\ todo = {} /\ srv' = "top"
  /\ UNCHANGED <<cliVars, netVars, todo, cur, head, stop, split, late>>

\* One event, in whatever order they come.
Event(e) == srv = "batch" /\ e \in todo /\ todo' = todo \ {e}

accept_new_connection ==
  /\ Event([fd |-> "listen", in |-> TRUE])
  /\ \/ \E c \in Clients : /\ conn[c] = "pending"
                           /\ conn' = [conn EXCEPT ![c] = "open"]
        /\ UNCHANGED <<srv, up, inb, down, eof, reset>>
     \/ SysMayFail /\ srv' = "dead" /\ Closed(Known)
  /\ UNCHANGED <<cliVars, cur, head, stop, split, late>>

\* The events that are not EPOLLIN.
CloseOnError(c) ==
  /\ Event([fd |-> c, in |-> FALSE])
  /\ Closed({c})
  /\ UNCHANGED <<cliVars, srv, cur, head, stop, split, late>>

\* (fault: what is there is taken for the whole)
ShortEnough(c, len) == inb[c] # << >>

\* (fault: a read of 0 bytes is tried again later)
EofIgnored(c, len) == Len(inb[c]) >= len \/ inb[c] = << >>

\* read_from_fd: enough, or -1 (the end, an error, or too little).
Enough(c, len) == Len(inb[c]) >= len

\* The first read of process_user_send_data.
ReadHead(c) ==
  /\ Event([fd |-> c, in |-> TRUE])
  /\ IF Enough(c, HeadLen)
       THEN /\ inb' = [inb EXCEPT ![c] = Drop(@, AtMost(HeadLen, Len(@)))]
            /\ head' = Take(inb[c], AtMost(HeadLen, Len(inb[c])))
            /\ srv' = IF head' = << >> THEN "batch" ELSE "body"
            /\ cur' = c
            /\ UNCHANGED <<up, down, eof, reset, conn, split>>
       ELSE /\ Closed({c})
            /\ split' = IF inb[c] # << >> THEN split \cup {c} ELSE split
            /\ UNCHANGED <<srv, cur, head>>
  /\ UNCHANGED <<cliVars, stop, late>>

\* A head has the magic at its beginning.
Magic(h) == h[1].at = 1

\* (fault: the name is not looked at)
RegisterAll(r) == "success"

process_register(r) == IF r.name = "zhangxue" THEN "user exist!" ELSE "success"

\* process_funcs has one entry; a type without one gives NULL.
Processed(r) == r.type = "REGISTER"

\* The second read: it waits until the connection gives something.  A request
\* that is processed is answered; a RST comes back when the client has gone,
\* and one that has come makes the write fail, which closes the connection.
ReadBody ==
  LET c == cur
      r == head[1].of
      resp == [i \in 1..RespLen |-> process_register(r)]
      refused == ~Magic(head) \/ ~Enough(c, BodyLen) \/ ~Processed(r)
  IN
  /\ srv = "body" /\ (~Magic(head) \/ Readable(c) \/ reset[c])
  /\ srv' = "batch" /\ cur' = "none" /\ head' = << >>
  /\ split' = IF Magic(head) /\ inb[c] # << >> /\ ~Enough(c, BodyLen) THEN split \cup {c} ELSE split
  /\ IF refused \/ reset[c]
       THEN Closed({c})
       ELSE /\ inb' = [inb EXCEPT ![c] = Drop(@, AtMost(BodyLen, Len(@)))]
            /\ down' = [down EXCEPT ![c] = IF eof[c] THEN @ ELSE @ \o resp]
            /\ reset' = [reset EXCEPT ![c] = @ \/ eof[c]]
            /\ UNCHANGED <<up, eof, conn>>
  /\ UNCHANGED <<cliVars, todo, stop, late>>

\* signal_handle; a sleeping epoll_wait returns with EINTR, but not one that is
\* only about to be called; a sleeping read is restarted.
signal_handle ==
  /\ ~stop /\ srv \notin {"end", "dead"}
  /\ stop' = TRUE
  /\ srv' = srv \/ (srv = "epoll" /\ srv' = "top")
  /\ UNCHANGED <<cliVars, netVars, todo, cur, head, split, late>>

-----------------------------------------------------------------------------
Init == /\ cli = [c \in Clients |-> "off"] /\ req = [c \in Clients |-> NoRequest]
        /\ calls = [c \in Clients |-> 0] /\ got = [c \in Clients |-> 0]
        /\ shown = [c \in Clients |-> "nothing"]
        /\ up = [c \in Clients |-> << >>] /\ inb = [c \in Clients |-> << >>]
        /\ down = [c \in Clients |-> << >>]
        /\ eof = [c \in Clients |-> FALSE] /\ reset = [c \in Clients |-> FALSE]
        /\ conn = [c \in Clients |-> "none"]
        /\ srv = "top" /\ todo = {} /\ cur = "none" /\ head = << >>
        /\ stop = FALSE /\ split = {} /\ late = 0

Server == Loop \/ EpollWait \/ BatchDone \/ accept_new_connection \/ ReadBody
          \/ \E c \in Clients : CloseOnError(c) \/ ReadHead(c)
Client(c) == \/ client_start(c) \/ user_register(c) \/ user_login(c)
             \/ Receive(c) \/ AbortClient(c) \/ Leave(c)

Next == Server \/ signal_handle \/ \E c \in Clients : Client(c) \/ Deliver(c)

Spec == Init /\ [][Next]_vars

\* The server runs, TCP delivers, and a client that waits goes on reading.
\* Nobody has to call, to leave or to interrupt.
FairSpec == /\ Spec /\ WF_vars(Server)
            /\ \A c \in Clients : WF_vars(Receive(c) \/ AbortClient(c)) /\ WF_vars(Deliver(c))

-----------------------------------------------------------------------------
(* Properties                                                              *)

Pieces == [of : Requests \cup {NoRequest}, at : 1..(HeadLen + BodyLen)]
Events == [fd : Clients \cup {"listen"}, in : BOOLEAN]

TypeOK ==
  /\ cli \in [Clients -> {"off", "menu", "wait"} \cup Ended]
  /\ req \in [Clients -> Requests \cup {NoRequest}]
  /\ calls \in [Clients -> Nat] /\ got \in [Clients -> Nat]
  /\ shown \in [Clients -> Statuses \cup {"nothing", "ended"}]
  /\ up \in [Clients -> Seq(Pieces)] /\ inb \in [Clients -> Seq(Pieces)]
  /\ down \in [Clients -> Seq(Statuses)]
  /\ eof \in [Clients -> BOOLEAN] /\ reset \in [Clients -> BOOLEAN]
  /\ conn \in [Clients -> {"none", "pending", "open", "closed"}]
  /\ srv \in {"top", "epoll", "batch", "body", "end", "dead"}
  /\ todo \subseteq Events /\ cur \in Clients \cup {"none"} /\ head \in Seq(Pieces)
  /\ stop \in BOOLEAN /\ split \subseteq Clients /\ late \in Nat

\* The server never loses its place in a stream: what a connection still holds
\* is the rest of one packet, from a head on unless its body is being read.
FramesAligned ==
  \A c \in Clients :
    LET s == inb[c] \o up[c]
        k == IF srv = "body" /\ cur = c THEN HeadLen ELSE 0
    IN  conn[c] \in {"pending", "open"} /\ s # << >> => s = Drop(Packet(req[c]), k)

\* A client ends in the middle of a call, without its user's doing, only for a
\* login, which the server does not know, for a packet that did not arrive in
\* one piece, or because the server has ended.
AbortHasCause ==
  \A c \in Clients :
    cli[c] = "aborted" => \/ req[c].type = "LOGIN" \/ c \in split
                          \/ srv \in {"end", "dead"}

\* After SIGINT the server begins at most one more round of events.
StopsAfterOneBatch == late <= 1

\* The server does not keep the connection of a client that has ended.
NoFdLeak == \A c \in Clients : [](cli[c] \in Ended => <>(conn[c] \in {"none", "closed"}))

\* The answers that a call may have: a login has none.
AnswersOf(r) == IF r.type = "REGISTER"
                  THEN IF r.name = "zhangxue" THEN {"user exist!"} ELSE {"success"}
                  ELSE {}

Abstract == INSTANCE Rpc WITH
  Answers <- AnswersOf, NoCall <- NoRequest,
  call <- [c \in Clients |-> IF cli[c] = "wait" THEN req[c] ELSE NoRequest],
  shown <- shown

\* The framed chat implements the calls that it promises: every choice of the
\* menu gets its own answer, once, or ends the client, and no user waits for ever.
ImplementsCalls == Abstract!Spec
=============================================================================
