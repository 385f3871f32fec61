# TLA+ models of the TeamC chat rooms

The repository collects the work of a summer course: three chat rooms (client,
server, MySQL database), a thread pool, several shells, and many one-file
exercises. This directory holds TLA+ models of its programs, the TLC
configurations that check them, and proofs checked by TLAPS.

## 1. Inventory

| Part | State it keeps | Operations | What is hard | Modelled |
|---|---|---|---|---|
| Chat server, `Code/huqingwei/chat_room/epoll.c` | lists `head` (users online), `head_user`, `head_friends`, `head_user_groups`, `head_group_relationship`, `head_request`; four tables; one `MSG` slot in `main` | 20 handlers behind `chuli_request`, accept, recv, disconnection, SIGINT, restart | one slot reused by all events and dispatched after `recv` failed; lists and tables updated by different rules; queries that fail half way; dead peers; requests kept for users offline; a handler that blocks the loop | yes |
| Its client, `client1.c` | name, two lists of requests, a file being received, connection | menus, answers, file transfer, receive thread | two threads, one of which reads a list without the mutex; `del_head` frees a node that stays in the list; a file ends with a short chunk | yes |
| Chat server of liuting, `Code/liuting1/chatroom/server_*.c`, `MYSQL.c` | four tables, the cache `g[100]`, the list of packets for users offline, the last receiver of a file | 21 packet types behind `deal`, accept, recv, disconnection, restart | an uninitialised packet dealt with after `recv` failed; status after the end of a connection; caches filled once; packets handed out at a wrong password; writes that fail half way | yes |
| Its client, `client_*.c` | three boxes, `account`, `send_account` | menus, receive thread | boxes appended to and emptied by two threads without a lock | yes |
| Thread pool, `Code/liuting1/lt_thread_pool` | queue, mutex, condition, `is_start` | start, pushtask, stop, destroy, thread_work | flag outside the mutex, broadcast without it, two joins for n threads | yes |
| Framed chat of wuxinyue, `Solution/wuxinyue/chatroom` | connections, `stop` | framing, dispatch, two calls of the client, SIGINT | partial reads, a blocking read in the loop, a client that leaves at any moment | yes |
| Shells, `my_shell.c` of the three authors | children, the file of a pipe | parse, fork, wait, background, pipe, ^C | which child `wait` reaps; one file for all pipes; which signal dispositions survive `exec` | partly |
| Dining philosophers, `Code/huqingwei/test/zhexuejia.c` | five mutexes | eat_think | giving back and trying again | yes |
| Chat room of wuxinyue, `Code/wuxinyue/聊天室` | as the first server | accept, receive, two queries | as above | no: its handlers after the login are stubs |
| ls variants, exercises | none between calls | printing, sorting | none | no: pure I/O and unrelated one-file exercises |

How the first two interact: a client has one TCP connection and exchanges
fixed-size `MSG` structs with the server; the field `cmd` selects the handler,
and the server answers in the same struct with another `cmd`. Clients reach each
other only through the server, which looks the receiver up in `head`.

What makes the server correct: the list of users online names the connections
that are really there; memory and database agree, so that a restart changes
nothing; a friendship rests on the consent of both; groups keep their owners; a
request is served and a connection that ended is noticed.

## 2. Modules

### Chat server

| Module | Models |
|---|---|
| `ServerState` | variables, `MSG`, `request_node`; `charu_list`, `del_node`, `weicha_list`; how a handler ends (reply, forward, queue, crash, `exit(1)`) |
| `ServerAccount` | `reg`, `login`, `forget_password` |
| `ServerFriend` | `all_friends`, `online_friend`, `private_chat`, `add_friend`, `delete_friend`, `deal_friend_request_y/_n` |
| `ServerGroup` | `view_group`, `public_chat`, `add_group`, `quit_group`, `view_group_member`, `break_group`, `set_manager`, `deal_group_request_y/_n`, `create_group` |
| `ServerFile` | `send_file`, which takes over the loop until the file has passed |
| `ChatServer` | `main`, the dispatch, the clients, the end and the restart of the process; the type invariant |
| `ServerProperties` | the properties, and the fairness used for liveness |
| `MCServer` | symmetry sets for TLC |
| `ServerProofs` | theorems |

Correspondence. `pc` is where `main` is: in `epoll_wait`, about to call
`chuli_request`, inside the receive loop of `send_file`, dying (`segv`, `exit`,
`sigpipe`) or down. The server is single-threaded, so a handler is one action,
with every query, list operation and `send` it makes; `send_file` is the
exception, because it receives. `message` is `main`'s variable: it keeps what
the last event left in it, reply codes included, and `RecvEof` and `RecvError`
go on to dispatch it, as the code does. Before the first message the slot holds
zeros or no command at all.

A list or table is a function from the key that every search of it compares to
the sequence of its rows under that key: `head_friends[u][f]` are the statuses
of the rows (u, f), in their order. This keeps the difference that matters
between the two sides -- the C code stops at the first matching node, an SQL
statement changes every matching row -- and drops the order of unrelated rows,
which no search can see. `head` and the queue `head_request` keep their order;
the latter is grouped by the name it is searched for.

Fields of `MSG` are folded: `from` is `user_infor.name`, `from_name` or
`group.group_owner`, whichever the command reads; `grp` is `to_group_name` or
`group.group_name`. Texts, times, nicknames and telephones are left out; a
telephone only decides between two answers of `forget_password`, both of which
are possible in the model. `full` stands for `once_len >= 1024`.

`conn` is what the kernel knows of a connection: `open`; `closed` (the peer sent
FIN); `reset` (RST received, the next `recv` returns -1); `broken` (a further
`send` raises SIGPIPE). `who` is the name the client is logged in with and
`reqs` are the requests it has been shown. A request stays in `reqs` after it was
answered, because `del_head` of the client frees the node without advancing the
list: the user may answer again.

`consented` is a history variable: the pairs (u, f) where u, at the client, asked
for or accepted f. `left` bounds a run (below). Neither is read by the server.

### Threads of huqingwei's client

`ClientThreads` models `server_message` and the menu thread of `client1.c` around
`head_friend` and `head_group`. `charu_list` and `del_head` run under the mutex, the
reads of the first node do not, and each is a step of its own: `friend_request` prints
the name (`FirstLine`), copies the request (`Copy`), prints the name in the node again
(`SecondLine`) and sends the copy when the user has answered (`Answer`);
`group_request` (`FirstGroup`) copies first and prints the copy. `del_head` frees the
node and assigns only its parameter, so that the list still begins there: a later
`malloc` may return the node, and `free` may have overwritten its `next` -- both are
choices of the model, `WILD` is an address that cannot be read. Because the node may
thus be filled while it is read, `charu_list` is two steps, `NewNode`, after which the
request in the node is partly written (`MIXED`), and `RecvRequest`, which completes and
links it. `shown` are the requests that the lines on the screen name.

The other half is the file. `Sends` is the server's end of the connection, outside and
inside `send_file`; `RecvPiece` is the loop of `recv_file`, which counts the pieces of a
`MSG` in `sum`; `SenderGone` is a sender that goes in the middle of its file, of which
the receiver is not told. What the answers do at the server is `ChatServer`; `reqs`
there stands for these lists. `ClientThreadsProofs` has its theorems.

### Chat server of liuting

`LtTables` has the tables and the statements of `MYSQL.c`, `LtServer` the loop, `deal`
and its handlers, and what the clients send; `MCLt` the symmetry and the initial
friendships of the instances; `LtProofs` the theorems. One thread around `epoll_wait`:
an event is one action. `pack` is the stack slot of `recv_PACK`, which nothing
initialises: at the end of a connection its account is set offline, and after a failed
`recv` it is dealt with once more. Accounts and groups are numbered from 1 by MySQL, so
the number of a group is also that of an account, which `deal_join_user` mixes up.
`g[i]` is the cache of group chat for the sender i, `off[b]` the packets kept for b in
their order, which is all that `pro_off` can see of the list. `mysql` is whether the
global handle is connected. The clients' side is what the menus send, the packet that
the login takes for its answer, and the friend requests it can answer (`inbox`).
`nsent`, `nhanded`, `asked`, `accepted` are history variables. Every write may be
refused, that of `MYSQL_main_init` at the start too.

### Client of liuting

`LtClient`: the menu thread and the thread of `recv_PACK` around the three boxes.
Every access to a list is a step: the test of the head, the allocation of the dummy,
the two links, and in the menu thread the test, showing, answering, unlinking,
freeing the dummy and `head = NULL`. A node is named after its packet, so a freed
node is not reused. `Exit` takes the process with both threads away.
`LtClientProofs` has its theorems.

### Thread pool

`ThreadPool` models `thread_pool.c` and `queue.c`, driven by `main.c`: `mpc` is
the program counter of `main` (start, creating threads, pushing, stopping,
destroying), `tpc` that of each thread. Accesses to the queue happen under the
mutex and are one step per critical action; each access to `is_start`, which the
code reads and writes with and without the mutex, is a step of its own, and so
is the moment between the test in the `while` and the wait. The `sleep(2)` of
`main.c` orders nothing. `Queue_pop` is two steps, so that two threads inside it
would take the same task. `ThreadPoolProofs` has its theorems and `MCPool` the
instance.

### Framed chat

`Framed` models `proto.c`, `socket.c`, `server.c`, `client.c` and `client_menu.c`. A
stream is a sequence of pieces that know their packet and their place in it, and TCP
delivers any number of them at a time. The server's loop is a program counter (`top`,
`epoll`, `batch`, `body`); the two reads of `process_user_send_data` are two actions, of
which the second blocks with the whole server. SIGINT interrupts a sleeping
`epoll_wait`, and is missed by one that is only about to be called. `conn`, `eof` and
`reset` are the connection as either side knows it. `Rpc` is the abstract specification,
a set of calls: each returns once with an answer to this very call or ends its client,
and nobody waits for ever. Under the mapping `Abstract` a client in the middle of
`tcp_write`/`tcp_read` is a call that is open, and everything the server and the network
do is a stutter. `RespLen` is compared as a number of pieces, because an answer is
written in one call.

### Shells

`ShellParse` is `explain_input` and `do_cmd` up to `fork`, as a function from a line (a
sequence of words, where `_` is a blank too many) to a plan, for each author; `Shell` is
the rest: the shell, the commands as processes, and pipes, which are real ones at
huqingwei and a file in `/tmp` at the others. The second command of such a pipe opens
the file when the first has ended (`PipeRead`) and then reads it block by block at its
own offset (`ReadBlock`), while another pipe may truncate or overwrite it; a pipe uses
the file from the first command's `open` to the end of the second one's reading
(`InUse`). That wuxinyue removes the file when the second command is not found empties
it in the model and notes the pipes that use it, although they keep what they have
opened. `Interrupt` is ^C for every process of the terminal. `Init` chooses the author.
`ShellProofs` has the theorems.

### Philosophers

`Philosophers` is `eat_think` for N philosophers: `pthread_mutex_lock` on the left,
`trylock` on the right, and the way back when that is busy. `PhilosophersProofs` has
its theorems.

## 3. Runs

| Run | Instance | Shows |
|---|---|---|
| `commands` | 2 users with accounts, 2 connections, 1 group, every command, refused queries, resets, restarts, 7 events | `TypeOK`; memory and tables agree (`FriendListMirrorsTable`, `MembersInList`); `RowsHaveConsent`, `ConsentKept`, `ChatOnlyBetweenConsenting` |
| `sessions` | 2 users, 3 connections, login, files, the group commands that change something, resets, 7 events | `OnlineNodesLive`, `OwnerIsMember`, `TypeOneIsOwner` |
| `progress` | fair behaviours, registration, login, files, refused queries, resets, 5 events | `RequestServed` and `DisconnectNoticed`, each unless a sender stalls in its file for ever; `OneAccountPerName` |
| `client` | 4 messages of the server, a `MSG` in up to 2 pieces | `ListsRightUntilAnswer`, `AnswersWhatWasSeen`, `CorruptOnlyAfterAnswer`, `FileInStep` (until a sender goes in the middle of a file) |
| `lt_chat` | 2 accounts that are friends, 2 connections, the packets of private chat and of friends, refused writes, wrong passwords, resets, restarts, 7 events | `ChatQueueExact` |
| `lt_groups` | 1 account and 1 to come, 2 connections, groups and friend requests, refused writes, wrong passwords, resets, restarts, 7 events | `CachedFd`, `MembersOfGroups`, `FriendsAnswered` |
| `lt_client` | 2 peers, 3 packets of any type after the login | `LostOnlyInDrain`, `ShownInOrder`, `BoxWellFormed` |
| `pool` | 3 threads, 3 tasks, fair behaviours | `TasksOnce`, `PopFindsTask`, `TasksServed`, `DestroyReturns` |
| `framed` | 2 clients, 2 calls each (two names to register, or a login), heads, bodies and answers of 2 pieces, SIGINT, failing `accept`, fair behaviours | `FramesAligned`, `AbortHasCause`, `StopsAfterOneBatch`, `NoFdLeak`, and the refinement `ImplementsCalls` |
| `shell` | 3 authors, lines of up to 3 words, 3 commands, 2 blocks of output, fair behaviours | `PlansSafe`, `ForegroundWaitedFor`, `PipeOwnData`, `PromptReturns` |
| `philosophers` | 5 philosophers, fair behaviours | `Exclusion`, `PutBack` |
| `v_replay` | violated | `OnlyClientData`: a disconnection executes the message of an earlier event once more |

The violated property is what a comment of the program says; `PROJECT.json` quotes
it. Several of the passing properties state exactly how far the code keeps what
one would expect of it, so that a later change shows on which side it falls:
packets of liuting's client get lost only in a race with `recv_chat_fri` and its
relatives (`LostOnlyInDrain`); huqingwei's lists are right until the first answer
(`ListsRightUntilAnswer`); huqingwei's shell passes over a command in the foreground
exactly as often as `wait` has reaped one of the background (`ForegroundWaitedFor`).

The type invariants of `LtServer`, `LtClient`, `ClientThreads`, `Shell` and `Framed`
declare the ranges of their variables and are not listed with the runs; they are part
of the proofs.

Bounds. In the two servers `MaxEvents` bounds the connections made and the requests sent
in a behaviour, `MaxInflight` the requests sent and not yet received; disconnections,
replays, crashes and restarts are not bounded. Two users and seven events are enough
for: both log in (4), one asks, the other accepts or asks too, and one more request of
either; for a group: one user logs in (2), creation, a request to join, two answers, and
a promotion or a try to quit of the owner. A member who quits needs eight events (two
connections, two logins, creation, request, answer, quit) and is not reached;
`OwnersAreMembers` and `OnlyOwnersManage` cover that for any number of events.
`del_node` distinguishes the first, the second, a middle and the last node of the list,
which three connections cover: three logins take six events, and the seventh is a
reconnection or a file. At liuting's server a packet is one event, connection and login
are two: two logins and three chats, requests or group commands around any number of
disconnections. In `lt_client` three packets reach a box that is empty, has one node or
two when the third arrives at any point of its being emptied. In `client` four messages
are two requests in each list, the second of which may reuse the node of the first while
it is on the screen, or the header, two chunks and the end of a file, or a file cut
short with a request behind it. In `progress` five events are two connections, two
logins and a file whose chunks are not counted, or three requests of one client beside a
registration; commands 1, 2 and 6 stand for all, because every handler but `send_file`
is one step of `main` after which the loop goes on. In `framed` two pieces allow every
way to part a packet that the code can tell apart (nothing, too little, enough); a
second call finds what the first one left, and a second client waits behind the first.
In `shell` three words are an operator in every place and `&` behind it, and three
commands are two pipes, one in the background, with a command after them. Symmetry over
names and connections is used in the safety runs of the servers and not in the fair
ones. `Menu` selects the commands that an instance's users choose, `Registered` the
accounts it begins with.

`OwnerIsMember` and `TypeOneIsOwner` hold for a database that does not fail
(`DbMayFail = FALSE`): `create_group` and `break_group` run two queries, and when
the second is refused the process ends with a group without its owner, or with
an owner's row without its group, which the next start reads. `OnlineNodesLive`
holds while no client sends `forget_password`: its answers 1 and 2 are the
commands `reg` and `login`, and two disconnections in a row then execute them
for a descriptor that is closed. `RequestServed` and `DisconnectNoticed` except the
behaviours in which, from some point on, `send_file` waits for a sender that is
connected and sends nothing (`Stalled`): it reads from that connection only, so that
nobody else is served. The run has files on its menu and shows that this is the only
way in which the loop can be held up; a sender that goes instead of stalling does not
hold it.

Fairness. `epoll_wait` is level-triggered and reports every ready descriptor in
each round, up to 3000 of them, so that a connection with something to read is
served again and again: strong fairness of `Recv`, `RecvEof` and `RecvError` per
descriptor, strong because the loop is busy with others in between. A handler
that has begun goes on (weak fairness). Clients, the operator (SIGINT, restart)
and the network owe nothing. `RequestServed` counts a request as served when it
is received or lost with the process. For the pool: every thread that can run
runs, and a mutex that becomes free again and again is got at last (strong
fairness of the lock steps); spurious wakeups owe nothing, and neither does the
call of `thread_pool_stop`: `TasksServed` is about a pool that may run for ever.
In `framed` the server runs, TCP delivers what was sent, and a client that waits in
`tcp_read` goes on; nobody has to call, to leave or to interrupt. In `shell` the
shell and a command between `fork` and `exec` run (the kernel schedules them), and a
user who waits presses ^C again and again; the commands owe nothing, so that
`PromptReturns` is about the signals. A philosopher who has only one chopstick goes
on (weak fairness); that everybody eats at last is not claimed, because all may
give back and try again for ever.

## 4. Proofs

The theorems hold for every set of users, groups and descriptors, every `Menu` and
every bound, with and without refused queries and resets, but for three: the two
about owners assume a database that does not fail (`DbMayFail = FALSE`) and
`SessionsLive` that nobody asks for a forgotten password (`0 \notin Menu`). Without
these the properties are false, as section 3 says. The other assumptions are those of
the modules: `None` is no name; the bounds are natural numbers; `Registered` are users;
at least two threads in the pool, because `destroy` joins two.

* `TypeCorrect` (`ServerProofs`): `Spec => []TypeOK`. `TypeOK` is inductive as it
  stands. The lemmas follow the code: helpers on rows, ways a handler ends, one
  lemma per group of handlers, the loop, the clients, the process.
* `FriendMirror` (here too, as the ones that follow): the friend list equals the friend
  table while the server runs.
  The strengthening is the second conjunct of `FriendListMirrorsTable`, at most
  one row per pair: with it "first row" and "all rows" are the same
  (`ShortRows`), without it `delete_friend` would break the equality. A handler
  that leaves the two unequal has ended the process, and the restart reads the
  table.
* `MessagesConsented`: `ConsentKept` says that every friend request or acceptance,
  wherever it waits -- in the slot for a replay, on a connection, at a client, in
  `head_request` -- was made by the users it names. It is inductive relative to
  `TypeOK`; no reply code is 14 or 311, which is why replayed replies are harmless
  here.
* `ConsentSafe`: rows come from such messages; the inductive invariant is
  `FriendInv == TypeOK /\ FriendListMirrorsTable /\ ConsentKept /\ RowsHaveConsent`.
* `ChatConsented`: the action property of `private_chat`, from `FriendInv`.
* `AccountsUnique`, `MembersKnown`: `OneAccountPerName` and
  `MembersInList` are inductive relative to `TypeOK`; the interesting steps are
  the refused queries: `reg` fills the list first and dies when the insert fails,
  `deal_group_request_y` does not look.
* `OwnersAreMembers`, `OnlyOwnersManage`: inductive invariant `OwnersInv`: while the
  process runs, the list of groups equals its table; a group has one row; and in memory
  as in the table the owner has a row in the group and nobody else one of type 1.
  Neither property is inductive alone: a restart reads the table, and `break_group`
  and `quit_group` look at the list.
* `SessionsLive`: inductive invariant `SessionInv`. That the nodes are live depends on
  what can be dispatched for a descriptor that is closed: a login stays in the slot only
  while it is handled (`SlotInv`), is alone on its connection (`InboxInv`), and what is
  dispatched otherwise comes from a user or from a connection with nothing left to read
  (`BusyInv`).
* `LtTypeCorrect`, `GroupsConsistent`, `FriendsAgreed`, `CachesRight`,
  `ChatsInOrder` (`LtProofs`). The base is `LtInv`: the types, and of whatever the slot
  `pack` may hold when it is dealt with once more, that it names accounts where its
  handler needs them and was made by the users it names (`PackInv`), likewise what waits
  for an account or at a client (`BoxInv`). The properties are inductive relative to it,
  but for `ChatQueueExact`, which needs that nobody who is online has a message waiting
  (`ChatInv`). `pro_off` walks the list and takes out what it sends: that it leaves
  the rest in order is shown by the least number for which it does not.
* `ListsKept`, `AnswersRight`, `CorruptionNeedsAnswer`, `FilesInStep`
  (`ClientThreadsProofs`): inductive invariant `ThreadInv`: until the first answer two
  sequences of nodes exist, disjoint, linked by `next` from the two heads, in use, with
  the requests as they arrived, and not longer than the messages that came, so that
  the walk of `charu_list` ends (`ListInv`); after it, the first answer was about the
  oldest request and its node is freed once (`AnswerInv`). What the user
  sees is the oldest request as long as nothing was answered (`FirstShown`): nobody fills
  a node that is in a list before the first `del_head`. Later a node that is on the screen
  changes only when it was free, and for good, because requests that are put into a list
  are newer than all before them (`BoundInv`): a copy that is not what was printed first
  shows in the second line (`ShowInv`), so that an answer whose lines agree is about what
  they name (`SeenInv`). For the
  file, the server has gone on or left `send_file` by the `MSG` that is partly received
  (`PartInv`), with which `FileInStep` is inductive.
* `LossOnlyWhileDrained`, `BoxesInOrder`, `BoxesWhole` (`LtClientProofs`): inductive
  invariant `ClientInv`. For each box there is a sequence of packets, the chain that hangs
  on its dummy (`Chained`), growing, with no node given back (`Content`). The end pointer
  is at the last of them or at a node that is no longer in any chain (`EndOk`, `Apart`),
  so that a store through it appends or reaches nobody; while the menu thread is
  elsewhere it is at the last one, but for the store that is about to come (`Whole`).
  What is in a box is newer than what was shown from it (`Later`). Whoever meets the menu
  thread in a box is noted as late (`LateInv`), and only those are missing when the head
  is cleared (`DrainInv`, `LostInv`). The proof has one lemma per step of either thread;
  `Rebuilt` says what a step in one box owes the others. `KeptIn` relates the chain to
  the walk `Nth` of the properties.
* `NoTaskTwice`, `PopSafe` (`ThreadPoolProofs`): inductive invariant `PoolInv`:
  mutual exclusion (`Exclusive`), tasks not yet pushed are nowhere (`Fresh`), a
  thread inside `Queue_pop` looks at the first task or the queue is destroyed
  (`Popping`), and the two properties.
* `LocksSafe`, `ExclusionSafe` (`PhilosophersProofs`), for any number of
  philosophers: a mutex is locked exactly by the one who has that chopstick
  (`LocksMatchHands`, inductive with `TypeOK`), hence neighbours do not eat together;
  `Exclusion` alone says nothing about a philosopher with one chopstick.
* `FramesSafe`, `AbortsExplained`, `StopSafe`, `CallsSafe` (`FramedProofs`), for any set
  of clients, any lengths of head, body and answer and any way of parting them. The
  inductive invariant `FramedInv` follows one packet: a connection holds all of it,
  its body while the server waits for that, or nothing (`StreamInv`); a call is
  unanswered, or its packet is gone and what has been read and what can be read of
  the answer are together one answer to this request (`ClientInv`); a connection
  under a client that is still there was closed for a cause (`CloseInv`), for which
  one has to know why an event was reported (`TodoInv`). `FramesAligned` alone is not
  inductive: without `ClientInv` a second call could be sent behind the first.
  `CallsSafe` is the step simulation of the refinement `ImplementsCalls`.
  Assumed: the lengths are positive, and no client is called "listen" or "none".
* `PlansRight`, `Foreground`, `OwnData` (`ShellProofs`), for lines of any length, any
  number of commands and any output. `PlansRight`: a vector without a wrong flag has at
  most one operator (`AtMostOne`), so cutting it there leaves none; liuting's four loops
  keep that the vector is the line up to a mark and free of the operators already looked
  for (`CutOff`). `Foreground`: `ForegroundWaitedFor` speaks of the prompt only; the
  invariant `Procs` adds what holds during a wait, when one command more is open and is
  the last one started (`Counted`, `OnlyLast`, `Waiting`), and that a number not used yet
  has no process (`Numbered`). `OwnData`: invariant `Pipes`. A reader stays behind its
  writer (`Behind`); of two pipes that use the file at the same time each is noted
  (`Known`), a pipe whose second command still reads being one that uses it; so the file
  of a pipe that is not noted begins with what its writer has written, and has nothing
  behind it if it was truncated or was not longer (`FileOwn`); and what has been read so
  far is a beginning of that (`ReadsOwn`), all of it at the end of the file.

Induction over data (how far a walk along a list has come, what a loop has taken out) is
done by the least counterexample, with the well-foundedness of the natural numbers
(`FirstOne`, `FirstNumber`, `Least`, `Smallest`): the library's induction theorems have
an operator as a parameter, which the provers cannot instantiate.

Only model-checked: everything under fairness (`RequestServed`, `DisconnectNoticed`,
`TasksServed`, `DestroyReturns`, `NoFdLeak`, `PromptReturns`, `PutBack`, and the
liveness that `Rpc` asks of `Framed`), because the prover has no rules for fairness and
`ENABLED`. `OnlyClientData` is violated.

## 5. What is left out

huqingwei's server and client:

* `recv` returns whole messages: a `MSG` that arrives in pieces is not modelled.
  The code does not handle it outside `send_file` and `recv_file`.
* The table `chat_record`, which is only written, and the MySQL connections that
  `private_chat` and `public_chat` open and do not close.
* Use after free in `break_group` is a possible crash after both deletions.
* `epoll_wait` returning several events at once is modelled as their handling one
  after the other in any order, which includes every order the array can have.

liuting's server and client:

* Reads of MySQL do not fail, writes may. The two chat histories are not kept;
  a password is right or wrong; rows of `friends` are a set. A packet arrives whole.
* The caches have 100 places and are indexed by account numbers, which grow for
  ever; an instance stays far below. `f`, the receiver of the last file, may be the
  descriptor of somebody else by the time it is used: the model has that, no property
  is about it.
* What is printed, and the file that `recv_file` of the client appends to.

Framed chat: `log.c`, the packet types of `proto.c` that nobody sends, and a write of
the server that takes only part of 48 bytes. A failing `accept` aborts the server, as
in the code. Shells: a `fork` that fails, the prompt, the files of redirections, and
`my_shell1.c` and `src/my_shell.c`, which are earlier states of wuxinyue's.

Not modelled: wuxinyue's `Code/聊天室`, whose handlers are stubs; the `ls` variants,
which read directories and print; the algorithm and course exercises, which have no
state and no common purpose.

Places where the code and the requirements (`Requirement/聊天室项目需求初稿.md`) or the README
disagree and that are in the model, without a run of their own: `del_node` takes users
out of the list who are still connected; `add_friend` dereferences NULL when a request
is repeated while the other is offline; a dead peer ends the server with SIGPIPE; two
friend requests that crossed are enough to chat; a client that stalls in a file transfer
holds up the server (lines 54-55 of the requirements: no client may have the server to
itself), and a file for somebody who is not online ends it. Further: answers to a
request are kept under the name of the user who answered (`Answer`); a queued request to
join names no group (`add_group`); a request to join accepted twice gives two rows, of
which `quit_group` takes one from memory; the short chunk at the end of a file is not
written by `recv_file`, and a file whose sender went leaves the receiver waiting for
chunks, of which it takes the next messages for ones; a friend request can be printed
with two names, and the answer goes to the one that was copied; at liuting's server a
user stays online in the table over a restart when the update of `MYSQL_main_init` is
refused, which only prints; liuting's login takes a packet that was kept for the account
for its answer (`LoginAnswer`).

## 6. Plan

An abstract `FriendBook` (ask, accept, refuse, drop) that `ChatServer` implements, with
the step simulation proved from `FriendInv`.
