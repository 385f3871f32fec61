--------------------------------- MODULE Rpc ---------------------------------
(***************************************************************************)
(* What the framed chat (Solution/wuxinyue/chatroom) promises its users: a *)
(* menu choice is a call that returns once, with the answer to that very   *)
(* call, or ends the client.                                               *)
(***************************************************************************)
CONSTANTS Clients,
          Requests,
          NoCall,
          Answers(_)    \* the answers that a request may get

VARIABLES call,         \* the request that a client is waiting for
          shown         \* what its user was told last

vars == <<call, shown>>

Init == call = [c \in Clients |-> NoCall] /\ shown = [c \in Clients |-> "nothing"]

Call(c, r) ==
  /\ shown[c] # "ended" /\ call[c] = NoCall
  /\ call' = [call EXCEPT ![c] = r]
  /\ shown' = [shown EXCEPT ![c] = "nothing"]

Return(c) ==
  /\ call[c] # NoCall
  /\ \E a \in Answers(call[c]) : shown' = [shown EXCEPT ![c] = a]
  /\ call' = [call EXCEPT ![c] = NoCall]

Fail(c) ==
  /\ shown[c] # "ended"
  /\ call' = [call EXCEPT ![c] = NoCall]
  /\ shown' = [shown EXCEPT ![c] = "ended"]

Next == \E c \in Clients : Return(c) \/ Fail(c) \/ \E r \in Requests : Call(c, r)

\* Nobody waits for ever.
Finish(c) == call[c] # NoCall /\ (Return(c) \/ Fail(c))

Spec == Init /\ [][Next]_vars /\ \A c \in Clients : WF_vars(Finish(c))
=============================================================================
