---------------------------- MODULE ServerFile ----------------------------
(***************************************************************************)
(* send_file of epoll.c.  Once the receiver has been told, the handler     *)
(* reads from the sender's connection until a chunk of less than 1024      *)
(* bytes has come: main's loop does not turn meanwhile.                    *)
(***************************************************************************)
EXTENDS ServerState

\* A header replayed from the last chunk of a longer file has no path:
\* get_file_name then walks below the string, and may crash.
send_file ==
  /\ Handling(6)
  /\ \/ /\ filedst' = TargetSocks(message.to)
        /\ pc' = "file" \/ Sigpipe(filedst', {})
        /\ Sent(filedst')
        /\ UNCHANGED <<cur, message, clientVars, who, reqs>>
     \/ message.to = None /\ Segfault
  /\ UNCHANGED <<head, head_request, dataVars>>

\* A whole MSG has come: it replaces the slot and goes to the receiver found
\* at the start; `current' may be NULL.
send_file_chunk ==
  /\ pc = "file"
  /\ conn[cur] # "free"
  /\ RecvMSG(cur)
  /\ \/ filedst # {} /\ pc' = IF message'.full THEN "file" ELSE "wait"
     \/ filedst = {} /\ pc' = "segv"
     \/ Sigpipe(filedst, {})
  /\ Sent(filedst)
  /\ UNCHANGED <<cur, filedst, filing, consented, left, who, reqs, head, head_request, dataVars>>

\* recv returns 0 or -1.
send_file_end ==
  /\ pc = "file"
  /\ conn[cur] # "open"
  /\ conn[cur] # "free" => inbox[cur] = << >>
  /\ conn' = [conn EXCEPT ![cur] = IF @ = "reset" THEN "broken" ELSE @]
  /\ pc' = "wait"
  /\ UNCHANGED <<cur, message, filedst, clientVars, who, reqs, head, head_request, dataVars>>
=============================================================================
