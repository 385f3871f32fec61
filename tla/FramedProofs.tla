---------------------------- MODULE FramedProofs ----------------------------
(***************************************************************************)
(* The framed chat keeps its place in every stream, ends a client only for *)
(* a reason, and implements the calls of Rpc, for every number of clients, *)
(* every length of the packets and every way in which TCP parts them.      *)
(*                                                                         *)
(* The argument follows one packet: at any moment a connection holds all   *)
(* of a packet, its body while the server waits for that, or nothing; an   *)
(* answer is sent once the packet is gone, and read before the next call.  *)
(***************************************************************************)
EXTENDS Framed, SequenceTheorems, TLAPS

Reading(c) == srv = "body" /\ cur = c
Alive(c) == conn[c] \in {"pending", "open"}
Over == srv \in {"end", "dead"}
Stream(c) == inb[c] \o up[c]

\* What a connection holds of the packet of its client.
StreamInv(c) ==
  /\ ~Alive(c) => inb[c] = << >> /\ up[c] = << >> /\ ~Reading(c)
  /\ Reading(c) => /\ head = Take(Packet(req[c]), HeadLen)
                   /\ Stream(c) = Drop(Packet(req[c]), HeadLen)
  /\ ~Reading(c) => Stream(c) = << >> \/ Stream(c) = Packet(req[c])

\* A call that the server has not answered, and one that it has.
Unanswered(c) == down[c] = << >> /\ got[c] = 0
Answered(c) ==
  /\ Stream(c) = << >> /\ ~Reading(c) /\ req[c].type = "REGISTER"
  /\ got[c] + Len(down[c]) = RespLen /\ got[c] < RespLen
  /\ \A i \in 1..Len(down[c]) : down[c][i] = process_register(req[c])

\* What a client knows of its call.
ClientInv(c) ==
  /\ cli[c] = "off" => conn[c] = "none" /\ ~eof[c]
  /\ conn[c] = "none" => cli[c] \in {"off", "aborted"}
  /\ cli[c] = "menu" => Stream(c) = << >> /\ ~Reading(c)
  /\ cli[c] # "wait" => down[c] = << >>
  /\ cli[c] = "wait" => req[c] \in Requests /\ (Unanswered(c) \/ Answered(c))
  /\ cli[c] \in Ended <=> shown[c] = "ended"
  /\ eof[c] => cli[c] \in Ended
  /\ cli[c] \in Ended => eof[c] \/ conn[c] = "none"
  /\ reset[c] => eof[c]

\* Why a connection is closed under a client that is still there.
Cause(c) == req[c].type = "LOGIN" \/ c \in split \/ Over
CloseInv(c) ==
  /\ conn[c] = "closed" /\ cli[c] = "menu" => Over
  /\ conn[c] = "closed" /\ cli[c] = "wait" => Over \/ (Unanswered(c) /\ Cause(c))
  /\ conn[c] = "none" /\ cli[c] = "aborted" => Over
  /\ cli[c] = "aborted" => Cause(c)

\* Why an event was reported; the connection that is being read has none left.
TodoInv ==
  /\ srv = "body" => cur \in Clients
  /\ srv \in {"batch", "body"} => \A e \in todo : e.fd \in Clients =>
       /\ ~Reading(e.fd)
       /\ IF e.in THEN inb[e.fd] # << >> \/ eof[e.fd] ELSE reset[e.fd]
       /\ \A d \in todo : d.fd = e.fd => d = e

FramedInv == /\ TypeOK /\ TodoInv
             /\ \A c \in Clients : StreamInv(c) /\ ClientInv(c) /\ CloseInv(c)

-----------------------------------------------------------------------------
(* Pieces of sequences                                                     *)

\* The beginning and the rest of a sequence.
LEMMA Parts ==
  ASSUME NEW S, NEW s \in Seq(S), NEW k \in 0..Len(s)
  PROVE  /\ Take(s, k) \in Seq(S) /\ Len(Take(s, k)) = k
         /\ Drop(s, k) \in Seq(S) /\ Len(Drop(s, k)) = Len(s) - k
         /\ \A i \in 1..k : Take(s, k)[i] = s[i]
         /\ \A i \in 1..(Len(s) - k) : Drop(s, k)[i] = s[i + k]
<1>1. Len(s) \in Nat /\ \A i \in 1..Len(s) : s[i] \in S
  BY LenProperties, ElementOfSeq
<1>2. /\ Take(s, k) \in Seq(S) /\ Len(Take(s, k)) = k
      /\ \A i \in 1..k : Take(s, k)[i] = s[i]
  <2>1. \A i \in 1..k : s[i] \in S
    BY <1>1
  <2>2. /\ SubSeq(s, 1, k) \in Seq(S)
        /\ Len(SubSeq(s, 1, k)) = IF 1 <= k THEN k - 1 + 1 ELSE 0
        /\ \A i \in 1..(k - 1 + 1) : SubSeq(s, 1, k)[i] = s[1 + i - 1]
    BY <2>1, SubSeqProperties
  <2> QED BY <1>1, <2>2 DEF Take
<1>3. /\ Drop(s, k) \in Seq(S) /\ Len(Drop(s, k)) = Len(s) - k
      /\ \A i \in 1..(Len(s) - k) : Drop(s, k)[i] = s[i + k]
  <2>1. \A i \in (k + 1)..Len(s) : s[i] \in S
    BY <1>1
  <2>2. /\ SubSeq(s, k + 1, Len(s)) \in Seq(S)
        /\ Len(SubSeq(s, k + 1, Len(s))) = IF k + 1 <= Len(s) THEN Len(s) - (k + 1) + 1 ELSE 0
        /\ \A i \in 1..(Len(s) - (k + 1) + 1) : SubSeq(s, k + 1, Len(s))[i] = s[k + 1 + i - 1]
    BY <1>1, <2>1, SubSeqProperties
  <2> QED BY <1>1, <2>2 DEF Drop
<1> QED BY <1>2, <1>3

\* Dropping everything.
LEMMA DropAll ==
  ASSUME NEW S, NEW s \in Seq(S)
  PROVE  Drop(s, Len(s)) = << >>
<1>1. Len(s) \in Nat
  BY LenProperties
<1> QED BY <1>1, SubSeqEmpty DEF Drop

\* Pieces that were on their way and have arrived: the stream is the same.
LEMMA MovePieces ==
  ASSUME NEW S, NEW s \in Seq(S), NEW t \in Seq(S), NEW k \in 0..Len(t)
  PROVE  (s \o Take(t, k)) \o Drop(t, k) = s \o t
<1>1. Take(t, k) \o Drop(t, k) = t
  <2> DEFINE u == Take(t, k) \o Drop(t, k)
  <2>1. Len(t) \in Nat
    BY LenProperties
  <2>2. /\ Take(t, k) \in Seq(S) /\ Len(Take(t, k)) = k
        /\ Drop(t, k) \in Seq(S) /\ Len(Drop(t, k)) = Len(t) - k
        /\ \A i \in 1..k : Take(t, k)[i] = t[i]
        /\ \A i \in 1..(Len(t) - k) : Drop(t, k)[i] = t[i + k]
    BY Parts
  <2>3. /\ u \in Seq(S) /\ Len(u) = Len(t)
        /\ \A i \in 1..Len(t) : u[i] = IF i <= k THEN Take(t, k)[i] ELSE Drop(t, k)[i - k]
    <3>1. /\ u \in Seq(S) /\ Len(u) = Len(Take(t, k)) + Len(Drop(t, k))
          /\ \A i \in 1..(Len(Take(t, k)) + Len(Drop(t, k))) :
               u[i] = IF i <= Len(Take(t, k)) THEN Take(t, k)[i] ELSE Drop(t, k)[i - Len(Take(t, k))]
      <4>1. Take(t, k) \in Seq(S) /\ Drop(t, k) \in Seq(S)
        BY <2>2
      <4> HIDE DEF u
      <4>2. u = Take(t, k) \o Drop(t, k)
        BY DEF u
      <4> QED BY <4>1, <4>2, ConcatProperties, ZenonT(30)
    <3> QED BY <2>1, <2>2, <3>1
  <2>4. \A i \in 1..Len(t) : u[i] = t[i]
    <3> SUFFICES ASSUME NEW i \in 1..Len(t) PROVE u[i] = t[i]
      OBVIOUS
    <3> HIDE DEF u
    <3>1. CASE i <= k
      <4>1. i \in 1..k
        BY <2>1, <3>1
      <4>2. u[i] = Take(t, k)[i]
        BY <2>3, <3>1
      <4> QED BY <2>2, <4>1, <4>2
    <3>2. CASE ~(i <= k)
      <4>1. i - k \in 1..(Len(t) - k) /\ (i - k) + k = i
        BY <2>1, <3>2
      <4>2. u[i] = Drop(t, k)[i - k]
        BY <2>3, <3>2
      <4>3. Drop(t, k)[i - k] = t[(i - k) + k]
        BY <2>2, <4>1, ZenonT(20)
      <4> QED BY <4>1, <4>2, <4>3
    <3> QED BY <3>1, <3>2
  <2> QED BY <2>3, <2>4, SeqEqual
<1>2. Take(t, k) \in Seq(S) /\ Drop(t, k) \in Seq(S)
  BY Parts
<1>3. \A a, b \in Seq(S) : (s \o a) \o b = s \o (a \o b)
  BY ConcatAssociative
<1>4. (s \o Take(t, k)) \o Drop(t, k) = s \o (Take(t, k) \o Drop(t, k))
  <2> DEFINE a == Take(t, k) b == Drop(t, k)
  <2>1. a \in Seq(S) /\ b \in Seq(S)
    BY <1>2
  <2> HIDE DEF a, b
  <2>2. (s \o a) \o b = s \o (a \o b)
    BY <1>3, <2>1
  <2> QED BY <2>2 DEF a, b
<1> QED BY <1>1, <1>4

\* A prefix that has arrived is a prefix of the stream, and so is its rest.
LEMMA ArrivedPrefix ==
  ASSUME NEW S, NEW s \in Seq(S), NEW t \in Seq(S), NEW k \in 0..Len(s)
  PROVE  /\ Take(s, k) = Take(s \o t, k)
         /\ Drop(s, k) \o t = Drop(s \o t, k)
<1> DEFINE u == s \o t
<1>1. Len(s) \in Nat /\ Len(t) \in Nat
  BY LenProperties
<1>2. /\ u \in Seq(S) /\ Len(u) = Len(s) + Len(t)
      /\ \A i \in 1..(Len(s) + Len(t)) : u[i] = IF i <= Len(s) THEN s[i] ELSE t[i - Len(s)]
  BY ConcatProperties
<1>3. k \in 0..Len(u)
  BY <1>1, <1>2
<1>4. /\ Take(s, k) \in Seq(S) /\ Len(Take(s, k)) = k
      /\ Drop(s, k) \in Seq(S) /\ Len(Drop(s, k)) = Len(s) - k
      /\ \A i \in 1..k : Take(s, k)[i] = s[i]
      /\ \A i \in 1..(Len(s) - k) : Drop(s, k)[i] = s[i + k]
  BY Parts
<1>5. /\ Take(u, k) \in Seq(S) /\ Len(Take(u, k)) = k
      /\ Drop(u, k) \in Seq(S) /\ Len(Drop(u, k)) = Len(u) - k
      /\ \A i \in 1..k : Take(u, k)[i] = u[i]
      /\ \A i \in 1..(Len(u) - k) : Drop(u, k)[i] = u[i + k]
  BY <1>2, <1>3, Parts
<1>6. Take(s, k) = Take(u, k)
  <2>1. \A i \in 1..k : Take(s, k)[i] = Take(u, k)[i]
    BY <1>1, <1>2, <1>4, <1>5
  <2> QED BY <1>4, <1>5, <2>1, SeqEqual
<1>7. Drop(s, k) \o t = Drop(u, k)
  <2> DEFINE v == Drop(s, k) \o t
  <2>1. /\ v \in Seq(S) /\ Len(v) = Len(s) - k + Len(t)
        /\ \A i \in 1..(Len(s) - k + Len(t)) :
             v[i] = IF i <= Len(s) - k THEN Drop(s, k)[i] ELSE t[i - (Len(s) - k)]
    BY <1>4, ConcatProperties
  <2>2. Len(v) = Len(Drop(u, k))
    BY <1>1, <1>2, <1>5, <2>1
  <2>3. ASSUME NEW i \in 1..Len(v) PROVE v[i] = Drop(u, k)[i]
    <3>1. i \in 1..(Len(u) - k) /\ i + k \in 1..(Len(s) + Len(t))
      BY <1>1, <1>2, <2>1
    <3>2. Drop(u, k)[i] = IF i + k <= Len(s) THEN s[i + k] ELSE t[i + k - Len(s)]
      BY <1>2, <1>5, <3>1
    <3>3. CASE i + k <= Len(s)
      BY <1>1, <1>4, <2>1, <3>1, <3>2, <3>3
    <3>4. CASE ~(i + k <= Len(s))
      <4>1. v[i] = t[i - (Len(s) - k)]
        BY <1>1, <2>1, <3>4
      <4>2. i - (Len(s) - k) = i + k - Len(s)
        BY <1>1
      <4> QED BY <3>2, <3>4, <4>1, <4>2
    <3> QED BY <3>3, <3>4
  <2> QED BY <1>5, <2>1, <2>2, <2>3, SeqEqual
<1> QED BY <1>6, <1>7

\* The packet of a request: a head, which begins with the magic, and a body.
LEMMA PacketFacts ==
  ASSUME NEW r \in Requests \cup {NoRequest}
  PROVE  /\ Packet(r) \in Seq(Pieces) /\ Len(Packet(r)) = HeadLen + BodyLen
         /\ Packet(r) # << >> /\ Packet(r)[1] = [of |-> r, at |-> 1]
         /\ Take(Packet(r), HeadLen) \in Seq(Pieces)
         /\ Take(Packet(r), HeadLen)[1] = [of |-> r, at |-> 1]
         /\ Take(Packet(r), HeadLen) # << >>
         /\ Drop(Packet(r), HeadLen) \in Seq(Pieces)
         /\ Len(Drop(Packet(r), HeadLen)) = BodyLen
<1> DEFINE n == HeadLen + BodyLen
<1>1. n \in Nat /\ HeadLen \in 0..n /\ 1 \in 1..n /\ 1 \in 1..HeadLen /\ n - HeadLen = BodyLen
  BY FramedLens
<1>2. Packet(r) \in [1..n -> Pieces] /\ Packet(r)[1] = [of |-> r, at |-> 1]
  BY <1>1 DEF Packet, Pieces
<1>3. Packet(r) \in Seq(Pieces)
  BY <1>1, <1>2, SeqDef
<1>4. Len(Packet(r)) = n
  BY <1>1, <1>2, <1>3, LenProperties
<1>5. /\ Take(Packet(r), HeadLen) \in Seq(Pieces) /\ Len(Take(Packet(r), HeadLen)) = HeadLen
      /\ Drop(Packet(r), HeadLen) \in Seq(Pieces) /\ Len(Drop(Packet(r), HeadLen)) = n - HeadLen
      /\ \A i \in 1..HeadLen : Take(Packet(r), HeadLen)[i] = Packet(r)[i]
  <2> DEFINE P == Packet(r)
  <2>1. P \in Seq(Pieces) /\ HeadLen \in 0..Len(P)
    BY <1>1, <1>3, <1>4
  <2> HIDE DEF P
  <2>2. /\ Take(P, HeadLen) \in Seq(Pieces) /\ Len(Take(P, HeadLen)) = HeadLen
        /\ Drop(P, HeadLen) \in Seq(Pieces) /\ Len(Drop(P, HeadLen)) = Len(P) - HeadLen
        /\ \A i \in 1..HeadLen : Take(P, HeadLen)[i] = P[i]
    BY <2>1, Parts
  <2> QED BY <1>4, <2>2 DEF P
<1>6. Packet(r) # << >> /\ Take(Packet(r), HeadLen) # << >>
  BY <1>1, <1>4, <1>5, EmptySeq, FramedLens
<1> QED BY <1>1, <1>2, <1>3, <1>4, <1>5, <1>6

\* A stream is empty when both its halves are.
LEMMA EmptyStream ==
  ASSUME TypeOK, NEW c \in Clients
  PROVE  /\ inb[c] \in Seq(Pieces) /\ up[c] \in Seq(Pieces)
         /\ Stream(c) = << >> <=> inb[c] = << >> /\ up[c] = << >>
<1>1. inb[c] \in Seq(Pieces) /\ up[c] \in Seq(Pieces)
  BY DEF TypeOK
<1> QED BY <1>1, ConcatEqualIffEmpty DEF Stream

\* The parts of the invariant that speak of one client.
OneInv(c) == StreamInv(c) /\ ClientInv(c) /\ CloseInv(c)

\* A client that a step does not touch.
LEMMA Untouched ==
  ASSUME NEW c \in Clients, OneInv(c),
         cli'[c] = cli[c], req'[c] = req[c], got'[c] = got[c], shown'[c] = shown[c],
         up'[c] = up[c], inb'[c] = inb[c], down'[c] = down[c],
         eof'[c] = eof[c], reset'[c] = reset[c], conn'[c] = conn[c],
         Reading(c)' <=> Reading(c), Reading(c) => head' = head,
         c \in split => c \in split', Over => Over'
  PROVE  OneInv(c)'
<1>1. StreamInv(c)'
  BY DEF OneInv, StreamInv, Alive, Stream
<1>2. ClientInv(c)'
  BY DEF OneInv, ClientInv, Unanswered, Answered, Stream
<1>3. CloseInv(c)'
  BY DEF OneInv, CloseInv, Unanswered, Cause
<1> QED BY <1>1, <1>2, <1>3 DEF OneInv

\* Before anybody has started.
LEMMA InitFramed == Init => FramedInv
<1> SUFFICES ASSUME Init PROVE FramedInv
  OBVIOUS
<1>1. TypeOK
  BY EmptySeq DEF Init, TypeOK, Ended
<1>2. TodoInv
  BY DEF Init, TodoInv
<1>3. ASSUME NEW c \in Clients PROVE StreamInv(c) /\ ClientInv(c) /\ CloseInv(c)
  <2>1. Stream(c) = << >>
    BY <1>1, EmptyStream DEF Init
  <2> QED BY <2>1 DEF Init, StreamInv, ClientInv, CloseInv, Reading, Alive, Unanswered, Ended
<1> QED BY <1>1, <1>2, <1>3 DEF FramedInv

-----------------------------------------------------------------------------
(* Steps of a client and of its connection                                 *)

\* What has to be shown for a step that touches one client only.
LEMMA ClientStep ==
  ASSUME FramedInv, NEW c \in Clients, TypeOK', OneInv(c)',
         UNCHANGED <<srvVars, split>>,
         inb[c] # << >> => inb'[c] # << >>, eof[c] => eof'[c], reset[c] => reset'[c],
         \A d \in Clients \ {c} :
           /\ cli'[d] = cli[d] /\ req'[d] = req[d] /\ got'[d] = got[d] /\ shown'[d] = shown[d]
           /\ up'[d] = up[d] /\ inb'[d] = inb[d] /\ down'[d] = down[d]
           /\ eof'[d] = eof[d] /\ reset'[d] = reset[d] /\ conn'[d] = conn[d]
  PROVE  FramedInv'
<1>1. TodoInv'
  <2> SUFFICES ASSUME srv \in {"batch", "body"}, NEW e \in todo, e.fd \in Clients
               PROVE  /\ ~Reading(e.fd)'
                      /\ IF e.in THEN inb'[e.fd] # << >> \/ eof'[e.fd] ELSE reset'[e.fd]
                      /\ \A d \in todo : d.fd = e.fd => d = e
    BY DEF FramedInv, TodoInv, srvVars
  <2>1. /\ ~Reading(e.fd)
        /\ IF e.in THEN inb[e.fd] # << >> \/ eof[e.fd] ELSE reset[e.fd]
        /\ \A d \in todo : d.fd = e.fd => d = e
    BY DEF FramedInv, TodoInv
  <2>2. ~Reading(e.fd)'
    BY <2>1 DEF Reading, srvVars
  <2>3. CASE e.fd = c
    BY <2>1, <2>2, <2>3
  <2>4. CASE e.fd # c
    BY <2>1, <2>2, <2>4
  <2> QED BY <2>3, <2>4
<1>2. ASSUME NEW d \in Clients, d # c PROVE OneInv(d)'
  <2>1. OneInv(d)
    BY DEF FramedInv, OneInv
  <2>2. (Reading(d)' <=> Reading(d)) /\ head' = head /\ split' = split /\ (Over' <=> Over)
    BY DEF srvVars, Reading, Over
  <2> QED BY <1>2, <2>1, <2>2, Untouched
<1>3. \A d \in Clients : OneInv(d)'
  BY <1>2
<1> QED BY <1>1, <1>3 DEF FramedInv, OneInv

\* A client that starts finds the server, or has ended for want of it.
LEMMA StartStep ==
  ASSUME FramedInv, NEW c \in Clients, client_start(c)
  PROVE  FramedInv'
<1>1. TypeOK /\ OneInv(c)
  BY DEF FramedInv, OneInv
<1>2. TypeOK'
  BY <1>1 DEF client_start, TypeOK, Ended, srvVars
<1>3. Stream(c)' = Stream(c) /\ (Reading(c)' <=> Reading(c)) /\ (Over' <=> Over)
  BY DEF client_start, Stream, Reading, Over, srvVars
<1>4. inb[c] = << >> /\ up[c] = << >> /\ ~Reading(c) /\ Stream(c) = << >>
  BY <1>1, EmptyStream DEF OneInv, StreamInv, ClientInv, Alive, client_start
<1>5. cli[c] = "off" /\ conn[c] = "none" /\ ~eof[c] /\ ~reset[c] /\ down[c] = << >> /\ shown[c] # "ended"
  BY <1>1 DEF OneInv, ClientInv, client_start, Ended
<1>6. OneInv(c)'
  <2>1. CASE srv \in {"end", "dead"}
    <3>1. cli'[c] = "aborted" /\ shown'[c] = "ended" /\ conn'[c] = "none" /\ Over'
      BY <1>1, <1>3, <1>5, <2>1 DEF client_start, TypeOK, Over
    <3>2. StreamInv(c)'
      BY <1>3, <1>4, <3>1 DEF client_start, StreamInv, Alive
    <3>3. ClientInv(c)'
      BY <1>3, <1>4, <1>5, <3>1 DEF client_start, ClientInv, Ended
    <3>4. CloseInv(c)'
      BY <3>1 DEF CloseInv, Cause
    <3> QED BY <3>2, <3>3, <3>4 DEF OneInv
  <2>2. CASE srv \notin {"end", "dead"}
    <3>1. cli'[c] = "menu" /\ shown'[c] = shown[c] /\ conn'[c] = "pending"
      BY <1>1, <1>5, <2>2 DEF client_start, TypeOK
    <3>2. StreamInv(c)'
      BY <1>3, <1>4, <3>1 DEF client_start, StreamInv, Alive
    <3>3. ClientInv(c)'
      BY <1>3, <1>4, <1>5, <3>1 DEF client_start, ClientInv, Ended
    <3>4. CloseInv(c)'
      BY <3>1 DEF CloseInv, Cause
    <3> QED BY <3>2, <3>3, <3>4 DEF OneInv
  <2> QED BY <2>1, <2>2
<1>7. \A d \in Clients \ {c} :
        /\ cli'[d] = cli[d] /\ req'[d] = req[d] /\ got'[d] = got[d] /\ shown'[d] = shown[d]
        /\ up'[d] = up[d] /\ inb'[d] = inb[d] /\ down'[d] = down[d]
        /\ eof'[d] = eof[d] /\ reset'[d] = reset[d] /\ conn'[d] = conn[d]
  BY <1>1 DEF client_start, TypeOK
<1> QED BY <1>2, <1>6, <1>7, ClientStep DEF client_start

\* A call begins: all that the connection holds is the new packet.
LEMMA SendStep ==
  ASSUME FramedInv, NEW c \in Clients, NEW r \in Requests, Send(c, r)
  PROVE  FramedInv'
<1>1. TypeOK /\ OneInv(c)
  BY DEF FramedInv, OneInv
<1>2. Packet(r) \in Seq(Pieces)
  BY PacketFacts
<1>3. inb[c] = << >> /\ up[c] = << >> /\ ~Reading(c) /\ Stream(c) = << >>
  BY <1>1, EmptyStream DEF OneInv, ClientInv, Send
<1>4. /\ cli[c] = "menu" /\ down[c] = << >> /\ shown[c] # "ended" /\ conn[c] # "none"
      /\ ~eof[c] /\ ~reset[c]
  BY <1>1 DEF OneInv, ClientInv, Send, Ended
<1>5. up'[c] = IF conn[c] = "closed" THEN << >> ELSE Packet(r)
  <2>1. << >> \o Packet(r) = Packet(r)
    BY <1>2, ConcatEmptySeq
  <2> QED BY <1>1, <1>3, <2>1 DEF Send, TypeOK
<1>6. TypeOK'
  <2>1. up' \in [Clients -> Seq(Pieces)]
    BY <1>1, <1>2, <1>3, <1>5 DEF Send, TypeOK
  <2>2. /\ cli' \in [Clients -> {"off", "menu", "wait"} \cup Ended]
        /\ req' \in [Clients -> Requests \cup {NoRequest}]
        /\ shown' \in [Clients -> Statuses \cup {"nothing", "ended"}]
    BY <1>1 DEF Send, TypeOK
  <2>3. calls' \in [Clients -> Nat] /\ got' \in [Clients -> Nat]
    BY <1>1 DEF Send, TypeOK
  <2> QED BY <1>1, <2>1, <2>2, <2>3 DEF Send, TypeOK, srvVars
<1>7. /\ cli'[c] = "wait" /\ req'[c] = r /\ got'[c] = 0 /\ shown'[c] = "nothing"
      /\ down'[c] = << >> /\ inb'[c] = << >> /\ conn'[c] = conn[c]
      /\ eof'[c] = eof[c] /\ reset'[c] = reset[c]
  BY <1>1, <1>3, <1>4 DEF Send, TypeOK
<1>8. ~Reading(c)' /\ (Over' <=> Over) /\ split' = split
  BY <1>3 DEF Send, Reading, Over, srvVars
<1>9. Stream(c)' = IF conn[c] = "closed" THEN << >> ELSE Packet(r)
  <2>1. << >> \o Packet(r) = Packet(r) /\ << >> \o << >> = << >>
    BY <1>2, ConcatEmptySeq, EmptySeq
  <2> QED BY <1>5, <1>7, <2>1 DEF Stream
<1>10. OneInv(c)'
  <2>1. StreamInv(c)'
    BY <1>1, <1>4, <1>5, <1>7, <1>8, <1>9 DEF StreamInv, Alive, TypeOK
  <2>2. ClientInv(c)'
    BY <1>4, <1>7, <1>8 DEF ClientInv, Unanswered, Ended
  <2>3. CloseInv(c)'
    BY <1>1, <1>4, <1>7, <1>8 DEF OneInv, CloseInv, Unanswered, Cause
  <2> QED BY <2>1, <2>2, <2>3 DEF OneInv
<1>11. \A d \in Clients \ {c} :
        /\ cli'[d] = cli[d] /\ req'[d] = req[d] /\ got'[d] = got[d] /\ shown'[d] = shown[d]
        /\ up'[d] = up[d] /\ inb'[d] = inb[d] /\ down'[d] = down[d]
        /\ eof'[d] = eof[d] /\ reset'[d] = reset[d] /\ conn'[d] = conn[d]
  BY <1>1 DEF Send, TypeOK
<1> QED BY <1>3, <1>4, <1>6, <1>10, <1>11, ClientStep DEF Send

\* A piece of the answer is read.  Only what was answered can be read, and when
\* all of it has been read nothing is left for the next call.
LEMMA ReceiveFacts ==
  ASSUME FramedInv, NEW c \in Clients, Receive(c)
  PROVE  /\ cli[c] = "wait" /\ Answered(c) /\ down[c][1] = process_register(req[c])
         /\ down' \in [Clients -> Seq(Statuses)] /\ got' \in [Clients -> Nat]
         /\ UNCHANGED <<eof, reset, req, calls, up, inb, conn, srvVars, split>>
         /\ \/ /\ got'[c] + Len(down'[c]) = RespLen /\ got'[c] < RespLen
               /\ \A i \in 1..Len(down'[c]) : down'[c][i] = process_register(req[c])
               /\ UNCHANGED <<cli, shown>>
            \/ /\ down'[c] = << >>
               /\ cli' = [cli EXCEPT ![c] = "menu"]
               /\ shown' = [shown EXCEPT ![c] = down[c][1]]
<1>1. TypeOK /\ OneInv(c)
  BY DEF FramedInv, OneInv
<1>2. PICK k \in 1..Len(down[c]) :
        LET n == got[c] + k
            short == ReadDone(n) /\ n # RespLen
            left == Drop(down[c], k)
        IN  /\ got' = [got EXCEPT ![c] = n]
            /\ cli' = [cli EXCEPT ![c] = IF short THEN "aborted" ELSE IF ReadDone(n) THEN "menu" ELSE "wait"]
            /\ shown' = [shown EXCEPT ![c] = IF short THEN "ended" ELSE IF ReadDone(n) THEN down[c][1] ELSE @]
            /\ down' = [down EXCEPT ![c] = IF short THEN << >> ELSE left]
            /\ eof' = [eof EXCEPT ![c] = short]
            /\ reset' = [reset EXCEPT ![c] = short /\ left # << >>]
  BY DEF Receive
<1> DEFINE n == got[c] + k
           rest == Drop(down[c], k)
<1>3. down[c] \in Seq(Statuses) /\ Len(down[c]) \in Nat /\ got[c] \in Nat /\ k \in 0..Len(down[c])
  BY <1>1, LenProperties DEF TypeOK
<1>4. down[c] # << >>
  BY <1>3, EmptySeq
<1>5. cli[c] = "wait" /\ Answered(c)
  BY <1>1, <1>4 DEF OneInv, ClientInv, Unanswered, Receive
<1>6. /\ rest \in Seq(Statuses) /\ Len(rest) = Len(down[c]) - k
      /\ \A i \in 1..(Len(down[c]) - k) : rest[i] = down[c][i + k]
  BY <1>3, Parts, ZenonT(30)
<1>7. ReadDone(n) <=> n = RespLen
  BY DEF ReadDone
<1>8. ~eof[c] /\ ~reset[c]
  BY <1>1, <1>5 DEF OneInv, ClientInv, Ended
<1>9. UNCHANGED <<eof, reset, req, calls, up, inb, conn, srvVars, split>>
  BY <1>1, <1>2, <1>7, <1>8 DEF Receive, TypeOK
<1>10. down[c][1] = process_register(req[c])
  BY <1>3, <1>5 DEF Answered
<1>11. down' = [down EXCEPT ![c] = rest] /\ got' = [got EXCEPT ![c] = n]
  BY <1>2, <1>7
<1>12. down' \in [Clients -> Seq(Statuses)] /\ got' \in [Clients -> Nat] /\ down'[c] = rest /\ got'[c] = n
  <2>1. down \in [Clients -> Seq(Statuses)] /\ got \in [Clients -> Nat]
    BY <1>1 DEF TypeOK
  <2>2. rest \in Seq(Statuses) /\ n \in Nat
    BY <1>3, <1>6
  <2> HIDE DEF rest, n
  <2> QED BY <1>11, <2>1, <2>2
<1>13. n + Len(rest) = RespLen /\ n <= RespLen /\ RespLen \in Nat
  BY <1>3, <1>5, <1>6, FramedLens DEF Answered
<1>14. CASE n = RespLen
  <2>1. k = Len(down[c])
    BY <1>3, <1>6, <1>13, <1>14
  <2>2. rest = << >>
    BY <1>3, <2>1, DropAll
  <2> QED BY <1>2, <1>5, <1>7, <1>9, <1>10, <1>12, <1>14, <2>2
<1>15. CASE n # RespLen
  <2>1. n < RespLen
    BY <1>3, <1>13, <1>15
  <2>2. UNCHANGED <<cli, shown>>
    BY <1>1, <1>2, <1>5, <1>7, <1>15 DEF TypeOK
  <2>3. ASSUME NEW i \in 1..Len(rest) PROVE rest[i] = process_register(req[c])
    <3>1. i \in 1..(Len(down[c]) - k)
      BY <1>6
    <3>2. rest[i] = down[c][i + k]
      BY <1>6, <3>1
    <3>3. i + k \in 1..Len(down[c])
      BY <1>3, <3>1
    <3> QED BY <1>5, <3>2, <3>3 DEF Answered
  <2> QED BY <1>5, <1>9, <1>10, <1>12, <1>13, <2>1, <2>2, <2>3
<1> QED BY <1>14, <1>15

\* tcp_read takes a piece, and the call returns with the last one.
LEMMA ReceiveStep ==
  ASSUME FramedInv, NEW c \in Clients, Receive(c)
  PROVE  FramedInv'
<1>1. TypeOK /\ OneInv(c)
  BY DEF FramedInv, OneInv
<1>2. /\ cli[c] = "wait" /\ Answered(c) /\ down[c][1] = process_register(req[c])
      /\ down' \in [Clients -> Seq(Statuses)] /\ got' \in [Clients -> Nat]
      /\ UNCHANGED <<eof, reset, req, calls, up, inb, conn, srvVars, split>>
      /\ \/ /\ got'[c] + Len(down'[c]) = RespLen /\ got'[c] < RespLen
            /\ \A i \in 1..Len(down'[c]) : down'[c][i] = process_register(req[c])
            /\ UNCHANGED <<cli, shown>>
         \/ /\ down'[c] = << >>
            /\ cli' = [cli EXCEPT ![c] = "menu"]
            /\ shown' = [shown EXCEPT ![c] = down[c][1]]
  BY ReceiveFacts
<1>3. process_register(req[c]) \in Statuses
  BY DEF process_register, Statuses
<1>4. TypeOK'
  <2>1. cli' \in [Clients -> {"off", "menu", "wait"} \cup Ended]
    BY <1>1, <1>2 DEF TypeOK
  <2>2. shown' \in [Clients -> Statuses \cup {"nothing", "ended"}]
    <3>1. down[c][1] \in Statuses /\ shown \in [Clients -> Statuses \cup {"nothing", "ended"}]
      BY <1>1, <1>2, <1>3 DEF TypeOK
    <3>2. shown' = shown \/ shown' = [shown EXCEPT ![c] = down[c][1]]
      BY <1>2
    <3> QED BY <3>1, <3>2
  <2> QED BY <1>1, <1>2, <2>1, <2>2 DEF TypeOK, srvVars
<1>5. /\ Stream(c)' = Stream(c) /\ (Reading(c)' <=> Reading(c)) /\ (Over' <=> Over)
      /\ (Alive(c)' <=> Alive(c)) /\ head' = head
  BY <1>2 DEF Stream, Reading, Over, Alive, srvVars
<1>6. StreamInv(c)'
  BY <1>1, <1>2, <1>5 DEF OneInv, StreamInv
<1>7. /\ conn[c] # "none" /\ ~eof[c] /\ ~reset[c] /\ shown[c] # "ended" /\ req[c] \in Requests
      /\ Stream(c) = << >> /\ ~Reading(c) /\ req[c].type = "REGISTER"
  BY <1>1, <1>2 DEF OneInv, ClientInv, Ended, Answered
<1>8. conn[c] = "closed" => Over
  <2>1. got[c] \in Nat /\ ~Unanswered(c)
    BY <1>1, <1>2, EmptySeq DEF Unanswered, Answered, TypeOK
  <2> QED BY <1>1, <1>2, <2>1 DEF OneInv, CloseInv
<1>9. OneInv(c)'
  <2>1. CASE UNCHANGED <<cli, shown>>
    <3>1. \/ down'[c] = << >> /\ cli'[c] = "menu"
          \/ /\ got'[c] + Len(down'[c]) = RespLen /\ got'[c] < RespLen
             /\ \A i \in 1..Len(down'[c]) : down'[c][i] = process_register(req[c])
      BY <1>1, <1>2 DEF TypeOK
    <3>2. /\ got'[c] + Len(down'[c]) = RespLen /\ got'[c] < RespLen
          /\ \A i \in 1..Len(down'[c]) : down'[c][i] = process_register(req[c])
      BY <1>2, <2>1, <3>1
    <3>3. Answered(c)'
      BY <1>2, <1>5, <1>7, <3>2 DEF Answered, process_register
    <3>4. ClientInv(c)'
      BY <1>1, <1>2, <1>5, <1>7, <2>1, <3>3 DEF OneInv, ClientInv, Ended
    <3>5. CloseInv(c)'
      BY <1>2, <1>5, <1>7, <1>8, <2>1 DEF CloseInv
    <3> QED BY <1>6, <3>4, <3>5 DEF OneInv
  <2>2. CASE /\ down'[c] = << >>
             /\ cli' = [cli EXCEPT ![c] = "menu"]
             /\ shown' = [shown EXCEPT ![c] = down[c][1]]
    <3>1. cli'[c] = "menu" /\ shown'[c] # "ended"
      BY <1>1, <1>2, <1>3, <2>2 DEF TypeOK, Statuses
    <3>2. ClientInv(c)'
      BY <1>2, <1>5, <1>7, <2>2, <3>1 DEF ClientInv, Ended
    <3>3. CloseInv(c)'
      BY <1>2, <1>5, <1>7, <1>8, <3>1 DEF CloseInv
    <3> QED BY <1>6, <3>2, <3>3 DEF OneInv
  <2> QED BY <1>2, <2>1, <2>2
<1>10. \A d \in Clients \ {c} :
        /\ cli'[d] = cli[d] /\ req'[d] = req[d] /\ got'[d] = got[d] /\ shown'[d] = shown[d]
        /\ up'[d] = up[d] /\ inb'[d] = inb[d] /\ down'[d] = down[d]
        /\ eof'[d] = eof[d] /\ reset'[d] = reset[d] /\ conn'[d] = conn[d]
  BY <1>1, <1>2 DEF Receive, TypeOK
<1> QED BY <1>2, <1>4, <1>9, <1>10, ClientStep

\* A client ends, by itself or because its connection is gone.
LEMMA EndStep ==
  ASSUME FramedInv, NEW c \in Clients, AbortClient(c) \/ Leave(c)
  PROVE  FramedInv'
<1>1. TypeOK /\ OneInv(c)
  BY DEF FramedInv, OneInv
<1>2. /\ cli[c] \in {"menu", "wait"} /\ cli' \in [Clients -> {"off", "menu", "wait"} \cup Ended]
      /\ cli'[c] \in Ended /\ shown'[c] = "ended" /\ eof'[c] /\ down'[c] = << >>
      /\ shown' \in [Clients -> Statuses \cup {"nothing", "ended"}]
      /\ eof' \in [Clients -> BOOLEAN] /\ reset' \in [Clients -> BOOLEAN]
      /\ down' \in [Clients -> Seq(Statuses)] /\ (reset[c] => reset'[c])
      /\ UNCHANGED <<req, calls, got, up, inb, conn, srvVars, split>>
  <2>1. /\ cli[c] \in {"menu", "wait"} /\ CloseClient(c)
        /\ \E x \in Ended : cli' = [cli EXCEPT ![c] = x]
        /\ UNCHANGED <<req, calls, got, up, inb, conn, srvVars, split>>
    BY DEF AbortClient, Leave, Ended
  <2>2. /\ cli' \in [Clients -> {"off", "menu", "wait"} \cup Ended] /\ cli'[c] \in Ended
    BY <1>1, <2>1 DEF TypeOK
  <2>3. /\ shown'[c] = "ended" /\ shown' \in [Clients -> Statuses \cup {"nothing", "ended"}]
        /\ down'[c] = << >> /\ down' \in [Clients -> Seq(Statuses)]
    BY <1>1, <2>1, EmptySeq DEF TypeOK, CloseClient
  <2>4. eof'[c] /\ eof' \in [Clients -> BOOLEAN]
    BY <1>1, <2>1 DEF TypeOK, CloseClient
  <2>5. reset' \in [Clients -> BOOLEAN] /\ (reset[c] => reset'[c])
    <3>1. reset \in [Clients -> BOOLEAN] /\ reset' = [reset EXCEPT ![c] = reset[c] \/ down[c] # << >>]
      BY <1>1, <2>1 DEF TypeOK, CloseClient
    <3> QED BY <3>1, Zenon
  <2> QED BY <2>1, <2>2, <2>3, <2>4, <2>5
<1>3. TypeOK'
  BY <1>1, <1>2 DEF TypeOK, srvVars
<1>4. /\ Stream(c)' = Stream(c) /\ (Reading(c)' <=> Reading(c)) /\ (Over' <=> Over)
      /\ (Alive(c)' <=> Alive(c)) /\ head' = head /\ (Cause(c)' <=> Cause(c))
  BY <1>2 DEF Stream, Reading, Over, Alive, Cause, srvVars
<1>5. StreamInv(c)'
  BY <1>1, <1>2, <1>4 DEF OneInv, StreamInv
<1>6. ClientInv(c)'
  BY <1>1, <1>2, <1>4 DEF OneInv, ClientInv, Ended
<1>7. cli'[c] = "aborted" => Cause(c)
  <2>1. cli'[c] = "aborted" => cli[c] = "wait" /\ conn[c] = "closed"
    BY <1>1 DEF AbortClient, Leave, TypeOK
  <2> QED BY <1>1, <2>1 DEF OneInv, CloseInv, Cause
<1>8. CloseInv(c)'
  BY <1>1, <1>2, <1>4, <1>7 DEF OneInv, ClientInv, CloseInv, Ended
<1>9. \A d \in Clients \ {c} :
        /\ cli'[d] = cli[d] /\ req'[d] = req[d] /\ got'[d] = got[d] /\ shown'[d] = shown[d]
        /\ up'[d] = up[d] /\ inb'[d] = inb[d] /\ down'[d] = down[d]
        /\ eof'[d] = eof[d] /\ reset'[d] = reset[d] /\ conn'[d] = conn[d]
  BY <1>1 DEF AbortClient, Leave, CloseClient, TypeOK
<1>10. OneInv(c)'
  BY <1>5, <1>6, <1>8 DEF OneInv
<1> QED BY <1>2, <1>3, <1>9, <1>10, ClientStep

\* Pieces arrive; the stream as a whole is what it was.
LEMMA DeliverStep ==
  ASSUME FramedInv, NEW c \in Clients, Deliver(c)
  PROVE  FramedInv'
<1>1. TypeOK /\ OneInv(c)
  BY DEF FramedInv, OneInv
<1>2. PICK k \in 1..Len(up[c]) : /\ inb' = [inb EXCEPT ![c] = @ \o Take(up[c], k)]
                                 /\ up' = [up EXCEPT ![c] = Drop(@, k)]
  BY DEF Deliver
<1>3. inb[c] \in Seq(Pieces) /\ up[c] \in Seq(Pieces) /\ Len(up[c]) \in Nat /\ k \in 0..Len(up[c])
  BY <1>1, LenProperties DEF TypeOK
<1>4. Take(up[c], k) \in Seq(Pieces) /\ Drop(up[c], k) \in Seq(Pieces)
  BY <1>3, Parts
<1>5. inb'[c] = inb[c] \o Take(up[c], k) /\ up'[c] = Drop(up[c], k)
  BY <1>1, <1>2 DEF TypeOK
<1>6. inb'[c] \in Seq(Pieces) /\ (inb'[c] = << >> => inb[c] = << >>)
  <2> DEFINE t == Take(up[c], k)
  <2>1. t \in Seq(Pieces) /\ inb[c] \in Seq(Pieces) /\ inb'[c] = inb[c] \o t
    BY <1>3, <1>4, <1>5
  <2> HIDE DEF t
  <2> QED BY <2>1, ConcatProperties, ConcatEqualIffEmpty
<1>7. Stream(c)' = Stream(c)
  BY <1>3, <1>5, MovePieces DEF Stream
<1>8. TypeOK'
  BY <1>1, <1>2, <1>4, <1>5, <1>6 DEF Deliver, TypeOK, srvVars, cliVars
<1>9. /\ (Reading(c)' <=> Reading(c)) /\ (Over' <=> Over) /\ (Cause(c)' <=> Cause(c)) /\ head' = head
      /\ UNCHANGED <<cli, req, got, shown, down, eof, reset, conn>>
  BY DEF Deliver, Reading, Over, Cause, srvVars, cliVars
<1>10. Alive(c)
  BY <1>1 DEF OneInv, StreamInv, Deliver
<1>11. StreamInv(c)'
  BY <1>1, <1>7, <1>9, <1>10 DEF OneInv, StreamInv, Alive
<1>12. ClientInv(c)'
  BY <1>1, <1>7, <1>9 DEF OneInv, ClientInv, Unanswered, Answered, process_register
<1>13. CloseInv(c)'
  BY <1>1, <1>9 DEF OneInv, CloseInv, Unanswered
<1>14. \A d \in Clients \ {c} :
        /\ cli'[d] = cli[d] /\ req'[d] = req[d] /\ got'[d] = got[d] /\ shown'[d] = shown[d]
        /\ up'[d] = up[d] /\ inb'[d] = inb[d] /\ down'[d] = down[d]
        /\ eof'[d] = eof[d] /\ reset'[d] = reset[d] /\ conn'[d] = conn[d]
  BY <1>1, <1>2, <1>9 DEF TypeOK
<1>15. OneInv(c)'
  BY <1>11, <1>12, <1>13 DEF OneInv
<1> QED BY <1>6, <1>8, <1>9, <1>14, <1>15, ClientStep DEF Deliver

-----------------------------------------------------------------------------
(* Steps of the server                                                     *)

\* What closing leaves of the connections.
LEMMA ClosedFacts ==
  ASSUME TypeOK, NEW C \in SUBSET Clients, Closed(C)
  PROVE  /\ conn' \in [Clients -> {"none", "pending", "open", "closed"}]
         /\ up' \in [Clients -> Seq(Pieces)] /\ inb' \in [Clients -> Seq(Pieces)]
         /\ UNCHANGED <<down, eof, reset>>
         /\ \A c \in C : conn'[c] = "closed" /\ up'[c] = << >> /\ inb'[c] = << >>
         /\ \A c \in Clients \ C : conn'[c] = conn[c] /\ up'[c] = up[c] /\ inb'[c] = inb[c]
BY EmptySeq DEF TypeOK, Closed

\* A step of the server that touches no connection.
LEMMA QuietStep ==
  ASSUME FramedInv, TypeOK', TodoInv', UNCHANGED <<cliVars, netVars, split>>,
         \A c \in Clients : Reading(c)' <=> Reading(c),
         srv = "body" => head' = head, Over => Over'
  PROVE  FramedInv'
<1>1. ASSUME NEW c \in Clients PROVE OneInv(c)'
  <2>1. OneInv(c) /\ (Reading(c) => head' = head)
    BY DEF FramedInv, OneInv, Reading
  <2>2. /\ cli'[c] = cli[c] /\ req'[c] = req[c] /\ got'[c] = got[c] /\ shown'[c] = shown[c]
        /\ up'[c] = up[c] /\ inb'[c] = inb[c] /\ down'[c] = down[c]
        /\ eof'[c] = eof[c] /\ reset'[c] = reset[c] /\ conn'[c] = conn[c]
        /\ split' = split
    BY DEF cliVars, netVars
  <2> QED BY <2>1, <2>2, Untouched
<1> QED BY <1>1 DEF FramedInv, OneInv

\* The server ends, and every connection with it.
LEMMA ShutdownStep ==
  ASSUME FramedInv, Closed(Known), srv' \in {"end", "dead"}, UNCHANGED <<cliVars, cur, head, stop, split, late>>,
         todo' \subseteq Events
  PROVE  FramedInv'
<1>1. TypeOK /\ Known \in SUBSET Clients
  BY DEF FramedInv, Known
<1>2. /\ conn' \in [Clients -> {"none", "pending", "open", "closed"}]
      /\ up' \in [Clients -> Seq(Pieces)] /\ inb' \in [Clients -> Seq(Pieces)]
      /\ UNCHANGED <<down, eof, reset>>
      /\ \A c \in Known : conn'[c] = "closed" /\ up'[c] = << >> /\ inb'[c] = << >>
      /\ \A c \in Clients \ Known : conn'[c] = conn[c] /\ up'[c] = up[c] /\ inb'[c] = inb[c]
  BY <1>1, ClosedFacts
<1>3. TypeOK'
  BY <1>1, <1>2 DEF TypeOK, cliVars
<1>4. TodoInv' /\ Over'
  BY DEF TodoInv, Over
<1>5. ASSUME NEW c \in Clients PROVE OneInv(c)'
  <2>1. OneInv(c) /\ ~Reading(c)'
    BY DEF FramedInv, OneInv, Reading
  <2>2. inb'[c] = << >> /\ up'[c] = << >> /\ ~Alive(c)'
    <3>1. CASE c \in Known
      BY <1>2, <3>1 DEF Alive
    <3>2. CASE c \notin Known
      BY <1>2, <2>1, <3>2 DEF OneInv, StreamInv, Alive, Known
    <3> QED BY <3>1, <3>2
  <2>3. Stream(c)' = << >>
    <3>1. << >> \o << >> = << >>
      BY ConcatEmptySeq, EmptySeq
    <3> QED BY <2>2, <3>1 DEF Stream
  <2>4. conn'[c] = "none" <=> conn[c] = "none"
    BY <1>1, <1>2 DEF Known, TypeOK
  <2>5. StreamInv(c)'
    BY <2>1, <2>2, <2>3 DEF StreamInv
  <2>6. ClientInv(c)'
    BY <1>2, <2>1, <2>3, <2>4 DEF OneInv, ClientInv, Unanswered, Answered, process_register, cliVars
  <2>7. CloseInv(c)'
    BY <1>4, <2>1 DEF OneInv, CloseInv, Cause
  <2> QED BY <2>5, <2>6, <2>7 DEF OneInv
<1> QED BY <1>3, <1>4, <1>5 DEF FramedInv, OneInv

\* The server gives up one connection: the client has gone, or there is a cause.
LEMMA CloseOneStep ==
  ASSUME FramedInv, NEW c \in Clients, Closed({c}), UNCHANGED <<cliVars, stop, late>>,
         srv \in {"batch", "body"}, srv = "body" => cur = c, srv' = "batch",
         todo' \subseteq todo, \A e \in todo' : e.fd # c,
         cur' \in Clients \cup {"none"}, head' \in Seq(Pieces),
         split \subseteq split', split' \subseteq Clients,
         conn[c] # "none" \/ eof[c], cli[c] # "menu",
         cli[c] = "wait" => Unanswered(c) /\ Cause(c)'
  PROVE  FramedInv'
<1>1. TypeOK /\ OneInv(c) /\ {c} \in SUBSET Clients
  BY DEF FramedInv, OneInv
<1>2. /\ conn' \in [Clients -> {"none", "pending", "open", "closed"}]
      /\ up' \in [Clients -> Seq(Pieces)] /\ inb' \in [Clients -> Seq(Pieces)]
      /\ UNCHANGED <<down, eof, reset>>
      /\ \A d \in {c} : conn'[d] = "closed" /\ up'[d] = << >> /\ inb'[d] = << >>
      /\ \A d \in Clients \ {c} : conn'[d] = conn[d] /\ up'[d] = up[d] /\ inb'[d] = inb[d]
  BY <1>1, ClosedFacts
<1>3. TypeOK'
  BY <1>1, <1>2 DEF TypeOK, cliVars
<1>4. \A d \in Clients : ~Reading(d)' /\ (Reading(d) => d = c)
  BY DEF Reading
<1>5. TodoInv'
  BY <1>2, <1>4 DEF FramedInv, TodoInv
<1>6. OneInv(c)'
  <2>1. inb'[c] = << >> /\ up'[c] = << >> /\ conn'[c] = "closed" /\ ~Reading(c)'
    BY <1>2, <1>4
  <2>2. Stream(c)' = << >>
    <3>1. << >> \o << >> = << >>
      BY ConcatEmptySeq, EmptySeq
    <3> QED BY <2>1, <3>1 DEF Stream
  <2>3. StreamInv(c)'
    BY <2>1, <2>2 DEF StreamInv, Alive
  <2>4. ClientInv(c)'
    BY <1>1, <1>2, <2>1, <2>2 DEF OneInv, ClientInv, Unanswered, cliVars
  <2>5. Cause(c) => Cause(c)'
    BY DEF Cause, Over, cliVars
  <2>6. CloseInv(c)'
    BY <1>1, <1>2, <2>1, <2>5 DEF OneInv, CloseInv, Unanswered, cliVars
  <2> QED BY <2>3, <2>4, <2>6 DEF OneInv
<1>7. ASSUME NEW d \in Clients, d # c PROVE OneInv(d)'
  <2>1. OneInv(d) /\ ~Reading(d) /\ ~Reading(d)' /\ ~Over /\ (d \in split => d \in split')
    BY <1>4, <1>7 DEF FramedInv, OneInv, Over
  <2>2. /\ cli'[d] = cli[d] /\ req'[d] = req[d] /\ got'[d] = got[d] /\ shown'[d] = shown[d]
        /\ up'[d] = up[d] /\ inb'[d] = inb[d] /\ down'[d] = down[d]
        /\ eof'[d] = eof[d] /\ reset'[d] = reset[d] /\ conn'[d] = conn[d]
    BY <1>2, <1>7 DEF cliVars
  <2> QED BY <2>1, <2>2, Untouched
<1>8. \A d \in Clients : OneInv(d)'
  BY <1>6, <1>7
<1> QED BY <1>3, <1>5, <1>8 DEF FramedInv, OneInv

\* The loop of server_run, epoll_wait and SIGINT.
LEMMA LoopStep ==
  ASSUME FramedInv, Loop \/ EpollWait \/ BatchDone \/ signal_handle
  PROVE  FramedInv'
<1>1. TypeOK
  BY DEF FramedInv
<1>2. CASE Loop
  <2>1. CASE StopSeen
    <3>1. todo' \subseteq Events
      BY <1>1, <1>2 DEF Loop, TypeOK
    <3> QED BY <1>2, <2>1, <3>1, ShutdownStep DEF Loop
  <2>2. CASE ~StopSeen
    <3>1. srv = "top" /\ srv' = "epoll" /\ UNCHANGED <<cliVars, netVars, todo, cur, head, stop, split, late>>
      BY <1>2, <2>2 DEF Loop
    <3>2. TypeOK'
      BY <1>1, <3>1 DEF TypeOK, cliVars, netVars
    <3>3. TodoInv' /\ (\A c \in Clients : Reading(c)' <=> Reading(c)) /\ ~Over
      BY <3>1 DEF TodoInv, Reading, Over
    <3> QED BY <3>1, <3>2, <3>3, QuietStep
  <2> QED BY <2>1, <2>2
<1>3. CASE EpollWait
  <2>1. /\ srv = "epoll" /\ srv' = "batch" /\ todo' = Ready
        /\ UNCHANGED <<cliVars, netVars, cur, head, stop, split>>
    BY <1>3 DEF EpollWait
  <2>2. Ready \subseteq Events
    <3>1. \A c \in Clients : (~reset[c]) \in BOOLEAN
      BY Zenon
    <3>2. \A c \in Clients : [fd |-> c, in |-> ~reset[c]] \in Events
      BY <3>1, Zenon DEF Events
    <3>3. [fd |-> "listen", in |-> TRUE] \in Events
      BY DEF Events
    <3> QED BY <3>2, <3>3, Zenon DEF Ready
  <2>3. late' \in Nat
    BY <1>1, <1>3 DEF EpollWait, TypeOK
  <2>4. TypeOK'
    BY <1>1, <2>1, <2>2, <2>3 DEF TypeOK, cliVars, netVars
  <2>5. ASSUME NEW e \in Ready, e.fd \in Clients
        PROVE  /\ e.in <=> ~reset[e.fd]
               /\ IF e.in THEN inb[e.fd] # << >> \/ eof[e.fd] ELSE reset[e.fd]
               /\ e = [fd |-> e.fd, in |-> ~reset[e.fd]]
    <3>1. e \in {[fd |-> c, in |-> ~reset[c]] : c \in {d \in Clients : conn[d] = "open" /\ (Readable(d) \/ reset[d])}}
      BY <2>5, FramedClients DEF Ready
    <3>2. PICK c \in Clients : e = [fd |-> c, in |-> ~reset[c]] /\ (Readable(c) \/ reset[c])
      BY <3>1
    <3>3. e.fd = c /\ (e.in <=> ~reset[c]) /\ e = [fd |-> e.fd, in |-> ~reset[e.fd]]
      BY <3>2
    <3> QED BY <3>2, <3>3 DEF Readable, Finished
  <2>6. \A e, d \in Ready : e.fd \in Clients /\ d.fd = e.fd => d = e
    BY <2>5
  <2>7. \A c \in Clients : ~Reading(c)' /\ ~Reading(c)
    BY <2>1 DEF Reading
  <2>8. TodoInv'
    BY <2>1, <2>5, <2>6, <2>7 DEF TodoInv, netVars
  <2> QED BY <2>1, <2>4, <2>7, <2>8, QuietStep DEF Over
<1>4. CASE BatchDone
  <2>1. /\ srv = "batch" /\ srv' = "top" /\ UNCHANGED <<cliVars, netVars, todo, cur, head, stop, split, late>>
    BY <1>4 DEF BatchDone
  <2>2. TypeOK'
    BY <1>1, <2>1 DEF TypeOK, cliVars, netVars
  <2>3. TodoInv' /\ (\A c \in Clients : Reading(c)' <=> Reading(c)) /\ ~Over
    BY <2>1 DEF TodoInv, Reading, Over
  <2> QED BY <2>1, <2>2, <2>3, QuietStep
<1>5. CASE signal_handle
  <2>1. /\ (srv' = srv \/ (srv = "epoll" /\ srv' = "top")) /\ stop' = TRUE /\ ~Over
        /\ UNCHANGED <<cliVars, netVars, todo, cur, head, split, late>>
    BY <1>5 DEF signal_handle, Over
  <2>2. TypeOK'
    BY <1>1, <2>1 DEF TypeOK, cliVars, netVars
  <2>3. \A c : Reading(c)' <=> Reading(c)
    BY <2>1 DEF Reading
  <2>4. TodoInv'
    BY <2>1, <2>3 DEF FramedInv, TodoInv, netVars
  <2> QED BY <2>1, <2>2, <2>3, <2>4, QuietStep
<1> QED BY <1>2, <1>3, <1>4, <1>5

\* A connection is accepted, or the server aborts.
LEMMA AcceptStep ==
  ASSUME FramedInv, accept_new_connection
  PROVE  FramedInv'
<1>1. TypeOK
  BY DEF FramedInv
<1>2. srv = "batch" /\ todo' \subseteq todo /\ UNCHANGED <<cliVars, cur, head, stop, split, late>>
  BY DEF accept_new_connection, Event
<1>3. CASE SysMayFail /\ srv' = "dead" /\ Closed(Known)
  <2>1. todo' \subseteq Events
    BY <1>1, <1>2 DEF TypeOK
  <2> QED BY <1>2, <1>3, <2>1, ShutdownStep
<1>4. CASE /\ \E c \in Clients : conn[c] = "pending" /\ conn' = [conn EXCEPT ![c] = "open"]
           /\ UNCHANGED <<srv, up, inb, down, eof, reset>>
  <2>1. PICK c \in Clients : conn[c] = "pending" /\ conn' = [conn EXCEPT ![c] = "open"]
    BY <1>4
  <2>2. TypeOK'
    BY <1>1, <1>2, <1>4, <2>1 DEF TypeOK, cliVars
  <2>3. (\A d : Reading(d)' <=> Reading(d)) /\ (Over' <=> Over)
    BY <1>2, <1>4 DEF Reading, Over
  <2>4. TodoInv'
    BY <1>2, <1>4, <2>3 DEF FramedInv, TodoInv
  <2>5. OneInv(c)'
    <3>1. OneInv(c) /\ conn'[c] = "open" /\ conn[c] = "pending" /\ UNCHANGED <<cliVars, head, split>>
      BY <1>1, <1>2, <2>1 DEF FramedInv, OneInv, TypeOK
    <3>2. StreamInv(c)'
      BY <1>4, <2>3, <3>1 DEF OneInv, StreamInv, Alive, Stream, cliVars
    <3>3. ClientInv(c)'
      BY <1>4, <2>3, <3>1 DEF OneInv, ClientInv, Unanswered, Answered, Stream, process_register, cliVars
    <3>4. CloseInv(c)'
      BY <2>3, <3>1 DEF OneInv, CloseInv, Cause, cliVars
    <3> QED BY <3>2, <3>3, <3>4 DEF OneInv
  <2>6. ASSUME NEW d \in Clients, d # c PROVE OneInv(d)'
    <3>1. OneInv(d) /\ (Reading(d)' <=> Reading(d)) /\ (Over' <=> Over) /\ head' = head /\ split' = split
      BY <1>2, <2>3 DEF FramedInv, OneInv
    <3>2. /\ cli'[d] = cli[d] /\ req'[d] = req[d] /\ got'[d] = got[d] /\ shown'[d] = shown[d]
          /\ up'[d] = up[d] /\ inb'[d] = inb[d] /\ down'[d] = down[d]
          /\ eof'[d] = eof[d] /\ reset'[d] = reset[d] /\ conn'[d] = conn[d]
      BY <1>1, <1>2, <1>4, <2>1, <2>6 DEF TypeOK, cliVars
    <3> QED BY <3>1, <3>2, Untouched
  <2>7. \A d \in Clients : OneInv(d)'
    BY <2>5, <2>6
  <2> QED BY <2>2, <2>4, <2>7 DEF FramedInv, OneInv
<1> QED BY <1>3, <1>4 DEF accept_new_connection

\* An event that is an error: the client has gone.
LEMMA ErrorStep ==
  ASSUME FramedInv, NEW c \in Clients, CloseOnError(c)
  PROVE  FramedInv'
<1> DEFINE ev == [fd |-> c, in |-> FALSE]
<1>1. TypeOK /\ OneInv(c)
  BY DEF FramedInv, OneInv
<1>2. /\ srv = "batch" /\ srv' = srv /\ ev \in todo /\ todo' = todo \ {ev} /\ Closed({c})
      /\ UNCHANGED <<cliVars, cur, head, stop, split, late>>
  BY DEF CloseOnError, Event
<1>3. ev.fd = c /\ ~ev.in
  OBVIOUS
<1>4. reset[c] /\ \A d \in todo : d.fd = c => d = ev
  BY <1>2, <1>3 DEF FramedInv, TodoInv
<1>5. \A e \in todo' : e.fd # c
  BY <1>2, <1>4
<1>6. eof[c] /\ cli[c] # "menu" /\ cli[c] # "wait"
  BY <1>1, <1>4 DEF OneInv, ClientInv, Ended
<1>7. cur' \in Clients \cup {"none"} /\ head' \in Seq(Pieces) /\ split' \subseteq Clients
  BY <1>1, <1>2 DEF TypeOK
<1> QED BY <1>2, <1>5, <1>6, <1>7, CloseOneStep

\* The first read: a whole head, or the connection is given up.
LEMMA HeadStep ==
  ASSUME FramedInv, NEW c \in Clients, ReadHead(c)
  PROVE  FramedInv'
<1> DEFINE ev == [fd |-> c, in |-> TRUE]
<1>1. TypeOK /\ OneInv(c)
  BY DEF FramedInv, OneInv
<1>2. srv = "batch" /\ ev \in todo /\ todo' = todo \ {ev} /\ UNCHANGED <<cliVars, stop, late>>
  BY DEF ReadHead, Event
<1>3. ev.fd = c /\ ev.in
  OBVIOUS
<1>4. /\ inb[c] # << >> \/ eof[c]
      /\ \A d \in todo : d.fd = c => d = ev
  BY <1>2, <1>3 DEF FramedInv, TodoInv
<1>5. \A e \in todo' : e.fd # c
  BY <1>2, <1>4
<1>6. inb[c] \in Seq(Pieces) /\ up[c] \in Seq(Pieces) /\ Len(inb[c]) \in Nat
  BY <1>1, LenProperties DEF TypeOK
<1>7. \A d \in Clients : ~Reading(d)
  BY <1>2 DEF Reading
<1>8. CASE Enough(c, HeadLen)
  <2>1. HeadLen \in 0..Len(inb[c]) /\ AtMost(HeadLen, Len(inb[c])) = HeadLen /\ inb[c] # << >>
    BY <1>6, <1>8, FramedLens, EmptySeq DEF Enough, AtMost
  <2>2. /\ inb' = [inb EXCEPT ![c] = Drop(inb[c], HeadLen)] /\ head' = Take(inb[c], HeadLen)
        /\ srv' = (IF head' = << >> THEN "batch" ELSE "body") /\ cur' = c
        /\ UNCHANGED <<up, down, eof, reset, conn, split>>
    BY <1>8, <2>1 DEF ReadHead
  <2>3. Stream(c) = Packet(req[c]) /\ Alive(c) /\ req[c] \in Requests \cup {NoRequest}
    BY <1>1, <1>7, <2>1, EmptyStream DEF OneInv, StreamInv, TypeOK
  <2>4. Take(inb[c], HeadLen) = Take(Stream(c), HeadLen) /\ Drop(inb[c], HeadLen) \o up[c] = Drop(Stream(c), HeadLen)
    BY <1>6, <2>1, ArrivedPrefix DEF Stream
  <2>5. /\ Take(Packet(req[c]), HeadLen) \in Seq(Pieces) /\ Take(Packet(req[c]), HeadLen) # << >>
    BY <2>3, PacketFacts
  <2>6. head' = Take(Packet(req[c]), HeadLen) /\ head' \in Seq(Pieces) /\ srv' = "body"
    BY <2>2, <2>3, <2>4, <2>5
  <2>7. Drop(inb[c], HeadLen) \in Seq(Pieces)
    BY <1>6, <2>1, Parts
  <2>8. TypeOK'
    BY <1>1, <1>2, <2>2, <2>6, <2>7 DEF TypeOK, cliVars
  <2>9. Reading(c)' /\ \A d \in Clients : d # c => ~Reading(d)'
    BY <2>2, <2>6 DEF Reading
  <2>10. Stream(c)' = Drop(Packet(req[c]), HeadLen)
    BY <1>1, <2>2, <2>3, <2>4 DEF Stream, TypeOK
  <2>11. TodoInv'
    <3>1. \A d \in Clients : d # c => inb'[d] = inb[d]
      BY <1>1, <2>2 DEF TypeOK
    <3>2. \A e \in todo' : e \in todo /\ e.fd # c
      BY <1>2, <1>5
    <3> QED BY <1>2, <2>2, <2>9, <3>1, <3>2 DEF FramedInv, TodoInv
  <2>12. ~Answered(c) /\ cli[c] # "menu"
    <3>1. Stream(c) # << >>
      BY <1>1, <2>1, EmptyStream
    <3> QED BY <1>1, <3>1 DEF OneInv, ClientInv, Answered
  <2>13. OneInv(c)'
    <3>1. StreamInv(c)'
      BY <1>2, <2>2, <2>3, <2>6, <2>9, <2>10 DEF StreamInv, Alive, cliVars
    <3>2. ClientInv(c)'
      BY <1>1, <1>2, <2>2, <2>12 DEF OneInv, ClientInv, Unanswered, cliVars
    <3>3. CloseInv(c)'
      BY <1>1, <1>2, <2>2, <2>3, <2>6 DEF OneInv, CloseInv, Unanswered, Cause, Over, Alive, cliVars
    <3> QED BY <3>1, <3>2, <3>3 DEF OneInv
  <2>14. ASSUME NEW d \in Clients, d # c PROVE OneInv(d)'
    <3>1. OneInv(d) /\ ~Reading(d) /\ ~Reading(d)' /\ ~Over /\ split' = split
      BY <1>2, <1>7, <2>2, <2>9, <2>14 DEF FramedInv, OneInv, Over
    <3>2. /\ cli'[d] = cli[d] /\ req'[d] = req[d] /\ got'[d] = got[d] /\ shown'[d] = shown[d]
          /\ up'[d] = up[d] /\ inb'[d] = inb[d] /\ down'[d] = down[d]
          /\ eof'[d] = eof[d] /\ reset'[d] = reset[d] /\ conn'[d] = conn[d]
      BY <1>1, <1>2, <2>2, <2>14 DEF TypeOK, cliVars
    <3> QED BY <3>1, <3>2, Untouched
  <2>15. \A d \in Clients : OneInv(d)'
    BY <2>13, <2>14
  <2> QED BY <2>8, <2>11, <2>15 DEF FramedInv, OneInv
<1>9. CASE ~Enough(c, HeadLen)
  <2>1. /\ Closed({c}) /\ split' = (IF inb[c] # << >> THEN split \cup {c} ELSE split)
        /\ UNCHANGED <<srv, cur, head>>
    BY <1>9 DEF ReadHead
  <2>2. cur' \in Clients \cup {"none"} /\ head' \in Seq(Pieces) /\ split' \subseteq Clients /\ split \subseteq split'
    BY <1>1, <2>1 DEF TypeOK
  <2>3. CASE eof[c]
    <3>1. cli[c] # "menu" /\ cli[c] # "wait"
      BY <1>1, <2>3 DEF OneInv, ClientInv, Ended
    <3> QED BY <1>2, <1>5, <2>1, <2>2, <2>3, <3>1, CloseOneStep
  <2>4. CASE inb[c] # << >>
    <3>1. Stream(c) # << >> /\ Alive(c)
      BY <1>1, <2>4, EmptyStream DEF OneInv, StreamInv
    <3>2. cli[c] # "menu" /\ (cli[c] = "wait" => Unanswered(c)) /\ conn[c] # "none"
      BY <1>1, <3>1 DEF OneInv, ClientInv, Answered, Alive
    <3>3. Cause(c)'
      BY <2>1, <2>4 DEF Cause
    <3> QED BY <1>2, <1>5, <2>1, <2>2, <3>2, <3>3, CloseOneStep
  <2> QED BY <1>4, <2>3, <2>4
<1> QED BY <1>8, <1>9

\* The second read: the rest of the packet, which is answered, or the connection
\* is given up.
LEMMA BodyStep ==
  ASSUME FramedInv, ReadBody
  PROVE  FramedInv'
<1>0. srv = "body" /\ cur \in Clients
  BY DEF FramedInv, TodoInv, ReadBody
<1> PICK c \in Clients : c = cur
  BY <1>0
<1> DEFINE r == head[1].of
           resp == [i \in 1..RespLen |-> process_register(r)]
           refused == ~Magic(head) \/ ~Enough(c, BodyLen) \/ ~Processed(r)
<1>1. /\ srv = "body" /\ (~Magic(head) \/ Readable(c) \/ reset[c])
      /\ srv' = "batch" /\ cur' = "none" /\ head' = << >>
      /\ split' = (IF Magic(head) /\ inb[c] # << >> /\ ~Enough(c, BodyLen) THEN split \cup {c} ELSE split)
      /\ IF refused \/ reset[c]
           THEN Closed({c})
           ELSE /\ inb' = [inb EXCEPT ![c] = Drop(@, AtMost(BodyLen, Len(@)))]
                /\ down' = [down EXCEPT ![c] = IF eof[c] THEN @ ELSE @ \o resp]
                /\ reset' = [reset EXCEPT ![c] = @ \/ eof[c]]
                /\ UNCHANGED <<up, eof, conn>>
      /\ UNCHANGED <<cliVars, todo, stop, late>>
  BY DEF ReadBody
<1>2. TypeOK /\ OneInv(c) /\ Reading(c)
  BY <1>1 DEF FramedInv, TodoInv, OneInv, Reading
<1>3. /\ req[c] \in Requests \cup {NoRequest} /\ Alive(c) /\ head = Take(Packet(req[c]), HeadLen)
      /\ Stream(c) = Drop(Packet(req[c]), HeadLen)
  BY <1>2 DEF OneInv, StreamInv, TypeOK
<1>4. Magic(head) /\ r = req[c] /\ Stream(c) \in Seq(Pieces) /\ Len(Stream(c)) = BodyLen
  <2>1. head[1] = [of |-> req[c], at |-> 1]
    BY <1>3, PacketFacts
  <2> QED BY <1>3, <2>1, PacketFacts DEF Magic
<1>5. Stream(c) # << >>
  BY <1>4, EmptySeq, FramedLens
<1>6. /\ cli[c] # "menu" /\ cli[c] # "off" /\ conn[c] # "none" /\ (cli[c] = "wait" => Unanswered(c))
      /\ (cli[c] = "wait" => req[c] \in Requests /\ ~eof[c])
  BY <1>2, <1>3, <1>5 DEF OneInv, ClientInv, Answered, Alive, Ended
<1>7. \A e \in todo : e.fd # c
  BY <1>1, <1>2 DEF FramedInv, TodoInv
<1>8. /\ cur' \in Clients \cup {"none"} /\ head' \in Seq(Pieces) /\ split' \subseteq Clients
      /\ split \subseteq split'
  BY <1>1, <1>2, EmptySeq DEF TypeOK
<1>9. inb[c] \in Seq(Pieces) /\ up[c] \in Seq(Pieces) /\ Len(inb[c]) \in Nat /\ Len(up[c]) \in Nat
  BY <1>2, LenProperties DEF TypeOK
<1>10. CASE refused \/ reset[c]
  <2>1. cli[c] = "wait" => Cause(c)'
    <3> SUFFICES ASSUME cli[c] = "wait" PROVE Cause(c)'
      OBVIOUS
    <3>1. ~reset[c] /\ ~eof[c] /\ req[c] \in Requests
      BY <1>2, <1>6 DEF OneInv, ClientInv
    <3>2. inb[c] # << >>
      BY <1>1, <1>4, <3>1 DEF Readable, Finished
    <3>3. CASE ~Enough(c, BodyLen)
      BY <1>1, <1>4, <3>2, <3>3 DEF Cause
    <3>4. CASE ~Processed(r)
      BY <1>1, <1>4, <3>1, <3>4 DEF Cause, Processed, Requests, Register, Login, cliVars
    <3> QED BY <1>4, <1>10, <3>1, <3>3, <3>4
  <2>2. Closed({c})
    BY <1>1, <1>10
  <2>3. todo' = todo /\ UNCHANGED <<cliVars, stop, late>>
    BY <1>1
  <2> QED BY <1>1, <1>2, <1>6, <1>7, <1>8, <2>1, <2>2, <2>3, CloseOneStep
<1>11. CASE ~(refused \/ reset[c])
  <2>1. /\ inb' = [inb EXCEPT ![c] = Drop(inb[c], AtMost(BodyLen, Len(inb[c])))]
        /\ down' = [down EXCEPT ![c] = IF eof[c] THEN down[c] ELSE down[c] \o resp]
        /\ reset' = [reset EXCEPT ![c] = reset[c] \/ eof[c]]
        /\ UNCHANGED <<up, eof, conn>>
    BY <1>1, <1>11
  <2>2. Enough(c, BodyLen) /\ Processed(r) /\ ~reset[c]
    BY <1>11
  <2>3. Len(inb[c]) = BodyLen /\ Len(up[c]) = 0 /\ AtMost(BodyLen, Len(inb[c])) = Len(inb[c])
    <3>1. Len(Stream(c)) = Len(inb[c]) + Len(up[c])
      BY <1>9, ConcatProperties DEF Stream
    <3>2. Len(inb[c]) + Len(up[c]) = BodyLen /\ Len(inb[c]) >= BodyLen
      <4>1. Len(inb[c]) + Len(up[c]) = BodyLen
        BY <1>4, <3>1, Zenon
      <4>2. Len(inb[c]) >= BodyLen
        BY <2>2, Zenon DEF Enough
      <4> QED BY <4>1, <4>2
    <3>3. Len(inb[c]) = BodyLen /\ Len(up[c]) = 0
      <4> DEFINE x == Len(inb[c]) y == Len(up[c])
      <4>1. x \in Nat /\ y \in Nat /\ x + y = BodyLen /\ x >= BodyLen
        BY <1>9, <3>2
      <4> HIDE DEF x, y
      <4>2. x = BodyLen /\ y = 0
        BY <4>1, FramedLens
      <4> QED BY <4>2 DEF x, y
    <3>4. AtMost(BodyLen, Len(inb[c])) = Len(inb[c])
      BY <3>3 DEF AtMost
    <3> QED BY <3>3, <3>4
  <2>4. up[c] = << >> /\ inb'[c] = << >>
    <3>1. Drop(inb[c], Len(inb[c])) = << >>
      BY <1>9, DropAll
    <3>2. up[c] = << >>
      BY <1>9, <2>3, EmptySeq
    <3> QED BY <1>2, <2>1, <2>3, <3>1, <3>2 DEF TypeOK
  <2>5. /\ resp \in Seq(Statuses) /\ Len(resp) = RespLen
        /\ \A i \in 1..RespLen : resp[i] = process_register(req[c])
    <3>1. resp \in [1..RespLen -> Statuses] /\ \A i \in 1..RespLen : resp[i] = process_register(req[c])
      BY <1>4 DEF process_register, Statuses
    <3>2. resp \in Seq(Statuses)
      BY <3>1, SeqDef, FramedLens
    <3> HIDE DEF resp
    <3> QED BY <3>1, <3>2, LenProperties, FramedLens
  <2> HIDE DEF resp
  <2>6. down'[c] = IF eof[c] THEN down[c] ELSE down[c] \o resp
    BY <1>2, <2>1 DEF TypeOK
  <2>7. down'[c] \in Seq(Statuses) /\ down[c] \in Seq(Statuses)
    <3>1. down[c] \in Seq(Statuses)
      BY <1>2 DEF TypeOK
    <3>2. down[c] \o resp \in Seq(Statuses)
      BY <2>5, <3>1, ConcatProperties
    <3> QED BY <2>6, <3>1, <3>2
  <2>8. reset' \in [Clients -> BOOLEAN] /\ (reset'[c] <=> eof[c]) /\ \A d \in Clients : d # c => reset'[d] = reset[d]
    <3>1. reset \in [Clients -> BOOLEAN] /\ eof \in [Clients -> BOOLEAN]
      BY <1>2 DEF TypeOK
    <3>2. reset' \in [Clients -> BOOLEAN]
      BY <1>2, <2>1, <3>1, Zenon
    <3>3. reset'[c] <=> reset[c] \/ eof[c]
      BY <1>2, <2>1, <3>1, Zenon
    <3>4. \A d \in Clients : d # c => reset'[d] = reset[d]
      BY <1>2, <2>1, <3>1
    <3> QED BY <2>2, <3>2, <3>3, <3>4
  <2>9. TypeOK'
    <3>1. inb' \in [Clients -> Seq(Pieces)]
      BY <1>2, <2>1, <2>4, EmptySeq DEF TypeOK
    <3>2. down' \in [Clients -> Seq(Statuses)]
      BY <1>2, <2>1, <2>6, <2>7 DEF TypeOK
    <3> QED BY <1>1, <1>2, <1>8, <2>1, <2>8, <3>1, <3>2 DEF TypeOK, cliVars
  <2>10. \A d \in Clients : ~Reading(d)' /\ (d # c => ~Reading(d))
    BY <1>1 DEF Reading
  <2>11. TodoInv'
    <3>1. \A d \in Clients : d # c => inb'[d] = inb[d]
      BY <1>2, <2>1 DEF TypeOK
    <3> QED BY <1>1, <1>7, <2>1, <2>8, <2>10, <3>1 DEF FramedInv, TodoInv
  <2>12. Stream(c)' = << >>
    <3>1. << >> \o << >> = << >>
      BY ConcatEmptySeq, EmptySeq
    <3> QED BY <2>1, <2>4, <3>1 DEF Stream
  <2>13. OneInv(c)'
    <3>1. StreamInv(c)'
      BY <1>2, <1>3, <2>1, <2>10, <2>12 DEF StreamInv, Alive
    <3>2. cli[c] = "wait" => Answered(c)'
      <4> SUFFICES ASSUME cli[c] = "wait" PROVE Answered(c)'
        OBVIOUS
      <4>1. down[c] = << >> /\ got[c] = 0 /\ ~eof[c]
        BY <1>6 DEF Unanswered
      <4>2. down'[c] = resp
        BY <2>5, <2>6, <4>1, ConcatEmptySeq
      <4>3. req'[c] = req[c] /\ got'[c] = 0 /\ req[c].type = "REGISTER"
        BY <1>1, <1>4, <2>2, <4>1 DEF Processed, cliVars
      <4>4. got'[c] + Len(down'[c]) = RespLen /\ got'[c] < RespLen
        BY <2>5, <4>2, <4>3, FramedLens
      <4>5. \A i \in 1..Len(down'[c]) : down'[c][i] = process_register(req'[c])
        BY <2>5, <4>2, <4>3
      <4> QED BY <2>10, <2>12, <4>3, <4>4, <4>5 DEF Answered, process_register
    <3>3. cli[c] # "wait" => eof[c] /\ down'[c] = << >>
      BY <1>2, <1>6, <2>6 DEF OneInv, ClientInv, TypeOK, Ended
    <3>4. ClientInv(c)'
      BY <1>1, <1>2, <1>6, <2>1, <2>8, <3>2, <3>3 DEF OneInv, ClientInv, cliVars
    <3>5. CloseInv(c)'
      BY <1>1, <1>2, <1>3, <1>6, <2>1 DEF OneInv, CloseInv, Cause, Over, Alive, cliVars
    <3> QED BY <3>1, <3>4, <3>5 DEF OneInv
  <2>14. ASSUME NEW d \in Clients, d # c PROVE OneInv(d)'
    <3>1. OneInv(d) /\ ~Reading(d) /\ ~Reading(d)' /\ ~Over /\ (d \in split => d \in split')
      BY <1>1, <1>8, <2>10, <2>14 DEF FramedInv, OneInv, Over
    <3>2. /\ cli'[d] = cli[d] /\ req'[d] = req[d] /\ got'[d] = got[d] /\ shown'[d] = shown[d]
          /\ up'[d] = up[d] /\ inb'[d] = inb[d] /\ down'[d] = down[d]
          /\ eof'[d] = eof[d] /\ reset'[d] = reset[d] /\ conn'[d] = conn[d]
      BY <1>1, <1>2, <2>1, <2>8, <2>14 DEF TypeOK, cliVars
    <3> QED BY <3>1, <3>2, Untouched
  <2>15. \A d \in Clients : OneInv(d)'
    BY <2>13, <2>14
  <2> QED BY <2>9, <2>11, <2>15 DEF FramedInv, OneInv
<1> QED BY <1>10, <1>11

-----------------------------------------------------------------------------
(* Theorems                                                                *)

\* Every step keeps the invariant.
LEMMA StepFramed == FramedInv /\ [Next]_vars => FramedInv'
<1> SUFFICES ASSUME FramedInv, [Next]_vars PROVE FramedInv'
  OBVIOUS
<1>1. CASE Server
  BY <1>1, LoopStep, AcceptStep, BodyStep, ErrorStep, HeadStep DEF Server
<1>2. CASE signal_handle
  BY <1>2, LoopStep
<1>3. ASSUME NEW c \in Clients, Client(c) PROVE FramedInv'
  <2>1. CASE user_register(c) \/ user_login(c)
    <3>1. \E r \in Requests : Send(c, r)
      BY <2>1 DEF user_register, user_login, Requests
    <3> QED BY <3>1, SendStep
  <2> QED BY <1>3, <2>1, StartStep, ReceiveStep, EndStep DEF Client
<1>4. ASSUME NEW c \in Clients, Deliver(c) PROVE FramedInv'
  BY <1>4, DeliverStep
<1>5. CASE UNCHANGED vars
  <2>1. UNCHANGED <<cliVars, netVars, srvVars, split>>
    BY <1>5 DEF vars
  <2>2. TypeOK'
    BY <2>1 DEF FramedInv, TypeOK, cliVars, netVars, srvVars
  <2>3. (\A c : Reading(c)' <=> Reading(c)) /\ (Over' <=> Over) /\ head' = head
    BY <2>1 DEF Reading, Over, srvVars
  <2>4. TodoInv'
    BY <2>1, <2>3 DEF FramedInv, TodoInv, netVars, srvVars
  <2> QED BY <2>1, <2>2, <2>3, <2>4, QuietStep
<1> QED BY <1>1, <1>2, <1>3, <1>4, <1>5 DEF Next

\* The invariant holds in every state of the framed chat.
LEMMA FramedAlways == Spec => []FramedInv
<1> QED BY InitFramed, StepFramed, PTL DEF Spec

\* However TCP parts the packets, process_user_send_data never reads from the
\* middle of one: the server keeps its place in every stream.
THEOREM FramesSafe == Spec => []FramesAligned
<1>1. FramedInv => FramesAligned
  <2> SUFFICES ASSUME FramedInv, NEW c \in Clients, Alive(c), Stream(c) # << >>
               PROVE  Stream(c) = Drop(Packet(req[c]), IF Reading(c) THEN HeadLen ELSE 0)
    BY DEF FramesAligned, Alive, Stream, Reading
  <2>1. StreamInv(c) /\ req[c] \in Requests \cup {NoRequest}
    BY DEF FramedInv, TypeOK
  <2>2. CASE Reading(c)
    BY <2>1, <2>2 DEF StreamInv
  <2>3. CASE ~Reading(c)
    <3>1. Stream(c) = Packet(req[c]) /\ Packet(req[c]) \in Seq(Pieces)
      BY <2>1, <2>3, PacketFacts DEF StreamInv
    <3>2. Drop(Packet(req[c]), 0) = Packet(req[c])
      BY <3>1, SubSeqFull DEF Drop
    <3> QED BY <2>3, <3>1, <3>2
  <2> QED BY <2>2, <2>3
<1> QED BY <1>1, FramedAlways, PTL

\* A client is ended in the middle of a call only for a login, for a packet that
\* did not arrive in one piece, or with the server.
THEOREM AbortsExplained == Spec => []AbortHasCause
<1>1. FramedInv => AbortHasCause
  BY DEF FramedInv, CloseInv, Cause, Over, AbortHasCause
<1> QED BY <1>1, FramedAlways, PTL

\* A round that begins after SIGINT is one for which epoll_wait was called, or
\* about to be called, before.
StopInv == /\ late \in Nat /\ late <= 1
           /\ ~stop => late = 0
           /\ srv = "epoll" => late = 0

\* After SIGINT the loop of server_run begins at most one more round of events.
THEOREM StopSafe == Spec => []StopsAfterOneBatch
<1>1. Init => StopInv
  BY DEF Init, StopInv
<1>2. StopInv /\ [Next]_vars => StopInv'
  <2> SUFFICES ASSUME StopInv, [Next]_vars PROVE StopInv'
    OBVIOUS
  <2>1. CASE Loop
    BY <2>1 DEF Loop, StopSeen, StopInv
  <2>2. CASE EpollWait
    BY <2>2 DEF EpollWait, StopInv
  <2>3. CASE BatchDone
    BY <2>3 DEF BatchDone, StopInv
  <2>4. CASE accept_new_connection
    BY <2>4 DEF accept_new_connection, Event, StopInv
  <2>5. CASE ReadBody
    BY <2>5 DEF ReadBody, StopInv
  <2>6. ASSUME NEW c \in Clients, CloseOnError(c) \/ ReadHead(c) PROVE StopInv'
    BY <2>6 DEF CloseOnError, ReadHead, Event, StopInv
  <2>7. CASE signal_handle
    BY <2>7 DEF signal_handle, StopInv
  <2>8. ASSUME NEW c \in Clients, Client(c) \/ Deliver(c) PROVE StopInv'
    <3>1. UNCHANGED srvVars
      BY <2>8 DEF Client, client_start, user_register, user_login, Send, Receive, AbortClient, Leave, Deliver
    <3> QED BY <3>1 DEF srvVars, StopInv
  <2>9. CASE UNCHANGED vars
    BY <2>9 DEF vars, srvVars, StopInv
  <2> QED BY <2>1, <2>2, <2>3, <2>4, <2>5, <2>6, <2>7, <2>8, <2>9 DEF Next, Server
<1>3. StopInv => StopsAfterOneBatch
  BY DEF StopInv, StopsAfterOneBatch
<1> QED BY <1>1, <1>2, <1>3, PTL DEF Spec

\* What Rpc sees of a client.
Waiting == [c \in Clients |-> IF cli[c] = "wait" THEN req[c] ELSE NoRequest]

\* No request is the absence of one.
LEMMA NoRequestFacts == NoRequest \notin Requests
BY DEF NoRequest, Requests, Register, Login

\* A step of the framed chat is a step of the calls, or none.
LEMMA StepCalls == FramedInv /\ [Next]_vars => [Abstract!Next]_(Abstract!vars)
<1> SUFFICES ASSUME FramedInv, [Next]_vars PROVE Abstract!Next \/ UNCHANGED Abstract!vars
  BY Zenon
<1>1. TypeOK
  BY DEF FramedInv
<1>2. CASE UNCHANGED cliVars
  BY <1>2 DEF Abstract!vars, cliVars
<1>3. ASSUME NEW c \in Clients, NEW r \in Requests, Send(c, r) PROVE Abstract!Next
  <2>1. cli[c] = "menu" /\ shown[c] # "ended"
    BY <1>3 DEF FramedInv, ClientInv, Send, Ended
  <2>2. Waiting[c] = NoRequest /\ Waiting' = [Waiting EXCEPT ![c] = r]
    BY <1>1, <1>3, <2>1 DEF Waiting, Send, TypeOK
  <2>3. shown' = [shown EXCEPT ![c] = "nothing"]
    BY <1>3 DEF Send
  <2>4. Abstract!Call(c, r)
    BY <2>1, <2>2, <2>3 DEF Abstract!Call, Waiting
  <2> QED BY <2>4 DEF Abstract!Next
<1>4. ASSUME NEW c \in Clients, Receive(c) PROVE Abstract!Next \/ UNCHANGED Abstract!vars
  <2>1. /\ cli[c] = "wait" /\ Answered(c) /\ down[c][1] = process_register(req[c]) /\ req' = req
        /\ \/ UNCHANGED <<cli, shown>>
           \/ /\ cli' = [cli EXCEPT ![c] = "menu"]
              /\ shown' = [shown EXCEPT ![c] = down[c][1]]
    BY <1>4, ReceiveFacts
  <2>2. CASE UNCHANGED <<cli, shown>>
    BY <2>1, <2>2 DEF Abstract!vars
  <2>3. CASE cli' = [cli EXCEPT ![c] = "menu"] /\ shown' = [shown EXCEPT ![c] = down[c][1]]
    <3>1. req[c] \in Requests
      BY <2>1 DEF FramedInv, ClientInv
    <3>2. Waiting[c] # NoRequest /\ Waiting[c] = req[c] /\ Waiting' = [Waiting EXCEPT ![c] = NoRequest]
      BY <1>1, <2>1, <2>3, <3>1, NoRequestFacts DEF Waiting, TypeOK
    <3>3. down[c][1] \in AnswersOf(Waiting[c])
      BY <2>1, <3>2 DEF AnswersOf, Answered, process_register
    <3>4. Abstract!Return(c)
      BY <2>3, <3>2, <3>3 DEF Abstract!Return, Waiting
    <3> QED BY <3>4 DEF Abstract!Next
  <2> QED BY <2>1, <2>2, <2>3
<1>5. ASSUME NEW c \in Clients, NEW x \in Ended, shown[c] # "ended",
             cli' = [cli EXCEPT ![c] = x], shown' = [shown EXCEPT ![c] = "ended"], req' = req
      PROVE  Abstract!Next
  <2>1. Waiting' = [Waiting EXCEPT ![c] = NoRequest]
    BY <1>1, <1>5 DEF Waiting, TypeOK, Ended
  <2>2. Abstract!Fail(c)
    BY <1>5, <2>1 DEF Abstract!Fail, Waiting
  <2> QED BY <2>2 DEF Abstract!Next
<1>6. ASSUME NEW c \in Clients, AbortClient(c) \/ Leave(c) PROVE Abstract!Next
  <2>1. shown[c] # "ended"
    BY <1>6 DEF FramedInv, ClientInv, AbortClient, Leave, Ended
  <2>2. /\ \E x \in Ended : cli' = [cli EXCEPT ![c] = x]
        /\ shown' = [shown EXCEPT ![c] = "ended"] /\ req' = req
    BY <1>6 DEF AbortClient, Leave, CloseClient, Ended
  <2> QED BY <1>5, <2>1, <2>2
<1>7. ASSUME NEW c \in Clients, client_start(c) PROVE Abstract!Next \/ UNCHANGED Abstract!vars
  <2>1. shown[c] # "ended" /\ cli[c] = "off" /\ req' = req
    BY <1>7 DEF FramedInv, ClientInv, client_start, Ended
  <2>2. CASE srv \in {"end", "dead"}
    <3>1. "aborted" \in Ended /\ cli' = [cli EXCEPT ![c] = "aborted"] /\ shown' = [shown EXCEPT ![c] = "ended"]
      BY <1>7, <2>2 DEF client_start, Ended
    <3> QED BY <1>5, <2>1, <3>1
  <2>3. CASE srv \notin {"end", "dead"}
    <3>1. cli' = [cli EXCEPT ![c] = "menu"] /\ shown' = shown
      BY <1>7, <2>3 DEF client_start
    <3>2. Waiting' = Waiting
      BY <1>1, <2>1, <3>1 DEF Waiting, TypeOK
    <3> QED BY <3>1, <3>2 DEF Abstract!vars, Waiting
  <2> QED BY <2>2, <2>3
<1>8. ASSUME NEW c \in Clients, Client(c) PROVE Abstract!Next \/ UNCHANGED Abstract!vars
  <2>1. CASE user_register(c) \/ user_login(c)
    <3>1. \E r \in Requests : Send(c, r)
      BY <2>1 DEF user_register, user_login, Requests
    <3> QED BY <1>3, <3>1
  <2> QED BY <1>4, <1>6, <1>7, <1>8, <2>1 DEF Client
<1>9. Server \/ signal_handle \/ (\E c \in Clients : Deliver(c)) \/ UNCHANGED vars => UNCHANGED cliVars
  BY DEF Server, Loop, EpollWait, BatchDone, accept_new_connection, ReadBody, CloseOnError, ReadHead,
         signal_handle, Deliver, vars
<1> QED BY <1>2, <1>8, <1>9 DEF Next

\* The framed chat takes only steps that its users can understand as calls: each
\* returns once, with the answer to that very call, or ends its client.
THEOREM CallsSafe == Spec => Abstract!Init /\ [][Abstract!Next]_(Abstract!vars)
<1>1. Init => Abstract!Init
  BY DEF Init, Abstract!Init
<1> QED BY <1>1, StepCalls, FramedAlways, PTL DEF Spec
=============================================================================
