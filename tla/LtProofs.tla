------------------------------ MODULE LtProofs ------------------------------
(***************************************************************************)
(* What LtServer promises of its tables, caches and waiting packets,       *)
(* proved for every instance.                                              *)
(***************************************************************************)
EXTENDS LtServer, SequenceTheorems, WellFoundedInduction, TLAPS

-----------------------------------------------------------------------------
(* What reaches a client                                                   *)

\* A set of numbers that is not empty has a least one.
LEMMA Least ==
  ASSUME NEW T \in SUBSET Nat, T # {}
  PROVE  \E n \in T : \A m \in T : n <= m
<1> DEFINE R == OpToRel(<, Nat)
<1>1. IsWellFoundedOn(R, Nat)
  BY NatLessThanWellFounded, Zenon
<1>2. R = {ss \in Nat \X Nat : ss[1] < ss[2]}
  BY DEF OpToRel
<1> HIDE DEF R
<1>3. PICK n \in T : \A m \in T : ~(<<m, n>> \in R)
  BY <1>1, WFMin
<1>4. ASSUME NEW m \in T PROVE n <= m
  <2>1. <<m, n>> \in Nat \X Nat /\ <<m, n>>[1] = m /\ <<m, n>>[2] = n
    OBVIOUS
  <2>2. ~(m < n)
    BY <1>2, <1>3, <2>1
  <2> QED BY <2>2
<1> QED BY <1>4

\* What a client may have of the packets `out' after the first i of them.
IsKept(w, out, s, a, n) ==
  w = [i \in 0..n |-> IF i = 0 THEN << >>
                      ELSE IF Stays(out[i], s, a) THEN Append(w[i - 1], out[i]) ELSE w[i - 1]]

\* The packets can be taken one after the other.
LEMMA KeptExists ==
  ASSUME NEW out, NEW s, NEW a, NEW n \in Nat
  PROVE  \E w : IsKept(w, out, s, a, n)
<1> DEFINE Bad == {m \in Nat : ~\E w : IsKept(w, out, s, a, m)}
<1> SUFFICES Bad = {}
  OBVIOUS
<1> SUFFICES ASSUME Bad # {} PROVE FALSE
  OBVIOUS
<1>0. Bad \in SUBSET Nat
  OBVIOUS
<1>1. PICK m \in Bad : \A k \in Bad : m <= k
  <2> HIDE DEF Bad
  <2> QED BY <1>0, Least
<1>2. CASE m = 0
  <2> DEFINE w == [i \in 0..0 |-> << >>]
  <2>1. IsKept(w, out, s, a, 0)
    BY DEF IsKept
  <2> QED BY <1>2, <2>1
<1>3. CASE m # 0
  <2>1. m - 1 \in Nat /\ m - 1 \notin Bad
    BY <1>1, <1>3
  <2>2. PICK h : IsKept(h, out, s, a, m - 1)
    BY <2>1
  <2> DEFINE w == [i \in 0..m |-> IF i < m THEN h[i] ELSE
                     IF Stays(out[m], s, a) THEN Append(h[m - 1], out[m]) ELSE h[m - 1]]
  <2>7. h = [i \in 0..(m - 1) |-> IF i = 0 THEN << >>
               ELSE IF Stays(out[i], s, a) THEN Append(h[i - 1], out[i]) ELSE h[i - 1]]
    BY <2>2 DEF IsKept
  <2>3. ASSUME NEW i \in 0..(m - 1)
        PROVE  w[i] = IF i = 0 THEN << >>
                      ELSE IF Stays(out[i], s, a) THEN Append(w[i - 1], out[i]) ELSE w[i - 1]
    <3>1. w[i] = h[i] /\ (i # 0 => w[i - 1] = h[i - 1])
      BY <1>3, <2>1
    <3> HIDE DEF w
    <3>2. h[i] = IF i = 0 THEN << >>
                 ELSE IF Stays(out[i], s, a) THEN Append(h[i - 1], out[i]) ELSE h[i - 1]
      BY <2>7
    <3> QED BY <3>1, <3>2
  <2>4. w[m] = IF Stays(out[m], s, a) THEN Append(w[m - 1], out[m]) ELSE w[m - 1]
    BY <1>3, <2>1
  <2>5. w = [i \in 0..m |-> w[i]]
    OBVIOUS
  <2> HIDE DEF w
  <2>6. IsKept(w, out, s, a, m)
    <3>1. ASSUME NEW i \in 0..m
          PROVE  w[i] = IF i = 0 THEN << >>
                        ELSE IF Stays(out[i], s, a) THEN Append(w[i - 1], out[i]) ELSE w[i - 1]
      BY <1>3, <2>1, <2>3, <2>4
    <3> QED BY <2>5, <3>1 DEF IsKept
  <2> QED BY <2>6
<1> QED BY <1>2, <1>3

\* A client gets only packets that were sent, and in the main menu only friend
\* requests.
LEMMA ArrivingType ==
  ASSUME NEW S, NEW out \in Seq(S), NEW s, NEW a
  PROVE  /\ Arriving(out, s, a) \in Seq(S)
         /\ a # 0 => Arriving(out, s, a) \in Seq({o \in S : o.type = 4})
<1> DEFINE n == Len(out)
           h == CHOOSE k : IsKept(k, out, s, a, n)
           W == IF a = 0 THEN S ELSE {o \in S : o.type = 4}
           Bad == {i \in 0..n : h[i] \notin Seq(W)}
<1>0. n \in Nat /\ \A i \in 1..n : out[i] \in S
  BY LenProperties, ElementOfSeq
<1>1. Arriving(out, s, a) = h[n]
  BY Zenon DEF Arriving, IsKept
<1>2. IsKept(h, out, s, a, n)
  BY <1>0, KeptExists, Zenon
<1> HIDE DEF h, n, W
<1>3. ASSUME NEW i \in 0..n
      PROVE  h[i] = IF i = 0 THEN << >>
                    ELSE IF Stays(out[i], s, a) THEN Append(h[i - 1], out[i]) ELSE h[i - 1]
  BY <1>2, Zenon DEF IsKept
<1>4. ASSUME NEW i \in 1..n, h[i - 1] \in Seq(W) PROVE h[i] \in Seq(W)
  <2>1. i \in 0..n /\ i # 0
    BY <1>0
  <2>2. h[i] = IF Stays(out[i], s, a) THEN Append(h[i - 1], out[i]) ELSE h[i - 1]
    BY <1>3, <2>1
  <2>3. Stays(out[i], s, a) => out[i] \in W
    BY <1>0 DEF Stays, W
  <2> QED BY <1>4, <2>2, <2>3, AppendProperties
<1>5. Bad = {}
  <2> SUFFICES ASSUME Bad # {} PROVE FALSE
    OBVIOUS
  <2>0. Bad \in SUBSET Nat
    BY <1>0
  <2>1. PICK m \in Bad : \A k \in Bad : m <= k
    <3> HIDE DEF Bad
    <3> QED BY <2>0, Least
  <2>2. m # 0
    <3>1. 0 \in 0..n
      BY <1>0
    <3>2. h[0] = << >>
      BY <1>3, <3>1, Zenon
    <3> QED BY <3>2, EmptySeq
  <2>3. m \in 1..n /\ m - 1 \in 0..n
    BY <1>0, <2>2
  <2>4. m - 1 \notin Bad
    <3>1. m \in Nat /\ ~(m <= m - 1)
      BY <2>3
    <3> HIDE DEF Bad
    <3> QED BY <2>1, <3>1
  <2> QED BY <1>4, <2>3, <2>4
<1>6. h[n] \in Seq(W)
  BY <1>0, <1>5
<1>7. Seq(W) \subseteq Seq(S)
  BY SeqMonotonic DEF W
<1> QED BY <1>1, <1>6, <1>7 DEF W

-----------------------------------------------------------------------------
(* The inductive invariant                                                 *)

\* a has asked somebody to be a friend.
Asker(a) == a \in Ids /\ \E b \in Ids : <<a, b>> \in asked

\* Packets the server may send, and those a client in the main menu keeps:
\* friend requests come from somebody who asked.
Sound == {o \in OutType : o.type = 4 => Asker(o.from)}
Wanted == {o \in Sound : o.type = 4}

\* Packets that name accounts where the handler of their type needs them, and
\* were made by the users they name: whatever is left in the slot for a replay.
NamesAccount == {0, 1, 3, 4, 5, 6, 7, 8, 9, 10, 11, 12, 13, 15, 17, 20, 21, 41}
NamesOther == {4, 7, 8, 9, 11, 12, 13, 14, 15, 16, 17, 18, 20, 21, 41}

PackInv(p) ==
  /\ p \in PACK
  /\ p.type \in NamesAccount => p.account \in Ids
  /\ p.type \in NamesOther => p.send_account \in Ids
  /\ p.type \in {17, 20, 21} => p.set \in Ids
  /\ p.type = 4 => <<p.account, p.send_account>> \in asked
  /\ p.type = 41 => Asker(p.send_account)
  /\ p.type = 41 /\ p.flag => <<p.account, p.send_account>> \in accepted

\* What waits for an account, and what a client holds.
BoxInv ==
  /\ \A b \in Ids : off[b] \in Seq(Sound)
  /\ \A s \in Fds : /\ inbox[s] \in Seq(Sound)
                    /\ who[s] # 0 => inbox[s] \in Seq(Wanted)

LtInv == TypeOK /\ PackInv(pack) /\ BoxInv

-----------------------------------------------------------------------------
(* Packets and boxes                                                       *)

ConnType == [Fds -> {"free", "open", "closed", "reset", "broken"}]

\* What a box may hold for a client that is logged in with a.
BoxFor(a) == IF a = 0 THEN Seq(Sound) ELSE Seq(Wanted)

\* Who has asked stays one who has asked.
LEMMA SoundGrows ==
  ASSUME asked \subseteq asked'
  PROVE  /\ Sound \subseteq Sound' /\ Wanted \subseteq Wanted'
         /\ Seq(Sound) \subseteq Seq(Sound') /\ Seq(Wanted) \subseteq Seq(Wanted')
         /\ Seq(Wanted') \subseteq Seq(Sound')
<1>1. Sound \subseteq Sound' /\ Wanted \subseteq Wanted' /\ Wanted' \subseteq Sound'
  BY DEF Sound, Wanted, Asker
<1> QED BY <1>1, SeqMonotonic

\* A packet of the server.
LEMMA OutSound ==
  ASSUME NEW x \in Fd0, NEW t \in Nat, NEW a \in Nat, NEW n \in Nat
  PROVE  /\ Out(x, t, a, n) \in OutType
         /\ t # 4 => Out(x, t, a, n) \in Sound'
         /\ Asker(a)' => Out(x, t, a, n) \in Sound'
BY DEF Out, OutType, Sound

\* A sequence with one packet for each number.
LEMMA OutsSound ==
  ASSUME NEW q \in [Ids -> Sound']
  PROVE  q \in Seq(Sound')
BY IdAssumption, SeqDef DEF Ids

\* Descriptors in the table.
LEMMA FindFdType ==
  ASSUME TypeOK, NEW a
  PROVE  MYSQL_find_fd(a) \in Fd0
<1>1. CASE Account(a)
  <2>1. user[a] \in [online : 0..1, sock_fd : Fd0]
    <3>1. user \in Seq([online : 0..1, sock_fd : Fd0]) /\ a \in DOMAIN user
      BY <1>1 DEF TypeOK, Account
    <3>2. a \in 1..Len(user)
      BY <3>1, LenProperties
    <3> QED BY <3>1, <3>2, ElementOfSeq
  <2> QED BY <1>1, <2>1 DEF MYSQL_find_fd
<1>2. CASE ~Account(a)
  BY <1>2 DEF MYSQL_find_fd, Fd0
<1> QED BY <1>1, <1>2

\* Sending keeps what connections and boxes are.
LEMMA SendToBoxes ==
  ASSUME LtInv, asked \subseteq asked', NEW c \in ConnType,
         NEW box, \A t \in Fds : box[t] \in BoxFor(who[t]),
         NEW out \in Seq(Sound'), SendTo(box, c, out)
  PROVE  /\ pc' \in {"run", "down"} /\ conn' \in ConnType /\ who' = who
         /\ inbox' = [t \in Fds |-> inbox'[t]]
         /\ \A t \in Fds : inbox'[t] \in BoxFor(who[t])'
<1>1. pc' \in {"run", "down"} /\ who' = who
  BY DEF SendTo, Transmit
<1>2. conn' \in ConnType
  BY DEF SendTo, Transmit, ConnType
<1>3. inbox' = [t \in Fds |-> IF c[t] = "open" THEN box[t] \o Arriving(out, t, who[t]) ELSE box[t]]
  BY DEF SendTo
<1>4. ASSUME NEW t \in Fds PROVE inbox'[t] \in BoxFor(who[t])'
  <2>1. CASE who[t] = 0
    <3>1. box[t] \in Seq(Sound')
      BY <2>1, SoundGrows DEF BoxFor
    <3>2. Arriving(out, t, who[t]) \in Seq(Sound')
      BY ArrivingType
    <3>3. box[t] \o Arriving(out, t, who[t]) \in Seq(Sound')
      BY <3>1, <3>2, ConcatProperties
    <3>4. inbox'[t] \in Seq(Sound')
      BY <1>3, <3>1, <3>3
    <3> QED BY <1>1, <2>1, <3>4 DEF BoxFor
  <2>2. CASE who[t] # 0
    <3>1. box[t] \in Seq(Wanted')
      BY <2>2, SoundGrows DEF BoxFor
    <3>2. Arriving(out, t, who[t]) \in Seq(Wanted')
      <4>1. Arriving(out, t, who[t]) \in Seq({o \in Sound' : o.type = 4})
        BY <2>2, ArrivingType
      <4>2. Wanted' = {o \in Sound' : o.type = 4}
        BY DEF Wanted
      <4> QED BY <4>1, <4>2
    <3>3. box[t] \o Arriving(out, t, who[t]) \in Seq(Wanted')
      BY <3>1, <3>2, ConcatProperties
    <3>4. inbox'[t] \in Seq(Wanted')
      BY <1>3, <3>1, <3>3
    <3> QED BY <1>1, <2>2, <3>4 DEF BoxFor
  <2> QED BY <2>1, <2>2
<1> QED BY <1>1, <1>2, <1>3, <1>4

\* BoxInv, box by box.
LEMMA BoxesFor ==
  /\ BoxInv <=> /\ \A b \in Ids : off[b] \in Seq(Sound)
                /\ \A s \in Fds : inbox[s] \in BoxFor(who[s])
<1>1. Wanted \subseteq Sound
  BY DEF Wanted
<1>2. Seq(Wanted) \subseteq Seq(Sound)
  BY <1>1, SeqMonotonic
<1> QED BY <1>2 DEF BoxInv, BoxFor

\* deal does what the type of the packet asks for.
LEMMA DealCases ==
  ASSUME NEW c, NEW s, NEW p, deal(c, s, p)
  PROVE  /\ pack' = p
         /\ \/ (p.type = 1 /\ deal_login(c, s, p))         \/ (p.type = 2 /\ deal_regist(c, s, p))
            \/ (p.type = 3 /\ deal_repass(c, s, p))        \/ (p.type = 4 /\ deal_addfriend(c, s, p))
            \/ (p.type = 41 /\ recv_addfr_PACK(c, s, p))   \/ (p.type = 5 /\ deal_list_fri(c, s, p))
            \/ (p.type = 6 /\ deal_online_fri(c, s, p))    \/ (p.type = 7 /\ deal_chat_fri(c, s, p))
            \/ (p.type = 8 /\ deal_store_fri(c, s, p))     \/ (p.type = 9 /\ deal_dele_fri(c, s, p))
            \/ (p.type = 10 /\ deal_creat_group(c, s, p))  \/ (p.type = 11 /\ deal_join_group(c, s, p))
            \/ (p.type = 12 /\ deal_quit_group(c, s, p))   \/ (p.type = 13 /\ deal_dele_group(c, s, p))
            \/ (p.type = 14 /\ deal_group_mes(c, s, p))    \/ (p.type = 15 /\ deal_chat_group(c, s, p))
            \/ (p.type = 16 /\ deal_find_store_g(c, s, p)) \/ (p.type = 17 /\ deal_set_up(c, s, p))
            \/ (p.type = 18 /\ send_file(c, s, p))         \/ (p.type = 20 /\ deal_join_user(c, s, p))
            \/ (p.type = 21 /\ deal_dele_user(c, s, p))    \/ no_case(c, s, p)
BY DEF deal

\* A packet p is dealt with, for the connection s: it is a client's, or what the
\* slot holds after a failed recv.
Dealing(c, s, p) ==
  /\ LtInv /\ s \in Fds /\ c \in ConnType
  /\ asked \subseteq asked' /\ PackInv(p)'
  /\ p.type \in {1, 2, 3} /\ c[s] = "open" => who[s] = 0
  /\ deal(c, s, p)

OffOK == off = [b \in Ids |-> off[b]] /\ \A b \in Ids : off[b] \in Seq(Sound)

\* The list of waiting packets, when it stays as it is or grows by one.
LEMMA OffGrows ==
  ASSUME LtInv, asked \subseteq asked'
  PROVE  /\ off' = off => OffOK'
         /\ \A b, o : o \in Sound' /\ deal_fri_off(b, o) => OffOK'
<1>0. off \in [Ids -> Seq(OutType)] /\ \A b \in Ids : off[b] \in Seq(Sound')
  BY SoundGrows DEF LtInv, TypeOK, BoxInv
<1>1. off' = off => OffOK'
  BY <1>0 DEF OffOK
<1>2. ASSUME NEW b, NEW o, o \in Sound', deal_fri_off(b, o) PROVE OffOK'
  <2>1. off' = [off EXCEPT ![b] = Append(off[b], o)]
    BY <1>2 DEF deal_fri_off
  <2>2. CASE b \in Ids
    <3>1. Append(off[b], o) \in Seq(Sound')
      BY <1>0, <1>2, <2>2, AppendProperties
    <3> QED BY <1>0, <2>1, <2>2, <3>1 DEF OffOK
  <2>3. CASE b \notin Ids
    BY <1>0, <2>1, <2>3 DEF OffOK
  <2> QED BY <2>2, <2>3
<1> QED BY <1>1, <1>2

\* A packet is sent on or kept.
LEMMA SendOrKeepBoxes ==
  ASSUME LtInv, asked \subseteq asked', NEW c, NEW x, NEW b, NEW first \in Seq(Sound'),
         NEW o \in Sound', SendOrKeep(c, x, b, first, o)
  PROVE  OffOK' /\ \E out \in Seq(Sound') : Send(c, out)
<1>1. [o EXCEPT !.to = MYSQL_find_fd(x)] \in Sound'
  <2>1. MYSQL_find_fd(x) \in Fd0
    BY FindFdType DEF LtInv
  <2> QED BY <2>1 DEF Sound, OutType
<1>2. Append(first, [o EXCEPT !.to = MYSQL_find_fd(x)]) \in Seq(Sound')
  BY <1>1, AppendProperties
<1>3. CASE deal_fri_off(b, o) /\ Send(c, first)
  BY <1>3, OffGrows
<1>4. CASE off' = off /\ Send(c, Append(first, [o EXCEPT !.to = MYSQL_find_fd(x)]))
  BY <1>2, <1>4, OffGrows
<1> QED BY <1>3, <1>4 DEF SendOrKeep

\* The fields of a packet are numbers.
LEMMA PackNumbers ==
  ASSUME NEW p, PackInv(p)'
  PROVE  /\ p.type \in Nat /\ p.account \in Nat /\ p.send_account \in Nat /\ p.set \in Nat
         /\ p.flag \in BOOLEAN
BY DEF PackInv, PACK

\* Accounts have numbers.
LEMMA AccountIds ==
  ASSUME TypeOK
  PROVE  /\ Len(user) \in Nat /\ DOMAIN user = 1..Len(user) /\ DOMAIN user \subseteq Ids
         /\ \A a \in DOMAIN user : user[a] \in [online : 0..1, sock_fd : Fd0]
         /\ \A a : Account(a) => a \in Ids
<1>1. user \in Seq([online : 0..1, sock_fd : Fd0]) /\ Len(user) <= MaxId
  BY DEF TypeOK
<1>2. Len(user) \in Nat /\ DOMAIN user = 1..Len(user)
  BY <1>1, LenProperties
<1>3. \A a \in DOMAIN user : user[a] \in [online : 0..1, sock_fd : Fd0]
  BY <1>1, <1>2, ElementOfSeq
<1> QED BY <1>1, <1>2, <1>3, IdAssumption DEF Ids, Account

\* What the handlers but those of the login menu send.
LEMMA DealSends ==
  ASSUME NEW c, NEW s, NEW p, Dealing(c, s, p), p.type \notin {1, 2, 3, 15}
  PROVE  /\ OffOK'
         /\ \E out \in Seq(Sound') : Send(c, out) \/ SendTo(Answered(s), c, out)
<1> DEFINE Sends == \E out \in Seq(Sound') : Send(c, out)
<1>0. /\ LtInv /\ TypeOK /\ s \in Fds /\ asked \subseteq asked' /\ PackInv(p)' /\ s \in Fd0 /\ 0 \in Fd0
  BY DEF Dealing, LtInv, Fd0
<1>1. /\ p.type \in Nat /\ p.account \in Nat /\ p.send_account \in Nat /\ p.set \in Nat
  BY <1>0, PackNumbers
<1>2. ASSUME NEW x \in Fd0, NEW t \in Nat \ {4}, NEW a \in Nat
      PROVE  <<Out(x, t, a, 0)>> \in Seq(Sound')
  <2>1. Out(x, t, a, 0) \in Sound'
    BY OutSound
  <2> QED BY <2>1
<1>3. ASSUME NEW t \in Nat \ {4}, Reply(c, s, t) PROVE Sends
  <2>1. <<Out(s, t, 0, 0)>> \in Seq(Sound')
    BY <1>0, <1>2
  <2> QED BY <1>3, <2>1 DEF Reply
<1>4. ASSUME Send(c, << >>) PROVE Sends
  BY <1>4, EmptySeq
<1>5. off' = off => OffOK'
  BY <1>0, OffGrows
<1>6. ASSUME NEW L, Listing(c, s, L) PROVE Sends
  <2> DEFINE q == [i \in Ids |-> Out(IF i \in L THEN s ELSE 0, 5, 0, 0)]
  <2>1. \A x \in Fd0 : Out(x, 5, 0, 0) \in Sound'
    BY OutSound
  <2>2. q \in [Ids -> Sound']
    BY <1>0, <2>1
  <2>3. Send(c, q)
    BY <1>6 DEF Listing
  <2> HIDE DEF q
  <2>4. q \in Seq(Sound')
    BY <2>2, OutsSound
  <2> QED BY <2>3, <2>4
<1>7. ASSUME NEW x, NEW b, NEW first \in Seq(Sound'), NEW o \in Sound', SendOrKeep(c, x, b, first, o)
      PROVE  OffOK' /\ Sends
  BY <1>0, <1>7, SendOrKeepBoxes
<1>10. CASE p.type = 4 /\ deal_addfriend(c, s, p)
  <2>1. CASE Reply(c, s, 41) /\ off' = off
    BY <1>3, <1>5, <2>1
  <2>2. CASE SendOrKeep(c, p.send_account, p.send_account, << >>, Out(0, 4, p.account, 0))
    <3>1. Asker(p.account)'
      BY <1>0, <1>10 DEF PackInv, Asker, NamesAccount, NamesOther
    <3>2. Out(0, 4, p.account, 0) \in Sound'
      BY <1>0, <1>1, <3>1, OutSound
    <3> QED BY <1>7, <2>2, <3>2, EmptySeq
  <2> QED BY <1>10, <2>1, <2>2 DEF deal_addfriend
<1>11. CASE p.type = 41 /\ recv_addfr_PACK(c, s, p)
  <2>1. MYSQL_find_fd(p.send_account) \in Fd0
    BY <1>0, FindFdType
  <2>2. <<Out(MYSQL_find_fd(p.send_account), 41, p.account, 0)>> \in Seq(Sound')
    BY <1>1, <1>2, <2>1
  <2> QED BY <1>5, <1>11, <2>2 DEF recv_addfr_PACK
<1>12. CASE deal_list_fri(c, s, p) \/ deal_online_fri(c, s, p)
  BY <1>5, <1>6, <1>12 DEF deal_list_fri, deal_online_fri
<1>13. CASE deal_chat_fri(c, s, p)
  <2> DEFINE n == IF Account(p.send_account) THEN nsent[p.send_account] + 1 ELSE 0
  <2>1. CASE Reply(c, s, 7) /\ off' = off
    BY <1>3, <1>5, <2>1
  <2>2. CASE SendOrKeep(c, p.send_account, p.send_account, << >>, Out(0, 7, p.account, n))
    <3>1. n \in Nat
      <4>1. Account(p.send_account) => p.send_account \in Ids
        BY <1>0, AccountIds
      <4> QED BY <1>0, <4>1 DEF TypeOK
    <3> HIDE DEF n
    <3>2. Out(0, 7, p.account, n) \in Sound'
      BY <1>0, <1>1, <3>1, OutSound
    <3> QED BY <1>7, <2>2, <3>2, EmptySeq
  <2> QED BY <1>13, <2>1, <2>2 DEF deal_chat_fri
<1>14. CASE deal_store_fri(c, s, p) \/ deal_dele_fri(c, s, p)
  <2>1. off' = off /\ (Reply(c, s, 8) \/ Send(c, << >>))
    BY <1>14 DEF deal_store_fri, deal_dele_fri
  <2>2. OffOK' /\ Sends
    BY <1>3, <1>4, <1>5, <2>1
  <2> QED BY <2>2
<1>15. ASSUME NEW t \in {10, 11, 12, 13, 14, 16, 17}, Reply(c, s, t), off' = off
       PROVE  OffOK' /\ Sends
  BY <1>3, <1>5, <1>15
<1>16. CASE \/ deal_creat_group(c, s, p) \/ deal_join_group(c, s, p) \/ deal_quit_group(c, s, p)
            \/ deal_dele_group(c, s, p)
  <2>1. /\ off' = off
        /\ Reply(c, s, 10) \/ Reply(c, s, 11) \/ Reply(c, s, 12) \/ Reply(c, s, 13)
    <3>1. CASE deal_creat_group(c, s, p) \/ deal_dele_group(c, s, p)
      BY <3>1 DEF deal_creat_group, deal_dele_group
    <3>2. CASE deal_join_group(c, s, p) \/ deal_quit_group(c, s, p)
      BY <3>2 DEF deal_join_group, deal_quit_group
    <3> QED BY <1>16, <3>1, <3>2
  <2> QED BY <1>15, <2>1
<1>17. CASE deal_group_mes(c, s, p) \/ deal_find_store_g(c, s, p) \/ deal_set_up(c, s, p)
  BY <1>15, <1>17, Zenon DEF deal_group_mes, deal_find_store_g, deal_set_up
<1>18. CASE send_file(c, s, p)
  <2>1. f' \in Fd0
    BY <1>0, <1>18, FindFdType DEF send_file, TypeOK
  <2>2. <<Out(f', 18, 0, 0)>> \in Seq(Sound')
    BY <1>2, <2>1
  <2> QED BY <1>5, <1>18, <2>2 DEF send_file
<1>19. CASE deal_join_user(c, s, p) \/ deal_dele_user(c, s, p)
  <2>1. CASE (Reply(c, s, 20) \/ Reply(c, s, 21)) /\ off' = off
    BY <1>3, <1>5, <2>1
  <2>2. CASE \E t \in {20, 21} : SendOrKeep(c, p.send_account, p.set, <<Out(s, t, 0, 0)>>, Out(0, t, p.account, 0))
    <3>1. PICK t \in {20, 21} : SendOrKeep(c, p.send_account, p.set, <<Out(s, t, 0, 0)>>, Out(0, t, p.account, 0))
      BY <2>2
    <3>2. <<Out(s, t, 0, 0)>> \in Seq(Sound') /\ Out(0, t, p.account, 0) \in Sound'
      BY <1>0, <1>1, <1>2, OutSound
    <3> QED BY <1>7, <3>1, <3>2
  <2>3. CASE deal_join_user(c, s, p)
    BY <2>1, <2>2, <2>3 DEF deal_join_user
  <2>4. CASE deal_dele_user(c, s, p)
    BY <2>1, <2>2, <2>4 DEF deal_dele_user
  <2> QED BY <1>19, <2>3, <2>4
<1>20. CASE no_case(c, s, p)
  BY <1>4, <1>5, <1>20 DEF no_case
<1>21. deal(c, s, p)
  BY DEF Dealing
<1> QED BY <1>10, <1>11, <1>12, <1>13, <1>14, <1>16, <1>17, <1>18, <1>19, <1>20, <1>21, DealCases

CacheType == [group_account : BOOLEAN, use_account : SUBSET Ids,
              use_online : [Ids -> BOOLEAN], use_fd : [Ids -> Fd0]]

\* What a sender's cache holds after its members were read.
LEMMA LoadedType ==
  ASSUME TypeOK, NEW a \in Ids, NEW gr, NEW on \in BOOLEAN, NEW fd \in Fd0
  PROVE  Loaded(a, gr, on, fd) \in CacheType
<1> DEFINE old == g[a]
           M == MYSQL_group_mes(gr)
           uo == [m \in Ids |-> IF m \notin M THEN old.use_online[m]
                                ELSE IF Account(m) THEN Account(m) /\ user[m].online = 1 ELSE on]
           uf == [m \in Ids |-> IF m \notin M THEN old.use_fd[m]
                                ELSE IF Account(m) THEN MYSQL_find_fd(m) ELSE fd]
<1>1. old \in CacheType
  BY DEF TypeOK, CacheType
<1>2. M \subseteq Ids
  BY DEF MYSQL_group_mes
<1>3. Loaded(a, gr, on, fd) = [group_account |-> TRUE, use_account |-> old.use_account \cup M,
                               use_online |-> uo, use_fd |-> uf]
  BY DEF Loaded
<1> HIDE DEF M, old
<1>4. uo \in [Ids -> BOOLEAN]
  BY <1>1 DEF CacheType
<1>5. uf \in [Ids -> Fd0]
  BY <1>1, FindFdType DEF CacheType
<1>6. old.use_account \cup M \in SUBSET Ids
  BY <1>1, <1>2 DEF CacheType
<1> HIDE DEF uo, uf
<1> QED BY <1>3, <1>4, <1>5, <1>6 DEF CacheType

\* A message to a group keeps the caches and what waits.
LEMMA GroupChatBoxes ==
  ASSUME NEW c, NEW s, NEW p, Dealing(c, s, p), p.type = 15, deal_chat_group(c, s, p)
  PROVE  /\ g' \in [Ids -> CacheType]
         /\ OffOK'
         /\ \E out \in Seq(Sound') : Send(c, out)
<1> DEFINE a == p.account
           gr == p.send_account
<1>0. /\ LtInv /\ TypeOK /\ s \in Fds /\ asked \subseteq asked' /\ PackInv(p)' /\ s \in Fd0 /\ 0 \in Fd0
  BY DEF Dealing, LtInv, Fd0
<1>1. a \in Ids /\ gr \in Nat /\ g \in [Ids -> CacheType]
  BY <1>0, PackNumbers DEF PackInv, NamesAccount, TypeOK, CacheType
<1>2. off' = off => OffOK'
  BY <1>0, OffGrows
<1>3. ASSUME Reply(c, s, 15) PROVE \E out \in Seq(Sound') : Send(c, out)
  <2>1. <<Out(s, 15, 0, 0)>> \in Seq(Sound')
    BY <1>0, OutSound
  <2> QED BY <1>3, <2>1 DEF Reply
<1>4. CASE g' = [g EXCEPT ![a].group_account = TRUE] /\ Reply(c, s, 15) /\ off' = off
  <2>1. g' \in [Ids -> CacheType]
    <3>1. g[a] \in CacheType
      BY <1>1
    <3>2. [g[a] EXCEPT !.group_account = TRUE] \in CacheType
      BY <3>1 DEF CacheType
    <3>3. g' = [g EXCEPT ![a] = [g[a] EXCEPT !.group_account = TRUE]]
      BY <1>4
    <3> DEFINE k == [g[a] EXCEPT !.group_account = TRUE]
    <3> HIDE DEF k
    <3>4. g' = [g EXCEPT ![a] = k] /\ k \in CacheType
      BY <3>2, <3>3 DEF k
    <3> QED BY <1>1, <3>4
  <2> QED BY <1>2, <1>3, <1>4, <2>1
<1>5. CASE \E on \in BOOLEAN, fd \in Fd0 :
             g' = [g EXCEPT ![a] = IF ~g[a].group_account THEN Loaded(a, gr, on, fd) ELSE @]
  <2>1. g' \in [Ids -> CacheType]
    <3>1. PICK on \in BOOLEAN, fd \in Fd0 :
                 g' = [g EXCEPT ![a] = IF ~g[a].group_account THEN Loaded(a, gr, on, fd) ELSE @]
      BY <1>5
    <3>2. Loaded(a, gr, on, fd) \in CacheType
      BY <1>0, <1>1, LoadedType
    <3> QED BY <1>1, <3>1, <3>2
  <2> DEFINE k == g'[a]
             To(m) == m \in k.use_account /\ k.use_fd[m] # s
             out == [m \in Ids |-> Out(IF To(m) /\ k.use_online[m] THEN k.use_fd[m] ELSE 0, 15, gr, 0)]
             now == [m \in Ids |-> IF To(m) /\ ~k.use_online[m] THEN Append(off[m], Out(0, 15, gr, 0))
                                                                ELSE off[m]]
  <2>2. k \in CacheType
    BY <1>1, <2>1
  <2>3. \A m \in Ids : k.use_fd[m] \in Fd0
    BY <2>2 DEF CacheType
  <2>4. \A x \in Fd0 : Out(x, 15, gr, 0) \in Sound'
    BY <1>1, OutSound
  <2> HIDE DEF k
  <2>5. out \in Seq(Sound')
    <3>1. out \in [Ids -> Sound']
      BY <1>0, <2>3, <2>4
    <3> HIDE DEF out
    <3> QED BY <3>1, OutsSound
  <2>6. ASSUME off' = now PROVE OffOK'
    <3>1. \A m \in Ids : off[m] \in Seq(Sound') /\ Append(off[m], Out(0, 15, gr, 0)) \in Seq(Sound')
      <4>1. \A m \in Ids : off[m] \in Seq(Sound')
        BY <1>0, SoundGrows DEF LtInv, BoxInv
      <4>2. Out(0, 15, gr, 0) \in Sound'
        BY <1>0, <2>4
      <4> QED BY <4>1, <4>2, AppendProperties
    <3>2. \A m \in Ids : now[m] \in Seq(Sound')
      BY <3>1
    <3>3. now = [m \in Ids |-> now[m]]
      OBVIOUS
    <3> HIDE DEF now
    <3> QED BY <2>6, <3>2, <3>3 DEF OffOK
  <2> HIDE DEF out, now
  <2>7. \/ Send(c, << >>) /\ off' = off
        \/ Send(c, out) /\ off' = now
        \/ Reply(c, s, 15) /\ off' = off
    <3> DEFINE first == ~g[a].group_account
               name == IF group_send_account # gr THEN MYSQL_find_group(gr) ELSE group_send_name
    <3>1. CASE first /\ ~MYSQL_find_group_member(a, gr)
      BY <3>1 DEF deal_chat_group
    <3>2. CASE ~(first /\ ~MYSQL_find_group_member(a, gr)) /\ p.flag
      BY <3>2, Zenon DEF deal_chat_group
    <3>3. CASE ~(first /\ ~MYSQL_find_group_member(a, gr)) /\ ~p.flag /\ name
      BY <3>3, Zenon DEF deal_chat_group, k, out, now
    <3>4. CASE ~(first /\ ~MYSQL_find_group_member(a, gr)) /\ ~p.flag /\ ~name
      BY <3>4, Zenon DEF deal_chat_group
    <3> QED BY <3>1, <3>2, <3>3, <3>4
  <2> QED BY <1>2, <1>3, <2>1, <2>5, <2>6, <2>7, EmptySeq
<1>6. CASE ~g[a].group_account /\ ~MYSQL_find_group_member(a, gr)
  BY <1>4, <1>6 DEF deal_chat_group
<1>7. CASE ~(~g[a].group_account /\ ~MYSQL_find_group_member(a, gr))
  BY <1>5, <1>7, Zenon DEF deal_chat_group
<1> QED BY <1>6, <1>7

\* Connections, boxes and what waits, as they should be.
NetOK == /\ pc \in {"run", "down"} /\ conn \in ConnType /\ who \in [Fds -> 0..MaxId]
         /\ inbox = [t \in Fds |-> inbox[t]] /\ \A t \in Fds : inbox[t] \in BoxFor(who[t])
         /\ OffOK

\* What NetOK has of the invariant.
LEMMA NetTypes == NetOK => /\ BoxInv /\ off \in [Ids -> Seq(OutType)]
                           /\ inbox \in [Fds -> Seq(OutType)]
<1> SUFFICES ASSUME NetOK PROVE /\ BoxInv /\ off \in [Ids -> Seq(OutType)]
                                /\ inbox \in [Fds -> Seq(OutType)]
  OBVIOUS
<1>1. BoxInv
  BY BoxesFor DEF NetOK, OffOK
<1>2. Sound \subseteq OutType
  BY DEF Sound
<1>3. Seq(Sound) \subseteq Seq(OutType)
  BY <1>2, SeqMonotonic
<1>4. \A b \in Ids : off[b] \in Seq(OutType)
  BY <1>1, <1>3 DEF BoxInv
<1>5. \A t \in Fds : inbox[t] \in Seq(OutType)
  BY <1>1, <1>3 DEF BoxInv
<1>6. off \in [Ids -> Seq(OutType)]
  BY <1>4 DEF NetOK, OffOK
<1>7. inbox \in [Fds -> Seq(OutType)]
  BY <1>5 DEF NetOK
<1> QED BY <1>1, <1>6, <1>7

\* A login sends the answer and all that waits; the client takes the first
\* packet of its socket for the answer.
LEMMA LoginBoxes ==
  ASSUME NEW c, NEW s, NEW p, Dealing(c, s, p), p.type = 1, deal_login(c, s, p)
  PROVE  NetOK'
<1> DEFINE a == p.account
           ok == p.flag /\ Account(a)
           wait == [i \in DOMAIN off[a] |-> [off[a][i] EXCEPT !.to = s]]
           out == <<Out(s, IF ok THEN 0 ELSE 98, 0, 0)>> \o wait
           q == inbox[s] \o out
<1>0. /\ LtInv /\ TypeOK /\ s \in Fds /\ asked \subseteq asked' /\ PackInv(p)' /\ s \in Fd0
      /\ c \in ConnType /\ (c[s] = "open" => who[s] = 0) /\ a \in Ids
  BY DEF Dealing, LtInv, Fd0, PackInv, NamesAccount
<1>1. /\ \A b \in Ids : off[b] \in Seq(Sound')
      /\ off \in [Ids -> Seq(OutType)] /\ who \in [Fds -> 0..MaxId]
      /\ \A t \in Fds : inbox[t] \in Seq(Sound') /\ (who[t] # 0 => inbox[t] \in Seq(Wanted'))
      /\ inbox \in [Fds -> Seq(OutType)]
  BY <1>0, SoundGrows DEF LtInv, BoxInv, TypeOK
<1>2. wait \in Seq(Sound')
  <2> DEFINE o == off[a]
  <2>1. o \in Seq(Sound') /\ Len(o) \in Nat /\ DOMAIN o = 1..Len(o)
    BY <1>0, <1>1, LenProperties
  <2>2. ASSUME NEW i \in DOMAIN o PROVE [o[i] EXCEPT !.to = s] \in Sound'
    <3>1. o[i] \in Sound'
      BY <2>1, ElementOfSeq
    <3> QED BY <1>0, <3>1 DEF Sound, OutType
  <2> HIDE DEF o
  <2>3. [i \in DOMAIN o |-> [o[i] EXCEPT !.to = s]] \in [1..Len(o) -> Sound']
    BY <2>1, <2>2
  <2>4. [i \in DOMAIN o |-> [o[i] EXCEPT !.to = s]] \in Seq(Sound')
    BY <2>1, <2>3, SeqDef
  <2> QED BY <2>4 DEF o
<1>3. <<Out(s, IF ok THEN 0 ELSE 98, 0, 0)>> \in Seq(Sound')
  <2>1. \A t \in {0, 98} : Out(s, t, 0, 0) \in Sound'
    BY <1>0, OutSound
  <2> QED BY <2>1
<1> HIDE DEF wait
<1>4. out \in Seq(Sound') /\ Len(out) > 0
  BY <1>2, <1>3, ConcatProperties, LenProperties
<1> HIDE DEF out
<1>5. q \in Seq(Sound') /\ q # << >>
  <2>1. q \in Seq(Sound') /\ Len(q) = Len(inbox[s]) + Len(out)
    BY <1>0, <1>1, <1>4, ConcatProperties
  <2>2. Len(inbox[s]) \in Nat /\ Len(out) \in Nat
    BY <1>0, <1>1, <1>4, LenProperties
  <2> QED BY <1>4, <2>1, <2>2, EmptySeq
<1>6. /\ Transmit(c, out) /\ LoginAnswer(c, s, a, q) /\ off' = pro_off(a)
  BY DEF deal_login, out, wait
<1> HIDE DEF q
<1>7. pc' \in {"run", "down"} /\ conn' \in ConnType
  BY <1>0, <1>1, <1>6 DEF Transmit, ConnType
<1>8. OffOK'
  BY <1>0, <1>1, <1>6, EmptySeq DEF pro_off, OffOK
<1>9. who' \in [Fds -> 0..MaxId] /\ \A t \in Fds \ {s} : who'[t] = who[t]
  BY <1>0, <1>1, <1>6, IdAssumption DEF LoginAnswer, Ids
<1>10. CASE c[s] = "open"
  <2>1. inbox' = [inbox EXCEPT ![s] = Arriving(Tail(q), s, who'[s])]
    BY <1>6, <1>10 DEF LoginAnswer
  <2>2. Tail(q) \in Seq(Sound')
    BY <1>5, HeadTailProperties
  <2>3. /\ Arriving(Tail(q), s, who'[s]) \in Seq(Sound')
        /\ who'[s] # 0 => Arriving(Tail(q), s, who'[s]) \in Seq({o \in Sound' : o.type = 4})
    BY <2>2, ArrivingType
  <2>4. Arriving(Tail(q), s, who'[s]) \in BoxFor(who[s])'
    BY <2>3 DEF BoxFor, Wanted
  <2>5. ASSUME NEW t \in Fds PROVE inbox'[t] \in BoxFor(who[t])'
    BY <1>0, <1>1, <1>9, <2>1, <2>4 DEF BoxFor
  <2>6. inbox' = [t \in Fds |-> inbox'[t]]
    BY <1>1, <2>1
  <2> QED BY <1>7, <1>8, <1>9, <2>5, <2>6 DEF NetOK
<1>11. CASE c[s] # "open"
  <2>1. inbox' = inbox /\ who' = who
    BY <1>6, <1>11 DEF LoginAnswer
  <2> QED BY <1>1, <1>7, <1>8, <2>1 DEF NetOK, BoxFor
<1> QED BY <1>10, <1>11

\* The other two of the login menu.
LEMMA MenuBoxes ==
  ASSUME NEW c, NEW s, NEW p, Dealing(c, s, p), p.type \in {2, 3}, MenuAnswer(c, s)
  PROVE  NetOK'
<1>0. /\ LtInv /\ TypeOK /\ s \in Fds /\ asked \subseteq asked' /\ s \in Fd0
      /\ c \in ConnType /\ (c[s] = "open" => who[s] = 0)
  BY DEF Dealing, LtInv, Fd0
<1>1. /\ who \in [Fds -> 0..MaxId]
      /\ \A t \in Fds : inbox[t] \in Seq(Sound') /\ (who[t] # 0 => inbox[t] \in Seq(Wanted'))
      /\ inbox \in [Fds -> Seq(OutType)]
  BY <1>0, SoundGrows DEF LtInv, BoxInv, TypeOK
<1>2. /\ pc' \in {"run", "down"} /\ conn' \in ConnType /\ UNCHANGED <<who, off>>
  BY <1>0 DEF MenuAnswer, Transmit, ConnType
<1>3. OffOK'
  BY <1>0, <1>2, OffGrows
<1>4. Tail(Append(inbox[s], Out(s, 0, 0, 0))) \in Seq(Sound')
  <2>1. Out(s, 0, 0, 0) \in Sound'
    BY <1>0, OutSound
  <2>2. /\ Append(inbox[s], Out(s, 0, 0, 0)) \in Seq(Sound')
        /\ Append(inbox[s], Out(s, 0, 0, 0)) # << >>
    BY <1>0, <1>1, <2>1, AppendProperties
  <2> QED BY <2>2, HeadTailProperties
<1>5. inbox' = inbox \/ (c[s] = "open" /\ inbox' = [inbox EXCEPT ![s] = Tail(Append(inbox[s], Out(s, 0, 0, 0)))])
  BY DEF MenuAnswer
<1>6. ASSUME NEW t \in Fds PROVE inbox'[t] \in BoxFor(who[t])'
  BY <1>0, <1>1, <1>2, <1>4, <1>5 DEF BoxFor
<1>7. inbox' = [t \in Fds |-> inbox'[t]]
  BY <1>1, <1>5
<1> QED BY <1>1, <1>2, <1>3, <1>6, <1>7 DEF NetOK

\* Whatever is dealt with keeps connections, boxes and what waits.
LEMMA DealBoxes ==
  ASSUME NEW c, NEW s, NEW p, Dealing(c, s, p)
  PROVE  NetOK'
<1>0. /\ LtInv /\ TypeOK /\ s \in Fds /\ asked \subseteq asked' /\ c \in ConnType /\ deal(c, s, p)
  BY DEF Dealing, LtInv
<1>1. CASE p.type = 1
  <2>1. deal_login(c, s, p)
    BY <1>0, <1>1 DEF deal
  <2> QED BY <1>1, <2>1, LoginBoxes
<1>2. CASE p.type \in {2, 3}
  <2>1. MenuAnswer(c, s)
    <3>1. CASE p.type = 2
      BY <1>0, <3>1 DEF deal, deal_regist
    <3>2. CASE p.type = 3
      BY <1>0, <3>2 DEF deal, deal_repass
    <3> QED BY <1>2, <3>1, <3>2
  <2> QED BY <1>2, <2>1, MenuBoxes
<1>3. CASE p.type \notin {1, 2, 3}
  <2>1. /\ OffOK'
        /\ \E out \in Seq(Sound') : Send(c, out) \/ SendTo(Answered(s), c, out)
    <3>1. CASE p.type = 15
      <4>1. deal_chat_group(c, s, p)
        BY <1>0, <3>1 DEF deal
      <4> QED BY <3>1, <4>1, GroupChatBoxes
    <3>2. CASE p.type # 15
      BY <1>3, <3>2, DealSends
    <3> QED BY <3>1, <3>2
  <2>2. \A t \in Fds : inbox[t] \in BoxFor(who[t])
    BY <1>0, BoxesFor DEF LtInv
  <2>3. \A t \in Fds : Answered(s)[t] \in BoxFor(who[t])
    <3>1. inbox \in [Fds -> Seq(OutType)]
      BY <1>0 DEF TypeOK
    <3>2. ASSUME NEW W, inbox[s] \in Seq(W), inbox[s] # << >> PROVE Tail(inbox[s]) \in Seq(W)
      BY <3>2, HeadTailProperties
    <3>3. Answered(s)[s] \in BoxFor(who[s])
      BY <1>0, <2>2, <3>1, <3>2 DEF Answered, BoxFor
    <3> QED BY <1>0, <2>2, <3>1, <3>3 DEF Answered
  <2>4. PICK out \in Seq(Sound'), box \in {inbox, Answered(s)} : SendTo(box, c, out)
    BY <2>1 DEF Send
  <2>5. \A t \in Fds : box[t] \in BoxFor(who[t])
    BY <2>2, <2>3
  <2>6. /\ pc' \in {"run", "down"} /\ conn' \in ConnType /\ who' = who
        /\ inbox' = [t \in Fds |-> inbox'[t]]
        /\ \A t \in Fds : inbox'[t] \in BoxFor(who[t])'
    BY <1>0, <2>4, <2>5, SendToBoxes
  <2>7. who \in [Fds -> 0..MaxId]
    BY <1>0 DEF TypeOK
  <2> QED BY <2>1, <2>6, <2>7 DEF NetOK
<1> QED BY <1>1, <1>2, <1>3

-----------------------------------------------------------------------------
(* Tables and caches                                                       *)

\* What a packet leaves alone, by its type.
Frame(t) == /\ t \notin {1, 2} => user' = user
            /\ t \notin {9, 41} => friends' = friends
            /\ t \notin {10, 11, 12, 13, 17, 20, 21} => UNCHANGED <<groups, g_meber>>
            /\ t \notin {1, 15} => g' = g
            /\ t # 15 => UNCHANGED nameVars
            /\ t # 18 => UNCHANGED fileVars
            /\ t \notin {1, 7} => UNCHANGED chatVars
            /\ t \notin {1, 4, 7, 15, 20, 21} => off' = off
            /\ mysql' \in BOOLEAN

LEMMA DealFrame ==
  ASSUME NEW c, NEW s, NEW p, deal(c, s, p)
  PROVE  Frame(p.type)
<1> USE DEF tables, Frame, Closed, GroupFrame
<1>11. CASE p.type = 1 /\ deal_login(c, s, p)
  BY <1>11 DEF deal_login
<1>12. CASE p.type = 2 /\ deal_regist(c, s, p)
  BY <1>12 DEF deal_regist, MenuAnswer
<1>13. CASE p.type = 3 /\ deal_repass(c, s, p)
  BY <1>13 DEF deal_repass, MenuAnswer
<1>14. CASE p.type = 4 /\ deal_addfriend(c, s, p)
  BY <1>14 DEF deal_addfriend
<1>15. CASE p.type = 41 /\ recv_addfr_PACK(c, s, p)
  BY <1>15 DEF recv_addfr_PACK
<1>16. CASE p.type = 5 /\ deal_list_fri(c, s, p)
  BY <1>16 DEF deal_list_fri
<1>17. CASE p.type = 6 /\ deal_online_fri(c, s, p)
  BY <1>17 DEF deal_online_fri
<1>18. CASE p.type = 7 /\ deal_chat_fri(c, s, p)
  BY <1>18 DEF deal_chat_fri
<1>19. CASE p.type = 8 /\ deal_store_fri(c, s, p)
  BY <1>19 DEF deal_store_fri
<1>20. CASE p.type = 9 /\ deal_dele_fri(c, s, p)
  BY <1>20 DEF deal_dele_fri
<1>21. CASE p.type = 10 /\ deal_creat_group(c, s, p)
  BY <1>21 DEF deal_creat_group
<1>22. CASE p.type = 11 /\ deal_join_group(c, s, p)
  BY <1>22 DEF deal_join_group
<1>23. CASE p.type = 12 /\ deal_quit_group(c, s, p)
  BY <1>23 DEF deal_quit_group
<1>24. CASE p.type = 13 /\ deal_dele_group(c, s, p)
  BY <1>24 DEF deal_dele_group
<1>25. CASE p.type = 14 /\ deal_group_mes(c, s, p)
  BY <1>25 DEF deal_group_mes
<1>26. CASE p.type = 15 /\ deal_chat_group(c, s, p)
  <2>1. mysql' \in BOOLEAN
    BY <1>26 DEF deal_chat_group
  <2> QED BY <1>26, <2>1 DEF deal_chat_group
<1>27. CASE p.type = 16 /\ deal_find_store_g(c, s, p)
  BY <1>27 DEF deal_find_store_g
<1>28. CASE p.type = 17 /\ deal_set_up(c, s, p)
  BY <1>28 DEF deal_set_up
<1>29. CASE p.type = 18 /\ send_file(c, s, p)
  BY <1>29 DEF send_file
<1>30. CASE p.type = 20 /\ deal_join_user(c, s, p)
  BY <1>30 DEF deal_join_user
<1>31. CASE p.type = 21 /\ deal_dele_user(c, s, p)
  BY <1>31 DEF deal_dele_user
<1>32. CASE no_case(c, s, p)
  BY <1>32 DEF no_case
<1> HIDE DEF Frame
<1> QED BY <1>11, <1>12, <1>13, <1>14, <1>15, <1>16, <1>17, <1>18, <1>19, <1>20, <1>21, <1>22,
           <1>23, <1>24, <1>25, <1>26, <1>27, <1>28, <1>29, <1>30, <1>31, <1>32, DealCases

\* The types of the tables, the caches and the counters.
UserType == user \in Seq([online : 0..1, sock_fd : Fd0]) /\ Len(user) <= MaxId
GroupType == /\ groups \in Seq(0..MaxId) /\ Len(groups) <= MaxId
             /\ g_meber \subseteq Ids \X Ids \X (0..2)
NameType == group_send_account \in Nat /\ group_send_name \in BOOLEAN
FileType == file_send_account \in Nat /\ f \in Fd0
CountType == nsent \in [Ids -> Nat] /\ nhanded \in [Ids -> Nat]

\* A login or a registration keeps the accounts.
LEMMA UserStep ==
  ASSUME NEW c, NEW s, NEW p, Dealing(c, s, p)
  PROVE  UserType'
<1> DEFINE R == [online : 0..1, sock_fd : Fd0]
<1>0. /\ TypeOK /\ s \in Fds /\ s \in Fd0 /\ 0 \in Fd0 /\ deal(c, s, p) /\ Frame(p.type)
      /\ user \in Seq(R) /\ Len(user) <= MaxId
  BY DealFrame DEF Dealing, LtInv, Fd0, TypeOK
<1>1. CASE user' = user
  BY <1>0, <1>1 DEF UserType
<1>2. CASE p.type = 1 /\ user' # user
  <2>1. /\ Account(p.account)
        /\ user' = [user EXCEPT ![p.account] = [online |-> 1, sock_fd |-> s]]
    BY <1>0, <1>2 DEF deal, deal_login, MYSQL_login, Written
  <2>2. [online |-> 1, sock_fd |-> s] \in R
    BY <1>0
  <2> HIDE DEF R
  <2>3. user' \in Seq(R) /\ Len(user') = Len(user)
    <3>1. p.account \in 1..Len(user)
      BY <1>0, <2>1, LenProperties DEF Account
    <3> QED BY <1>0, <2>1, <2>2, <3>1, ExceptSeq
  <2> QED BY <1>0, <2>3 DEF UserType, R
<1>3. CASE p.type = 2 /\ user' # user
  <2>1. Len(user) < MaxId /\ user' = Append(user, [online |-> 0, sock_fd |-> 0])
    BY <1>0, <1>3 DEF deal, deal_regist, MYSQL_regist, Written
  <2>2. [online |-> 0, sock_fd |-> 0] \in R
    BY <1>0
  <2> HIDE DEF R
  <2>3. user' \in Seq(R) /\ Len(user') = Len(user) + 1 /\ Len(user) \in Nat
    BY <1>0, <2>1, <2>2, AppendProperties, LenProperties
  <2> QED BY <2>1, <2>3, IdAssumption DEF UserType, R
<1> QED BY <1>0, <1>1, <1>2, <1>3 DEF Frame

\* Friends are accounts.
LEMMA FriendStep ==
  ASSUME NEW c, NEW s, NEW p, Dealing(c, s, p)
  PROVE  friends' \subseteq Ids \X Ids
<1>0. /\ friends \subseteq Ids \X Ids /\ deal(c, s, p) /\ Frame(p.type) /\ PackInv(p)'
  BY DealFrame DEF Dealing, LtInv, TypeOK
<1>1. CASE p.type = 41
  <2>1. p.account \in Ids /\ p.send_account \in Ids
    BY <1>0, <1>1 DEF PackInv, NamesAccount, NamesOther
  <2>2. friends' \subseteq friends \cup {<<p.account, p.send_account>>, <<p.send_account, p.account>>}
    BY <1>0, <1>1 DEF deal, recv_addfr_PACK, MYSQL_addfriend_store
  <2> QED BY <1>0, <2>1, <2>2
<1>2. CASE p.type = 9
  <2>1. friends' \subseteq friends
    BY <1>0, <1>2 DEF deal, deal_dele_fri, MYSQL_dele_fri, Written
  <2> QED BY <1>0, <2>1
<1> QED BY <1>0, <1>1, <1>2 DEF Frame

\* What the seven handlers do to the groups and their members.
GroupStep(p) ==
  LET a == p.account
      gr == p.send_account
  IN  \/ UNCHANGED <<groups, g_meber>>
      \/ p.type = 10 /\ MYSQL_creat_group(a)
      \/ /\ p.type = 11 /\ MYSQL_find_group(gr) /\ ~MYSQL_find_group_member(a, gr)
         /\ g_meber' = g_meber \cup {<<gr, a, 0>>} /\ groups' = groups
      \/ g_meber' \subseteq g_meber /\ groups' = groups
      \/ p.type = 13 /\ MYSQL_dele_group(gr)
      \/ /\ p.type = 17 /\ MYSQL_find_group_member(p.set, gr)
         /\ g_meber' = (g_meber \ {<<gr, p.set, k>> : k \in 0..2}) \cup {<<gr, p.set, 2>>}
         /\ groups' = groups
      \/ /\ p.type = 20 /\ MYSQL_find_group_member(a, gr) /\ ~MYSQL_find_group_member(p.set, gr)
         /\ g_meber' = g_meber \cup {<<gr, p.set, 0>>} /\ groups' = groups

LEMMA GroupSteps ==
  ASSUME NEW c, NEW s, NEW p, deal(c, s, p)
  PROVE  GroupStep(p)
<1>0. Frame(p.type)
  BY DealFrame
<1> USE DEF GroupStep, Written
<1>1. CASE p.type = 10
  BY <1>1 DEF deal, deal_creat_group
<1>2. CASE p.type = 11
  BY <1>2 DEF deal, deal_join_group, MayJoin, MYSQL_join_group
<1>3. CASE p.type = 12
  BY <1>3 DEF deal, deal_quit_group, MYSQL_quit_group
<1>4. CASE p.type = 13
  BY <1>4 DEF deal, deal_dele_group
<1>5. CASE p.type = 17
  BY <1>5 DEF deal, deal_set_up, MYSQL_set_up
<1>6. CASE p.type = 20
  BY <1>6 DEF deal, deal_join_user, MYSQL_join_group
<1>7. CASE p.type = 21
  BY <1>7 DEF deal, deal_dele_user, MYSQL_quit_group
<1> QED BY <1>0, <1>1, <1>2, <1>3, <1>4, <1>5, <1>6, <1>7 DEF Frame

\* A function on 1..n is a sequence of length n.
LEMMA FunctionSeq ==
  ASSUME NEW S, NEW n \in Nat, NEW q \in [1..n -> S]
  PROVE  q \in Seq(S) /\ Len(q) = n
<1>1. q \in Seq(S)
  BY SeqDef
<1>2. Len(q) \in Nat /\ DOMAIN q = 1..Len(q) /\ DOMAIN q = 1..n
  BY <1>1, LenProperties
<1> DEFINE m == Len(q)
<1>3. m \in Nat /\ 1..m = 1..n
  BY <1>2
<1> HIDE DEF m
<1>4. \A i \in Nat \ {0} : i <= m <=> i <= n
  <2> TAKE i \in Nat \ {0}
  <2>1. (i \in 1..m) <=> (i \in 1..n)
    BY <1>3
  <2> QED BY <1>3, <2>1
<1>5. m = n
  <2>1. ~(m < n)
    BY <1>3, <1>4
  <2>2. ~(n < m)
    BY <1>3, <1>4
  <2> QED BY <1>3, <2>1, <2>2
<1> QED BY <1>1, <1>5 DEF m

\* The groups that exist have numbers.
LEMMA GroupIds ==
  ASSUME TypeOK
  PROVE  /\ Len(groups) \in Nat /\ DOMAIN groups = 1..Len(groups) /\ DOMAIN groups \subseteq Ids
<1>1. groups \in Seq(0..MaxId) /\ Len(groups) <= MaxId
  BY DEF TypeOK
<1>2. Len(groups) \in Nat /\ DOMAIN groups = 1..Len(groups)
  BY <1>1, LenProperties
<1> QED BY <1>1, <1>2, IdAssumption DEF Ids

LEMMA GroupTypes ==
  ASSUME NEW c, NEW s, NEW p, Dealing(c, s, p)
  PROVE  GroupType'
<1> DEFINE a == p.account
           gr == p.send_account
<1>0. /\ TypeOK /\ PackInv(p)' /\ GroupStep(p) /\ groups \in Seq(0..MaxId) /\ Len(groups) <= MaxId
      /\ g_meber \subseteq Ids \X Ids \X (0..2)
  BY GroupSteps DEF Dealing, LtInv, TypeOK
<1>1. Len(groups) \in Nat /\ DOMAIN groups = 1..Len(groups) /\ DOMAIN groups \subseteq Ids
  BY <1>0, GroupIds
<1>2. CASE UNCHANGED <<groups, g_meber>>
  BY <1>0, <1>2 DEF GroupType
<1>3. CASE p.type = 10 /\ MYSQL_creat_group(a) /\ ~UNCHANGED <<groups, g_meber>>
  <2>1. a \in Ids /\ a \in 0..MaxId
    BY <1>0, <1>3 DEF PackInv, NamesAccount, Ids
  <2>2. /\ Len(groups) < MaxId /\ groups' = Append(groups, a)
        /\ g_meber' \subseteq g_meber \cup {<<Len(groups) + 1, a, 1>>}
    BY <1>3 DEF MYSQL_creat_group, Written
  <2>3. groups' \in Seq(0..MaxId) /\ Len(groups') = Len(groups) + 1
    BY <1>0, <2>1, <2>2, AppendProperties
  <2>4. Len(groups) + 1 \in Ids /\ Len(groups') <= MaxId
    BY <1>1, <2>2, <2>3, IdAssumption DEF Ids
  <2>5. g_meber' \subseteq Ids \X Ids \X (0..2)
    BY <1>0, <2>1, <2>2, <2>4
  <2> QED BY <2>3, <2>4, <2>5 DEF GroupType
<1>4. CASE /\ p.type = 11
           /\ g_meber' = g_meber \cup {<<gr, a, 0>>} /\ groups' = groups
  <2>1. a \in Ids /\ gr \in Ids
    BY <1>0, <1>4 DEF PackInv, NamesAccount, NamesOther
  <2> QED BY <1>0, <1>4, <2>1 DEF GroupType
<1>5. CASE g_meber' \subseteq g_meber /\ groups' = groups
  BY <1>0, <1>5 DEF GroupType
<1>6. CASE p.type = 13 /\ MYSQL_dele_group(gr)
  <2>1. g_meber' \subseteq g_meber /\ (groups' = groups \/ groups' = [groups EXCEPT ![gr] = 0])
    BY <1>6 DEF MYSQL_dele_group, Written
  <2>2. [groups EXCEPT ![gr] = 0] \in [1..Len(groups) -> 0..MaxId]
    <3>1. groups \in [1..Len(groups) -> 0..MaxId]
      BY <1>0, LenProperties
    <3>2. 0 \in 0..MaxId
      BY IdAssumption
    <3> QED BY <3>1, <3>2
  <2>3. groups' \in [1..Len(groups) -> 0..MaxId]
    BY <1>0, <2>1, <2>2, LenProperties
  <2>4. groups' \in Seq(0..MaxId) /\ Len(groups') = Len(groups)
    BY <1>1, <2>3, FunctionSeq
  <2> QED BY <1>0, <2>1, <2>4 DEF GroupType
<1>7. CASE /\ p.type = 17
           /\ g_meber' = (g_meber \ {<<gr, p.set, k>> : k \in 0..2}) \cup {<<gr, p.set, 2>>}
           /\ groups' = groups
  <2>1. p.set \in Ids /\ gr \in Ids
    BY <1>0, <1>7 DEF PackInv, NamesOther
  <2> QED BY <1>0, <1>7, <2>1 DEF GroupType
<1>8. CASE /\ p.type = 20
           /\ g_meber' = g_meber \cup {<<gr, p.set, 0>>} /\ groups' = groups
  <2>1. p.set \in Ids /\ gr \in Ids
    BY <1>0, <1>8 DEF PackInv, NamesOther
  <2> QED BY <1>0, <1>8, <2>1 DEF GroupType
<1> QED BY <1>0, <1>2, <1>3, <1>4, <1>5, <1>6, <1>7, <1>8 DEF GroupStep

\* A cache that is told of a login.
Told(k, a, fd) == [k EXCEPT !.use_online[a] = TRUE, !.use_fd[a] = fd]

LEMMA CacheTold ==
  ASSUME NEW k \in CacheType, NEW a \in Ids, NEW fd \in Fd0
  PROVE  /\ Told(k, a, fd) \in CacheType
         /\ Told(k, a, fd).use_account = k.use_account
         /\ Told(k, a, fd).use_fd = [k.use_fd EXCEPT ![a] = fd]
<1> DEFINE uo == [k.use_online EXCEPT ![a] = TRUE]
           uf == [k.use_fd EXCEPT ![a] = fd]
           k1 == [k EXCEPT !.use_online = uo]
<1>1. uo \in [Ids -> BOOLEAN] /\ uf \in [Ids -> Fd0]
  BY DEF CacheType
<1>2. Told(k, a, fd) = [k1 EXCEPT !.use_fd = [k1.use_fd EXCEPT ![a] = fd]]
  BY DEF Told
<1> HIDE DEF uo
<1>3. k1 \in CacheType /\ k1.use_fd = k.use_fd /\ k1.use_account = k.use_account
  BY <1>1 DEF CacheType
<1> HIDE DEF k1
<1>4. Told(k, a, fd) = [k1 EXCEPT !.use_fd = uf]
  BY <1>2, <1>3
<1> HIDE DEF uf
<1>5. [k1 EXCEPT !.use_fd = uf] \in CacheType /\ [k1 EXCEPT !.use_fd = uf].use_fd = uf
      /\ [k1 EXCEPT !.use_fd = uf].use_account = k1.use_account
  BY <1>1, <1>3 DEF CacheType
<1> QED BY <1>3, <1>4, <1>5 DEF uf

\* The caches, the last names and the counters.
LEMMA CacheStep ==
  ASSUME NEW c, NEW s, NEW p, Dealing(c, s, p)
  PROVE  g' \in [Ids -> CacheType]
<1>0. /\ TypeOK /\ PackInv(p)' /\ deal(c, s, p) /\ Frame(p.type) /\ g \in [Ids -> CacheType]
  BY DealFrame DEF Dealing, LtInv, TypeOK, CacheType
<1>1. CASE p.type = 15
  <2>1. deal_chat_group(c, s, p)
    BY <1>0, <1>1 DEF deal
  <2> QED BY <1>1, <2>1, GroupChatBoxes
<1>2. CASE p.type = 1
  <2> DEFINE fd == IF Account(p.account) THEN user'[p.account].sock_fd ELSE 0
  <2>1. g' = LoginCache(p.account, fd) /\ p.account \in Ids
    BY <1>0, <1>2 DEF deal, deal_login, PackInv, NamesAccount
  <2>2. fd \in Fd0
    <3>1. CASE Account(p.account)
      <4>1. UserType' /\ (user' = user \/ user' = [user EXCEPT ![p.account] = [online |-> 1, sock_fd |-> s]])
        BY <1>0, <1>2, UserStep DEF deal, deal_login, MYSQL_login, Written
      <4>2. p.account \in DOMAIN user'
        BY <3>1, <4>1 DEF Account
      <4>3. user'[p.account] \in [online : 0..1, sock_fd : Fd0]
        <5>1. user' \in Seq([online : 0..1, sock_fd : Fd0])
          BY <4>1 DEF UserType
        <5> QED BY <4>2, <5>1, LenProperties, ElementOfSeq
      <4> QED BY <3>1, <4>3
    <3>2. CASE ~Account(p.account)
      BY <3>2 DEF Fd0
    <3> QED BY <3>1, <3>2
  <2> HIDE DEF fd
  <2>3. \A i \in Ids : Told(g[i], p.account, fd) \in CacheType
    BY <1>0, <2>1, <2>2, CacheTold
  <2>4. g' = [i \in Ids |-> Told(g[i], p.account, fd)]
    BY <2>1 DEF LoginCache, Told
  <2> QED BY <2>3, <2>4
<1> QED BY <1>0, <1>1, <1>2 DEF Frame

LEMMA LastStep ==
  ASSUME NEW c, NEW s, NEW p, Dealing(c, s, p)
  PROVE  NameType' /\ FileType' /\ CountType'
<1>0. /\ TypeOK /\ PackInv(p)' /\ deal(c, s, p) /\ Frame(p.type)
      /\ NameType /\ FileType /\ CountType /\ p.send_account \in Nat
  BY DealFrame, PackNumbers DEF Dealing, LtInv, TypeOK, NameType, FileType, CountType
<1>1. NameType'
  <2>1. CASE p.type = 15
    <3> DEFINE name == IF group_send_account # p.send_account THEN MYSQL_find_group(p.send_account)
                       ELSE group_send_name
    <3>1. \/ UNCHANGED nameVars
          \/ group_send_account' = p.send_account /\ group_send_name' = name
      <4>1. deal_chat_group(c, s, p)
        BY <1>0, <2>1 DEF deal
      <4> QED BY <4>1, Zenon DEF deal_chat_group
    <3>2. name \in BOOLEAN
      BY <1>0 DEF MYSQL_find_group, NameType
    <3> HIDE DEF name
    <3> QED BY <1>0, <3>1, <3>2 DEF NameType, nameVars
  <2> QED BY <1>0, <2>1 DEF Frame, nameVars, NameType
<1>2. FileType'
  <2>1. CASE p.type = 18
    BY <1>0, <2>1, FindFdType DEF deal, send_file, FileType
  <2> QED BY <1>0, <2>1 DEF Frame, fileVars, FileType
<1>3. CountType'
  <2>1. CASE p.type = 1
    <3>1. nsent' = nsent /\ nhanded' = [nhanded EXCEPT ![p.account] = nsent[p.account]]
      BY <1>0, <2>1 DEF deal, deal_login
    <3>2. p.account \in Ids
      BY <1>0, <2>1 DEF PackInv, NamesAccount
    <3> QED BY <1>0, <3>1, <3>2 DEF CountType
  <2>2. CASE p.type = 7
    <3> DEFINE b == p.send_account
               n == IF Account(b) THEN nsent[b] + 1 ELSE 0
    <3>0. b \in Ids
      BY <1>0, <2>2 DEF PackInv, NamesOther
    <3>1. \/ UNCHANGED chatVars
          \/ /\ nsent' = [nsent EXCEPT ![b] = IF Account(b) THEN n ELSE @]
             /\ nhanded' = [nhanded EXCEPT ![b] = IF Account(b) /\ off' = off THEN n ELSE @]
      BY <1>0, <2>2 DEF deal, deal_chat_fri
    <3>2. n \in Nat
      BY <1>0, <3>0 DEF CountType
    <3> HIDE DEF n
    <3> QED BY <1>0, <3>0, <3>1, <3>2 DEF CountType, chatVars
  <2> QED BY <1>0, <2>1, <2>2 DEF Frame, chatVars, CountType
<1> QED BY <1>1, <1>2, <1>3

-----------------------------------------------------------------------------
(* The types and the packets, in every state                               *)

\* Every packet that is dealt with keeps the invariant.
LEMMA DealInv ==
  ASSUME NEW c, NEW s, NEW p, Dealing(c, s, p), left' \in 0..MaxEvents,
         asked' \subseteq Ids \X Ids, accepted' \subseteq Ids \X Ids
  PROVE  LtInv'
<1>1. NetOK'
  BY DealBoxes
<1>2. BoxInv' /\ off' \in [Ids -> Seq(OutType)] /\ inbox' \in [Fds -> Seq(OutType)]
  <2>1. (NetOK => /\ BoxInv /\ off \in [Ids -> Seq(OutType)]
                  /\ inbox \in [Fds -> Seq(OutType)])'
    BY NetTypes, PTL
  <2> QED BY <1>1, <2>1
<1>3. UserType' /\ friends' \subseteq Ids \X Ids /\ GroupType' /\ g' \in [Ids -> CacheType]
  BY UserStep, FriendStep, GroupTypes, CacheStep
<1>4. NameType' /\ FileType' /\ CountType'
  BY LastStep
<1>5. mysql' \in BOOLEAN /\ pack' = p /\ PackInv(pack)'
  <2>1. deal(c, s, p) /\ PackInv(p)'
    BY DEF Dealing
  <2>2. mysql' \in BOOLEAN
    BY <2>1, DealFrame DEF Frame
  <2>3. pack' = p
    BY <2>1, DealCases
  <2> QED BY <2>1, <2>2, <2>3 DEF PackInv, Asker
<1>6. TypeOK'
  BY <1>1, <1>2, <1>3, <1>4, <1>5
     DEF TypeOK, NetOK, UserType, GroupType, NameType, FileType, CountType, CacheType, ConnType, PackInv
<1> QED BY <1>2, <1>5, <1>6 DEF LtInv

\* A packet that is sound stays so.
LEMMA PackStays ==
  ASSUME NEW p, PackInv(p), asked \subseteq asked', accepted \subseteq accepted'
  PROVE  PackInv(p)'
BY DEF PackInv, Asker

\* The packets of the login menu and of the main menu.
LEMMA MenuSound ==
  ASSUME NEW p \in MenuPackets
  PROVE  PackInv(p)' /\ p.type \in {1, 2, 3}
<1> USE DEF PackInv, NamesAccount, NamesOther, PACK, Pack
<1>0. Ids \subseteq Nat /\ Unset \subseteq Nat /\ Typed \subseteq BOOLEAN
  <2>1. Ids \subseteq Nat /\ Unset \subseteq Nat
    BY IdAssumption DEF Ids, Unset
  <2>2. Typed \subseteq BOOLEAN
    BY Zenon DEF Typed
  <2> QED BY <2>1, <2>2
<1>1. CASE \E a \in Ids, k \in Typed : p = Pack(1, a, 0, 0, k)
  BY <1>0, <1>1
<1>2. CASE \E a \in Unset : p = Pack(2, a, 0, 0, FALSE)
  BY <1>0, <1>2
<1>3. CASE \E a \in Ids, k \in Typed : p = Pack(3, a, 0, 0, k)
  BY <1>0, <1>3
<1> QED BY <1>1, <1>2, <1>3 DEF MenuPackets

LEMMA RequestSound ==
  ASSUME NEW a \in Ids, NEW p \in Packets(a), p.type = 4 => <<p.account, p.send_account>> \in asked'
  PROVE  /\ PackInv(p)' /\ p.type \notin {1, 2, 3, 41}
         /\ p.type = 4 => <<p.account, p.send_account>> \in Ids \X Ids
<1> USE DEF PackInv, NamesAccount, NamesOther, PACK, Pack
<1>0. Ids \subseteq Nat /\ Unset \subseteq Nat
  BY IdAssumption DEF Ids, Unset
<1>1. CASE \E b \in Ids \ {a} : p = Pack(4, a, b, 0, FALSE)
  BY <1>0, <1>1
<1>2. CASE \E t \in {5, 6, 10} : p = Pack(t, a, 0, 0, FALSE)
  BY <1>0, <1>2
<1>3. CASE \E t \in {7, 8, 9, 11, 12, 13}, b \in Ids : p = Pack(t, a, b, 0, FALSE)
  BY <1>0, <1>3
<1>4. CASE \E t \in {14, 16, 18}, x \in Unset, b \in Ids : p = Pack(t, x, b, 0, FALSE)
  BY <1>0, <1>4
<1>5. CASE \E b \in Ids, k \in BOOLEAN : p = Pack(15, a, b, 0, k)
  BY <1>0, <1>5
<1>6. CASE \E t \in {17, 20, 21}, b \in Ids, m \in Ids : p = Pack(t, a, b, m, FALSE)
  BY <1>0, <1>6
<1> QED BY <1>1, <1>2, <1>3, <1>4, <1>5, <1>6 DEF Packets

\* Where a packet is dealt with.
Dealt == \E c, s, p : /\ Dealing(c, s, p) /\ pc = "run" /\ left' \in 0..MaxEvents
                      /\ accepted \subseteq accepted'
                      /\ asked' \subseteq Ids \X Ids /\ accepted' \subseteq Ids \X Ids

LEMMA RecvErrorDealt ==
  ASSUME LtInv, NEW s \in Fds, RecvError(s)
  PROVE  Dealt
<1> DEFINE c == [conn EXCEPT ![s] = "broken"]
<1>1. c \in ConnType /\ c[s] # "open"
  BY DEF LtInv, TypeOK, ConnType
<1>2. UNCHANGED askVars /\ left' = left /\ deal(c, s, pack) /\ pc = "run"
  BY DEF RecvError
<1>3. PackInv(pack)
  BY DEF LtInv
<1> HIDE DEF c
<1>4. PICK p : p = pack /\ PackInv(p)'
  <2>1. \A q : PackInv(q) => PackInv(q)'
    BY <1>2, PackStays DEF askVars
  <2> QED BY <1>3, <2>1
<1>5. left \in 0..MaxEvents /\ asked \subseteq Ids \X Ids /\ accepted \subseteq Ids \X Ids
  BY DEF LtInv, TypeOK
<1>6. Dealing(c, s, p)
  BY <1>1, <1>2, <1>4 DEF Dealing, askVars
<1> QED BY <1>2, <1>5, <1>6 DEF Dealt, askVars

LEMMA MenuDealt ==
  ASSUME LtInv, NEW s \in Fds, ClientMenu(s)
  PROVE  Dealt
<1>1. PICK p \in MenuPackets : Recv(s, p)
  BY DEF ClientMenu
<1>2. PackInv(p)' /\ who[s] = 0 /\ UNCHANGED askVars
  BY MenuSound DEF ClientMenu
<1>3. deal(conn, s, p) /\ left' = left - 1 /\ left > 0 /\ pc = "run"
  BY <1>1 DEF Recv
<1>4. conn \in ConnType /\ left \in 0..MaxEvents /\ asked \subseteq Ids \X Ids /\ accepted \subseteq Ids \X Ids
  BY DEF LtInv, TypeOK, ConnType
<1>5. Dealing(conn, s, p)
  BY <1>2, <1>3, <1>4 DEF Dealing, askVars
<1>6. left' \in 0..MaxEvents
  BY <1>3, <1>4, BoundAssumption
<1> QED BY <1>2, <1>3, <1>4, <1>5, <1>6 DEF Dealt, askVars

LEMMA RequestDealt ==
  ASSUME LtInv, NEW s \in Fds, ClientRequest(s)
  PROVE  Dealt
<1>0. /\ conn \in ConnType /\ left \in 0..MaxEvents /\ asked \subseteq Ids \X Ids
      /\ accepted \subseteq Ids \X Ids /\ who[s] \in Ids
  <2>1. who[s] # 0
    BY DEF ClientRequest
  <2>2. /\ conn \in ConnType /\ left \in 0..MaxEvents /\ asked \subseteq Ids \X Ids
        /\ accepted \subseteq Ids \X Ids /\ who[s] \in 0..MaxId
    BY DEF LtInv, TypeOK, ConnType
  <2>3. who[s] \in Ids
    BY <2>1, <2>2, IdAssumption DEF Ids
  <2> QED BY <2>2, <2>3
<1>1. PICK p \in Packets(who[s]) :
           /\ Recv(s, p)
           /\ asked' = IF p.type = 4 THEN asked \cup {<<p.account, p.send_account>>} ELSE asked
  BY DEF ClientRequest
<1> DEFINE a == who[s]
<1>2. p.type = 4 => <<p.account, p.send_account>> \in asked'
  BY <1>1
<1>3. /\ PackInv(p)' /\ p.type \notin {1, 2, 3, 41}
      /\ p.type = 4 => <<p.account, p.send_account>> \in Ids \X Ids
  <2>1. a \in Ids /\ p \in Packets(a)
    BY <1>0, <1>1
  <2> HIDE DEF a
  <2> QED BY <1>2, <2>1, RequestSound
<1>4. deal(conn, s, p) /\ left' = left - 1 /\ left > 0 /\ pc = "run"
  BY <1>1 DEF Recv
<1>5. asked \subseteq asked' /\ asked' \subseteq Ids \X Ids /\ accepted' = accepted
  BY <1>0, <1>1, <1>3 DEF ClientRequest
<1>6. Dealing(conn, s, p)
  BY <1>0, <1>3, <1>4, <1>5 DEF Dealing
<1>7. left' \in 0..MaxEvents
  BY <1>0, <1>4, BoundAssumption
<1> QED BY <1>0, <1>4, <1>5, <1>6, <1>7 DEF Dealt

\* The answer names the one who asked, because the client keeps only requests.
LEMMA AnswerDealt ==
  ASSUME LtInv, NEW s \in Fds, ClientAnswer(s)
  PROVE  Dealt
<1>0. /\ conn \in ConnType /\ left \in 0..MaxEvents /\ asked \subseteq Ids \X Ids
      /\ accepted \subseteq Ids \X Ids /\ who[s] \in Ids /\ inbox[s] # << >> /\ asked' = asked
  <2>1. who[s] # 0 /\ inbox[s] # << >> /\ asked' = asked
    BY DEF ClientAnswer
  <2>2. /\ conn \in ConnType /\ left \in 0..MaxEvents /\ asked \subseteq Ids \X Ids
        /\ accepted \subseteq Ids \X Ids /\ who[s] \in 0..MaxId
    BY DEF LtInv, TypeOK, ConnType
  <2>3. who[s] \in Ids
    BY <2>1, <2>2, IdAssumption DEF Ids
  <2> QED BY <2>1, <2>2, <2>3
<1>1. PICK a, b : a = who[s] /\ b = inbox[s][1].from
  OBVIOUS
<1>2. Asker(b)
  <2>1. inbox[s] \in Seq(Wanted)
    BY <1>0 DEF LtInv, BoxInv, Ids
  <2>2. inbox[s][1] \in Wanted
    BY <1>0, <2>1, EmptySeq, LenProperties, ElementOfSeq
  <2> QED BY <1>1, <2>2 DEF Wanted, Sound
<1>3. PICK k \in BOOLEAN : /\ Recv(s, Pack(41, a, b, 0, k))
                           /\ accepted' = IF k THEN accepted \cup {<<a, b>>} ELSE accepted
  BY <1>1 DEF ClientAnswer
<1>4. a \in Ids /\ b \in Ids /\ Asker(b)'
  BY <1>0, <1>2, <1>1 DEF Asker
<1> DEFINE p == Pack(41, a, b, 0, k)
<1>5. deal(conn, s, p) /\ left' = left - 1 /\ left > 0 /\ pc = "run"
  BY <1>3 DEF Recv
<1>6. accepted \subseteq accepted' /\ accepted' \subseteq Ids \X Ids /\ (k => <<a, b>> \in accepted')
  BY <1>0, <1>3, <1>4
<1>7. PackInv(p)' /\ p.type = 41
  BY <1>4, <1>6, IdAssumption DEF PackInv, Pack, PACK, NamesAccount, NamesOther, Ids
<1> HIDE DEF p
<1>8. Dealing(conn, s, p)
  BY <1>0, <1>5, <1>7 DEF Dealing
<1>9. left' \in 0..MaxEvents
  BY <1>0, <1>5, BoundAssumption
<1> QED BY <1>0, <1>5, <1>6, <1>8, <1>9 DEF Dealt

\* A step deals with a packet, or is one of the seven others.
LEMMA NextCases ==
  ASSUME LtInv, [Next]_vars
  PROVE  \/ Dealt \/ Kill \/ Restart \/ UNCHANGED vars
         \/ \E s \in Fds : Accept(s) \/ RecvEof(s) \/ ClientExit(s) \/ ClientClose(s)
<1>1. ASSUME NEW s \in Fds, RecvError(s) \/ ClientMenu(s) \/ ClientRequest(s) \/ ClientAnswer(s)
      PROVE  Dealt
  BY <1>1, RecvErrorDealt, MenuDealt, RequestDealt, AnswerDealt
<1> QED BY <1>1 DEF Next

\* Neither the ones that ask nor those that are asked are forgotten, and
\* sockets of clients that go are emptied.
LEMMA BoxesStay ==
  ASSUME LtInv, UNCHANGED <<off, asked>>, NEW s \in Fds,
         \/ UNCHANGED <<who, inbox>>
         \/ who' = [who EXCEPT ![s] = 0] /\ inbox' = [inbox EXCEPT ![s] = << >>]
  PROVE  /\ BoxInv' /\ who' \in [Fds -> 0..MaxId] /\ inbox' \in [Fds -> Seq(OutType)]
<1>0. /\ BoxInv /\ who \in [Fds -> 0..MaxId] /\ inbox \in [Fds -> Seq(OutType)] /\ 0 \in 0..MaxId
  BY IdAssumption DEF LtInv, TypeOK
<1>1. Sound' = Sound /\ Wanted' = Wanted
  BY DEF Sound, Wanted, Asker
<1>2. CASE UNCHANGED <<who, inbox>>
  BY <1>0, <1>1, <1>2 DEF BoxInv
<1>3. CASE who' = [who EXCEPT ![s] = 0] /\ inbox' = [inbox EXCEPT ![s] = << >>]
  <2>1. who' \in [Fds -> 0..MaxId] /\ inbox' \in [Fds -> Seq(OutType)]
    BY <1>0, <1>3, EmptySeq
  <2>2. \A t \in Fds : /\ inbox'[t] \in Seq(Sound)
                       /\ who'[t] # 0 => inbox'[t] \in Seq(Wanted)
    BY <1>0, <1>3, EmptySeq DEF BoxInv
  <2>3. \A b \in Ids : off'[b] \in Seq(Sound)
    BY <1>0 DEF BoxInv
  <2> QED BY <1>1, <2>1, <2>2, <2>3 DEF BoxInv
<1> QED BY <1>2, <1>3

\* A process that starts has nothing, and the accounts are those of the table.
LEMMA RestartInv ==
  ASSUME LtInv, Restart
  PROVE  LtInv' /\ DOMAIN user' = DOMAIN user
<1> DEFINE R == [online : 0..1, sock_fd : Fd0]
<1>1. Len(user) \in Nat /\ DOMAIN user = 1..Len(user) /\ Len(user) <= MaxId
      /\ \A a \in DOMAIN user : user[a] \in R
  BY AccountIds DEF LtInv, TypeOK
<1>2. user' = [a \in DOMAIN user |-> [user[a] EXCEPT !.online = 0]] \/ user' = user
  BY DEF Restart, MYSQL_main_init, Written
<1>3. user' \in [1..Len(user) -> R]
  <2>1. CASE user' = user
    BY <1>1, <2>1, LenProperties DEF LtInv, TypeOK
  <2>2. CASE user' = [a \in DOMAIN user |-> [user[a] EXCEPT !.online = 0]]
    BY <1>1, <2>2
  <2> QED BY <1>2, <2>1, <2>2
<1> HIDE DEF R
<1>4. user' \in Seq(R) /\ Len(user') = Len(user)
  BY <1>1, <1>3, FunctionSeq
<1>5. NoPack \in PACK /\ PackInv(NoPack)'
  BY DEF NoPack, Pack, PACK, PackInv, NamesAccount, NamesOther
<1>6. PackInv(pack)'
  BY <1>5 DEF Restart, Started, PackInv, Asker
<1>7. /\ off' = [i \in Ids |-> << >>] /\ inbox' = [s \in Fds |-> << >>] /\ who' = [s \in Fds |-> 0]
  BY DEF Restart, Started
<1>8. BoxInv' /\ off' \in [Ids -> Seq(OutType)] /\ inbox' \in [Fds -> Seq(OutType)]
  BY <1>7, EmptySeq DEF BoxInv
<1>9. NoCache \in CacheType
  <2>1. [m \in Ids |-> 0] \in [Ids -> Fd0] /\ [m \in Ids |-> FALSE] \in [Ids -> BOOLEAN]
    BY DEF Fd0
  <2> QED BY <2>1 DEF NoCache, CacheType
<1>10. g' \in [Ids -> CacheType]
  BY <1>9 DEF Restart, Started
<1>11. TypeOK'
  <2>1. UNCHANGED <<friends, groups, g_meber, left, nsent, asked, accepted>> /\ nhanded' = nsent
    BY DEF Restart, Started, askVars
  <2>2. /\ pc' = "run" /\ mysql' = FALSE /\ group_send_account' = 0 /\ group_send_name' = FALSE
        /\ file_send_account' = 0 /\ f' = 0 /\ conn' = [s \in Fds |-> "free"]
        /\ pack' = NoPack
    BY DEF Restart, Started
  <2>3. UserType'
    BY <1>1, <1>4 DEF UserType, R
  <2>4. friends' \subseteq Ids \X Ids /\ GroupType' /\ CountType' /\ left' \in 0..MaxEvents
    BY <2>1 DEF LtInv, TypeOK, GroupType, CountType
  <2>5. NameType' /\ FileType' /\ conn' \in ConnType /\ who' \in [Fds -> 0..MaxId]
    <3>1. NameType' /\ FileType'
      BY <2>2 DEF NameType, FileType, Fd0
    <3>2. conn' \in ConnType
      BY <2>2 DEF ConnType
    <3>3. who' \in [Fds -> 0..MaxId]
      BY <1>7, IdAssumption
    <3> QED BY <3>1, <3>2, <3>3
  <2>6. asked' \subseteq Ids \X Ids /\ accepted' \subseteq Ids \X Ids
    BY <2>1 DEF LtInv, TypeOK
  <2> QED BY <1>5, <1>8, <1>10, <2>2, <2>3, <2>4, <2>5, <2>6
          DEF TypeOK, UserType, GroupType, CountType, NameType, FileType, ConnType, CacheType
<1> QED BY <1>1, <1>3, <1>6, <1>8, <1>11 DEF LtInv

\* A disconnection takes one account offline, or none, and moves no descriptor.
LEMMA EofUser ==
  ASSUME LtInv, NEW s \in Fds, RecvEof(s)
  PROVE  /\ UserType' /\ DOMAIN user' = DOMAIN user
         /\ \A a \in DOMAIN user : /\ user'[a].sock_fd = user[a].sock_fd
                                   /\ user'[a].online = 1 => user[a].online = 1
<1> DEFINE R == [online : 0..1, sock_fd : Fd0]
           x == pack.account
<1>0. /\ Len(user) \in Nat /\ DOMAIN user = 1..Len(user) /\ user \in Seq(R) /\ Len(user) <= MaxId
      /\ \A a \in DOMAIN user : user[a] \in R
  BY AccountIds DEF LtInv, TypeOK
<1>1. CASE user' = user
  BY <1>0, <1>1 DEF UserType
<1>2. CASE Account(x) /\ user' = [user EXCEPT ![x].online = 0]
  <2>1. x \in 1..Len(user) /\ user[x] \in R
    BY <1>0, <1>2 DEF Account
  <2> DEFINE e == [user[x] EXCEPT !.online = 0]
  <2>2. e \in R /\ e.sock_fd = user[x].sock_fd /\ e.online = 0
    BY <2>1
  <2> HIDE DEF R, x
  <2>3. user' = [user EXCEPT ![x] = e]
    BY <1>2
  <2> HIDE DEF e
  <2>4. /\ user' \in Seq(R) /\ Len(user') = Len(user)
        /\ \A j \in 1..Len(user) : user'[j] = IF j = x THEN e ELSE user[j]
    BY <1>0, <2>1, <2>2, <2>3, ExceptSeq
  <2>5. UserType'
    BY <1>0, <2>4 DEF UserType, R
  <2>6. DOMAIN user' = DOMAIN user
    BY <1>0, <2>3
  <2>7. \A a \in DOMAIN user : /\ user'[a].sock_fd = user[a].sock_fd
                               /\ user'[a].online = 1 => user[a].online = 1
    BY <1>0, <2>2, <2>4
  <2> QED BY <2>5, <2>6, <2>7
<1>3. user' = user \/ (Account(x) /\ user' = [user EXCEPT ![x].online = 0])
  <2>1. MYSQL_exit(x)
    BY DEF RecvEof
  <2>2. CASE mysql /\ Account(x)
    BY <2>1, <2>2, Zenon DEF MYSQL_exit, Written
  <2>3. CASE ~(mysql /\ Account(x))
    BY <2>1, <2>3, Zenon DEF MYSQL_exit
  <2> QED BY <2>2, <2>3
<1> QED BY <1>1, <1>2, <1>3

LEMMA EofCache ==
  ASSUME LtInv, NEW s \in Fds, RecvEof(s)
  PROVE  /\ g' \in [Ids -> CacheType]
         /\ \A i \in Ids : g'[i].use_fd = g[i].use_fd /\ g'[i].use_account = g[i].use_account
<1>0. g \in [Ids -> CacheType]
  BY DEF LtInv, TypeOK, CacheType
<1> DEFINE on(i) == [m \in Ids |-> g[i].use_online[m] /\ m # pack.account]
<1>1. g' = [i \in Ids |-> [g[i] EXCEPT !.use_online = on(i)]]
  BY DEF RecvEof
<1>2. ASSUME NEW i \in Ids
      PROVE  /\ [g[i] EXCEPT !.use_online = on(i)] \in CacheType
             /\ [g[i] EXCEPT !.use_online = on(i)].use_fd = g[i].use_fd
             /\ [g[i] EXCEPT !.use_online = on(i)].use_account = g[i].use_account
  <2>1. on(i) \in [Ids -> BOOLEAN] /\ g[i] \in CacheType
    BY <1>0 DEF CacheType
  <2> HIDE DEF on
  <2> QED BY <2>1 DEF CacheType
<1> HIDE DEF on
<1> QED BY <1>1, <1>2

LEMMA LtInvInit == Init => LtInv
<1> SUFFICES ASSUME Init PROVE LtInv
  OBVIOUS
<1>1. UserType
  <2>1. user \in [1..Registered -> [online : 0..1, sock_fd : Fd0]] /\ Registered \in Nat /\ Registered <= MaxId
    BY RegisteredAssumption, IdAssumption DEF Init, Fd0
  <2>2. user \in Seq([online : 0..1, sock_fd : Fd0]) /\ Len(user) = Registered
    BY <2>1, FunctionSeq
  <2> QED BY <2>1, <2>2 DEF UserType
<1>2. /\ friends \subseteq Ids \X Ids /\ asked \subseteq Ids \X Ids /\ accepted \subseteq Ids \X Ids
  BY FriendsAssumption DEF Init
<1>3. GroupType
  <2>1. groups = << >> /\ g_meber = {}
    BY DEF Init
  <2>2. groups \in Seq(0..MaxId) /\ Len(groups) = 0
    BY <2>1, EmptySeq
  <2> QED BY <2>1, <2>2, IdAssumption DEF GroupType
<1>4. pack = NoPack /\ PackInv(pack)
  BY DEF Init, NoPack, Pack, PACK, PackInv, NamesAccount, NamesOther
<1>5. g \in [Ids -> CacheType]
  <2>1. [m \in Ids |-> 0] \in [Ids -> Fd0] /\ [m \in Ids |-> FALSE] \in [Ids -> BOOLEAN]
    BY DEF Fd0
  <2>2. NoCache \in CacheType
    BY <2>1 DEF NoCache, CacheType
  <2> QED BY <2>2 DEF Init
<1>6. off = [i \in Ids |-> << >>] /\ inbox = [s \in Fds |-> << >>] /\ who = [s \in Fds |-> 0]
  BY DEF Init
<1>7. BoxInv /\ off \in [Ids -> Seq(OutType)] /\ inbox \in [Fds -> Seq(OutType)]
  BY <1>6, EmptySeq DEF BoxInv
<1>8. who \in [Fds -> 0..MaxId] /\ conn \in ConnType /\ NameType /\ FileType /\ CountType
  <2>1. who \in [Fds -> 0..MaxId]
    BY <1>6, IdAssumption
  <2>2. conn \in ConnType
    BY DEF Init, ConnType
  <2>3. NameType /\ FileType
    BY DEF Init, NameType, FileType, Fd0
  <2>4. CountType
    BY DEF Init, CountType
  <2> QED BY <2>1, <2>2, <2>3, <2>4
<1>9. pc = "run" /\ mysql = FALSE /\ left \in 0..MaxEvents
  BY BoundAssumption DEF Init
<1>10. TypeOK
  BY <1>1, <1>2, <1>3, <1>4, <1>5, <1>7, <1>8, <1>9
     DEF TypeOK, UserType, GroupType, CountType, NameType, FileType, ConnType, CacheType, PackInv
<1> QED BY <1>4, <1>7, <1>10 DEF LtInv

LEMMA LtInvNext ==
  ASSUME LtInv, [Next]_vars
  PROVE  LtInv'
<1>1. CASE Dealt
  <2>1. PICK c, s, p : /\ Dealing(c, s, p) /\ left' \in 0..MaxEvents
                       /\ asked' \subseteq Ids \X Ids /\ accepted' \subseteq Ids \X Ids
    BY <1>1 DEF Dealt
  <2> QED BY <2>1, DealInv
<1>2. CASE Restart
  BY <1>2, RestartInv
<1>3. CASE UNCHANGED vars \/ Kill
  <2>1. /\ UNCHANGED <<tables, mysql, pack, g, nameVars, off, fileVars, conn, who, inbox, left,
                       chatVars, askVars>>
        /\ pc' \in {"run", "down"}
    BY <1>3 DEF vars, Kill, LtInv, TypeOK
  <2>2. TypeOK'
    BY <2>1 DEF LtInv, TypeOK, tables, nameVars, fileVars, chatVars, askVars
  <2>3. PackInv(pack)' /\ BoxInv'
    BY <2>1 DEF LtInv, PackInv, Asker, BoxInv, Sound, Wanted, askVars
  <2> QED BY <2>2, <2>3 DEF LtInv
<1>4. ASSUME NEW s \in Fds, Accept(s) \/ RecvEof(s) \/ ClientExit(s) \/ ClientClose(s)
      PROVE  LtInv'
  <2>0. UNCHANGED <<off, asked, accepted, friends, groups, g_meber, nameVars, fileVars, chatVars, pc>>
    <3>1. CASE Accept(s) \/ RecvEof(s)
      BY <3>1 DEF Accept, RecvEof, tables, askVars
    <3>2. CASE ClientExit(s) \/ ClientClose(s)
      BY <3>2 DEF ClientExit, ClientClose, tables, askVars
    <3> QED BY <1>4, <3>1, <3>2
  <2>1. \/ UNCHANGED <<who, inbox>>
        \/ who' = [who EXCEPT ![s] = 0] /\ inbox' = [inbox EXCEPT ![s] = << >>]
    BY <1>4 DEF Accept, RecvEof, ClientExit, ClientClose
  <2>2. BoxInv' /\ who' \in [Fds -> 0..MaxId] /\ inbox' \in [Fds -> Seq(OutType)]
    BY <2>0, <2>1, BoxesStay
  <2>3. PackInv(pack)'
    <3>1. CASE ClientExit(s)
      <4>1. who[s] \in Ids
        BY <3>1 DEF ClientExit, LtInv, TypeOK, Ids
      <4>2. PICK p : p = Pack(0, who[s], 0, 0, FALSE) /\ pack' = p
        BY <3>1 DEF ClientExit
      <4>3. PackInv(p)'
        BY <4>1, <4>2, IdAssumption DEF PackInv, Pack, PACK, NamesAccount, NamesOther, Ids
      <4> QED BY <4>2, <4>3 DEF PackInv, Asker
    <3>2. CASE ~ClientExit(s)
      <4>1. pack' = pack
        BY <1>4, <3>2 DEF Accept, RecvEof, ClientClose
      <4> QED BY <2>0, <4>1 DEF LtInv, PackInv, Asker
    <3> QED BY <3>1, <3>2
  <2>4. UserType' /\ g' \in [Ids -> CacheType]
    <3>1. CASE RecvEof(s)
      BY <3>1, EofUser, EofCache
    <3>2. CASE ~RecvEof(s)
      <4>1. user' = user /\ g' = g
        BY <1>4, <3>2 DEF Accept, ClientExit, ClientClose, tables
      <4> QED BY <4>1 DEF LtInv, TypeOK, UserType, CacheType
    <3> QED BY <3>1, <3>2
  <2>5. conn' \in ConnType
    <3>1. \E x \in {"free", "open", "closed", "reset"} : conn' = [conn EXCEPT ![s] = x]
      BY <1>4 DEF Accept, RecvEof, ClientExit, ClientClose
    <3> QED BY <3>1 DEF LtInv, TypeOK, ConnType
  <2>6. mysql' \in BOOLEAN /\ left' \in 0..MaxEvents
    <3>1. left' = left \/ (left > 0 /\ left' = left - 1)
      BY <1>4 DEF Accept, RecvEof, ClientExit, ClientClose
    <3>2. mysql' = mysql \/ mysql' = ~FALSE
      BY <1>4 DEF Accept, RecvEof, ClientExit, ClientClose, Closed
    <3>3. left \in 0..MaxEvents /\ mysql \in BOOLEAN
      BY DEF LtInv, TypeOK
    <3>4. left' \in 0..MaxEvents
      BY <3>1, <3>3, BoundAssumption
    <3>5. mysql' \in BOOLEAN
      BY <3>2, <3>3
    <3> QED BY <3>4, <3>5
  <2>7. friends' \subseteq Ids \X Ids /\ GroupType' /\ CountType' /\ NameType' /\ FileType'
    BY <2>0 DEF LtInv, TypeOK, GroupType, CountType, NameType, FileType, nameVars, fileVars, chatVars
  <2>8. off' \in [Ids -> Seq(OutType)] /\ pc' \in {"run", "down"}
        /\ asked' \subseteq Ids \X Ids /\ accepted' \subseteq Ids \X Ids
    BY <2>0 DEF LtInv, TypeOK
  <2>9. TypeOK'
    BY <2>2, <2>3, <2>4, <2>5, <2>6, <2>7, <2>8
       DEF TypeOK, UserType, GroupType, CountType, NameType, FileType, ConnType, CacheType, PackInv
  <2> QED BY <2>2, <2>3, <2>9 DEF LtInv
<1> QED BY <1>1, <1>2, <1>3, <1>4, NextCases

\* The types, and of every packet that is held or replayed that it names accounts
\* and people who asked or agreed.
THEOREM LtTypeCorrect == Spec => []TypeOK
<1>1. Init => LtInv
  BY LtInvInit
<1>2. LtInv /\ [Next]_vars => LtInv'
  BY LtInvNext
<1>3. LtInv => TypeOK
  BY DEF LtInv
<1> QED BY <1>1, <1>2, <1>3, PTL DEF Spec

LEMMA LtInvHolds == Spec => []LtInv
<1>1. Init => LtInv
  BY LtInvInit
<1>2. LtInv /\ [Next]_vars => LtInv'
  BY LtInvNext
<1> QED BY <1>1, <1>2, PTL DEF Spec

-----------------------------------------------------------------------------
(* Groups and friends                                                      *)

\* What the steps leave alone that deal with no packet.
LEMMA OtherSteps ==
  ASSUME LtInv, [Next]_vars
  PROVE  \/ Dealt
         \/ UNCHANGED <<friends, groups, g_meber, asked, accepted, nsent>> /\ Restart
         \/ /\ UNCHANGED <<friends, groups, g_meber, asked, accepted, nsent, nhanded, off>>
            /\ pc' = "run" => pc = "run"
            /\ UNCHANGED <<user, g>> \/ \E s \in Fds : RecvEof(s)
<1>1. CASE UNCHANGED vars \/ Kill
  BY <1>1 DEF vars, Kill, tables, chatVars, askVars
<1>2. CASE Restart
  BY <1>2 DEF Restart, askVars
<1>3. ASSUME NEW s \in Fds, Accept(s) \/ ClientClose(s)
      PROVE  /\ UNCHANGED <<friends, groups, g_meber, asked, accepted, nsent, nhanded, off>>
             /\ UNCHANGED <<user, g, pc>>
  BY <1>3 DEF Accept, ClientClose, tables, chatVars, askVars
<1>4. ASSUME NEW s \in Fds, ClientExit(s)
      PROVE  /\ UNCHANGED <<friends, groups, g_meber, asked, accepted, nsent, nhanded, off>>
             /\ UNCHANGED <<user, g, pc>>
  BY <1>4 DEF ClientExit, tables, chatVars, askVars
<1>5. ASSUME NEW s \in Fds, RecvEof(s)
      PROVE  UNCHANGED <<friends, groups, g_meber, asked, accepted, nsent, nhanded, off, pc>>
  BY <1>5 DEF RecvEof, chatVars, askVars
<1> QED BY <1>1, <1>2, <1>3, <1>4, <1>5, NextCases

LEMMA MembersNext ==
  ASSUME LtInv, MembersOfGroups, [Next]_vars
  PROVE  MembersOfGroups'
<1>0. CASE UNCHANGED <<groups, g_meber>>
  BY <1>0 DEF MembersOfGroups
<1>1. CASE Dealt
  <2>1. PICK c, s, p : Dealing(c, s, p)
    BY <1>1 DEF Dealt
  <2> DEFINE a == p.account
             gr == p.send_account
  <2>2. /\ PackInv(p)' /\ GroupStep(p) /\ groups \in Seq(0..MaxId)
        /\ Len(groups) \in Nat /\ DOMAIN groups = 1..Len(groups)
        /\ g_meber \subseteq Ids \X Ids \X (0..2)
    BY <2>1, GroupSteps, GroupIds DEF Dealing, LtInv, TypeOK
  <2>9. \A r \in g_meber : r[3] \in 0..2 /\ r = <<r[1], r[2], r[3]>>
    BY <2>2
  <2>3. CASE p.type = 10 /\ MYSQL_creat_group(a) /\ ~UNCHANGED <<groups, g_meber>>
    <3> DEFINE n == Len(groups) + 1
    <3>1. a \in Ids /\ a # 0 /\ a \in 0..MaxId
      BY <2>2, <2>3 DEF PackInv, NamesAccount, Ids
    <3>2. groups' = Append(groups, a) /\ g_meber' \subseteq g_meber \cup {<<n, a, 1>>}
      BY <2>3 DEF MYSQL_creat_group, Written
    <3>3. /\ n \notin DOMAIN groups /\ n \in DOMAIN groups' /\ groups'[n] = a
          /\ \A i \in DOMAIN groups : i \in DOMAIN groups' /\ groups'[i] = groups[i]
      BY <2>2, <3>1, <3>2, AppendProperties, LenProperties
    <3>4. \A r \in g_meber : r[1] # n
      BY <3>3 DEF MembersOfGroups
    <3> HIDE DEF n
    <3>5. ASSUME NEW r \in g_meber'
          PROVE  /\ r[1] \in DOMAIN groups' /\ groups'[r[1]] # 0
                 /\ r[3] = 1 => groups'[r[1]] = r[2]
      <4>1. CASE r \in g_meber
        BY <3>3, <4>1 DEF MembersOfGroups
      <4>2. CASE r = <<n, a, 1>>
        BY <3>1, <3>3, <4>2
      <4> QED BY <3>2, <4>1, <4>2
    <3>6. ASSUME NEW r \in g_meber', NEW q \in g_meber', q[1] = r[1], q[2] = r[2] PROVE q = r
      <4>1. CASE r[1] = n
        BY <3>2, <3>4, <3>6, <4>1
      <4>2. CASE r[1] # n
        <5>1. r # <<n, a, 1>> /\ q # <<n, a, 1>>
          BY <3>6, <4>2
        <5>2. r \in g_meber /\ q \in g_meber
          BY <3>2, <5>1
        <5> QED BY <3>6, <5>2 DEF MembersOfGroups
      <4> QED BY <4>1, <4>2
    <3> QED BY <3>5, <3>6 DEF MembersOfGroups
  <2>4. ASSUME NEW x, MYSQL_find_group(gr), ~MYSQL_find_group_member(x, gr),
               g_meber' = g_meber \cup {<<gr, x, 0>>}, groups' = groups
        PROVE  MembersOfGroups'
    <3>1. \A r \in g_meber : ~(r[1] = gr /\ r[2] = x)
      BY <2>4, <2>9 DEF MYSQL_find_group_member
    <3>2. gr \in DOMAIN groups /\ groups[gr] # 0
      BY <2>4 DEF MYSQL_find_group
    <3>3. ASSUME NEW r \in g_meber'
          PROVE  /\ r[1] \in DOMAIN groups' /\ groups'[r[1]] # 0
                 /\ r[3] = 1 => groups'[r[1]] = r[2]
      <4>1. CASE r \in g_meber
        BY <2>4, <4>1 DEF MembersOfGroups
      <4>2. CASE r = <<gr, x, 0>>
        BY <2>4, <3>2, <4>2
      <4> QED BY <2>4, <4>1, <4>2
    <3>4. ASSUME NEW r \in g_meber', NEW q \in g_meber', q[1] = r[1], q[2] = r[2] PROVE q = r
      <4>1. CASE r = <<gr, x, 0>>
        <5>1. q \notin g_meber
          BY <3>1, <3>4, <4>1
        <5> QED BY <2>4, <4>1, <5>1
      <4>2. CASE r \in g_meber
        <5>1. q # <<gr, x, 0>>
          BY <3>1, <3>4, <4>2
        <5>2. q \in g_meber
          BY <2>4, <5>1
        <5> QED BY <3>4, <4>2, <5>2 DEF MembersOfGroups
      <4> QED BY <2>4, <4>1, <4>2
    <3> QED BY <3>3, <3>4 DEF MembersOfGroups
  <2>5. CASE g_meber' \subseteq g_meber /\ groups' = groups
    BY <2>5 DEF MembersOfGroups
  <2>6. CASE p.type = 13 /\ MYSQL_dele_group(gr) /\ ~UNCHANGED <<groups, g_meber>>
    <3>1. /\ g_meber' = {r \in g_meber : r[1] # gr}
          /\ groups' = groups \/ groups' = [groups EXCEPT ![gr] = 0]
      BY <2>6 DEF MYSQL_dele_group, Written
    <3>2. \A i \in DOMAIN groups : i # gr => i \in DOMAIN groups' /\ groups'[i] = groups[i]
      BY <3>1
    <3> QED BY <3>1, <3>2 DEF MembersOfGroups
  <2>7. CASE /\ p.type = 17 /\ MYSQL_find_group_member(p.set, gr)
             /\ g_meber' = (g_meber \ {<<gr, p.set, k>> : k \in 0..2}) \cup {<<gr, p.set, 2>>}
             /\ groups' = groups
    <3> DEFINE x == p.set
    <3>0. PICK k \in 0..2 : <<gr, x, k>> \in g_meber
      BY <2>7 DEF MYSQL_find_group_member
    <3>1. gr \in DOMAIN groups /\ groups[gr] # 0
      BY <3>0 DEF MembersOfGroups
    <3>2. \A r \in g_meber' : \/ r = <<gr, x, 2>>
                              \/ r \in g_meber /\ ~(r[1] = gr /\ r[2] = x)
      BY <2>7, <2>9
    <3> HIDE DEF x
    <3>3. ASSUME NEW r \in g_meber'
          PROVE  /\ r[1] \in DOMAIN groups' /\ groups'[r[1]] # 0
                 /\ r[3] = 1 => groups'[r[1]] = r[2]
      BY <2>7, <3>1, <3>2 DEF MembersOfGroups
    <3>4. ASSUME NEW r \in g_meber', NEW q \in g_meber', q[1] = r[1], q[2] = r[2] PROVE q = r
      <4>1. CASE r = <<gr, x, 2>>
        BY <3>2, <3>4, <4>1
      <4>2. CASE r \in g_meber /\ ~(r[1] = gr /\ r[2] = x)
        <5>1. q # <<gr, x, 2>>
          BY <3>4, <4>2
        <5>2. q \in g_meber
          BY <3>2, <5>1
        <5> QED BY <3>4, <4>2, <5>2 DEF MembersOfGroups
      <4> QED BY <3>2, <4>1, <4>2
    <3> QED BY <3>3, <3>4 DEF MembersOfGroups
  <2>8. CASE /\ MYSQL_find_group_member(a, gr) /\ ~MYSQL_find_group_member(p.set, gr)
             /\ g_meber' = g_meber \cup {<<gr, p.set, 0>>} /\ groups' = groups
    <3>1. MYSQL_find_group(gr)
      BY <2>8 DEF MYSQL_find_group_member, MYSQL_find_group, MembersOfGroups
    <3> QED BY <2>4, <2>8, <3>1
  <2> QED BY <1>0, <2>2, <2>3, <2>4, <2>5, <2>6, <2>7, <2>8 DEF GroupStep
<1> QED BY <1>0, <1>1, OtherSteps

\* A member row belongs to a group that exists, a member has one row and flag 1 is
\* the owner's, whatever statements MySQL refuses and whatever is replayed.
THEOREM GroupsConsistent == Spec => []MembersOfGroups
<1>1. Init => MembersOfGroups
  BY DEF Init, MembersOfGroups
<1>2. LtInv /\ MembersOfGroups /\ [Next]_vars => MembersOfGroups'
  BY MembersNext
<1> QED BY <1>1, <1>2, LtInvHolds, PTL DEF Spec

LEMMA FriendsNext ==
  ASSUME LtInv, FriendsAnswered, [Next]_vars
  PROVE  FriendsAnswered'
<1>0. ASSUME friends' \subseteq friends, asked \subseteq asked', accepted \subseteq accepted'
      PROVE  FriendsAnswered'
  BY <1>0 DEF FriendsAnswered
<1>1. CASE Dealt
  <2>1. PICK c, s, p : Dealing(c, s, p) /\ accepted \subseteq accepted'
    BY <1>1 DEF Dealt
  <2>2. /\ PackInv(p)' /\ deal(c, s, p) /\ Frame(p.type) /\ asked \subseteq asked'
    BY <2>1, DealFrame DEF Dealing
  <2>3. CASE p.type = 41 /\ Agreed(p)
    <3> DEFINE a == p.account
               b == p.send_account
    <3>1. friends' \subseteq friends \cup {<<a, b>>, <<b, a>>}
      BY <2>2, <2>3 DEF deal, recv_addfr_PACK, MYSQL_addfriend_store
    <3>2. <<a, b>> \in accepted' /\ \E x \in Ids : <<b, x>> \in asked'
      BY <2>2, <2>3 DEF PackInv, Asker, Agreed
    <3>3. ASSUME NEW r \in friends'
          PROVE  \E q \in {<<r[1], r[2]>>, <<r[2], r[1]>>} :
                   q \in accepted' /\ \E x \in Ids : <<q[2], x>> \in asked'
      <4>1. CASE r \in friends
        BY <2>1, <2>2, <4>1 DEF FriendsAnswered
      <4>2. CASE r \in {<<a, b>>, <<b, a>>}
        <5>1. <<a, b>> \in {<<r[1], r[2]>>, <<r[2], r[1]>>} /\ <<a, b>>[2] = b
          BY <4>2
        <5> QED BY <3>2, <5>1
      <4> QED BY <3>1, <4>1, <4>2
    <3> QED BY <3>3 DEF FriendsAnswered
  <2>4. CASE p.type = 41 /\ ~Agreed(p)
    <3>1. friends' = friends
      BY <2>2, <2>4 DEF deal, recv_addfr_PACK
    <3> QED BY <1>0, <2>1, <2>2, <3>1
  <2>5. CASE p.type = 9
    <3>1. friends' \subseteq friends
      BY <2>2, <2>5 DEF deal, deal_dele_fri, MYSQL_dele_fri, Written
    <3> QED BY <1>0, <2>1, <2>2, <3>1
  <2>6. CASE p.type \notin {9, 41}
    BY <1>0, <2>1, <2>2, <2>6 DEF Frame
  <2> QED BY <2>3, <2>4, <2>5, <2>6
<1>2. CASE UNCHANGED <<friends, asked, accepted>>
  BY <1>0, <1>2
<1> QED BY <1>1, <1>2, OtherSteps

\* Nobody gets a friend who did not ask or agree: not by a replay of the answer,
\* not by an answer to a packet that is no request.
THEOREM FriendsAgreed == Spec => []FriendsAnswered
<1>1. Init => FriendsAnswered
  <2> SUFFICES ASSUME Init, NEW r \in friends
               PROVE  \E q \in {<<r[1], r[2]>>, <<r[2], r[1]>>} :
                        q \in accepted /\ \E b \in Ids : <<q[2], b>> \in asked
    BY DEF FriendsAnswered
  <2>1. PICK p \in Befriended : r = p \/ r = <<p[2], p[1]>>
    BY DEF Init
  <2>2. p \in accepted /\ <<p[2], p[1]>> \in asked /\ p = <<p[1], p[2]>> /\ p[1] \in Ids
    BY FriendsAssumption DEF Init
  <2>3. p \in {<<r[1], r[2]>>, <<r[2], r[1]>>}
    BY <2>1, <2>2
  <2> QED BY <2>2, <2>3
<1>2. LtInv /\ FriendsAnswered /\ [Next]_vars => FriendsAnswered'
  BY FriendsNext
<1> QED BY <1>1, <1>2, LtInvHolds, PTL DEF Spec

-----------------------------------------------------------------------------
(* Who is online, and on which descriptor                                  *)

\* What dealing with a packet does to the account b.
LEMMA UserDealt ==
  ASSUME NEW c, NEW s, NEW p, Dealing(c, s, p), NEW b \in DOMAIN user'
  PROVE  \/ b \in DOMAIN user /\ user'[b] = user[b]
         \/ p.type = 1 /\ p.flag /\ b = p.account /\ b \in DOMAIN user
         \/ p.type = 2 /\ user'[b].online = 0
<1> DEFINE R == [online : 0..1, sock_fd : Fd0]
           e == [online |-> 0, sock_fd |-> 0]
<1>0. /\ deal(c, s, p) /\ Frame(p.type) /\ user \in Seq(R) /\ 0 \in Fd0
      /\ Len(user) \in Nat /\ DOMAIN user = 1..Len(user)
  BY DealFrame, AccountIds DEF Dealing, LtInv, TypeOK, Fd0
<1>1. CASE user' = user
  BY <1>1
<1>2. CASE p.type = 1 /\ user' # user
  <2>1. p.flag /\ Account(p.account)
        /\ user' = [user EXCEPT ![p.account] = [online |-> 1, sock_fd |-> s]]
    BY <1>0, <1>2 DEF deal, deal_login, MYSQL_login, Written
  <2> QED BY <1>2, <2>1 DEF Account
<1>3. CASE p.type = 2 /\ user' # user
  <2>1. user' = Append(user, e)
    BY <1>0, <1>3 DEF deal, deal_regist, MYSQL_regist, Written
  <2>2. e \in R /\ e.online = 0
    BY <1>0
  <2> HIDE DEF e, R
  <2>3. /\ user' \in Seq(R) /\ Len(user') = Len(user) + 1 /\ user'[Len(user) + 1] = e
        /\ \A i \in 1..Len(user) : user'[i] = user[i]
    BY <1>0, <2>1, <2>2, AppendProperties
  <2>4. DOMAIN user' = 1..Len(user')
    BY <2>3, LenProperties
  <2>5. b \in 1..Len(user) \/ b = Len(user) + 1
    BY <1>0, <2>3, <2>4
  <2> QED BY <1>0, <1>3, <2>2, <2>3, <2>5
<1> QED BY <1>0, <1>1, <1>2, <1>3 DEF Frame

\* The descriptors in a cache that is filled are those of the table.
LEMMA LoadedFd ==
  ASSUME TypeOK, NEW a \in Ids, NEW gr, NEW on, NEW fd, NEW m \in Ids,
         m \in Loaded(a, gr, on, fd).use_account, Account(m),
         m \in g[a].use_account => g[a].use_fd[m] = user[m].sock_fd
  PROVE  Loaded(a, gr, on, fd).use_fd[m] = user[m].sock_fd
<1> DEFINE M == MYSQL_group_mes(gr)
           uf == [x \in Ids |-> IF x \notin M THEN g[a].use_fd[x]
                                ELSE IF Account(x) THEN MYSQL_find_fd(x) ELSE fd]
<1>1. /\ Loaded(a, gr, on, fd).use_account = g[a].use_account \cup M
      /\ Loaded(a, gr, on, fd).use_fd = uf
  BY DEF Loaded
<1> HIDE DEF M
<1>2. uf[m] = IF m \notin M THEN g[a].use_fd[m] ELSE IF Account(m) THEN MYSQL_find_fd(m) ELSE fd
  OBVIOUS
<1> HIDE DEF uf
<1> QED BY <1>1, <1>2 DEF MYSQL_find_fd

LEMMA CachedNext ==
  ASSUME LtInv, CachedFd, [Next]_vars
  PROVE  CachedFd'
<1> SUFFICES ASSUME NEW i \in Ids, NEW b \in g'[i].use_account, b \in DOMAIN user', user'[b].online = 1
             PROVE  g'[i].use_fd[b] = user'[b].sock_fd
  BY DEF CachedFd
<1>0. ASSUME b \in DOMAIN user, user'[b] = user[b], g'[i].use_account = g[i].use_account,
             g'[i].use_fd[b] = g[i].use_fd[b]
      PROVE  g'[i].use_fd[b] = user'[b].sock_fd
  BY <1>0 DEF CachedFd
<1>1. CASE Dealt
  <2>1. PICK c, s, p : Dealing(c, s, p)
    BY <1>1 DEF Dealt
  <2> DEFINE a == p.account
             gr == p.send_account
  <2>2. /\ deal(c, s, p) /\ Frame(p.type) /\ PackInv(p)' /\ g \in [Ids -> CacheType] /\ TypeOK
    BY <2>1, DealFrame DEF Dealing, LtInv, TypeOK, CacheType
  <2>3. \/ b \in DOMAIN user /\ user'[b] = user[b]
        \/ p.type = 1 /\ p.flag /\ b = a /\ b \in DOMAIN user
        \/ p.type = 2 /\ user'[b].online = 0
    BY <2>1, UserDealt
  <2>4. CASE p.type \notin {1, 15}
    BY <1>0, <2>2, <2>3, <2>4 DEF Frame
  <2>5. CASE p.type = 1
    <3> DEFINE fd == IF Account(a) THEN user'[a].sock_fd ELSE 0
               k == Told(g[i], a, fd)
    <3>1. a \in Ids /\ g' = LoginCache(a, fd)
      BY <2>2, <2>5 DEF PackInv, NamesAccount, deal, deal_login
    <3>2. g'[i] = k
      BY <3>1 DEF LoginCache, Told
    <3>3. fd \in Fd0
      <4>1. CASE Account(a)
        <5>1. UserType' /\ (user' = user \/ user' = [user EXCEPT ![a] = [online |-> 1, sock_fd |-> s]])
          BY <2>1, <2>2, <2>5, UserStep DEF deal, deal_login, MYSQL_login, Written
        <5>2. a \in DOMAIN user'
          BY <4>1, <5>1 DEF Account
        <5>3. user' \in Seq([online : 0..1, sock_fd : Fd0])
          BY <5>1 DEF UserType
        <5>4. user'[a] \in [online : 0..1, sock_fd : Fd0]
          <6>1. a \in 1..Len(user')
            BY <5>2, <5>3, LenProperties
          <6> QED BY <5>3, <6>1, ElementOfSeq
        <5> QED BY <4>1, <5>4
      <4> QED BY <4>1 DEF Fd0
    <3> HIDE DEF fd
    <3>4. k.use_account = g[i].use_account /\ k.use_fd = [g[i].use_fd EXCEPT ![a] = fd]
      <4>1. g[i] \in CacheType
        BY <2>2
      <4> QED BY <3>1, <3>3, <4>1, CacheTold
    <3> HIDE DEF k
    <3>5. b \in DOMAIN user /\ b \in Ids
      BY <2>2, <2>3, <2>5, AccountIds
    <3>6. g[i].use_fd \in [Ids -> Fd0]
      BY <2>2 DEF CacheType
    <3>7. CASE b = a
      BY <3>2, <3>4, <3>5, <3>6, <3>7 DEF fd, Account
    <3>8. CASE b # a
      BY <1>0, <2>3, <2>5, <3>2, <3>4, <3>6, <3>8
    <3> QED BY <3>7, <3>8
  <2>6. CASE p.type = 15
    <3>1. a \in Ids /\ deal_chat_group(c, s, p) /\ b \in DOMAIN user /\ user' = user
      BY <2>2, <2>3, <2>6 DEF deal, PackInv, NamesAccount, Frame
    <3>2. \/ g' = [g EXCEPT ![a].group_account = TRUE]
          \/ \E on \in BOOLEAN, fd \in Fd0 :
               g' = [g EXCEPT ![a] = IF ~g[a].group_account THEN Loaded(a, gr, on, fd) ELSE @]
      <4>1. CASE ~g[a].group_account /\ ~MYSQL_find_group_member(a, gr)
        BY <3>1, <4>1 DEF deal_chat_group
      <4>2. CASE ~(~g[a].group_account /\ ~MYSQL_find_group_member(a, gr))
        BY <3>1, <4>2, Zenon DEF deal_chat_group
      <4> QED BY <4>1, <4>2
    <3>3. CASE g'[i] = g[i]
      BY <1>0, <3>1, <3>3
    <3>4. CASE i = a /\ g' = [g EXCEPT ![a].group_account = TRUE]
      <4>1. g'[i].use_account = g[i].use_account /\ g'[i].use_fd = g[i].use_fd
        BY <2>2, <3>4 DEF CacheType
      <4> QED BY <1>0, <3>1, <4>1
    <3>5. ASSUME NEW on, NEW fd, i = a, g'[i] = Loaded(a, gr, on, fd)
          PROVE  g'[i].use_fd[b] = user'[b].sock_fd
      <4>1. b \in Ids /\ Account(b)
        BY <2>2, <3>1, AccountIds DEF Account
      <4>2. b \in g[a].use_account => g[a].use_fd[b] = user[b].sock_fd
        BY <3>1, <3>5 DEF CachedFd
      <4>3. b \in Loaded(a, gr, on, fd).use_account
        BY <3>5
      <4> QED BY <2>2, <3>1, <3>5, <4>1, <4>2, <4>3, LoadedFd
    <3>6. CASE i # a
      <4>1. g'[i] = g[i]
        BY <2>2, <3>2, <3>6
      <4> QED BY <3>3, <4>1
    <3>7. CASE i = a
      <4>1. CASE g' = [g EXCEPT ![a].group_account = TRUE]
        BY <3>4, <3>7, <4>1
      <4>2. CASE \E on \in BOOLEAN, fd \in Fd0 :
                   g' = [g EXCEPT ![a] = IF ~g[a].group_account THEN Loaded(a, gr, on, fd) ELSE @]
        <5>1. PICK on \in BOOLEAN, fd \in Fd0 :
                   g' = [g EXCEPT ![a] = IF ~g[a].group_account THEN Loaded(a, gr, on, fd) ELSE @]
          BY <4>2
        <5>2. g'[i] = g[i] \/ g'[i] = Loaded(a, gr, on, fd)
          BY <2>2, <3>1, <3>7, <5>1
        <5> QED BY <3>3, <3>5, <3>7, <5>2
      <4> QED BY <3>2, <4>1, <4>2
    <3> QED BY <3>6, <3>7
  <2> QED BY <2>4, <2>5, <2>6
<1>2. CASE Restart
  <2>1. g' = [k \in Ids |-> NoCache]
    BY <1>2 DEF Restart, Started
  <2> QED BY <2>1 DEF NoCache
<1>3. CASE UNCHANGED <<user, g>>
  BY <1>0, <1>3
<1>4. CASE \E s \in Fds : RecvEof(s)
  <2>1. /\ DOMAIN user' = DOMAIN user /\ user'[b].sock_fd = user[b].sock_fd /\ user[b].online = 1
        /\ g'[i].use_fd = g[i].use_fd /\ g'[i].use_account = g[i].use_account
    BY <1>4, EofUser, EofCache
  <2> QED BY <2>1 DEF CachedFd
<1> QED BY <1>1, <1>2, <1>3, <1>4, OtherSteps

\* For a user the table shows as online, every cache names the descriptor of the
\* table, although a cache is filled only once (deal_login tells them all).
THEOREM CachesRight == Spec => []CachedFd
<1>1. Init => CachedFd
  BY DEF Init, CachedFd, NoCache
<1>2. LtInv /\ CachedFd /\ [Next]_vars => CachedFd'
  BY CachedNext
<1> QED BY <1>1, <1>2, LtInvHolds, PTL DEF Spec

-----------------------------------------------------------------------------
(* What waits for an account                                               *)

\* q holds the numbers h + 1 .. n in their order, and packets without a number.
Numbered(q) == {i \in DOMAIN q : q[i].n # 0}
Queued(q, h, n) == /\ {q[i].n : i \in Numbered(q)} = (h + 1)..n
                   /\ \A i, j \in Numbered(q) : i < j => q[i].n < q[j].n

\* Nobody who is online has chats waiting; no more are sent on than came.
KeptOnline == \A b \in DOMAIN user : user[b].online = 1 => nhanded[b] = nsent[b]
QueueInv == \A b \in Ids : Queued(off[b], nhanded[b], nsent[b]) /\ nhanded[b] <= nsent[b]
ChatInv == QueueInv /\ KeptOnline

\* QueueInv, queue by queue.
LEMMA QueueStep ==
  ASSUME \A b \in Ids : Queued(off'[b], nhanded'[b], nsent'[b]) /\ nhanded'[b] <= nsent'[b]
  PROVE  QueueInv'
BY DEF QueueInv, Queued, Numbered

LEMMA QueuedEmpty ==
  ASSUME NEW n \in Nat
  PROVE  Queued(<< >>, n, n)
<1>1. Numbered(<< >>) = {}
  BY DEF Numbered
<1> QED BY <1>1 DEF Queued

\* What Append does to the packets with a number.
LEMMA NumberedAppend ==
  ASSUME NEW q \in Seq(OutType), NEW o \in OutType
  PROVE  /\ o.n = 0 => Numbered(Append(q, o)) = Numbered(q)
         /\ o.n # 0 => Numbered(Append(q, o)) = Numbered(q) \cup {Len(q) + 1}
         /\ \A i \in Numbered(q) : Append(q, o)[i] = q[i] /\ i \in 1..Len(q)
         /\ Len(q) \in Nat /\ Append(q, o)[Len(q) + 1] = o
<1> DEFINE r == Append(q, o)
<1>1. /\ r \in Seq(OutType) /\ Len(r) = Len(q) + 1 /\ r[Len(q) + 1] = o
      /\ \A i \in 1..Len(q) : r[i] = q[i]
  BY AppendProperties
<1>2. Len(q) \in Nat /\ DOMAIN q = 1..Len(q) /\ DOMAIN r = 1..Len(r)
  BY <1>1, LenProperties
<1> HIDE DEF r
<1>3. DOMAIN r = DOMAIN q \cup {Len(q) + 1}
  BY <1>1, <1>2
<1>4. /\ o.n = 0 => Numbered(r) = Numbered(q)
      /\ o.n # 0 => Numbered(r) = Numbered(q) \cup {Len(q) + 1}
  BY <1>1, <1>2, <1>3 DEF Numbered
<1>5. \A i \in Numbered(q) : r[i] = q[i] /\ i \in 1..Len(q)
  BY <1>1, <1>2 DEF Numbered
<1> QED BY <1>1, <1>2, <1>4, <1>5 DEF r

LEMMA QueuedOther ==
  ASSUME NEW q \in Seq(OutType), NEW o \in OutType, o.n = 0, NEW h, NEW n, Queued(q, h, n)
  PROVE  Queued(Append(q, o), h, n)
<1> DEFINE r == Append(q, o)
<1>1. Numbered(r) = Numbered(q) /\ \A i \in Numbered(q) : r[i] = q[i]
  BY NumberedAppend
<1> HIDE DEF r
<1>2. {r[i].n : i \in Numbered(r)} = {q[i].n : i \in Numbered(q)}
  BY <1>1
<1>3. \A i, j \in Numbered(r) : i < j => r[i].n < r[j].n
  BY <1>1 DEF Queued
<1>4. Queued(r, h, n)
  BY <1>2, <1>3 DEF Queued
<1> QED BY <1>4 DEF r

LEMMA QueuedNext ==
  ASSUME NEW q \in Seq(OutType), NEW h \in Nat, NEW n \in Nat, h <= n, Queued(q, h, n),
         NEW o \in OutType, o.n = n + 1
  PROVE  Queued(Append(q, o), h, n + 1)
<1> DEFINE r == Append(q, o)
           l == Len(q) + 1
<1>1. /\ Numbered(r) = Numbered(q) \cup {l} /\ r[l] = o /\ Len(q) \in Nat
      /\ \A i \in Numbered(q) : r[i] = q[i] /\ i \in 1..Len(q)
  BY NumberedAppend
<1> HIDE DEF r
<1>2. \A i \in Numbered(q) : q[i].n \in (h + 1)..n /\ i \in Nat /\ i < l
  BY <1>1 DEF Queued
<1>3. l \in Nat
  BY <1>1
<1> HIDE DEF l
<1>4. {r[i].n : i \in Numbered(r)} = {q[i].n : i \in Numbered(q)} \cup {n + 1}
  BY <1>1
<1>5. (h + 1)..(n + 1) = ((h + 1)..n) \cup {n + 1}
  OBVIOUS
<1>6. ASSUME NEW i \in Numbered(r), NEW j \in Numbered(r), i < j PROVE r[i].n < r[j].n
  <2>1. CASE j \in Numbered(q)
    <3>1. i \in Numbered(q)
      BY <1>1, <1>2, <1>3, <1>6, <2>1
    <3> QED BY <1>1, <1>6, <2>1, <3>1 DEF Queued
  <2>2. CASE j = l
    <3>1. i \in Numbered(q)
      BY <1>1, <1>3, <1>6, <2>2
    <3>2. q[i].n \in (h + 1)..n
      BY <1>2, <3>1
    <3>3. r[i] = q[i] /\ r[j].n = n + 1
      BY <1>1, <2>2, <3>1
    <3> QED BY <3>2, <3>3
  <2> QED BY <1>1, <2>1, <2>2
<1>7. Queued(r, h, n + 1)
  BY <1>4, <1>5, <1>6 DEF Queued
<1> QED BY <1>7 DEF r

\* Only chats between friends have a number: what other handlers keep has none.
LEMMA OffOther ==
  ASSUME NEW c, NEW s, NEW p, Dealing(c, s, p), p.type \notin {1, 7}, NEW m \in Ids
  PROVE  \/ off'[m] = off[m]
         \/ \E o \in OutType : o.n = 0 /\ off'[m] = Append(off[m], o)
<1>0. /\ deal(c, s, p) /\ Frame(p.type) /\ off \in [Ids -> Seq(OutType)] /\ PackInv(p)' /\ 0 \in Fd0
      /\ p.account \in Nat /\ p.send_account \in Nat
  BY DealFrame, PackNumbers DEF Dealing, LtInv, TypeOK, Fd0
<1>1. ASSUME NEW x, NEW b, NEW first, NEW t \in Nat,
             SendOrKeep(c, x, b, first, Out(0, t, p.account, 0))
      PROVE  \/ off'[m] = off[m]
             \/ \E o \in OutType : o.n = 0 /\ off'[m] = Append(off[m], o)
  <2> DEFINE o == Out(0, t, p.account, 0)
  <2>1. o \in OutType /\ o.n = 0
    BY <1>0 DEF Out, OutType
  <2>2. off' = off \/ off' = [off EXCEPT ![b] = Append(off[b], o)]
    BY <1>1 DEF SendOrKeep, deal_fri_off
  <2> HIDE DEF o
  <2>3. off'[m] = off[m] \/ off'[m] = Append(off[m], o)
    BY <1>0, <2>2
  <2> QED BY <2>1, <2>3
<1>2. CASE off' = off
  BY <1>2
<1>3. CASE p.type = 4
  BY <1>0, <1>1, <1>2, <1>3 DEF deal, deal_addfriend
<1>4. CASE p.type = 20
  BY <1>0, <1>1, <1>2, <1>4 DEF deal, deal_join_user
<1>5. CASE p.type = 21
  BY <1>0, <1>1, <1>2, <1>5 DEF deal, deal_dele_user
<1>6. CASE p.type = 15
  <2> DEFINE a == p.account
             gr == p.send_account
             k == g'[a]
             To(x) == x \in k.use_account /\ k.use_fd[x] # s
             o == Out(0, 15, gr, 0)
             now == [x \in Ids |-> IF To(x) /\ ~k.use_online[x] THEN Append(off[x], o) ELSE off[x]]
             first == ~g[a].group_account
             name == IF group_send_account # gr THEN MYSQL_find_group(gr) ELSE group_send_name
  <2>0. deal_chat_group(c, s, p)
    BY <1>0, <1>6 DEF deal
  <2>1. off' = off \/ off' = now
    <3>1. CASE first /\ ~MYSQL_find_group_member(a, gr)
      BY <2>0, <3>1 DEF deal_chat_group
    <3>2. CASE ~(first /\ ~MYSQL_find_group_member(a, gr)) /\ p.flag
      BY <2>0, <3>2, Zenon DEF deal_chat_group
    <3>3. CASE ~(first /\ ~MYSQL_find_group_member(a, gr)) /\ ~p.flag /\ name
      BY <2>0, <3>3, Zenon DEF deal_chat_group
    <3>4. CASE ~(first /\ ~MYSQL_find_group_member(a, gr)) /\ ~p.flag /\ ~name
      BY <2>0, <3>4, Zenon DEF deal_chat_group
    <3> QED BY <3>1, <3>2, <3>3, <3>4
  <2>2. o \in OutType /\ o.n = 0
    BY <1>0 DEF Out, OutType
  <2>3. now[m] = off[m] \/ now[m] = Append(off[m], o)
    <3> HIDE DEF k, o
    <3> QED OBVIOUS
  <2> HIDE DEF now, o
  <2> QED BY <2>1, <2>2, <2>3
<1> QED BY <1>0, <1>2, <1>3, <1>4, <1>5, <1>6 DEF Frame

\* A chat to b is sent on when b is online, and kept with the next number when not.
LEMMA ChatDealt ==
  ASSUME NEW c, NEW s, NEW p, Dealing(c, s, p), p.type = 7, ChatInv
  PROVE  ChatInv'
<1> DEFINE b == p.send_account
           n == IF Account(b) THEN nsent[b] + 1 ELSE 0
           o == Out(0, 7, p.account, n)
<1>0. /\ deal_chat_fri(c, s, p) /\ user' = user /\ off \in [Ids -> Seq(OutType)] /\ TypeOK
      /\ nsent \in [Ids -> Nat] /\ nhanded \in [Ids -> Nat] /\ b \in Ids /\ p.account \in Nat /\ 0 \in Fd0
  <2>1. LtInv /\ PackInv(p)' /\ deal(c, s, p) /\ Frame(p.type)
    BY DealFrame DEF Dealing
  <2>2. deal_chat_fri(c, s, p) /\ user' = user
    BY <2>1 DEF deal, Frame
  <2>3. b \in Ids /\ p.account \in Nat
    BY <2>1, PackNumbers DEF PackInv, NamesOther
  <2> QED BY <2>1, <2>2, <2>3 DEF LtInv, TypeOK, Fd0
<1>1. CASE off' = off /\ UNCHANGED chatVars
  BY <1>0, <1>1 DEF ChatInv, QueueInv, KeptOnline, Queued, Numbered, chatVars
<1>2. CASE /\ SendOrKeep(c, b, b, << >>, o)
           /\ nsent' = [nsent EXCEPT ![b] = IF Account(b) THEN n ELSE @]
           /\ nhanded' = [nhanded EXCEPT ![b] = IF Account(b) /\ off' = off THEN n ELSE @]
  <2>1. n \in Nat /\ o \in OutType /\ o.n = n
    BY <1>0 DEF Out, OutType
  <2>2. /\ Queued(off[b], nhanded[b], nsent[b]) /\ nhanded[b] <= nsent[b]
        /\ off[b] \in Seq(OutType) /\ nhanded[b] \in Nat /\ nsent[b] \in Nat
    BY <1>0 DEF ChatInv, QueueInv
  <2>3. \/ off' = off /\ (Account(b) => user[b].online = 1)
        \/ off' = [off EXCEPT ![b] = Append(off[b], o)] /\ (Account(b) => user[b].online = 0)
    <3>1. PICK st \in Status(b) : IF st = 0 THEN deal_fri_off(b, o)
                                  ELSE off' = off
      BY <1>2 DEF SendOrKeep
    <3>2. Account(b) => st = user[b].online
      BY <3>1 DEF Status
    <3>3. Account(b) => user[b].online \in 0..1
      BY <1>0, AccountIds DEF Account
    <3> HIDE DEF o
    <3> QED BY <3>1, <3>2, <3>3 DEF deal_fri_off
  <2>4. off' = [off EXCEPT ![b] = Append(off[b], o)] => off' # off
    <3>1. Append(off[b], o) # off[b]
      <4>1. Len(Append(off[b], o)) = Len(off[b]) + 1 /\ Len(off[b]) \in Nat
        BY <2>1, <2>2, AppendProperties, LenProperties
      <4> QED BY <4>1
    <3> HIDE DEF o
    <3> QED BY <1>0, <3>1
  <2>5. \A x \in Ids \ {b} : off'[x] = off[x] /\ nsent'[x] = nsent[x] /\ nhanded'[x] = nhanded[x]
    BY <1>0, <1>2, <2>3
  <2> HIDE DEF o
  <2>6. CASE ~Account(b)
    <3>1. nsent' = nsent /\ nhanded' = nhanded /\ o.n = 0
      BY <1>0, <1>2, <2>1, <2>6
    <3>2. off'[b] = off[b] \/ off'[b] = Append(off[b], o)
      BY <1>0, <2>3
    <3>3. Queued(Append(off[b], o), nhanded[b], nsent[b])
      BY <2>1, <2>2, <3>1, QueuedOther
    <3>4. QueueInv'
      <4>1. \A x \in Ids : Queued(off'[x], nhanded'[x], nsent'[x]) /\ nhanded'[x] <= nsent'[x]
        BY <2>2, <2>5, <3>1, <3>2, <3>3 DEF ChatInv, QueueInv
      <4> QED BY <4>1, QueueStep
    <3> QED BY <1>0, <3>1, <3>4 DEF ChatInv, KeptOnline
  <2>7. CASE Account(b) /\ off' = off
    <3>1. user[b].online = 1
      BY <2>3, <2>4, <2>7
    <3>2. nhanded[b] = nsent[b]
      BY <2>7, <3>1 DEF ChatInv, KeptOnline, Account
    <3>3. nsent'[b] = nsent[b] + 1 /\ nhanded'[b] = nsent[b] + 1
      BY <1>0, <1>2, <2>7
    <3>4. Numbered(off[b]) = {}
      <4>1. (nhanded[b] + 1)..nsent[b] = {}
        BY <2>2, <3>2
      <4>2. {off[b][i].n : i \in Numbered(off[b])} = {}
        BY <2>2, <4>1 DEF Queued
      <4> QED BY <4>2
    <3>5. Queued(off[b], nsent[b] + 1, nsent[b] + 1)
      <4>1. (nsent[b] + 1 + 1)..(nsent[b] + 1) = {}
        BY <2>2
      <4> QED BY <3>4, <4>1 DEF Queued
    <3>6. QueueInv'
      <4>1. \A x \in Ids : Queued(off'[x], nhanded'[x], nsent'[x]) /\ nhanded'[x] <= nsent'[x]
        BY <2>2, <2>5, <2>7, <3>3, <3>5 DEF ChatInv, QueueInv
      <4> QED BY <4>1, QueueStep
    <3>7. KeptOnline'
      <4>1. DOMAIN user \subseteq Ids
        BY <1>0, AccountIds
      <4> QED BY <1>0, <2>5, <3>3, <4>1 DEF ChatInv, KeptOnline
    <3> QED BY <3>6, <3>7 DEF ChatInv
  <2>8. CASE Account(b) /\ off' # off
    <3>1. /\ user[b].online = 0 /\ off'[b] = Append(off[b], o)
          /\ nsent'[b] = nsent[b] + 1 /\ nhanded'[b] = nhanded[b] /\ o.n = nsent[b] + 1
      BY <1>0, <1>2, <2>1, <2>3, <2>8
    <3>2. Queued(Append(off[b], o), nhanded[b], nsent[b] + 1)
      BY <2>1, <2>2, <3>1, QueuedNext
    <3>3. QueueInv'
      <4>1. \A x \in Ids \ {b} : Queued(off'[x], nhanded'[x], nsent'[x]) /\ nhanded'[x] <= nsent'[x]
        BY <2>5 DEF ChatInv, QueueInv
      <4>2. Queued(off'[b], nhanded'[b], nsent'[b]) /\ nhanded'[b] <= nsent'[b]
        BY <2>2, <3>1, <3>2
      <4> QED BY <4>1, <4>2, QueueStep
    <3>4. KeptOnline'
      <4>1. DOMAIN user \subseteq Ids
        BY <1>0, AccountIds
      <4>2. user' = user /\ user[b].online # 1
        BY <1>0, <3>1
      <4> QED BY <2>5, <4>1, <4>2 DEF ChatInv, KeptOnline
    <3> QED BY <3>3, <3>4 DEF ChatInv
  <2> QED BY <2>6, <2>7, <2>8
<1> QED BY <1>0, <1>1, <1>2 DEF deal_chat_fri

LEMMA ChatNext ==
  ASSUME LtInv, ChatInv, [Next]_vars
  PROVE  ChatInv'
<1>0. /\ TypeOK /\ off \in [Ids -> Seq(OutType)] /\ nsent \in [Ids -> Nat] /\ nhanded \in [Ids -> Nat]
      /\ DOMAIN user \subseteq Ids
  BY AccountIds DEF LtInv, TypeOK
<1>1. CASE Dealt
  <2>1. PICK c, s, p : Dealing(c, s, p)
    BY <1>1 DEF Dealt
  <2>2. deal(c, s, p) /\ Frame(p.type) /\ PackInv(p)'
    BY <2>1, DealFrame DEF Dealing
  <2>3. \A x \in DOMAIN user' : \/ x \in DOMAIN user /\ user'[x] = user[x]
                                \/ p.type = 1 /\ x = p.account
                                \/ user'[x].online = 0
    BY <2>1, UserDealt
  <2>4. CASE p.type = 7
    BY <2>1, <2>4, ChatDealt
  <2>5. CASE p.type \notin {1, 7}
    <3>1. nsent' = nsent /\ nhanded' = nhanded
      BY <2>2, <2>5 DEF Frame, chatVars
    <3>2. ASSUME NEW m \in Ids PROVE Queued(off'[m], nhanded[m], nsent[m])
      <4>1. Queued(off[m], nhanded[m], nsent[m]) /\ off[m] \in Seq(OutType)
        BY <1>0 DEF ChatInv, QueueInv
      <4>2. \A o \in OutType : o.n = 0 => Queued(Append(off[m], o), nhanded[m], nsent[m])
        BY <4>1, QueuedOther
      <4>3. \/ off'[m] = off[m]
            \/ \E o \in OutType : o.n = 0 /\ off'[m] = Append(off[m], o)
        BY <2>1, <2>5, OffOther
      <4> QED BY <4>1, <4>2, <4>3
    <3>3. QueueInv'
      BY <3>1, <3>2 DEF ChatInv, QueueInv, Queued, Numbered
    <3>4. KeptOnline'
      BY <2>3, <2>5, <3>1 DEF ChatInv, KeptOnline
    <3> QED BY <3>3, <3>4 DEF ChatInv
  <2>6. CASE p.type = 1
    <3> DEFINE a == p.account
    <3>1. /\ a \in Ids /\ nsent' = nsent /\ nhanded' = [nhanded EXCEPT ![a] = nsent[a]]
          /\ off' = [off EXCEPT ![a] = << >>]
      BY <2>2, <2>6 DEF deal, deal_login, pro_off, PackInv, NamesAccount
    <3>2. off'[a] = << >> /\ nhanded'[a] = nsent[a] /\ nsent[a] \in Nat
      BY <1>0, <3>1
    <3>3. \A x \in Ids \ {a} : off'[x] = off[x] /\ nhanded'[x] = nhanded[x]
      BY <1>0, <3>1
    <3>4. Queued(<< >>, nsent[a], nsent[a])
      BY <3>2, QueuedEmpty
    <3>5. QueueInv'
      BY <3>1, <3>2, <3>3, <3>4 DEF ChatInv, QueueInv, Queued, Numbered
    <3>6. KeptOnline'
      BY <1>0, <2>3, <3>1, <3>2, <3>3 DEF ChatInv, KeptOnline
    <3> QED BY <3>5, <3>6 DEF ChatInv
  <2> QED BY <2>4, <2>5, <2>6
<1>2. CASE Restart
  <2>1. nsent' = nsent /\ nhanded' = nsent /\ off' = [i \in Ids |-> << >>]
    BY <1>2 DEF Restart, Started
  <2>2. KeptOnline'
    BY <2>1 DEF KeptOnline
  <2>3. \A m \in Ids : Queued(<< >>, nsent[m], nsent[m])
    BY <1>0, QueuedEmpty
  <2>4. QueueInv'
    BY <1>0, <2>1, <2>3 DEF QueueInv, Queued, Numbered
  <2> QED BY <2>2, <2>4 DEF ChatInv
<1>3. ASSUME UNCHANGED <<off, nsent, nhanded>>, UNCHANGED user \/ \E s \in Fds : RecvEof(s)
      PROVE  ChatInv'
  <2>1. QueueInv'
    BY <1>3 DEF ChatInv, QueueInv, Queued, Numbered
  <2>2. \A x \in DOMAIN user' : x \in DOMAIN user /\ (user'[x].online = 1 => user[x].online = 1)
    BY <1>3, EofUser
  <2>3. KeptOnline'
    BY <1>3, <2>2 DEF ChatInv, KeptOnline
  <2> QED BY <2>1, <2>3 DEF ChatInv
<1> QED BY <1>1, <1>2, <1>3, OtherSteps

\* Of the chats for an account none is lost, repeated or overtaken between the
\* list and the login that hands it over, in one life of the process.
THEOREM ChatsInOrder == Spec => []ChatQueueExact
<1>1. Init => ChatInv
  <2> SUFFICES ASSUME Init PROVE ChatInv
    OBVIOUS
  <2>1. /\ off = [i \in Ids |-> << >>] /\ nsent = [a \in Ids |-> 0] /\ nhanded = [a \in Ids |-> 0]
        /\ user = [a \in 1..Registered |-> [online |-> 0, sock_fd |-> 0]]
    BY DEF Init
  <2>2. Queued(<< >>, 0, 0)
    BY QueuedEmpty
  <2>3. QueueInv
    BY <2>1, <2>2 DEF QueueInv
  <2>4. KeptOnline
    BY <2>1 DEF KeptOnline
  <2> QED BY <2>3, <2>4 DEF ChatInv
<1>2. LtInv /\ ChatInv /\ [Next]_vars => ChatInv'
  BY ChatNext
<1>3. ChatInv => ChatQueueExact
  BY DEF ChatInv, QueueInv, Queued, Numbered, ChatQueueExact, KeptChats
<1> QED BY <1>1, <1>2, <1>3, LtInvHolds, PTL DEF Spec
=============================================================================
