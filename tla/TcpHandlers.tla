---------------------------- MODULE TcpHandlers -----------------------------
(***************************************************************************)
(* What the handlers of the TCP stack keep, one socket table at a time,    *)
(* for any number of machines, socket slots and segments and any limits.   *)
(* TcpProofs has the calls and the theorems.                               *)
(*                                                                         *)
(* First the accept queues.  Sound says what QueueExact leaves out and its *)
(* proof needs: a child is half-open or parked and only then refers to a   *)
(* listener, and only a listener has a queue.  What a segment or a call    *)
(* does to a table is one of seven changes, each of which keeps a sound    *)
(* table sound.                                                            *)
(*                                                                         *)
(* Then the limits.  Fits says of a socket that its counters and buffers   *)
(* are within their limits and, what TypeOK leaves out, that a socket      *)
(* which sends knows its peer; Wire says what segments under way carry.    *)
(***************************************************************************)
EXTENDS Tcp, FiniteSetTheorems, WellFoundedInduction, TLAPS

Below == {ss \in Nat \X Nat : ss[1] < ss[2]}

\* A set of numbers that is not empty has a least one.
LEMMA LeastNat ==
  ASSUME NEW S, S \subseteq Nat, S # {}
  PROVE  \E x \in S : \A y \in S : x <= y
<1>1. IsWellFoundedOn(Below, Nat)
  BY NatLessThanWellFounded, Zenon DEF OpToRel, Below
<1>2. PICK x \in S : \A y \in S : ~(<<y, x>> \in Below)
  BY <1>1, WFMin, Zenon
<1>3. \A m, n \in Nat : ~(<<n, m>> \in Below) => m <= n
  BY DEF Below
<1> QED BY <1>2, <1>3, Zenon

-----------------------------------------------------------------------------
(* Sockets. *)

Fields == {"used", "state", "rip", "rport", "lport", "iss", "snd", "una", "nxt", "wnd", "rto",
           "base", "rcv", "finr", "err", "lst", "q", "backlog", "queued"}

\* The control fields have their types; of the others only the presence matters.
IsSock(s) ==
  /\ s = [f \in Fields |-> s[f]]
  /\ s.used \in BOOLEAN /\ s.queued \in BOOLEAN
  /\ s.state \in States
  /\ s.lst \in Slots \cup {NoSlot}
  /\ s.q \in Seq(Slots)
  /\ s.backlog \in Nat

\* t is s further on in its connection: same owner, same queue.
Same(s, t) ==
  /\ IsSock(t)
  /\ t.used = s.used /\ t.lst = s.lst /\ t.queued = s.queued
  /\ t.q = s.q /\ t.backlog = s.backlog
  /\ t.state = s.state \/ (Connected(s) /\ Connected(t))

IsWork(w) == w = [h |-> w.h, s |-> w.s, out |-> w.out] /\ IsSock(w.s)

\* The slots are finitely many, the first is one of them and -1 is none.
LEMMA SlotsApart ==
  /\ IsFiniteSet(Slots)
  /\ 0 \in Slots
  /\ \A l \in Slots : l # NoSlot
BY SocketLimits, FS_Interval DEF Slots, NoSlot

\* A zero-initialised slot is a socket.
LEMMA BlankSock ==
  IsSock(TcpSock)
<1>1. TcpSock = [f \in Fields |-> TcpSock[f]]
  BY Zenon DEF TcpSock, Fields
<1> QED BY <1>1 DEF IsSock, TcpSock, States

\* Moving on within a connection is reflexive.
LEMMA SameSelf ==
  ASSUME NEW s, IsSock(s)
  PROVE  Same(s, s)
BY Zenon DEF Same

\* It is transitive, too.
LEMMA SameThen ==
  ASSUME NEW s, NEW t, NEW u, Same(s, t), Same(t, u)
  PROVE  Same(s, u)
BY Zenon DEF Same, Connected

\* The record a handler works on starts with the socket as it is.
LEMMA WorkingIs ==
  ASSUME NEW h, NEW s, IsSock(s)
  PROVE  IsWork(Working(h, s)) /\ Working(h, s).s = s
BY Zenon DEF Working, IsWork

\* tcp_send_seg() and what is built on it alone leave the socket as it is.
LEMMA SegKeeps ==
  ASSUME NEW w, IsWork(w), NEW seq, NEW ackno, NEW flags, NEW pay
  PROVE  /\ IsWork(tcp_send_seg(w, seq, ackno, flags, pay))
         /\ tcp_send_seg(w, seq, ackno, flags, pay).s = w.s
BY DEF IsWork, tcp_send_seg

\* tcp_push() moves snd_nxt and the timer only.
LEMMA PushKeeps ==
  ASSUME NEW w, IsWork(w)
  PROVE  IsWork(tcp_push(w)) /\ Same(w.s, tcp_push(w).s)
<1>1. PICK x, n, r : tcp_push(w) = [w EXCEPT !.out = x, !.s.nxt = n, !.s.rto = r]
  BY ZenonT(40) DEF tcp_push
<1> DEFINE t == [w.s EXCEPT !.nxt = n, !.rto = r]
<1>2. tcp_push(w) = [h |-> w.h, s |-> t, out |-> x]
  BY <1>1, Zenon DEF IsWork
<1>3. Same(w.s, t)
  BY ZenonT(40) DEF IsWork, Same, IsSock, Fields
<1> HIDE DEF t
<1> QED BY <1>2, <1>3 DEF IsWork, Same

\* tcp_send_ack() leaves the socket as it is.
LEMMA AckKeeps ==
  ASSUME NEW w, IsWork(w)
  PROVE  IsWork(tcp_send_ack(w)) /\ tcp_send_ack(w).s = w.s
BY SegKeeps DEF tcp_send_ack

\* tcp_send_fin() moves the sequence number and the timer only.
LEMMA FinKeeps ==
  ASSUME NEW w, IsWork(w)
  PROVE  IsWork(tcp_send_fin(w)) /\ Same(w.s, tcp_send_fin(w).s)
<1> DEFINE v == tcp_send_seg(w, w.s.nxt, rcv_ackno(w.s), {"ACK", "FIN"}, <<>>)
<1>1. IsWork(v) /\ v.s = w.s
  BY SegKeeps
<1>2. PICK n, r : tcp_send_fin(w) = [v EXCEPT !.s.nxt = n, !.s.rto = r]
  BY Zenon DEF tcp_send_fin
<1> HIDE DEF v
<1> DEFINE t == [v.s EXCEPT !.nxt = n, !.rto = r]
<1>3. tcp_send_fin(w) = [h |-> v.h, s |-> t, out |-> v.out]
  BY <1>1, <1>2, Zenon DEF IsWork
<1>4. Same(v.s, t)
  BY <1>1, ZenonT(40) DEF IsWork, Same, IsSock, Fields
<1> HIDE DEF t
<1> QED BY <1>1, <1>3, <1>4 DEF IsWork, Same

\* Replacing the socket of a working record.
LEMMA WorkWith ==
  ASSUME NEW w, IsWork(w), NEW t, IsSock(t)
  PROVE  IsWork([w EXCEPT !.s = t]) /\ [w EXCEPT !.s = t].s = t
BY DEF IsWork

\* tcp_retransmit() goes back to the first unacknowledged byte and no further.
LEMMA RetransmitKeeps ==
  ASSUME NEW w, IsWork(w)
  PROVE  IsWork(tcp_retransmit(w)) /\ Same(w.s, tcp_retransmit(w).s)
<1>1. CASE w.s.state = "SYN_SENT"
  BY <1>1, SegKeeps, SameSelf, SMTT(30) DEF tcp_retransmit, send_syn, IsWork
<1>2. CASE w.s.state # "SYN_SENT"
  <2> DEFINE t == [w.s EXCEPT !.nxt = w.s.una]
             v == [w EXCEPT !.s = t]
  <2>1. Same(w.s, t) /\ IsSock(t)
    BY Zenon DEF IsWork, Same, IsSock, Fields
  <2>2. [w EXCEPT !.s.nxt = w.s.una] = v
    BY Zenon DEF IsWork
  <2>3. tcp_retransmit(w) = tcp_push(v)
    BY <1>2, <2>2, Zenon DEF tcp_retransmit
  <2> HIDE DEF t
  <2>4. IsWork(v) /\ v.s = t
    BY <2>1, WorkWith, ZenonT(40)
  <2> HIDE DEF v
  <2> QED BY <2>1, <2>3, <2>4, PushKeeps, SameThen, Zenon
<1> QED BY <1>1, <1>2, Zenon

\* A pass of the loop of close() pushes and sends a FIN.
LEMMA FlushKeeps ==
  ASSUME NEW w, IsWork(w)
  PROVE  IsWork(FlushAndFin(w)) /\ Same(w.s, FlushAndFin(w).s)
<1>1. IsWork(tcp_push(w)) /\ Same(w.s, tcp_push(w).s)
  BY PushKeeps, Zenon
<1>2. IsWork(tcp_send_fin(tcp_push(w))) /\ Same(tcp_push(w).s, tcp_send_fin(tcp_push(w)).s)
  BY <1>1, FinKeeps, Zenon
<1> QED BY <1>1, <1>2, SameThen, SMTT(30) DEF FlushAndFin

\* An ACK frees what it covers and pushes what the window then allows.
LEMMA AcknowledgeKeeps ==
  ASSUME NEW w, IsWork(w), NEW ackno, NEW window
  PROVE  IsWork(acknowledge(w, ackno, window)) /\ Same(w.s, acknowledge(w, ackno, window).s)
<1> DEFINE bogus == ackno <= w.s.una \/ ackno > (w.s.una + Len(w.s.snd)) % SEQ
<1>1. PICK a, r : acknowledge(w, ackno, window) =
        IF bogus THEN w
        ELSE tcp_push([w EXCEPT !.s = [w.s EXCEPT !.snd = a, !.una = ackno, !.wnd = window,
                                                  !.rto = r]])
  BY Zenon DEF acknowledge
<1> DEFINE t == [w.s EXCEPT !.snd = a, !.una = ackno, !.wnd = window, !.rto = r]
           v == [w EXCEPT !.s = t]
<1>2. Same(w.s, t) /\ IsSock(t)
  BY ZenonT(40) DEF IsWork, Same, IsSock, Fields
<1>3. acknowledge(w, ackno, window) = IF bogus THEN w ELSE tcp_push(v)
  BY <1>1, Zenon
<1> HIDE DEF t, bogus
<1>4. IsWork(v) /\ v.s = t
  BY <1>2, WorkWith, Zenon
<1> HIDE DEF v
<1>5. IsWork(tcp_push(v)) /\ Same(w.s, tcp_push(v).s)
  BY <1>2, <1>4, PushKeeps, SameThen, Zenon
<1> QED BY <1>3, <1>5, SameSelf, ZenonT(40) DEF IsWork

\* A FIN moves a connection from ESTABLISHED to CLOSE_WAIT and no other socket.
LEMMA TakeFinKeeps ==
  ASSUME NEW w, IsWork(w), Connected(w.s), NEW g, NEW need
  PROVE  IsWork(TakeFin(w, g, need)) /\ Same(w.s, TakeFin(w, g, need).s)
<1> DEFINE fresh == "FIN" \in g.flags /\ ~w.s.finr
           yes == TRUE
           t == [w.s EXCEPT !.finr = yes, !.state = "CLOSE_WAIT"]
           u == [w EXCEPT !.s = t]
           v == IF fresh THEN u ELSE w
<1>1. TakeFin(w, g, need) =
        LET x == IF fresh THEN [w EXCEPT !.s.finr = yes, !.s.state = "CLOSE_WAIT"] ELSE w
        IN  IF fresh \/ need THEN tcp_send_ack(x) ELSE x
  BY Zenon DEF TakeFin
<1> HIDE DEF yes
<1>2. Same(w.s, t) /\ IsSock(t)
  BY ZenonT(40) DEF IsWork, Same, IsSock, Fields, Connected, States
<1>3. [w EXCEPT !.s.finr = yes, !.s.state = "CLOSE_WAIT"] = u
  BY Zenon DEF IsWork
<1>4. TakeFin(w, g, need) = IF fresh \/ need THEN tcp_send_ack(v) ELSE v
  BY <1>1, <1>3, Zenon
<1> HIDE DEF t
<1>5. IsWork(u) /\ u.s = t
  BY <1>2, WorkWith, Zenon
<1> HIDE DEF u, fresh
<1>6. IsWork(v) /\ Same(w.s, v.s)
  BY <1>2, <1>5, SameSelf, ZenonT(40) DEF IsWork
<1> HIDE DEF v
<1> QED BY <1>4, <1>6, AckKeeps, Zenon

\* A payload goes to the receive buffer or is dropped.
LEMMA TakePayloadKeeps ==
  ASSUME NEW w, IsWork(w), Connected(w.s), NEW g
  PROVE  IsWork(TakePayload(w, g)) /\ Same(w.s, TakePayload(w, g).s)
<1> DEFINE t == [w.s EXCEPT !.rcv = @ \o g.pay]
           u == [w EXCEPT !.s = t]
<1>1. Same(w.s, t) /\ IsSock(t) /\ Connected(t)
  BY ZenonT(40) DEF IsWork, Same, IsSock, Fields, Connected
<1>2. [w EXCEPT !.s.rcv = @ \o g.pay] = u
  BY Zenon DEF IsWork
<1>3. \/ TakePayload(w, g) = TakeFin(w, g, FALSE)
      \/ TakePayload(w, g) = TakeFin(u, g, TRUE)
      \/ TakePayload(w, g) = tcp_send_ack(w)
      \/ TakePayload(w, g) = w
  BY <1>2, Zenon DEF TakePayload
<1> HIDE DEF t
<1>4. IsWork(u) /\ u.s = t
  BY <1>1, WorkWith, Zenon
<1> HIDE DEF u
<1>5. \A yes : IsWork(TakeFin(u, g, yes)) /\ Same(w.s, TakeFin(u, g, yes).s)
  BY <1>1, <1>4, TakeFinKeeps, SameThen, Zenon
<1>6. \A no : IsWork(TakeFin(w, g, no)) /\ Same(w.s, TakeFin(w, g, no).s)
  BY TakeFinKeeps, Zenon
<1>7. IsWork(tcp_send_ack(w)) /\ Same(w.s, tcp_send_ack(w).s) /\ Same(w.s, w.s)
  BY AckKeeps, SameSelf, Zenon DEF IsWork
<1> QED BY <1>3, <1>5, <1>6, <1>7, Zenon

-----------------------------------------------------------------------------
(* Queues of distinct slots. *)

\* A queue with an element added at its end.
LEMMA AppendsOne ==
  ASSUME NEW q \in Seq(Slots), IsInjective(q), NEW i \in Slots, i \notin Range(q)
  PROVE  /\ Append(q, i) \in Seq(Slots)
         /\ IsInjective(Append(q, i))
         /\ Range(Append(q, i)) = Range(q) \cup {i}
<1> DEFINE r == Append(q, i)
<1>1. /\ r \in Seq(Slots) /\ DOMAIN q = 1 .. Len(q) /\ DOMAIN r = 1 .. Len(q) + 1
      /\ Len(q) \in Nat /\ r[Len(q) + 1] = i /\ \A k \in DOMAIN q : r[k] = q[k]
  OBVIOUS
<1> HIDE DEF r
<1>2. IsInjective(r)
  BY <1>1, SMTT(30) DEF IsInjective, Range
<1>3. Range(r) = Range(q) \cup {i}
  BY <1>1 DEF Range
<1> QED BY <1>1, <1>2, <1>3, Zenon DEF r

\* A queue whose head is taken.
LEMMA TakesHead ==
  ASSUME NEW q \in Seq(Slots), IsInjective(q), q # <<>>
  PROVE  /\ Head(q) \in Range(q) /\ Head(q) \in Slots
         /\ Tail(q) \in Seq(Slots)
         /\ IsInjective(Tail(q))
         /\ Range(Tail(q)) = Range(q) \ {Head(q)}
<1> DEFINE r == Tail(q)
<1>1. /\ r \in Seq(Slots) /\ DOMAIN q = 1 .. Len(q) /\ DOMAIN r = 1 .. Len(q) - 1
      /\ Len(q) \in Nat \ {0} /\ \A k \in DOMAIN r : r[k] = q[k + 1]
      /\ Head(q) = q[1] /\ Head(q) \in Slots
  OBVIOUS
<1> HIDE DEF r
<1>2. IsInjective(r)
  BY <1>1 DEF IsInjective
<1>3. Range(r) = Range(q) \ {Head(q)}
  <2>1. ASSUME NEW k \in DOMAIN r PROVE r[k] \in Range(q) \ {q[1]}
    BY <1>1, <2>1 DEF Range, IsInjective
  <2>2. ASSUME NEW k \in DOMAIN q, q[k] # q[1] PROVE q[k] \in Range(r)
    <3>1. k - 1 \in DOMAIN r /\ r[k - 1] = q[k]
      BY <1>1, <2>2, SMTT(30)
    <3> QED BY <3>1, Zenon DEF Range
  <2> QED BY <1>1, <2>1, <2>2, SMTT(30) DEF Range
<1>4. Head(q) \in Range(q)
  BY <1>1, 1 \in DOMAIN q, Zenon DEF Range
<1> QED BY <1>1, <1>2, <1>3, <1>4, ZenonT(40) DEF r

\* The gap accept_remove() closes.
LEMMA RemovesOne ==
  ASSUME NEW q \in Seq(Slots), IsInjective(q), NEW i \in Range(q)
  PROVE  /\ Unqueued(q, i) \in Seq(Slots)
         /\ IsInjective(Unqueued(q, i))
         /\ Range(Unqueued(q, i)) = Range(q) \ {i}
<1>1. PICK k \in 1 .. Len(q) : q[k] = i
  BY DEF Range
<1>2. {m \in DOMAIN q : q[m] = i} = {k}
  BY <1>1 DEF IsInjective
<1>3. Least({k}) = k
  BY <1>1 DEF Least
<1> DEFINE r == [n \in 1 .. Len(q) - 1 |-> IF n < k THEN q[n] ELSE q[n + 1]]
<1>4. Unqueued(q, i) = r
  BY <1>2, <1>3, Zenon DEF Unqueued
<1>5. /\ r \in Seq(Slots) /\ DOMAIN q = 1 .. Len(q) /\ DOMAIN r = 1 .. Len(q) - 1 /\ Len(q) \in Nat
      /\ \A m \in DOMAIN r : r[m] = IF m < k THEN q[m] ELSE q[m + 1]
  <2>1. Len(q) \in Nat /\ DOMAIN q = 1 .. Len(q) /\ \A m \in 1 .. Len(q) : q[m] \in Slots
    OBVIOUS
  <2>2. Len(q) - 1 \in Nat
    BY <1>1, <2>1
  <2>3. \A m \in 1 .. Len(q) - 1 : m \in 1 .. Len(q) /\ m + 1 \in 1 .. Len(q)
    BY <2>1
  <2>4. r \in [1 .. Len(q) - 1 -> Slots]
    BY <2>1, <2>3, Zenon
  <2>5. r \in Seq(Slots)
    BY <2>2, <2>4
  <2> QED BY <2>1, <2>5, Zenon
<1> HIDE DEF r
<1>6. IsInjective(r)
  <2>1. \A m, n \in DOMAIN q : q[m] = q[n] => m = n
    BY Zenon DEF IsInjective
  <2>2. ASSUME NEW m \in DOMAIN r, NEW n \in DOMAIN r, r[m] = r[n] PROVE m = n
    <3> DEFINE M == IF m < k THEN m ELSE m + 1
               N == IF n < k THEN n ELSE n + 1
    <3>1. M \in DOMAIN q /\ N \in DOMAIN q
      BY <1>5
    <3>2. r[m] = q[M] /\ r[n] = q[N]
      BY <1>5, Zenon
    <3>3. M = N
      BY <2>1, <2>2, <3>1, <3>2, Zenon
    <3> QED BY <1>1, <1>5, <3>3
  <2> QED BY <2>2, Zenon DEF IsInjective
<1>7. Range(r) = Range(q) \ {i}
  <2>1. ASSUME NEW m \in DOMAIN r PROVE r[m] \in Range(q) \ {i}
    BY <1>1, <1>5, <2>1, SMTT(30) DEF Range, IsInjective
  <2>2. ASSUME NEW m \in DOMAIN q, q[m] # i PROVE q[m] \in Range(r)
    <3>1. CASE m < k
      <4>1. m \in DOMAIN r /\ r[m] = q[m]
        BY <1>1, <1>5, <3>1
      <4> QED BY <4>1, Zenon DEF Range
    <3>2. CASE m > k
      <4>1. m - 1 \in DOMAIN r /\ r[m - 1] = q[m]
        BY <1>1, <1>5, <3>2
      <4> QED BY <4>1, Zenon DEF Range
    <3> QED BY <1>1, <1>5, <2>2, <3>1, <3>2
  <2> QED BY <1>5, <2>1, <2>2, SMTT(30) DEF Range
<1> QED BY <1>4, <1>5, <1>6, <1>7, ZenonT(40) DEF r

-----------------------------------------------------------------------------
(* Tables. *)

Children(tab, l) == {j \in Slots : tab[j].used /\ tab[j].lst = l}
Parked(tab, l) == {j \in Slots : /\ tab[j].used
                                 /\ tab[j].lst = l
                                 /\ tab[j].queued}

IsTable(tab) == tab = [i \in Slots |-> tab[i]] /\ \A i \in Slots : IsSock(tab[i])

Listens(s) == s.used /\ s.state = "LISTEN"

OnlyListenersQueue(tab) == \A i \in Slots : tab[i].q # <<>> => Listens(tab[i])

QueuesExact(tab) ==
  \A i \in Slots : Listens(tab[i]) =>
    /\ IsInjective(tab[i].q)
    /\ Range(tab[i].q) = Parked(tab, i)
    /\ Cardinality(Children(tab, i)) <= tab[i].backlog

\* A child is half-open until it is parked.
ChildrenOwned(tab) ==
  \A j \in Slots : tab[j].used /\ tab[j].lst # NoSlot =>
    /\ Listens(tab[tab[j].lst])
    /\ tab[j].state = "SYN_RCVD" \/ Connected(tab[j])
    /\ tab[j].state = "SYN_RCVD" <=> ~tab[j].queued

Sound(tab) ==
  IsTable(tab) /\ OnlyListenersQueue(tab) /\ QueuesExact(tab) /\ ChildrenOwned(tab)

\* A socket whose close() goes through the loop.
Closing(s) == s.used /\ Connected(s) /\ s.lst = NoSlot

\* A listener has finitely many children.
LEMMA ChildrenFinite ==
  ASSUME NEW tab, NEW l
  PROVE  IsFiniteSet(Children(tab, l)) /\ Cardinality(Children(tab, l)) \in Nat
<1>1. IsFiniteSet(Slots)
  BY SlotsApart, Zenon
<1> QED BY <1>1, FS_Subset, FS_CardinalityType, Zenon DEF Children

\* Sockets that only move on within their connections keep a table sound.
LEMMA AllMove ==
  ASSUME NEW tab, Sound(tab), NEW T, T = [i \in Slots |-> T[i]],
         \A j \in Slots : Same(tab[j], T[j])
  PROVE  Sound(T) /\ \A j \in Slots : Closing(tab[j]) => Closing(T[j])
<1>1. IsTable(T)
  BY Zenon DEF IsTable, Same
<1>2. \A j \in Slots :
        /\ Listens(T[j]) = Listens(tab[j])
        /\ T[j].used = tab[j].used /\ T[j].lst = tab[j].lst /\ T[j].queued = tab[j].queued
        /\ T[j].q = tab[j].q /\ T[j].backlog = tab[j].backlog
        /\ (T[j].state = "SYN_RCVD") = (tab[j].state = "SYN_RCVD")
        /\ Connected(T[j]) = Connected(tab[j])
  BY DEF Same, Listens, Connected
<1>3. \A i \in Slots : Children(T, i) = Children(tab, i) /\ Parked(T, i) = Parked(tab, i)
  BY <1>2, SMTT(30) DEF Children, Parked
<1>4. OnlyListenersQueue(T)
  BY <1>2, ZenonT(40) DEF Sound, OnlyListenersQueue
<1>5. QueuesExact(T)
  BY <1>2, <1>3, ZenonT(40) DEF Sound, QueuesExact
<1>6. ChildrenOwned(T)
  BY <1>1, <1>2, SMTT(30) DEF Sound, ChildrenOwned, IsTable, IsSock
<1>7. \A j \in Slots : Closing(tab[j]) => Closing(T[j])
  BY <1>2, Zenon DEF Closing
<1> QED BY <1>1, <1>4, <1>5, <1>6, <1>7, ZenonT(40) DEF Sound

\* One socket moves on within its connection.
LEMMA OneMoves ==
  ASSUME NEW tab, Sound(tab), NEW i \in Slots, NEW s, Same(tab[i], s)
  PROVE  /\ Sound([tab EXCEPT ![i] = s])
         /\ \A j \in Slots : Closing(tab[j]) => Closing([tab EXCEPT ![i] = s][j])
<1> DEFINE T == [tab EXCEPT ![i] = s]
<1>1. T = [j \in Slots |-> T[j]]
  BY Zenon DEF Sound, IsTable
<1>2. \A j \in Slots : Same(tab[j], T[j])
  BY SameSelf, Zenon DEF Sound, IsTable
<1> HIDE DEF T
<1>3. Sound(T) /\ \A j \in Slots : Closing(tab[j]) => Closing(T[j])
  BY <1>1, <1>2, AllMove, Zenon
<1> QED BY <1>3, Zenon DEF T

\* No listener, no child, no queue.
Outside(s) == s.q = <<>> /\ (s.used => s.state # "LISTEN" /\ s.lst = NoSlot)

\* A socket that has to do with no queue, replaced by another such socket.
LEMMA OneReplaced ==
  ASSUME NEW tab, Sound(tab), NEW i \in Slots, Outside(tab[i]), NEW s, IsSock(s), Outside(s)
  PROVE  Sound([tab EXCEPT ![i] = s])
<1> DEFINE T == [tab EXCEPT ![i] = s]
<1>1. T = [j \in Slots |-> T[j]] /\ T[i] = s /\ \A j \in Slots \ {i} : T[j] = tab[j]
  BY Zenon DEF Sound, IsTable
<1> HIDE DEF T
<1>2. IsTable(T)
  BY <1>1, Zenon DEF Sound, IsTable
<1>3. OnlyListenersQueue(T)
  BY <1>1, ZenonT(40) DEF Sound, OnlyListenersQueue, Outside
<1>4. \A l \in Slots : Children(T, l) = Children(tab, l) /\ Parked(T, l) = Parked(tab, l)
  <2> SUFFICES ASSUME NEW l \in Slots, NEW j \in Slots
               PROVE  /\ (T[j].used /\ T[j].lst = l) = (tab[j].used /\ tab[j].lst = l)
                      /\ (T[j].used /\ T[j].lst = l /\ T[j].queued) =
                           (tab[j].used /\ tab[j].lst = l /\ tab[j].queued)
    BY ZenonT(40) DEF Children, Parked
  <2>1. l # NoSlot
    BY SlotsApart, Zenon
  <2> QED BY <1>1, <2>1, ZenonT(40) DEF Outside
<1>5. QueuesExact(T)
  BY <1>1, <1>4 DEF Sound, QueuesExact, Outside, Listens
<1>6. ChildrenOwned(T)
  <2> SUFFICES ASSUME NEW j \in Slots, T[j].used, T[j].lst # NoSlot
               PROVE  /\ Listens(T[T[j].lst])
                      /\ T[j].state = "SYN_RCVD" \/ Connected(T[j])
                      /\ T[j].state = "SYN_RCVD" <=> ~T[j].queued
    BY Zenon DEF ChildrenOwned
  <2>1. j # i /\ T[j] = tab[j]
    BY <1>1, ZenonT(40) DEF Outside
  <2>2. Listens(tab[tab[j].lst]) /\ tab[j].lst \in Slots
    BY <2>1, SMTT(30) DEF Sound, ChildrenOwned, IsTable, IsSock
  <2>3. tab[j].lst # i
    BY <2>2, Zenon DEF Outside, Listens
  <2> QED BY <1>1, <2>1, <2>2, <2>3, ZenonT(40) DEF Sound, ChildrenOwned
<1> QED BY <1>2, <1>3, <1>5, <1>6, Zenon DEF Sound, T

\* A fresh socket and one that is not a listener nor a child are outside.
LEMMA OutsideOnes ==
  ASSUME NEW tab, Sound(tab), NEW i \in Slots
  PROVE  /\ ~tab[i].used => Outside(tab[i])
         /\ tab[i].state \in {"CLOSED", "SYN_SENT"} => Outside(tab[i])
         /\ tab[i].lst = NoSlot /\ ~Listens(tab[i]) => Outside(tab[i])
BY ZenonT(40) DEF Sound, OnlyListenersQueue, ChildrenOwned, Listens, Outside, Connected

\* socket_listen(): nobody refers to the socket yet.
LEMMA OneListens ==
  ASSUME NEW tab, Sound(tab), NEW i \in Slots, Outside(tab[i]),
         NEW s, IsSock(s), Listens(s), s.q = <<>>, s.lst = NoSlot
  PROVE  Sound([tab EXCEPT ![i] = s])
<1> DEFINE T == [tab EXCEPT ![i] = s]
<1>1. T = [j \in Slots |-> T[j]] /\ T[i] = s /\ \A j \in Slots \ {i} : T[j] = tab[j]
  BY Zenon DEF Sound, IsTable
<1> HIDE DEF T
<1>2. IsTable(T)
  BY <1>1, ZenonT(40) DEF Sound, IsTable
<1>3. OnlyListenersQueue(T)
  BY <1>1, ZenonT(40) DEF Sound, OnlyListenersQueue
<1>4. \A l \in Slots : Children(T, l) = Children(tab, l) /\ Parked(T, l) = Parked(tab, l)
  <2> SUFFICES ASSUME NEW l \in Slots, NEW j \in Slots
               PROVE  /\ (T[j].used /\ T[j].lst = l) = (tab[j].used /\ tab[j].lst = l)
                      /\ (T[j].used /\ T[j].lst = l /\ T[j].queued) =
                           (tab[j].used /\ tab[j].lst = l /\ tab[j].queued)
    BY ZenonT(40) DEF Children, Parked
  <2>1. l # NoSlot
    BY SlotsApart, Zenon
  <2> QED BY <1>1, <2>1, ZenonT(40) DEF Outside
<1>5. Children(T, i) = {} /\ Parked(T, i) = {}
  <2>1. \A j \in Slots : ~(tab[j].used /\ tab[j].lst = i)
    <3> SUFFICES ASSUME NEW j \in Slots, tab[j].used, tab[j].lst = i PROVE FALSE
      OBVIOUS
    <3>1. i # NoSlot
      BY SlotsApart, Zenon
    <3> QED BY <3>1, ZenonT(40) DEF Sound, ChildrenOwned, Outside, Listens
  <2> QED BY <1>4, <2>1, Zenon DEF Children, Parked
<1>6. QueuesExact(T)
  <2> SUFFICES ASSUME NEW l \in Slots, Listens(T[l])
               PROVE  /\ IsInjective(T[l].q) /\ Range(T[l].q) = Parked(T, l)
                      /\ Cardinality(Children(T, l)) <= T[l].backlog
    BY ZenonT(40) DEF QueuesExact
  <2>1. CASE l = i
    <3>1. IsInjective(<<>>) /\ Range(<<>>) = {}
      BY SMTT(30) DEF IsInjective, Range
    <3>2. Cardinality({}) = 0
      BY FS_EmptySet, Zenon
    <3>3. T[l].q = <<>> /\ T[l].backlog \in Nat /\ Children(T, l) = {} /\ Parked(T, l) = {}
      BY <1>1, <1>5, <2>1, ZenonT(40) DEF IsSock
    <3> QED BY <3>1, <3>2, <3>3
  <2>2. CASE l # i
    BY <1>1, <1>4, <2>2, ZenonT(40) DEF Sound, QueuesExact
  <2> QED BY <2>1, <2>2, ZenonT(40)
<1>7. ChildrenOwned(T)
  <2> SUFFICES ASSUME NEW j \in Slots, T[j].used, T[j].lst # NoSlot
               PROVE  /\ Listens(T[T[j].lst])
                      /\ T[j].state = "SYN_RCVD" \/ Connected(T[j])
                      /\ T[j].state = "SYN_RCVD" <=> ~T[j].queued
    BY Zenon DEF ChildrenOwned
  <2>1. j # i /\ T[j] = tab[j]
    BY <1>1, Zenon
  <2>2. Listens(tab[tab[j].lst]) /\ tab[j].lst \in Slots
    BY <2>1, ZenonT(40) DEF Sound, ChildrenOwned, IsTable, IsSock
  <2> QED BY <1>1, <2>1, <2>2 DEF Sound, ChildrenOwned
<1> QED BY <1>2, <1>3, <1>6, <1>7, ZenonT(40) DEF Sound, T

\* All children of a listener are pending, so the backlog test counts them all.
LEMMA PendingAreChildren ==
  ASSUME NEW tab, Sound(tab), NEW l \in Slots
  PROVE  Pending(tab, l) = Children(tab, l)
<1>1. l # NoSlot
  BY SlotsApart, Zenon
<1>2. \A j \in Slots : tab[j].used /\ tab[j].lst = l => tab[j].state = "SYN_RCVD" \/ tab[j].queued
  BY <1>1, ZenonT(40) DEF Sound, ChildrenOwned, IsTable, IsSock
<1> QED BY <1>2, ZenonT(40) DEF Pending, Children

\* handle_incoming_syn() spawns a child only below the backlog.
LEMMA OneSpawned ==
  ASSUME NEW tab, Sound(tab), NEW i \in Slots, ~tab[i].used, NEW l \in Slots, Listens(tab[l]),
         ~(listener_pending(tab, l) >= tab[l].backlog),
         NEW s, IsSock(s), s.used, s.state = "SYN_RCVD", s.lst = l, s.q = <<>>, ~s.queued
  PROVE  Sound([tab EXCEPT ![i] = s])
<1> DEFINE T == [tab EXCEPT ![i] = s]
<1>1. T = [j \in Slots |-> T[j]] /\ T[i] = s /\ \A j \in Slots \ {i} : T[j] = tab[j]
  BY Zenon DEF Sound, IsTable
<1> HIDE DEF T
<1>2. IsTable(T)
  BY <1>1, Zenon DEF Sound, IsTable
<1>3. OnlyListenersQueue(T)
  BY <1>1, ZenonT(40) DEF Sound, OnlyListenersQueue
<1>4. /\ \A k \in Slots : Parked(T, k) = Parked(tab, k)
      /\ \A k \in Slots \ {l} : Children(T, k) = Children(tab, k)
      /\ Children(T, l) = Children(tab, l) \cup {i} /\ i \notin Children(tab, l)
  BY <1>1 DEF Children, Parked
<1>5. Cardinality(Children(T, l)) <= tab[l].backlog
  <2>1. Cardinality(Children(tab, l)) \in Nat /\ IsFiniteSet(Children(tab, l))
    BY ChildrenFinite, Zenon
  <2>2. Cardinality(Children(T, l)) = Cardinality(Children(tab, l)) + 1
    <3> DEFINE S == Children(tab, l)
    <3>1. S \cup {i} = Children(T, l) /\ i \notin S /\ IsFiniteSet(S)
      BY <1>4, <2>1, Zenon
    <3> HIDE DEF S
    <3>2. Cardinality(S \cup {i}) = Cardinality(S) + 1
      BY <3>1, FS_AddElement, Zenon
    <3> QED BY <3>1, <3>2, Zenon DEF S
  <2>3. ~(Cardinality(Children(tab, l)) >= tab[l].backlog) /\ tab[l].backlog \in Nat
    BY PendingAreChildren, ZenonT(40) DEF listener_pending, Sound, IsTable, IsSock
  <2> QED BY <2>1, <2>2, <2>3, SMTT(30)
<1>6. QueuesExact(T)
  <2> SUFFICES ASSUME NEW k \in Slots, Listens(T[k])
               PROVE  /\ IsInjective(T[k].q) /\ Range(T[k].q) = Parked(T, k)
                      /\ Cardinality(Children(T, k)) <= T[k].backlog
    BY Zenon DEF QueuesExact
  <2>1. k # i /\ T[k] = tab[k]
    BY <1>1, Zenon DEF Listens
  <2> QED BY <1>4, <1>5, <2>1, ZenonT(40) DEF Sound, QueuesExact
<1>7. ChildrenOwned(T)
  <2> SUFFICES ASSUME NEW j \in Slots, T[j].used, T[j].lst # NoSlot
               PROVE  /\ Listens(T[T[j].lst])
                      /\ T[j].state = "SYN_RCVD" \/ Connected(T[j])
                      /\ T[j].state = "SYN_RCVD" <=> ~T[j].queued
    BY Zenon DEF ChildrenOwned
  <2>1. CASE j = i
    <3>1. l # i /\ T[l] = tab[l] /\ T[j] = s
      BY <1>1, <2>1, ZenonT(40) DEF Listens
    <3> QED BY <3>1, Zenon DEF IsSock
  <2>2. CASE j # i
    <3>1. T[j] = tab[j]
      BY <1>1, <2>2, Zenon
    <3>2. Listens(tab[tab[j].lst]) /\ tab[j].lst \in Slots
      BY <3>1, ZenonT(40) DEF Sound, ChildrenOwned, IsTable, IsSock
    <3>3. tab[j].lst # i
      BY <3>2, Zenon DEF Listens
    <3> QED BY <1>1, <3>1, <3>2, <3>3, SMTT(30) DEF Sound, ChildrenOwned
  <2> QED BY <2>1, <2>2, Zenon
<1> QED BY <1>2, <1>3, <1>6, <1>7, ZenonT(40) DEF Sound, T

\* The final ACK: the half-open child s is parked in its listener's queue.
LEMMA OneParked ==
  ASSUME NEW tab, Sound(tab), NEW i \in Slots, tab[i].used, tab[i].state = "SYN_RCVD",
         NEW l \in Slots, tab[i].lst = l,
         NEW s, IsSock(s), s.used, Connected(s), s.lst = l, s.q = tab[i].q, s.queued,
         NEW t, IsSock(t), t.used = tab[l].used, t.state = tab[l].state, t.lst = tab[l].lst,
         t.queued = tab[l].queued, t.backlog = tab[l].backlog, t.q = Append(tab[l].q, i)
  PROVE  l # i /\ Sound([tab EXCEPT ![l] = t, ![i] = s])
<1> DEFINE T == [tab EXCEPT ![l] = t, ![i] = s]
<1>0. l # NoSlot
  BY SlotsApart, Zenon
<1>1. Listens(tab[l]) /\ l # i /\ ~tab[i].queued
  <2>1. Listens(tab[l]) /\ ~tab[i].queued
    BY <1>0, Zenon DEF Sound, ChildrenOwned
  <2> QED BY <2>1, Zenon DEF Listens
<1>2. /\ T = [j \in Slots |-> T[j]] /\ T[i] = s /\ T[l] = t
      /\ \A j \in Slots \ {i, l} : T[j] = tab[j]
  BY <1>1, ZenonT(40) DEF Sound, IsTable
<1> HIDE DEF T
<1>3. IsTable(T)
  BY <1>2, ZenonT(40) DEF Sound, IsTable
<1>4. tab[i].q = <<>>
  BY Zenon DEF Sound, OnlyListenersQueue, Listens
<1>5. OnlyListenersQueue(T)
  <2> SUFFICES ASSUME NEW k \in Slots, T[k].q # <<>> PROVE Listens(T[k])
    BY Zenon DEF OnlyListenersQueue
  <2>1. k # i
    BY <1>2, <1>4, Zenon
  <2>2. CASE k = l
    BY <1>1, <1>2, <2>2, ZenonT(40) DEF Listens
  <2>3. CASE k # l
    BY <1>2, <2>1, <2>3, ZenonT(40) DEF Sound, OnlyListenersQueue
  <2> QED BY <2>2, <2>3, ZenonT(40)
<1>6. /\ \A k \in Slots : Children(T, k) = Children(tab, k)
      /\ \A k \in Slots \ {l} : Parked(T, k) = Parked(tab, k)
      /\ Parked(T, l) = Parked(tab, l) \cup {i} /\ i \notin Parked(tab, l)
  BY <1>1, <1>2 DEF Children, Parked
<1>7. /\ IsInjective(tab[l].q) /\ Range(tab[l].q) = Parked(tab, l) /\ tab[l].q \in Seq(Slots)
      /\ Cardinality(Children(tab, l)) <= tab[l].backlog
  BY <1>1, ZenonT(40) DEF Sound, QueuesExact, IsTable, IsSock
<1>8. IsInjective(t.q) /\ Range(t.q) = Parked(T, l)
  BY <1>6, <1>7, AppendsOne, SMTT(30)
<1>9. QueuesExact(T)
  <2> SUFFICES ASSUME NEW k \in Slots, Listens(T[k])
               PROVE  /\ IsInjective(T[k].q) /\ Range(T[k].q) = Parked(T, k)
                      /\ Cardinality(Children(T, k)) <= T[k].backlog
    BY Zenon DEF QueuesExact
  <2>1. CASE k = l
    BY <1>2, <1>6, <1>7, <1>8, <2>1, ZenonT(40)
  <2>2. CASE k # l
    <3>1. k # i /\ T[k] = tab[k]
      BY <1>2, <2>2, ZenonT(40) DEF Listens, Connected
    <3> QED BY <1>6, <2>2, <3>1, ZenonT(40) DEF Sound, QueuesExact
  <2> QED BY <2>1, <2>2, Zenon
<1>10. ChildrenOwned(T)
  <2>1. \A j \in Slots : Listens(tab[j]) => Listens(T[j])
    BY <1>2, SMTT(30) DEF Listens
  <2> SUFFICES ASSUME NEW j \in Slots, T[j].used, T[j].lst # NoSlot
               PROVE  /\ Listens(T[T[j].lst])
                      /\ T[j].state = "SYN_RCVD" \/ Connected(T[j])
                      /\ T[j].state = "SYN_RCVD" <=> ~T[j].queued
    BY Zenon DEF ChildrenOwned
  <2>2. CASE j = i
    BY <1>1, <1>2, <2>1, <2>2, Zenon DEF IsSock, Connected
  <2>3. CASE j = l
    <3>1. tab[l].lst = NoSlot
      BY <1>1, Zenon DEF Sound, ChildrenOwned, Listens, Connected
    <3> QED BY <1>2, <2>3, <3>1, Zenon
  <2>4. CASE j # i /\ j # l
    <3>1. T[j] = tab[j]
      BY <1>2, <2>4, ZenonT(40)
    <3>2. Listens(tab[tab[j].lst]) /\ tab[j].lst \in Slots
      BY <3>1, SMTT(30) DEF Sound, ChildrenOwned, IsTable, IsSock
    <3> QED BY <2>1, <3>1, <3>2, SMTT(30) DEF Sound, ChildrenOwned
  <2> QED BY <2>2, <2>3, <2>4, ZenonT(40)
<1> QED BY <1>1, <1>3, <1>5, <1>9, <1>10, Zenon DEF Sound, T

\* A child leaves its listener l: what it becomes has to do with no queue, and the
\* queue of l loses it if it was there.
LEMMA OneLeaves ==
  ASSUME NEW tab, Sound(tab), NEW c \in Slots, tab[c].used, NEW l \in Slots, tab[c].lst = l,
         NEW s, IsSock(s), Outside(s),
         NEW t, IsSock(t), t.used = tab[l].used, t.state = tab[l].state, t.lst = tab[l].lst,
         t.queued = tab[l].queued, t.backlog = tab[l].backlog,
         IsInjective(t.q), Range(t.q) = Parked(tab, l) \ {c}
  PROVE  Listens(tab[l]) /\ c # l /\ Sound([tab EXCEPT ![l] = t, ![c] = s])
<1> DEFINE T == [tab EXCEPT ![l] = t, ![c] = s]
<1>0. l # NoSlot
  BY SlotsApart, Zenon
<1>1. Listens(tab[l]) /\ tab[l].lst = NoSlot
  <2>1. Listens(tab[l])
    BY <1>0, Zenon DEF Sound, ChildrenOwned
  <2> QED BY <2>1, Zenon DEF Sound, ChildrenOwned, Listens, Connected
<1>2. c # l
  BY <1>0, <1>1, Zenon
<1>3. /\ T = [j \in Slots |-> T[j]] /\ T[c] = s /\ T[l] = t
      /\ \A j \in Slots \ {c, l} : T[j] = tab[j]
  BY <1>2, Zenon DEF Sound, IsTable
<1> HIDE DEF T
<1>4. IsTable(T)
  BY <1>3, ZenonT(40) DEF Sound, IsTable
<1>5. \A k \in Slots : Listens(T[k]) => k # c
  BY <1>3, ZenonT(40) DEF Outside, Listens
<1>6. \A k \in Slots : Listens(tab[k]) => Listens(T[k])
  <2>1. ~Listens(tab[c])
    BY <1>0, Zenon DEF Sound, ChildrenOwned, Listens, Connected
  <2> QED BY <1>3, <2>1, SMTT(30) DEF Listens
<1>7. OnlyListenersQueue(T)
  <2> SUFFICES ASSUME NEW k \in Slots, T[k].q # <<>> PROVE Listens(T[k])
    BY Zenon DEF OnlyListenersQueue
  <2>1. CASE k = c
    BY <1>3, <2>1, Zenon DEF Outside
  <2>2. CASE k = l
    BY <1>1, <1>6, <2>2, ZenonT(40)
  <2>3. CASE k # c /\ k # l
    BY <1>3, <2>3, ZenonT(40) DEF Sound, OnlyListenersQueue
  <2> QED BY <2>1, <2>2, <2>3, Zenon
<1>8. /\ \A k \in Slots \ {l} : Children(T, k) = Children(tab, k) /\ Parked(T, k) = Parked(tab, k)
      /\ Children(T, l) \subseteq Children(tab, l) /\ Parked(T, l) = Parked(tab, l) \ {c}
  <2>1. \A k \in Slots : k # NoSlot
    BY SlotsApart, Zenon
  <2>2. \A k \in Slots : ~(T[c].used /\ T[c].lst = k)
    BY <1>3, <2>1, SMTT(30) DEF Outside
  <2>3. \A j \in Slots \ {c} : /\ T[j].used = tab[j].used /\ T[j].lst = tab[j].lst
                               /\ T[j].queued = tab[j].queued
    BY <1>3, ZenonT(40)
  <2> QED BY <1>2, <2>1, <2>2, <2>3, SMTT(30) DEF Children, Parked
<1>9. Cardinality(Children(T, l)) <= tab[l].backlog
  <2>1. IsFiniteSet(Children(tab, l)) /\ Cardinality(Children(tab, l)) \in Nat
        /\ Cardinality(Children(T, l)) \in Nat
    BY ChildrenFinite, ZenonT(40)
  <2>2. Cardinality(Children(T, l)) <= Cardinality(Children(tab, l))
    BY <1>8, <2>1, FS_Subset, ZenonT(40)
  <2>3. tab[l].backlog \in Nat /\ Cardinality(Children(tab, l)) <= tab[l].backlog
    BY <1>1, ZenonT(40) DEF Sound, IsTable, IsSock, QueuesExact
  <2> QED BY <2>1, <2>2, <2>3, SMTT(30)
<1>10. QueuesExact(T)
  <2> SUFFICES ASSUME NEW k \in Slots, Listens(T[k])
               PROVE  /\ IsInjective(T[k].q) /\ Range(T[k].q) = Parked(T, k)
                      /\ Cardinality(Children(T, k)) <= T[k].backlog
    BY Zenon DEF QueuesExact
  <2>1. CASE k = l
    BY <1>3, <1>8, <1>9, <2>1, ZenonT(40)
  <2>2. CASE k # l
    <3>1. T[k] = tab[k]
      BY <1>3, <1>5, <2>2, Zenon
    <3> QED BY <1>8, <2>2, <3>1, ZenonT(40) DEF Sound, QueuesExact
  <2> QED BY <2>1, <2>2, ZenonT(40)
<1>11. ChildrenOwned(T)
  <2> SUFFICES ASSUME NEW j \in Slots, T[j].used, T[j].lst # NoSlot
               PROVE  /\ Listens(T[T[j].lst])
                      /\ T[j].state = "SYN_RCVD" \/ Connected(T[j])
                      /\ T[j].state = "SYN_RCVD" <=> ~T[j].queued
    BY Zenon DEF ChildrenOwned
  <2>1. T[j] = tab[j]
    BY <1>1, <1>3 DEF Outside
  <2>2. Listens(tab[tab[j].lst]) /\ tab[j].lst \in Slots
    BY <2>1 DEF Sound, ChildrenOwned, IsTable, IsSock
  <2> QED BY <1>6, <2>1, <2>2 DEF Sound, ChildrenOwned
<1> QED BY <1>1, <1>2, <1>4, <1>7, <1>10, <1>11, Zenon DEF Sound, T

\* The head of a queue is a connected child of the listener.
LEMMA HeadIsChild ==
  ASSUME NEW tab, Sound(tab), NEW l \in Slots, tab[l].q # <<>>, NEW c, c = Head(tab[l].q)
  PROVE  /\ c \in Slots /\ c # l /\ Tail(tab[l].q) \in Seq(Slots)
         /\ tab[c].used /\ tab[c].lst = l /\ Connected(tab[c]) /\ ~Listens(tab[c])
         /\ IsInjective(Tail(tab[l].q)) /\ Range(Tail(tab[l].q)) = Parked(tab, l) \ {c}
<1>0. l # NoSlot
  BY SlotsApart, Zenon
<1>1. Listens(tab[l]) /\ tab[l].q \in Seq(Slots)
  BY Zenon DEF Sound, OnlyListenersQueue, IsTable, IsSock
<1>2. IsInjective(tab[l].q) /\ Range(tab[l].q) = Parked(tab, l)
  BY <1>1, Zenon DEF Sound, QueuesExact
<1>3. /\ c \in Parked(tab, l) /\ c \in Slots /\ Tail(tab[l].q) \in Seq(Slots)
      /\ IsInjective(Tail(tab[l].q)) /\ Range(Tail(tab[l].q)) = Parked(tab, l) \ {c}
  BY <1>1, <1>2, TakesHead, Zenon
<1>4. tab[c].used /\ tab[c].lst = l /\ tab[c].queued
  BY <1>3, Zenon DEF Parked
<1>5. Connected(tab[c]) /\ ~Listens(tab[c])
  BY <1>0, <1>3, <1>4, ZenonT(40) DEF Sound, ChildrenOwned, Connected, Listens
<1> QED BY <1>1, <1>3, <1>4, <1>5, Zenon

\* accept(): the head of the queue leaves it and becomes the program's.
LEMMA OneHanded ==
  ASSUME NEW tab, Sound(tab), NEW l \in Slots, tab[l].q # <<>>,
         NEW c, c = Head(tab[l].q),
         NEW s, IsSock(s), s.used = tab[c].used, s.state = tab[c].state, s.q = tab[c].q,
         s.lst = NoSlot,
         NEW t, IsSock(t), t.used = tab[l].used, t.state = tab[l].state, t.lst = tab[l].lst,
         t.queued = tab[l].queued, t.backlog = tab[l].backlog, t.q = Tail(tab[l].q)
  PROVE  Sound([tab EXCEPT ![l] = t, ![c] = s])
<1>1. /\ c \in Slots /\ c # l /\ Tail(tab[l].q) \in Seq(Slots)
      /\ tab[c].used /\ tab[c].lst = l /\ Connected(tab[c]) /\ ~Listens(tab[c])
      /\ IsInjective(Tail(tab[l].q)) /\ Range(Tail(tab[l].q)) = Parked(tab, l) \ {c}
  BY ONLY HeadIsChild, Sound(tab), l \in Slots, tab[l].q # <<>>, c = Head(tab[l].q)
<1>2. Outside(s)
  BY <1>1, ZenonT(40) DEF Sound, OnlyListenersQueue, Outside, Connected
<1>3. IsInjective(t.q) /\ Range(t.q) = Parked(tab, l) \ {c}
  BY <1>1, Zenon
<1>4. Listens(tab[l]) /\ c # l /\ Sound([tab EXCEPT ![l] = t, ![c] = s])
  BY <1>1, <1>2, <1>3, OneLeaves, Zenon
<1> QED BY <1>4, Zenon

\* A socket with another queue.
LEMMA QueueSet ==
  ASSUME NEW s, IsSock(s), NEW q \in Seq(Slots)
  PROVE  LET t == [s EXCEPT !.q = q]
         IN  /\ IsSock(t) /\ t.q = q /\ t.used = s.used /\ t.state = s.state
             /\ t.lst = s.lst /\ t.queued = s.queued /\ t.backlog = s.backlog
BY ZenonT(40) DEF IsSock, Fields

\* free_sock() of a listener: the children nobody accepted go with it.
LEMMA ListenerFreed ==
  ASSUME NEW tab, Sound(tab), NEW i \in Slots, Listens(tab[i])
  PROVE  Sound(Freed(tab, i))
<1> DEFINE T == Freed(tab, i)
           gone(j) == j = i \/ (tab[j].used /\ tab[j].lst = i)
<1>0. i # NoSlot /\ tab[i].lst = NoSlot
  <2>1. i # NoSlot
    BY SlotsApart, Zenon
  <2> QED BY <2>1, Zenon DEF Sound, ChildrenOwned, Listens, Connected
<1>1. accept_remove(tab, i) = tab
  BY <1>0, Zenon DEF accept_remove
<1>2. T = [j \in Slots |-> T[j]] /\ \A j \in Slots : T[j] = IF gone(j) THEN TcpSock ELSE tab[j]
  BY <1>1, Zenon DEF Freed, Listens
<1> HIDE DEF T
<1>3. ~TcpSock.used /\ TcpSock.q = <<>> /\ IsSock(TcpSock)
  BY BlankSock, Zenon DEF TcpSock
<1>4. IsTable(T)
  BY <1>2, <1>3, Zenon DEF Sound, IsTable
<1>5. \A k \in Slots : T[k].used => ~gone(k) /\ T[k] = tab[k]
  BY <1>2, <1>3, Zenon
<1>6. \A k \in Slots \ {i} : Listens(tab[k]) => T[k] = tab[k]
  BY <1>0, <1>2 DEF Sound, ChildrenOwned, Listens, Connected
<1>7. OnlyListenersQueue(T)
  BY <1>2, <1>3, ZenonT(40) DEF Sound, OnlyListenersQueue
<1>8. \A k \in Slots \ {i} : Children(T, k) = Children(tab, k) /\ Parked(T, k) = Parked(tab, k)
  <2> SUFFICES ASSUME NEW k \in Slots \ {i}, NEW j \in Slots
               PROVE  /\ T[j].used /\ T[j].lst = k <=> tab[j].used /\ tab[j].lst = k
                      /\ T[j].used /\ T[j].lst = k /\ T[j].queued
                           <=> tab[j].used /\ tab[j].lst = k /\ tab[j].queued
    BY DEF Children, Parked
  <2>1. k # NoSlot
    BY SlotsApart, Zenon
  <2>2. CASE gone(j)
    BY <1>0, <1>2, <1>3, <2>1, <2>2, Zenon
  <2>3. CASE ~gone(j)
    BY <1>2, <2>3, Zenon
  <2> QED BY <2>2, <2>3, ZenonT(40)
<1>9. QueuesExact(T)
  BY <1>5, <1>8, ZenonT(40) DEF Sound, QueuesExact, Listens
<1>10. ChildrenOwned(T)
  <2> SUFFICES ASSUME NEW j \in Slots, T[j].used, T[j].lst # NoSlot
               PROVE  /\ Listens(T[T[j].lst])
                      /\ T[j].state = "SYN_RCVD" \/ Connected(T[j])
                      /\ T[j].state = "SYN_RCVD" <=> ~T[j].queued
    BY Zenon DEF ChildrenOwned
  <2>1. T[j] = tab[j] /\ tab[j].lst # i
    BY <1>5, Zenon
  <2>2. Listens(tab[tab[j].lst]) /\ tab[j].lst \in Slots
    BY <2>1, ZenonT(40) DEF Sound, ChildrenOwned, IsTable, IsSock
  <2> QED BY <1>6, <2>1, <2>2, SMTT(30) DEF Sound, ChildrenOwned
<1> QED BY <1>4, <1>7, <1>9, <1>10, Zenon DEF Sound, T

\* free_sock(): a socket that has to do with no queue, or a child nobody accepted.
LEMMA OneFreed ==
  ASSUME NEW tab, Sound(tab), NEW i \in Slots, tab[i].used
  PROVE  Sound(Freed(tab, i))
<1>1. ~TcpSock.used /\ TcpSock.q = <<>> /\ IsSock(TcpSock)
  BY BlankSock, Zenon DEF TcpSock
<1>2. CASE Listens(tab[i])
  BY <1>2, ListenerFreed, Zenon
<1>3. CASE ~Listens(tab[i]) /\ tab[i].lst = NoSlot
  <2>1. Freed(tab, i) = [tab EXCEPT ![i] = TcpSock]
    <3>1. accept_remove(tab, i) = tab
      BY <1>3, Zenon DEF accept_remove
    <3> QED BY <1>3, <3>1, Zenon DEF Freed, Listens, Sound, IsTable
  <2>2. Outside(tab[i])
    BY <1>3, OutsideOnes, Zenon
  <2>3. Outside(TcpSock)
    BY <1>1, ZenonT(40) DEF Outside
  <2>4. Sound([tab EXCEPT ![i] = TcpSock])
    BY <1>1, <2>2, <2>3, OneReplaced, ZenonT(40)
  <2> QED BY <2>1, <2>4, Zenon
<1>4. CASE ~Listens(tab[i]) /\ tab[i].lst # NoSlot
  <2> DEFINE l == tab[i].lst
             q == IF tab[i].queued THEN Unqueued(tab[l].q, i) ELSE tab[l].q
             t == [tab[l] EXCEPT !.q = q]
  <2>1. l \in Slots /\ Listens(tab[l])
    BY <1>4, Zenon DEF Sound, IsTable, IsSock, ChildrenOwned
  <2>2. /\ tab[l].q \in Seq(Slots) /\ IsInjective(tab[l].q) /\ Range(tab[l].q) = Parked(tab, l)
    BY <2>1, ZenonT(40) DEF Sound, IsTable, IsSock, QueuesExact
  <2>3. q \in Seq(Slots) /\ IsInjective(q) /\ Range(q) = Parked(tab, l) \ {i}
    <3>1. CASE tab[i].queued
      <4>1. i \in Parked(tab, l)
        BY <3>1, Zenon DEF Parked
      <4> HIDE DEF l
      <4> QED BY <2>2, <3>1, <4>1, RemovesOne, ZenonT(40)
    <3>2. CASE ~tab[i].queued
      <4>1. i \notin Parked(tab, l)
        BY <3>2, Zenon DEF Parked
      <4> QED BY <2>2, <3>2, <4>1, ZenonT(40)
    <3> QED BY <3>1, <3>2, ZenonT(40)
  <2>4. Freed(tab, i) = [tab EXCEPT ![l] = t, ![i] = TcpSock]
    <3>1. accept_remove(tab, i) = [tab EXCEPT ![l] = t]
      <4>1. CASE tab[i].queued
        BY <1>4, <2>1, <4>1, ZenonT(40) DEF accept_remove, Listens, Sound, IsTable
      <4>2. CASE ~tab[i].queued
        <5>1. accept_remove(tab, i) = tab
          BY <4>2, Zenon DEF accept_remove
        <5>2. t = tab[l]
          BY <2>1, <4>2, ZenonT(40) DEF Sound, IsTable, IsSock, Fields
        <5> QED BY <2>1, <5>1, <5>2, ZenonT(40) DEF Sound, IsTable
      <4> QED BY <4>1, <4>2, ZenonT(40)
    <3> HIDE DEF t
    <3>2. \A j \in Slots : Freed(tab, i)[j] = IF j = i THEN TcpSock ELSE [tab EXCEPT ![l] = t][j]
      BY <1>4, <3>1, Zenon DEF Freed, Listens
    <3>3. Freed(tab, i) = [j \in Slots |-> Freed(tab, i)[j]]
      BY Zenon DEF Freed
    <3>4. tab = [j \in Slots |-> tab[j]]
      BY Zenon DEF Sound, IsTable
    <3> HIDE DEF l
    <3> QED BY <3>2, <3>3, <3>4, ZenonT(40)
  <2> HIDE DEF q
  <2>5. IsSock(t) /\ t.q = q /\ t.used = tab[l].used /\ t.state = tab[l].state
        /\ t.lst = tab[l].lst /\ t.queued = tab[l].queued /\ t.backlog = tab[l].backlog
    <3>1. IsSock(tab[l])
      BY <2>1, Zenon DEF Sound, IsTable
    <3> HIDE DEF l
    <3> QED BY <2>3, <3>1, QueueSet, SMTT(30)
  <2>6. Outside(TcpSock)
    BY <1>1, Zenon DEF Outside
  <2> HIDE DEF t, l
  <2>7. tab[i].lst = l
    BY Zenon DEF l
  <2>8. Sound([tab EXCEPT ![l] = t, ![i] = TcpSock])
    BY <1>1, <2>1, <2>3, <2>5, <2>6, <2>7, OneLeaves, Zenon
  <2> QED BY <2>4, <2>8, Zenon
<1> QED BY <1>2, <1>3, <1>4, Zenon

-----------------------------------------------------------------------------
(* Input. *)

\* What handling a segment may do to a table.
Keeps(tab, T) == Sound(T) /\ \A j \in Slots : Closing(tab[j]) => Closing(T[j])

\* The two searches and the search for a free slot answer a slot they may answer.
LEMMA FirstIsIn ==
  ASSUME NEW S, S \subseteq Slots, FirstSlot(S) # NoSlot
  PROVE  FirstSlot(S) \in S
<1>1. S \subseteq Nat /\ S # {}
  BY SocketLimits DEF Slots, FirstSlot
<1>2. PICK x \in S : \A y \in S : x <= y
  BY <1>1, LeastNat, Zenon
<1>3. Least(S) \in S
  BY <1>2, Zenon DEF Least
<1> QED BY <1>1, <1>3, ZenonT(40) DEF FirstSlot

\* The table after an effect.
LEMMA TabOf ==
  ASSUME NEW tab, NEW i, NEW w, NEW o, NEW d
  PROVE  /\ Nothing(tab).tab = tab /\ Effect(tab, o, d).tab = tab
         /\ Served(tab, i, w).tab = [tab EXCEPT ![i] = w.s]
BY Zenon DEF Nothing, Served, Effect

\* A socket served, within its connection.
LEMMA ServedKeeps ==
  ASSUME NEW tab, Sound(tab), NEW i \in Slots, NEW w, Same(tab[i], w.s)
  PROVE  Keeps(tab, Served(tab, i, w).tab)
<1>1. Served(tab, i, w).tab = [tab EXCEPT ![i] = w.s]
  BY Zenon DEF Served, Effect
<1> QED BY <1>1, OneMoves, SMTT(30) DEF Keeps

\* A socket that has to do with no queue, replaced while nobody closes it.
LEMMA ReplacedKeeps ==
  ASSUME NEW tab, Sound(tab), NEW i \in Slots, Outside(tab[i]), ~Closing(tab[i]),
         NEW s, IsSock(s), Outside(s)
  PROVE  Keeps(tab, [tab EXCEPT ![i] = s])
<1>1. Sound([tab EXCEPT ![i] = s])
  BY OneReplaced, Zenon
<1>2. \A j \in Slots \ {i} : [tab EXCEPT ![i] = s][j] = tab[j]
  BY Zenon DEF Sound, IsTable
<1> QED BY <1>1, <1>2, Zenon DEF Keeps

\* handle_syn_ack(): the client's handshake ends.
LEMMA SynAckKeeps ==
  ASSUME NEW tab, Sound(tab), NEW i \in Slots, tab[i].used, tab[i].state = "SYN_SENT", NEW h, NEW g
  PROVE  Keeps(tab, handle_syn_ack(h, tab, i, g).tab)
<1>1. Outside(tab[i]) /\ ~Closing(tab[i]) /\ tab[i].lst = NoSlot
  <2>1. Outside(tab[i])
    BY OutsideOnes, Zenon
  <2> QED BY <2>1, Zenon DEF Outside, Closing, Connected
<1> DEFINE no == FALSE
<1>2. PICK a, b : handle_syn_ack(h, tab, i, g) =
        IF g.ack # (tab[i].iss + 1) % SEQ THEN Nothing(tab)
        ELSE Served(tab, i, tcp_send_ack(Working(h, [tab[i] EXCEPT
               !.wnd = a, !.una = g.ack, !.nxt = g.ack, !.base = b, !.rcv = <<>>,
               !.rto = no, !.state = "ESTABLISHED"])))
  BY Zenon DEF handle_syn_ack
<1> HIDE DEF no
<1> DEFINE s == [tab[i] EXCEPT !.wnd = a, !.una = g.ack, !.nxt = g.ack, !.base = b, !.rcv = <<>>,
                               !.rto = no, !.state = "ESTABLISHED"]
<1>3. /\ IsSock(s) /\ s.q = tab[i].q /\ s.lst = tab[i].lst /\ s.state = "ESTABLISHED"
  <2> DEFINE r == tab[i]
  <2>1. IsSock(r)
    BY Zenon DEF Sound, IsTable
  <2> HIDE DEF r
  <2>2. LET u == [r EXCEPT !.wnd = a, !.una = g.ack, !.nxt = g.ack, !.base = b, !.rcv = <<>>,
                           !.rto = no, !.state = "ESTABLISHED"]
        IN  IsSock(u) /\ u.q = r.q /\ u.lst = r.lst /\ u.state = "ESTABLISHED"
    BY <2>1, ZenonT(40) DEF IsSock, Fields, States
  <2> QED BY <2>2, Zenon DEF r
<1> HIDE DEF s
<1>4. Outside(s)
  BY <1>1, <1>3, Zenon DEF Outside
<1>5. tcp_send_ack(Working(h, s)).s = s
  BY <1>3, WorkingIs, AckKeeps
<1>6. Keeps(tab, [tab EXCEPT ![i] = s])
  BY <1>1, <1>3, <1>4, ReplacedKeeps, ZenonT(40)
<1>7. handle_syn_ack(h, tab, i, g).tab = tab \/ handle_syn_ack(h, tab, i, g).tab = [tab EXCEPT ![i] = s]
  <2>1. \/ handle_syn_ack(h, tab, i, g) = Nothing(tab)
        \/ handle_syn_ack(h, tab, i, g) = Served(tab, i, tcp_send_ack(Working(h, s)))
    BY <1>2, Zenon DEF s
  <2> QED BY <1>5, <2>1, TabOf, SMTT(30)
<1> QED BY <1>6, <1>7, Zenon DEF Keeps

\* The child a SYN spawns is half-open.
LEMMA ChildIs ==
  ASSUME NEW l \in Slots, NEW g
  PROVE  /\ IsSock(Child(l, g)) /\ Child(l, g).used /\ Child(l, g).state = "SYN_RCVD"
         /\ Child(l, g).lst = l /\ Child(l, g).q = <<>> /\ ~Child(l, g).queued
<1> DEFINE yes == TRUE
<1>1. PICK a, b, c, d, e, f :
        Child(l, g) = [TcpSock EXCEPT !.used = yes, !.state = "SYN_RCVD", !.rip = a, !.rport = b,
                         !.lport = c, !.lst = l, !.iss = d, !.una = d, !.nxt = d, !.base = e,
                         !.wnd = f, !.rto = yes]
  BY Zenon DEF Child
<1>2. yes \in BOOLEAN /\ yes
  OBVIOUS
<1> HIDE DEF yes
<1> DEFINE r == TcpSock
<1>3. IsSock(r) /\ r.q = <<>> /\ ~r.queued
  BY BlankSock, Zenon DEF TcpSock
<1> HIDE DEF r
<1>4. LET s == [r EXCEPT !.used = yes, !.state = "SYN_RCVD", !.rip = a, !.rport = b,
                         !.lport = c, !.lst = l, !.iss = d, !.una = d, !.nxt = d, !.base = e,
                         !.wnd = f, !.rto = yes]
      IN  /\ IsSock(s) /\ s.used /\ s.state = "SYN_RCVD" /\ s.lst = l /\ s.q = <<>> /\ ~s.queued
  BY <1>2, <1>3, ZenonT(40) DEF IsSock, Fields, States
<1> QED BY <1>1, <1>4, Zenon DEF r

\* handle_incoming_syn(): the SYN-ACK again, a reset, nothing, or a child.
LEMMA IncomingSynKeeps ==
  ASSUME NEW tab, Sound(tab), NEW h, NEW g
  PROVE  Keeps(tab, handle_incoming_syn(h, tab, g).tab)
<1> DEFINE x == find_peer_sock(tab, g)
           l == find_listener(tab, g)
           i == FreeSlot(tab)
           w == send_syn_ack(Working(h, Child(l, g)))
           T == handle_incoming_syn(h, tab, g).tab
<1>1. x # NoSlot => x \in Slots
  BY FirstIsIn, Zenon DEF find_peer_sock
<1>2. l # NoSlot => l \in Slots /\ Listens(tab[l])
  BY FirstIsIn, Zenon DEF find_listener, Listens
<1>3. i # NoSlot => i \in Slots /\ ~tab[i].used
  BY FirstIsIn, Zenon DEF FreeSlot
<1>4. \/ x # NoSlot /\ T = Served(tab, x, send_syn_ack(Working(h, tab[x]))).tab
      \/ T = tab
      \/ /\ l # NoSlot /\ i # NoSlot /\ ~(listener_pending(tab, l) >= tab[l].backlog)
         /\ T = [tab EXCEPT ![i] = w.s]
  BY TabOf, Zenon DEF handle_incoming_syn, Effect
<1> HIDE DEF x, l, i, T
<1>5. CASE T = tab
  BY <1>5, Zenon DEF Keeps, T
<1>6. CASE x # NoSlot /\ T = Served(tab, x, send_syn_ack(Working(h, tab[x]))).tab
  <2>1. IsSock(tab[x]) /\ Same(tab[x], tab[x])
    BY <1>1, <1>6, SameSelf, Zenon DEF Sound, IsTable
  <2>2. send_syn_ack(Working(h, tab[x])).s = tab[x]
    BY <2>1, WorkingIs, SegKeeps DEF send_syn_ack
  <2> QED BY <1>1, <1>6, <2>1, <2>2, ServedKeeps, Zenon DEF T
<1>7. CASE /\ l # NoSlot /\ i # NoSlot /\ ~(listener_pending(tab, l) >= tab[l].backlog)
           /\ T = [tab EXCEPT ![i] = w.s]
  <2> DEFINE s == Child(l, g)
  <2>1. /\ IsSock(s) /\ s.used /\ s.state = "SYN_RCVD" /\ s.lst = l /\ s.q = <<>> /\ ~s.queued
    BY <1>2, <1>7, ChildIs
  <2>2. w.s = s
    BY <2>1, WorkingIs, SegKeeps, SMTT(30) DEF send_syn_ack
  <2> HIDE DEF s, w
  <2>3. Sound([tab EXCEPT ![i] = s])
    BY <1>2, <1>3, <1>7, <2>1, OneSpawned, ZenonT(40)
  <2>4. \A j \in Slots : Closing(tab[j]) => [tab EXCEPT ![i] = s][j] = tab[j]
    BY <1>3, <1>7, Zenon DEF Sound, IsTable, Closing
  <2> QED BY <1>7, <2>2, <2>3, <2>4, Zenon DEF Keeps, T
<1> QED BY <1>4, <1>5, <1>6, <1>7, Zenon

\* A segment with SYN set.
LEMMA InputSynKeeps ==
  ASSUME NEW tab, Sound(tab), NEW h, NEW g
  PROVE  Keeps(tab, InputSyn(h, tab, g).tab)
<1> DEFINE i == find_peer_sock(tab, g)
<1>1. i # NoSlot => i \in Slots /\ tab[i].used
  BY FirstIsIn, ZenonT(40) DEF find_peer_sock
<1>2. \/ /\ i # NoSlot /\ tab[i].state = "SYN_SENT"
         /\ InputSyn(h, tab, g) = handle_syn_ack(h, tab, i, g)
      \/ InputSyn(h, tab, g) = Nothing(tab)
      \/ InputSyn(h, tab, g) = Effect(tab, send_reset(h, g).out, FALSE)
      \/ InputSyn(h, tab, g) = handle_incoming_syn(h, tab, g)
  BY Zenon DEF InputSyn
<1> HIDE DEF i
<1>3. Nothing(tab).tab = tab /\ Effect(tab, send_reset(h, g).out, FALSE).tab = tab /\ Keeps(tab, tab)
  BY Zenon DEF Nothing, Effect, Keeps
<1> QED BY <1>1, <1>2, <1>3, SynAckKeeps, IncomingSynKeeps, Zenon

\* A segment for a connection.
LEMMA InputConnectedKeeps ==
  ASSUME NEW tab, Sound(tab), NEW i \in Slots, Connected(tab[i]), NEW h, NEW g
  PROVE  Keeps(tab, InputConnected(h, tab, i, g).tab)
<1> DEFINE w == Working(h, tab[i])
           v == IF "ACK" \in g.flags THEN acknowledge(w, g.ack, g.win) ELSE w
           u == TakePayload(v, g)
<1>1. InputConnected(h, tab, i, g).tab = Served(tab, i, u).tab
  BY Zenon DEF InputConnected
<1>2. IsSock(tab[i])
  BY ZenonT(40) DEF Sound, IsTable
<1>3. IsWork(w) /\ w.s = tab[i]
  BY <1>2, WorkingIs, ZenonT(40)
<1> HIDE DEF w
<1>4. IsWork(acknowledge(w, g.ack, g.win)) /\ Same(w.s, acknowledge(w, g.ack, g.win).s) /\ Same(w.s, w.s)
  BY <1>2, <1>3, AcknowledgeKeeps, SameSelf, ZenonT(40)
<1>5. IsWork(v) /\ Same(tab[i], v.s)
  BY <1>3, <1>4, ZenonT(40)
<1> HIDE DEF v
<1>6. Connected(v.s)
  BY <1>5, ZenonT(40) DEF Same, Connected
<1>7. IsWork(u) /\ Same(v.s, u.s)
  BY <1>5, <1>6, TakePayloadKeeps, ZenonT(40)
<1> HIDE DEF u
<1>8. Same(tab[i], u.s)
  BY <1>5, <1>7, SameThen, ZenonT(40)
<1> QED BY <1>1, <1>8, ServedKeeps, ZenonT(40)

\* The final ACK: the child is connected and parked in its listener's queue.
LEMMA FinishKeeps ==
  ASSUME NEW tab, Sound(tab), NEW i \in Slots, tab[i].used, tab[i].state = "SYN_RCVD", NEW g
  PROVE  Keeps(tab, FinishHandshake(tab, i, g)) /\ Connected(FinishHandshake(tab, i, g)[i])
<1> DEFINE no == FALSE
           yes == TRUE
           r == tab[i]
           s == [r EXCEPT !.una = g.ack, !.nxt = g.ack, !.wnd = g.win, !.rto = no,
                          !.state = "ESTABLISHED"]
           l == tab[i].lst
           T == [tab EXCEPT ![i] = s]
<1>1. IsSock(r) /\ ~Closing(tab[i]) /\ l \in Slots \cup {NoSlot}
  BY ZenonT(40) DEF Sound, IsTable, IsSock, Closing, Connected
<1>2. T = [tab EXCEPT ![i].una = g.ack, ![i].nxt = g.ack, ![i].wnd = g.win, ![i].rto = FALSE,
                      ![i].state = "ESTABLISHED"]
  BY <1>1, Zenon DEF Sound, IsTable, IsSock, Fields
<1>3. FinishHandshake(tab, i, g) = accept_push(T, i)
  BY <1>2, Zenon DEF FinishHandshake
<1> HIDE DEF no, r
<1>4. /\ IsSock(s) /\ s.used = r.used /\ s.lst = r.lst /\ s.q = r.q /\ s.queued = r.queued
      /\ s.state = "ESTABLISHED"
  BY <1>1, ZenonT(40) DEF IsSock, Fields, States
<1> HIDE DEF s
<1>5. T[i] = s /\ \A j \in Slots \ {i} : T[j] = tab[j]
  BY Zenon DEF Sound, IsTable
<1>6. s.used /\ s.lst = l /\ s.q = tab[i].q
  BY <1>4, Zenon DEF r
<1>7. CASE l = NoSlot
  <2>1. Outside(tab[i]) /\ Outside(s)
    <3>1. Outside(tab[i])
      BY <1>7, OutsideOnes, ZenonT(40) DEF Listens
    <3> QED BY <1>4, <1>6, <1>7, <3>1, Zenon DEF Outside
  <2>2. accept_push(T, i) = T
    BY <1>5, <1>6, <1>7, Zenon DEF accept_push
  <2>3. Keeps(tab, T)
    BY <1>1, <1>4, <2>1, ReplacedKeeps, ZenonT(40)
  <2> QED BY <1>3, <1>4, <1>5, <2>2, <2>3 DEF Connected
<1>8. CASE l # NoSlot
  <2> DEFINE c == [s EXCEPT !.queued = yes]
             m == tab[l]
             t == [m EXCEPT !.q = Append(@, i)]
             U == [tab EXCEPT ![l] = t, ![i] = c]
  <2>1. l \in Slots /\ IsSock(m) /\ Listens(m) /\ l # i
    BY <1>1, <1>8, Zenon DEF Sound, IsTable, ChildrenOwned, Listens
  <2>2. accept_push(T, i) = [T EXCEPT ![l].q = Append(@, i), ![i].queued = yes]
    BY <1>5, <1>6, <1>8, Zenon DEF accept_push
  <2>3. yes \in BOOLEAN /\ yes
    OBVIOUS
  <2> HIDE DEF yes
  <2>4. [T EXCEPT ![l].q = Append(@, i), ![i].queued = yes] = U
    <3>1. tab = [j \in Slots |-> tab[j]]
      BY Zenon DEF Sound, IsTable
    <3> HIDE DEF l
    <3> QED BY <2>1, <3>1, Zenon
  <2> HIDE DEF m
  <2>5. /\ IsSock(c) /\ c.used = s.used /\ c.state = s.state /\ c.lst = s.lst /\ c.q = s.q /\ c.queued
    BY <1>4, <2>3, ZenonT(40) DEF IsSock, Fields
  <2>6. /\ IsSock(t) /\ t.used = m.used /\ t.state = m.state /\ t.lst = m.lst /\ t.queued = m.queued
        /\ t.backlog = m.backlog /\ t.q = Append(m.q, i)
    <3> DEFINE nq == Append(m.q, i)
    <3>1. nq \in Seq(Slots)
      BY <2>1 DEF IsSock
    <3> HIDE DEF nq
    <3>2. t = [m EXCEPT !.q = nq]
      BY Zenon DEF nq
    <3> HIDE DEF t
    <3> QED BY <2>1, <3>1, <3>2, QueueSet, ZenonT(40) DEF nq
  <2> HIDE DEF c, t
  <2>7. Connected(c) /\ c.used /\ c.lst = l /\ c.q = tab[i].q
    BY <1>4, <1>6, <2>5, ZenonT(40) DEF Connected
  <2>8. Sound(U)
    BY <2>1, <2>5, <2>6, <2>7, OneParked, ZenonT(40) DEF m
  <2>9. U[i] = c /\ \A j \in Slots \ {l, i} : U[j] = tab[j]
    BY <2>1, ZenonT(40) DEF Sound, IsTable
  <2>10. Keeps(tab, U)
    <3>1. ~Closing(tab[l])
      BY <2>1, ZenonT(40) DEF Closing, Listens, Connected, m
    <3>2. \A j \in Slots : Closing(tab[j]) => U[j] = tab[j]
      BY <1>1, <2>9, <3>1, Zenon
    <3> HIDE DEF U
    <3> QED BY <2>8, <3>2, Zenon DEF Keeps
  <2>11. accept_push(T, i) = U
    BY <2>2, <2>4, Zenon
  <2> HIDE DEF U, T, l
  <2> QED BY <1>3, <2>7, <2>9, <2>10, <2>11, Zenon
<1> QED BY <1>7, <1>8, ZenonT(40)

\* input_packet(): whatever the segment, the table stays sound, and a socket whose
\* close() is waiting stays one.
LEMMA InputKeeps ==
  ASSUME NEW tab, Sound(tab), NEW h, NEW g
  PROVE  Keeps(tab, input_packet(h, tab, g).tab)
<1> DEFINE i == find_peer_sock(tab, g)
           yes == TRUE
           F == FinishHandshake(tab, i, g)
           R == [tab EXCEPT ![i].err = TRUE]
<1>1. i # NoSlot => i \in Slots /\ tab[i].used
  BY FirstIsIn, Zenon DEF find_peer_sock
<1>2. \/ input_packet(h, tab, g) = InputSyn(h, tab, g)
      \/ input_packet(h, tab, g) = Nothing(tab)
      \/ i # NoSlot /\ input_packet(h, tab, g) = Nothing(R)
      \/ i # NoSlot /\ tab[i].state = "SYN_RCVD" /\ input_packet(h, tab, g) = InputConnected(h, F, i, g)
      \/ i # NoSlot /\ Connected(tab[i]) /\ input_packet(h, tab, g) = InputConnected(h, tab, i, g)
  BY Zenon DEF input_packet, Connected
<1> HIDE DEF i
<1>3. Nothing(tab).tab = tab /\ Nothing(R).tab = R /\ Keeps(tab, tab)
  BY Zenon DEF Nothing, Effect, Keeps
<1>4. CASE i # NoSlot /\ input_packet(h, tab, g) = Nothing(R)
  <2> DEFINE r == tab[i]
             s == [r EXCEPT !.err = yes]
  <2>1. IsSock(r)
    BY <1>1, <1>4, ZenonT(40) DEF Sound, IsTable
  <2>2. R = [tab EXCEPT ![i] = s]
    BY <1>1, <1>4, Zenon DEF Sound, IsTable
  <2> HIDE DEF yes, r
  <2>3. Same(r, s)
    BY <2>1, SMTT(30) DEF Same, IsSock, Fields
  <2> HIDE DEF s
  <2>4. Keeps(tab, [tab EXCEPT ![i] = s])
    BY <1>1, <1>4, <2>3, OneMoves, Zenon DEF Keeps, r
  <2> QED BY <1>3, <1>4, <2>2, <2>4, Zenon
<1>5. CASE i # NoSlot /\ tab[i].state = "SYN_RCVD" /\ input_packet(h, tab, g) = InputConnected(h, F, i, g)
  <2>1. Keeps(tab, F) /\ Connected(F[i])
    BY <1>1, <1>5, FinishKeeps, Zenon
  <2> HIDE DEF F
  <2>2. Keeps(F, InputConnected(h, F, i, g).tab)
    BY <1>1, <1>5, <2>1, InputConnectedKeeps, Zenon DEF Keeps
  <2> QED BY <1>5, <2>1, <2>2, Zenon DEF Keeps
<1>6. CASE i # NoSlot /\ Connected(tab[i]) /\ input_packet(h, tab, g) = InputConnected(h, tab, i, g)
  BY <1>1, <1>6, InputConnectedKeeps, Zenon
<1>7. CASE input_packet(h, tab, g) = InputSyn(h, tab, g)
  BY <1>7, InputSynKeeps, ZenonT(40)
<1>8. CASE input_packet(h, tab, g) = Nothing(tab)
  BY <1>3, <1>8, Zenon
<1> QED BY <1>2, <1>4, <1>5, <1>6, <1>7, <1>8, Zenon

-----------------------------------------------------------------------------
(* The limits of a socket. *)

\* A sequence, of whatever.
IsSeq(x) == x \in Seq(Range(x))

\* What every segment under way carries.
IsSeg(g) ==
  /\ g.from \in Hosts /\ g.to \in Hosts
  /\ g.seq \in SeqNos /\ g.ack \in SeqNos
  /\ g.win \in 0 .. RECV_CAP
  /\ IsSeq(g.pay)

Wire(n) == \A g \in DOMAIN n : n[g] \in Nat \ {0} /\ IsSeg(g)

\* The counters and buffers of a socket are within their limits.
Within(s) ==
  /\ s.una \in SeqNos /\ s.nxt \in SeqNos /\ s.base \in SeqNos /\ s.iss \in SeqNos
  /\ IsSeq(s.snd) /\ Len(s.snd) <= SEND_CAP
  /\ IsSeq(s.rcv) /\ Len(s.rcv) <= RECV_CAP
  /\ s.wnd \in 0 .. RECV_CAP

\* Two sockets with the same counters and buffers.
Alike(r, s) ==
  /\ s.una = r.una /\ s.nxt = r.nxt /\ s.base = r.base /\ s.iss = r.iss
  /\ s.snd = r.snd /\ s.rcv = r.rcv /\ s.wnd = r.wnd

\* A socket with a peer, and one that cannot send.
Paired(s) == s.rip \in Hosts
Quiet(s) == s.rip = NoHost /\ s.state \in {"CLOSED", "LISTEN"} /\ s.rcv = <<>>

Fits(s) ==
  /\ IsSock(s) /\ Within(s)
  /\ Paired(s) \/ Quiet(s)
  /\ s.backlog <= MAX_ACCEPT
  /\ ~s.used => s = TcpSock

FitTable(tab) == \A i \in Slots : Fits(tab[i])

\* The record a handler works on: a socket in use, with a peer.
FitWork(w) == IsWork(w) /\ w.h \in Hosts /\ Fits(w.s) /\ w.s.used /\ Paired(w.s) /\ Wire(w.out)

-----------------------------------------------------------------------------
(* Limits: numbers and sequences. *)

\* What is reduced modulo SEQ is a sequence number.
LEMMA ModSeq ==
  ASSUME NEW x \in Int
  PROVE  x % SEQ \in SeqNos
BY NetworkLimits DEF SeqNos

\* A plausible acknowledgement number covers no more than is buffered.
LEMMA SeqCovered ==
  ASSUME NEW una \in SeqNos, NEW n \in Nat, NEW ackno \in SeqNos,
         ~(ackno <= una), ~(ackno > (una + n) % SEQ)
  PROVE  ackno - una \in 0 .. n
<1>1. una \in Nat /\ ackno \in Nat /\ una + n \in Nat
  BY NetworkLimits DEF SeqNos
<1> DEFINE x == una + n
<1>2. x % SEQ \in Nat /\ x % SEQ <= x
  <2> HIDE DEF x
  <2> QED BY <1>1, NetworkLimits DEF x
<1>3. ackno <= x % SEQ
  BY <1>1, <1>2
<1> QED BY <1>1, <1>2, <1>3

\* What does not overflow fits.
LEMMA SumFits ==
  ASSUME NEW m \in Nat, NEW n \in Nat, NEW top \in Nat \ {0}, ~(m + n > top)
  PROVE  m + n <= top
OBVIOUS

\* The smaller of two numbers is one of them and no larger than either.
LEMMA LeastOfTwo ==
  ASSUME NEW m \in Nat, NEW n \in Nat
  PROVE  Least({m, n}) \in {m, n} /\ Least({m, n}) <= m /\ Least({m, n}) <= n
<1>1. \E x \in {m, n} : \A y \in {m, n} : x <= y
  OBVIOUS
<1>2. Least({m, n}) \in {m, n} /\ \A y \in {m, n} : Least({m, n}) <= y
  BY <1>1, Zenon DEF Least
<1> QED BY <1>2, Zenon

\* A sequence over some set is one over its own elements.
LEMMA SeqOver ==
  ASSUME NEW S, NEW x \in Seq(S)
  PROVE  IsSeq(x)
<1>1. Len(x) \in Nat /\ x \in [1 .. Len(x) -> S] /\ DOMAIN x = 1 .. Len(x)
  OBVIOUS
<1>2. x \in [1 .. Len(x) -> Range(x)]
  BY <1>1, Zenon DEF Range
<1> QED BY <1>1, <1>2 DEF IsSeq

\* The empty one.
LEMMA EmptySeq == IsSeq(<<>>) /\ Len(<<>>) = 0
<1>1. <<>> \in Seq({}) /\ Len(<<>>) = 0
  OBVIOUS
<1> QED BY <1>1, SeqOver, Zenon

\* One given by its elements.
LEMMA SeqGiven ==
  ASSUME NEW n \in Int, NEW x, x = [k \in 1 .. n |-> x[k]]
  PROVE  IsSeq(x)
<1> DEFINE S == {x[k] : k \in 1 .. n}
           m == IF n < 0 THEN 0 ELSE n
<1>1. x \in [1 .. n -> S]
  BY Zenon
<1> HIDE DEF S
<1>2. m \in Nat /\ 1 .. n = 1 .. m
  OBVIOUS
<1> HIDE DEF m
<1>3. x \in [1 .. m -> S]
  BY <1>1, <1>2, Zenon
<1>4. x \in Seq(S)
  BY <1>2, <1>3
<1> QED BY <1>4, SeqOver, Zenon

\* Two in a row.
LEMMA SeqJoined ==
  ASSUME NEW x, IsSeq(x), NEW y, IsSeq(y)
  PROVE  IsSeq(x \o y) /\ Len(x \o y) = Len(x) + Len(y) /\ Len(x) \in Nat /\ Len(y) \in Nat
<1> DEFINE S == Range(x) \cup Range(y)
<1>1. x \in Seq(S) /\ y \in Seq(S)
  BY DEF IsSeq
<1> HIDE DEF S
<1>2. x \o y \in Seq(S) /\ Len(x \o y) = Len(x) + Len(y) /\ Len(x) \in Nat /\ Len(y) \in Nat
  BY <1>1
<1> QED BY <1>2, SeqOver, Zenon

\* A part of one, from its beginning or up to its end.
LEMMA SeqCut ==
  ASSUME NEW x, IsSeq(x), NEW n \in 0 .. Len(x)
  PROVE  /\ IsSeq(SubSeq(x, 1, n)) /\ Len(SubSeq(x, 1, n)) = n
         /\ IsSeq(SubSeq(x, n + 1, Len(x))) /\ Len(SubSeq(x, n + 1, Len(x))) = Len(x) - n
<1> DEFINE S == Range(x)
<1>1. x \in Seq(S)
  BY DEF IsSeq
<1> HIDE DEF S
<1>2. SubSeq(x, 1, n) \in Seq(S) /\ Len(SubSeq(x, 1, n)) = n
  BY <1>1
<1>3. SubSeq(x, n + 1, Len(x)) \in Seq(S) /\ Len(SubSeq(x, n + 1, Len(x))) = Len(x) - n
  BY <1>1
<1> QED BY <1>2, <1>3, SeqOver, Zenon

-----------------------------------------------------------------------------
(* Limits: segments under way. *)

\* Nothing.
LEMMA NoneWire == Wire(None)
BY Zenon DEF Wire, None

\* More of them.
LEMMA PlusWire ==
  ASSUME NEW n, Wire(n), NEW m, Wire(m)
  PROVE  Wire(Plus(n, m))
<1>1. ASSUME NEW g \in DOMAIN n \cup DOMAIN m
      PROVE  Plus(n, m)[g] \in Nat \ {0} /\ IsSeg(g)
  <2>1. IsSeg(g)
    BY Zenon DEF Wire
  <2>2. Plus(n, m)[g] = Copies(n, g) + Copies(m, g)
    BY Zenon DEF Plus
  <2>3. /\ Copies(n, g) \in Nat /\ Copies(m, g) \in Nat
        /\ g \in DOMAIN n => Copies(n, g) # 0
        /\ g \in DOMAIN m => Copies(m, g) # 0
    BY DEF Copies, Wire
  <2> QED BY <2>1, <2>2, <2>3
<1>2. DOMAIN Plus(n, m) = DOMAIN n \cup DOMAIN m
  BY Zenon DEF Plus
<1> QED BY <1>1, <1>2, Zenon DEF Wire

\* One copy less.
LEMMA MinusWire ==
  ASSUME NEW n, Wire(n), NEW g
  PROVE  Wire(Minus(n, g))
<1>1. \A x \in DOMAIN Minus(n, g) :
        x \in DOMAIN n /\ (x # g \/ n[x] > 1) /\ Minus(n, g)[x] = IF x = g THEN n[x] - 1 ELSE n[x]
  BY Zenon DEF Minus
<1>2. \A x \in DOMAIN n : n[x] \in Nat \ {0} /\ IsSeg(x)
  BY Zenon DEF Wire
<1> QED BY <1>1, <1>2 DEF Wire

\* Some segments, each once.
LEMMA OnceWire ==
  ASSUME NEW S, \A g \in S : IsSeg(g)
  PROVE  Wire(Once(S))
<1>1. DOMAIN Once(S) = S /\ \A g \in S : Once(S)[g] = 1
  BY Zenon DEF Once
<1> QED BY <1>1 DEF Wire

-----------------------------------------------------------------------------
(* Limits: output. *)

\* A zero-initialised slot is within the limits.
LEMMA BlankFits == Fits(TcpSock)
<1>1. Within(TcpSock)
  <2>1. 0 \in SeqNos /\ 0 \in 0 .. RECV_CAP /\ 0 <= SEND_CAP /\ 0 <= RECV_CAP
    BY NetworkLimits, SocketLimits DEF SeqNos
  <2>2. /\ TcpSock.una = 0 /\ TcpSock.nxt = 0 /\ TcpSock.base = 0 /\ TcpSock.iss = 0
        /\ TcpSock.snd = <<>> /\ TcpSock.rcv = <<>> /\ TcpSock.wnd = 0
    BY Zenon DEF TcpSock
  <2> QED BY <2>1, <2>2, EmptySeq, Zenon DEF Within
<1>2. Quiet(TcpSock)
  BY Zenon DEF Quiet, TcpSock
<1>3. TcpSock.backlog <= MAX_ACCEPT
  <2>1. TcpSock.backlog = 0
    BY Zenon DEF TcpSock
  <2> QED BY <2>1, SocketLimits
<1> QED BY <1>1, <1>2, <1>3, BlankSock, Zenon DEF Fits

\* A socket in use that moves on with its peer and within the limits.
LEMMA FitsOn ==
  ASSUME NEW s, Fits(s), s.used, Paired(s), NEW t, Same(s, t), Within(t), t.rip = s.rip
  PROVE  Fits(t) /\ t.used /\ Paired(t)
BY Zenon DEF Fits, Same, Paired

\* A socket that changed in what the limits do not speak of.
LEMMA FitsLike ==
  ASSUME NEW r, Fits(r), r.used, NEW s, IsSock(s), s.used, s.rip = r.rip, s.backlog <= MAX_ACCEPT,
         s.state = r.state \/ s.state \in {"CLOSED", "LISTEN"},
         Alike(r, s)
  PROVE  Fits(s)
<1>1. Within(s)
  <2>1. Within(r)
    BY Zenon DEF Fits
  <2> QED BY <2>1, Zenon DEF Within, Alike
<1>2. Paired(s) \/ Quiet(s)
  BY Zenon DEF Fits, Paired, Quiet, Alike
<1> QED BY <1>1, <1>2, Zenon DEF Fits

\* What it acknowledges and what it offers.
LEMMA AcknoFits ==
  ASSUME NEW s, Within(s)
  PROVE  rcv_ackno(s) \in SeqNos /\ rcv_window(s) \in 0 .. RECV_CAP
<1>1. Len(s.rcv) \in Nat /\ Len(s.rcv) <= RECV_CAP /\ RECV_CAP \in Nat
  BY SocketLimits DEF Within, IsSeq
<1>2. s.base \in Int
  BY NetworkLimits DEF Within, SeqNos
<1> DEFINE x == s.base + Len(s.rcv) + IF s.finr THEN 1 ELSE 0
<1>3. x \in Int
  BY <1>1, <1>2
<1>4. rcv_ackno(s) = x % SEQ
  BY Zenon DEF rcv_ackno
<1> HIDE DEF x
<1>5. rcv_ackno(s) \in SeqNos
  BY <1>3, <1>4, ModSeq, Zenon
<1>6. rcv_window(s) \in 0 .. RECV_CAP
  BY <1>1 DEF rcv_window
<1> QED BY <1>5, <1>6, Zenon

\* The record a handler starts with.
LEMMA WorkingFits ==
  ASSUME NEW h \in Hosts, NEW s, Fits(s), s.used, Paired(s)
  PROVE  FitWork(Working(h, s)) /\ Working(h, s).s = s
<1>1. IsWork(Working(h, s)) /\ Working(h, s).s = s
  BY WorkingIs, Zenon DEF Fits
<1>2. Working(h, s).h = h /\ Working(h, s).out = None
  BY Zenon DEF Working
<1> QED BY <1>1, <1>2, NoneWire, Zenon DEF FitWork

\* Replacing the socket of a working record.
LEMMA FitWorkWith ==
  ASSUME NEW w, FitWork(w), NEW t, Fits(t), t.used, Paired(t)
  PROVE  FitWork([w EXCEPT !.s = t]) /\ [w EXCEPT !.s = t].s = t
<1> DEFINE v == [w EXCEPT !.s = t]
<1>1. IsWork(v) /\ v.s = t
  BY WorkWith, Zenon DEF FitWork, Fits
<1>2. v.h = w.h /\ v.out = w.out
  BY Zenon DEF FitWork, IsWork
<1> HIDE DEF v
<1>3. FitWork(v) /\ v.s = t
  BY <1>1, <1>2, Zenon DEF FitWork
<1> QED BY <1>3, Zenon DEF v

\* What tcp_send_seg() puts on the wire.
LEMMA SegWire ==
  ASSUME NEW w, IsWork(w), Wire(w.out), w.h \in Hosts, w.s.rip \in Hosts, Within(w.s),
         NEW seq \in SeqNos, NEW ackno \in SeqNos, NEW flags, NEW pay, IsSeq(pay)
  PROVE  /\ Wire(tcp_send_seg(w, seq, ackno, flags, pay).out)
         /\ tcp_send_seg(w, seq, ackno, flags, pay).h = w.h
<1> DEFINE v == tcp_send_seg(w, seq, ackno, flags, pay)
           win == rcv_window(w.s)
           g == [from |-> w.h, to |-> w.s.rip, sport |-> w.s.lport, dport |-> w.s.rport,
                 seq |-> seq, ack |-> ackno, flags |-> flags, win |-> win, pay |-> pay]
<1>1. v = [w EXCEPT !.out = Plus(@, Once({g}))]
  BY Zenon DEF tcp_send_seg
<1>2. v.h = w.h /\ v.out = Plus(w.out, Once({g}))
  BY <1>1, Zenon DEF IsWork
<1>3. win \in 0 .. RECV_CAP
  BY AcknoFits, Zenon
<1> HIDE DEF win
<1>4. IsSeg(g)
  <2>1. /\ g.from = w.h /\ g.to = w.s.rip /\ g.seq = seq /\ g.ack = ackno /\ g.win = win
        /\ g.pay = pay
    OBVIOUS
  <2> HIDE DEF g
  <2> QED BY <1>3, <2>1, Zenon DEF IsSeg
<1> HIDE DEF g, v
<1>5. Wire(v.out)
  <2>1. Wire(Once({g}))
    BY <1>4, OnceWire, Zenon
  <2> QED BY <1>2, <2>1, PlusWire, Zenon
<1> QED BY <1>2, <1>5, Zenon DEF v

\* tcp_send_seg() sends one segment to the peer.
LEMMA SegFits ==
  ASSUME NEW w, FitWork(w), NEW seq \in SeqNos, NEW ackno \in SeqNos, NEW flags, NEW pay, IsSeq(pay)
  PROVE  /\ FitWork(tcp_send_seg(w, seq, ackno, flags, pay))
         /\ tcp_send_seg(w, seq, ackno, flags, pay).s = w.s
<1> DEFINE v == tcp_send_seg(w, seq, ackno, flags, pay)
<1>1. IsWork(v) /\ v.s = w.s
  BY SegKeeps DEF FitWork
<1>2. Wire(v.out) /\ v.h = w.h
  BY SegWire DEF FitWork, Fits, Paired
<1> HIDE DEF v
<1>3. FitWork(v) /\ v.s = w.s
  BY <1>1, <1>2, Zenon DEF FitWork
<1> QED BY <1>3, Zenon DEF v

\* tcp_push() sends pieces of the buffer, and of what lies behind it.
LEMMA PushFits ==
  ASSUME NEW w, FitWork(w)
  PROVE  FitWork(tcp_push(w)) /\ Same(w.s, tcp_push(w).s)
<1> DEFINE s        == w.s
           inflight == (s.nxt - s.una) % SEQ
           unsent   == (Len(s.snd) - inflight) % SEQ
           n        == IF inflight < s.wnd THEN Least({unsent, s.wnd - inflight}) ELSE 0
           seq(o)   == (s.nxt + o) % SEQ
           to(o)    == inflight + Least({o + MSS, n})
           pay(o)   == SendBytes(s, inflight + o, to(o))
           g(o)     == [from |-> w.h, to |-> s.rip, sport |-> s.lport, dport |-> s.rport,
                        seq |-> seq(o), ack |-> rcv_ackno(s), flags |-> {"ACK"},
                        win |-> rcv_window(s), pay |-> pay(o)]
           Os       == {MSS * k : k \in 0 .. ((n + MSS - 1) \div MSS) - 1}
           pieces   == {g(o) : o \in Os}
           rto      == s.rto \/ n > 0
           nxt      == (s.nxt + n) % SEQ
           t        == [s EXCEPT !.nxt = nxt, !.rto = rto]
<1>1. Within(s) /\ Fits(s) /\ s.used /\ Paired(s) /\ IsSock(s) /\ IsWork(w) /\ w.h \in Hosts /\ Wire(w.out)
  BY Zenon DEF FitWork, Fits
<1>2. tcp_push(w) = [w EXCEPT !.out = Plus(@, Once(pieces)), !.s.nxt = nxt, !.s.rto = rto]
  BY Zenon DEF tcp_push
<1> HIDE DEF nxt, rto, pieces
<1>3. tcp_push(w) = [h |-> w.h, s |-> t, out |-> Plus(w.out, Once(pieces))]
  BY <1>1, <1>2, Zenon DEF IsWork
<1> HIDE DEF t
<1>4. /\ s.nxt \in Nat /\ s.una \in Nat /\ s.wnd \in Nat /\ Len(s.snd) \in Nat /\ MSS \in Nat \ {0}
      /\ SeqNos \subseteq Nat
  BY <1>1, NetworkLimits, SocketLimits DEF Within, SeqNos, IsSeq
<1>5. inflight \in Nat
  <2>1. s.nxt - s.una \in Int
    BY <1>4
  <2> QED BY <1>4, <2>1, ModSeq, Zenon
<1> HIDE DEF inflight
<1>6. unsent \in Nat
  <2>1. Len(s.snd) - inflight \in Int
    BY <1>4, <1>5
  <2> QED BY <1>4, <2>1, ModSeq, Zenon
<1>7. n \in Nat
  <2> HIDE DEF unsent
  <2>1. inflight < s.wnd => s.wnd - inflight \in Nat
    BY <1>4, <1>5
  <2>2. inflight < s.wnd => Least({unsent, s.wnd - inflight}) \in {unsent, s.wnd - inflight}
    BY <1>6, <2>1, LeastOfTwo, Zenon
  <2> QED BY <1>6, <2>1, <2>2
<1> HIDE DEF unsent, n
<1>8. \A o \in Os : o \in Nat
  BY <1>4, <1>7
<1> HIDE DEF Os
<1>9. \A o \in Os : seq(o) \in SeqNos
  <2>1. \A o \in Os : s.nxt + o \in Int
    BY <1>4, <1>8
  <2> QED BY <2>1, ModSeq, Zenon
<1>10. ASSUME NEW o \in Os PROVE IsSeq(pay(o))
  <2>1. o + MSS \in Nat
    BY <1>4, <1>8
  <2>2. Least({o + MSS, n}) \in Nat
    BY <1>7, <2>1, LeastOfTwo, Zenon
  <2>3. to(o) - (inflight + o) \in Int
    BY <1>5, <1>8, <2>2
  <2> DEFINE m == to(o) - (inflight + o)
  <2>4. pay(o) = [k \in 1 .. m |-> pay(o)[k]]
    BY Zenon DEF SendBytes
  <2> HIDE DEF pay, m
  <2> QED BY <2>3, <2>4, SeqGiven, Zenon DEF m
<1>11. nxt \in SeqNos
  <2>1. s.nxt + n \in Int
    BY <1>4, <1>7
  <2> QED BY <2>1, ModSeq, Zenon DEF nxt
<1>12. rcv_ackno(s) \in SeqNos /\ rcv_window(s) \in 0 .. RECV_CAP
  BY <1>1, AcknoFits, Zenon
<1> HIDE DEF seq, pay
<1>13. ASSUME NEW o \in Os PROVE IsSeg(g(o))
  <2>1. /\ g(o).from = w.h /\ g(o).to = s.rip /\ g(o).seq = seq(o) /\ g(o).ack = rcv_ackno(s)
        /\ g(o).win = rcv_window(s) /\ g(o).pay = pay(o)
    BY Zenon
  <2> HIDE DEF g
  <2> QED BY <1>1, <1>9, <1>10, <1>12, <2>1, Zenon DEF IsSeg, Paired
<1> HIDE DEF g
<1>14. Wire(Plus(w.out, Once(pieces)))
  <2>1. \A x \in pieces : IsSeg(x)
    BY <1>13, Zenon DEF pieces
  <2> QED BY <1>1, <2>1, OnceWire, PlusWire, Zenon
<1>15. Same(s, t) /\ Within(t) /\ t.rip = s.rip
  <2>1. t = [s EXCEPT !.nxt = nxt, !.rto = rto]
    BY Zenon DEF t
  <2> HIDE DEF s
  <2>2. Same(s, t) /\ t.rip = s.rip
    BY <1>1, <2>1, ZenonT(40) DEF Same, IsSock, Fields
  <2>3. /\ t.una = s.una /\ t.nxt = nxt /\ t.base = s.base /\ t.iss = s.iss /\ t.snd = s.snd /\ t.rcv = s.rcv
        /\ t.wnd = s.wnd
    BY <1>1, <2>1, ZenonT(40) DEF IsSock, Fields
  <2> QED BY <1>1, <1>11, <2>2, <2>3, Zenon DEF Within
<1>16. Fits(t) /\ t.used /\ Paired(t) /\ IsSock(t)
  BY <1>1, <1>15, FitsOn, Zenon DEF Same
<1>17. tcp_push(w).s = t /\ tcp_push(w).h = w.h /\ tcp_push(w).out = Plus(w.out, Once(pieces))
  BY <1>3
<1>18. IsWork(tcp_push(w))
  BY <1>1, PushKeeps, Zenon
<1> QED BY <1>1, <1>14, <1>15, <1>16, <1>17, <1>18, Zenon DEF FitWork

\* Every sequence number is a number.
LEMMA SeqNosAre == SeqNos \subseteq Nat /\ 0 \in SeqNos
BY NetworkLimits DEF SeqNos

\* tcp_send_ack() sends one segment.
LEMMA AckFits ==
  ASSUME NEW w, FitWork(w)
  PROVE  FitWork(tcp_send_ack(w)) /\ tcp_send_ack(w).s = w.s
<1>1. w.s.nxt \in SeqNos /\ rcv_ackno(w.s) \in SeqNos
  BY AcknoFits, Zenon DEF FitWork, Fits, Within
<1> QED BY <1>1, EmptySeq, SegFits DEF tcp_send_ack

\* tcp_send_fin() sends one and counts it.
LEMMA FinFits ==
  ASSUME NEW w, FitWork(w)
  PROVE  FitWork(tcp_send_fin(w)) /\ Same(w.s, tcp_send_fin(w).s)
<1> DEFINE v == tcp_send_seg(w, w.s.nxt, rcv_ackno(w.s), {"ACK", "FIN"}, <<>>)
           yes == TRUE
           n == (v.s.nxt + 1) % SEQ
           t == [v.s EXCEPT !.nxt = n, !.rto = yes]
<1>1. w.s.nxt \in SeqNos /\ rcv_ackno(w.s) \in SeqNos
  BY AcknoFits, Zenon DEF FitWork, Fits, Within
<1>2. FitWork(v) /\ v.s = w.s
  BY <1>1, EmptySeq, SegFits
<1>3. tcp_send_fin(w) = [v EXCEPT !.s.nxt = n, !.s.rto = yes]
  BY Zenon DEF tcp_send_fin
<1> HIDE DEF v
<1>4. n \in SeqNos
  <2>1. v.s.nxt \in Nat
    BY <1>1, <1>2, SeqNosAre, Zenon
  <2>2. \A x \in Nat : x + 1 \in Int
    OBVIOUS
  <2> QED BY <2>1, <2>2, ModSeq, Zenon
<1> HIDE DEF n, yes
<1>5. tcp_send_fin(w) = [v EXCEPT !.s = t]
  BY <1>2, <1>3, Zenon DEF FitWork, IsWork
<1> HIDE DEF t
<1>6. Same(v.s, t) /\ t.rip = v.s.rip /\ Within(t)
  <2> DEFINE s == v.s
  <2>1. t = [s EXCEPT !.nxt = n, !.rto = yes] /\ IsSock(s) /\ Within(s)
    BY <1>2, Zenon DEF t, FitWork, IsWork, Fits
  <2> HIDE DEF s
  <2>2. Same(s, t) /\ t.rip = s.rip
    BY <2>1, ZenonT(40) DEF Same, IsSock, Fields
  <2>3. /\ t.una = s.una /\ t.nxt = n /\ t.base = s.base /\ t.iss = s.iss /\ t.snd = s.snd /\ t.rcv = s.rcv
        /\ t.wnd = s.wnd
    BY <2>1, ZenonT(40) DEF IsSock, Fields
  <2>4. Within(t)
    BY <1>4, <2>1, <2>3, Zenon DEF Within
  <2> QED BY <2>2, <2>4, Zenon DEF s
<1>7. Fits(t) /\ t.used /\ Paired(t)
  BY <1>2, <1>6, FitsOn, Zenon DEF FitWork
<1>8. FitWork([v EXCEPT !.s = t]) /\ [v EXCEPT !.s = t].s = t
  BY <1>2, <1>7, FitWorkWith, Zenon
<1> QED BY <1>2, <1>5, <1>6, <1>8, Zenon

\* tcp_retransmit() goes back to the first unacknowledged byte.
LEMMA RetransmitFits ==
  ASSUME NEW w, FitWork(w)
  PROVE  FitWork(tcp_retransmit(w)) /\ Same(w.s, tcp_retransmit(w).s)
<1>0. IsSock(w.s) /\ Within(w.s) /\ Fits(w.s) /\ w.s.used /\ Paired(w.s)
  BY Zenon DEF FitWork, Fits
<1>1. CASE w.s.state = "SYN_SENT"
  <2>1. tcp_retransmit(w) = tcp_send_seg(w, w.s.iss, 0, {"SYN"}, <<>>)
    BY <1>1, Zenon DEF tcp_retransmit, send_syn
  <2>2. w.s.iss \in SeqNos /\ Same(w.s, w.s)
    BY <1>0, SameSelf, Zenon DEF Within
  <2>3. 0 \in SeqNos /\ IsSeq(<<>>)
    BY SeqNosAre, EmptySeq, Zenon
  <2>4. FitWork(tcp_retransmit(w)) /\ tcp_retransmit(w).s = w.s
    BY <2>1, <2>2, <2>3, SegFits
  <2> QED BY <2>2, <2>4, Zenon
<1>2. CASE w.s.state # "SYN_SENT"
  <2> DEFINE s == w.s
             n == s.una
             t == [s EXCEPT !.nxt = n]
             v == [w EXCEPT !.s = t]
  <2>1. [w EXCEPT !.s.nxt = w.s.una] = v
    BY Zenon DEF FitWork, IsWork
  <2>2. tcp_retransmit(w) = tcp_push(v)
    BY <1>2, <2>1, Zenon DEF tcp_retransmit
  <2>3. n \in SeqNos
    BY <1>0, Zenon DEF Within
  <2> HIDE DEF n, s
  <2>4. Same(s, t) /\ t.rip = s.rip
    BY <1>0, ZenonT(40) DEF Same, IsSock, Fields, s
  <2>5. /\ t.una = s.una /\ t.nxt = n /\ t.base = s.base /\ t.iss = s.iss /\ t.snd = s.snd /\ t.rcv = s.rcv
        /\ t.wnd = s.wnd
    BY <1>0, ZenonT(40) DEF IsSock, Fields, s
  <2> HIDE DEF t
  <2>6. Within(t)
    BY <1>0, <2>3, <2>5, Zenon DEF Within, s
  <2>7. Fits(t) /\ t.used /\ Paired(t)
    BY <1>0, <2>4, <2>6, FitsOn, Zenon DEF s
  <2>8. FitWork(v) /\ v.s = t
    BY <2>7, FitWorkWith, Zenon
  <2> HIDE DEF v
  <2> QED BY <2>2, <2>4, <2>8, PushFits, SameThen, Zenon DEF s
<1> QED BY <1>1, <1>2, Zenon

\* A pass of the loop of close() pushes and sends a FIN.
LEMMA FlushFits ==
  ASSUME NEW w, FitWork(w)
  PROVE  FitWork(FlushAndFin(w)) /\ Same(w.s, FlushAndFin(w).s)
<1>1. FitWork(tcp_push(w)) /\ Same(w.s, tcp_push(w).s)
  BY PushFits, Zenon
<1>2. FitWork(tcp_send_fin(tcp_push(w))) /\ Same(tcp_push(w).s, tcp_send_fin(tcp_push(w)).s)
  BY <1>1, FinFits, Zenon
<1>3. Same(w.s, tcp_send_fin(tcp_push(w)).s)
  BY <1>1, <1>2, SameThen, Zenon
<1>4. FlushAndFin(w) = tcp_push(w) \/ FlushAndFin(w) = tcp_send_fin(tcp_push(w))
  BY Zenon DEF FlushAndFin
<1> QED BY <1>1, <1>2, <1>3, <1>4, Zenon

-----------------------------------------------------------------------------
(* Limits: input. *)

\* An acknowledgement covers no more than is buffered, so what is left fits.
LEMMA AcknowledgeFits ==
  ASSUME NEW w, FitWork(w), NEW ackno \in SeqNos, NEW window \in 0 .. RECV_CAP
  PROVE  /\ FitWork(acknowledge(w, ackno, window))
         /\ Same(w.s, acknowledge(w, ackno, window).s)
<1> DEFINE s == w.s
           bogus == ackno <= s.una \/ ackno > (s.una + Len(s.snd)) % SEQ
           adv == ackno - s.una
           left == SubSeq(s.snd, adv + 1, Len(s.snd))
           rto == s.rto /\ adv < Len(s.snd)
           t == [s EXCEPT !.snd = left, !.una = ackno, !.wnd = window, !.rto = rto]
           v == [w EXCEPT !.s = t]
<1>1. acknowledge(w, ackno, window) = IF bogus THEN w ELSE tcp_push(v)
  BY Zenon DEF acknowledge
<1>2. IsSock(s) /\ Within(s) /\ Fits(s) /\ s.used /\ Paired(s)
  BY Zenon DEF FitWork, Fits
<1>3. CASE bogus
  BY <1>1, <1>2, <1>3, SameSelf, Zenon
<1>4. CASE ~bogus
  <2>1. IsSeq(left) /\ Len(left) <= SEND_CAP
    <3>1. /\ s.una \in SeqNos /\ Len(s.snd) <= SEND_CAP /\ IsSeq(s.snd)
      BY <1>2, Zenon DEF Within
    <3>2. Len(s.snd) \in Nat /\ SEND_CAP \in Nat
      BY <3>1, EmptySeq, SeqJoined, SocketLimits, Zenon
    <3>3. adv \in 0 .. Len(s.snd)
      BY <1>4, <3>1, <3>2, SeqCovered, Zenon
    <3>4. IsSeq(left) /\ Len(left) = Len(s.snd) - adv
      BY <3>1, <3>3, SeqCut, Zenon
    <3> HIDE DEF left, adv, s
    <3> QED BY ONLY <3>1, <3>2, <3>3, <3>4
  <2> HIDE DEF left, rto, s, bogus
  <2>2. Same(s, t) /\ t.rip = s.rip
    BY <1>2, ZenonT(40) DEF Same, IsSock, Fields
  <2>3. /\ t.una = ackno /\ t.nxt = s.nxt /\ t.base = s.base /\ t.iss = s.iss /\ t.snd = left
        /\ t.rcv = s.rcv /\ t.wnd = window
    BY <1>2, ZenonT(40) DEF IsSock, Fields
  <2> HIDE DEF t
  <2>4. Within(t)
    BY <1>2, <2>1, <2>3, Zenon DEF Within
  <2>5. Fits(t) /\ t.used /\ Paired(t)
    BY <1>2, <2>2, <2>4, FitsOn, Zenon
  <2>6. FitWork(v) /\ v.s = t
    BY <2>5, FitWorkWith, Zenon
  <2> HIDE DEF v
  <2> QED BY <1>1, <1>4, <2>2, <2>6, PushFits, SameThen, Zenon DEF s
<1> QED BY <1>3, <1>4, Zenon

\* A FIN changes no counter.
LEMMA TakeFinFits ==
  ASSUME NEW w, FitWork(w), Connected(w.s), NEW g, NEW need
  PROVE  FitWork(TakeFin(w, g, need)) /\ Same(w.s, TakeFin(w, g, need).s)
<1> DEFINE fresh == "FIN" \in g.flags /\ ~w.s.finr
           yes == TRUE
           s == w.s
           t == [s EXCEPT !.finr = yes, !.state = "CLOSE_WAIT"]
           u == [w EXCEPT !.s = t]
           v == IF fresh THEN u ELSE w
<1>1. TakeFin(w, g, need) =
        LET x == IF fresh THEN [w EXCEPT !.s.finr = yes, !.s.state = "CLOSE_WAIT"] ELSE w
        IN  IF fresh \/ need THEN tcp_send_ack(x) ELSE x
  BY Zenon DEF TakeFin
<1>2. IsSock(s) /\ Within(s) /\ Fits(s) /\ s.used /\ Paired(s) /\ Connected(s)
  BY Zenon DEF FitWork, Fits
<1>3. [w EXCEPT !.s.finr = yes, !.s.state = "CLOSE_WAIT"] = u
  BY Zenon DEF FitWork, IsWork
<1>4. TakeFin(w, g, need) = IF fresh \/ need THEN tcp_send_ack(v) ELSE v
  BY <1>1, <1>3, Zenon
<1> HIDE DEF yes, s, fresh
<1>5. Same(s, t) /\ t.rip = s.rip
  BY <1>2, ZenonT(40) DEF Same, IsSock, Fields, Connected, States
<1>6. Alike(s, t)
  BY <1>2, ZenonT(40) DEF Alike, IsSock, Fields
<1> HIDE DEF t
<1>7. Fits(t) /\ t.used /\ Paired(t)
  <2>1. Within(t)
    BY <1>2, <1>6, Zenon DEF Within, Alike
  <2> QED BY <1>2, <1>5, <2>1, FitsOn, Zenon
<1>8. FitWork(u) /\ u.s = t
  BY <1>7, FitWorkWith, Zenon
<1> HIDE DEF u
<1>9. FitWork(v) /\ Same(w.s, v.s)
  BY <1>2, <1>5, <1>8, SameSelf, Zenon DEF s
<1> HIDE DEF v
<1> QED BY <1>4, <1>9, AckFits, Zenon

\* A payload is taken only if it fits.
LEMMA TakePayloadFits ==
  ASSUME NEW w, FitWork(w), Connected(w.s), NEW g, IsSeg(g)
  PROVE  FitWork(TakePayload(w, g)) /\ Same(w.s, TakePayload(w, g).s)
<1> DEFINE s == w.s
           all == s.rcv \o g.pay
           t == [s EXCEPT !.rcv = all]
           u == [w EXCEPT !.s = t]
<1>1. IsSock(s) /\ Within(s) /\ Fits(s) /\ s.used /\ Paired(s) /\ Connected(s)
  BY Zenon DEF FitWork, Fits
<1>2. [w EXCEPT !.s.rcv = @ \o g.pay] = u
  BY Zenon DEF FitWork, IsWork
<1>3. \/ TakePayload(w, g) = TakeFin(w, g, FALSE)
      \/ /\ ~(Len(s.rcv) + Len(g.pay) > RECV_CAP)
         /\ TakePayload(w, g) = TakeFin(u, g, TRUE)
      \/ TakePayload(w, g) = tcp_send_ack(w)
      \/ TakePayload(w, g) = w
  BY <1>2, Zenon DEF TakePayload
<1>4. ASSUME ~(Len(s.rcv) + Len(g.pay) > RECV_CAP) PROVE IsSeq(all) /\ Len(all) <= RECV_CAP
  <2>1. IsSeq(s.rcv) /\ IsSeq(g.pay)
    BY <1>1, Zenon DEF Within, IsSeg
  <2>2. IsSeq(all) /\ Len(all) = Len(s.rcv) + Len(g.pay) /\ Len(s.rcv) \in Nat /\ Len(g.pay) \in Nat
    BY <2>1, SeqJoined, Zenon
  <2> HIDE DEF all, s
  <2> QED BY <1>4, <2>2, SumFits, SocketLimits, Zenon
<1> HIDE DEF all, s
<1>5. Same(s, t) /\ t.rip = s.rip /\ Connected(t)
  BY <1>1, ZenonT(40) DEF Same, IsSock, Fields, Connected
<1>6. /\ t.una = s.una /\ t.nxt = s.nxt /\ t.base = s.base /\ t.iss = s.iss /\ t.snd = s.snd
      /\ t.rcv = all /\ t.wnd = s.wnd
  BY <1>1, ZenonT(40) DEF IsSock, Fields
<1> HIDE DEF t
<1>7. ASSUME ~(Len(s.rcv) + Len(g.pay) > RECV_CAP) PROVE FitWork(u) /\ u.s = t
  <2>1. Within(t)
    BY <1>1, <1>4, <1>6, <1>7, Zenon DEF Within
  <2>2. Fits(t) /\ t.used /\ Paired(t)
    BY <1>1, <1>5, <2>1, FitsOn, Zenon
  <2> QED BY <2>2, FitWorkWith, Zenon
<1> HIDE DEF u
<1>8. ASSUME ~(Len(s.rcv) + Len(g.pay) > RECV_CAP)
      PROVE  \A yes : FitWork(TakeFin(u, g, yes)) /\ Same(w.s, TakeFin(u, g, yes).s)
  <2>1. FitWork(u) /\ Connected(u.s) /\ Same(w.s, u.s)
    BY <1>5, <1>7, <1>8, Zenon DEF s
  <2>2. \A yes : FitWork(TakeFin(u, g, yes)) /\ Same(u.s, TakeFin(u, g, yes).s)
    BY <2>1, TakeFinFits, Zenon
  <2> QED BY <2>1, <2>2, SameThen, Zenon
<1>9. \A no : FitWork(TakeFin(w, g, no)) /\ Same(w.s, TakeFin(w, g, no).s)
  BY TakeFinFits, Zenon
<1>10. FitWork(tcp_send_ack(w)) /\ Same(w.s, tcp_send_ack(w).s) /\ Same(w.s, w.s)
  BY <1>1, AckFits, SameSelf, Zenon DEF s
<1> QED BY <1>3, <1>8, <1>9, <1>10, Zenon

-----------------------------------------------------------------------------
(* Limits: tables. *)

\* What may become of a table that is within the limits: it stays so, and no socket is freed.
Good(tab, T) == FitTable(T) /\ \A j \in Slots : tab[j].used => T[j].used

\* The same of what handling a segment does.
GoodEffect(tab, e) == Good(tab, e.tab) /\ Wire(e.out)

\* One socket replaced.
LEMMA OneFits ==
  ASSUME NEW tab, tab = [j \in Slots |-> tab[j]], FitTable(tab), NEW i \in Slots,
         NEW s, Fits(s), s.used
  PROVE  Good(tab, [tab EXCEPT ![i] = s])
<1> DEFINE T == [tab EXCEPT ![i] = s]
<1>1. T[i] = s /\ \A j \in Slots \ {i} : T[j] = tab[j]
  BY Zenon
<1> HIDE DEF T
<1>2. Good(tab, T)
  BY <1>1, Zenon DEF Good, FitTable
<1> QED BY <1>2, Zenon DEF T

\* Nothing done, or only a segment sent.
LEMMA EffectFits ==
  ASSUME NEW tab, FitTable(tab), NEW o, Wire(o), NEW d
  PROVE  GoodEffect(tab, Nothing(tab)) /\ GoodEffect(tab, Effect(tab, o, d))
<1>1. /\ Nothing(tab).tab = tab /\ Nothing(tab).out = None
      /\ Effect(tab, o, d).tab = tab /\ Effect(tab, o, d).out = o
  BY Zenon DEF Nothing, Effect
<1> QED BY <1>1, NoneWire, Zenon DEF GoodEffect, Good

\* A socket served.
LEMMA ServedFits ==
  ASSUME NEW tab, tab = [j \in Slots |-> tab[j]], FitTable(tab), NEW i \in Slots,
         NEW w, FitWork(w), NEW d
  PROVE  GoodEffect(tab, Served(tab, i, w)) /\ GoodEffect(tab, Effect([tab EXCEPT ![i] = w.s], w.out, d))
<1> DEFINE T == [tab EXCEPT ![i] = w.s]
<1>1. /\ Served(tab, i, w).tab = T /\ Served(tab, i, w).out = w.out
      /\ Effect(T, w.out, d).tab = T /\ Effect(T, w.out, d).out = w.out
  BY Zenon DEF Served, Effect
<1>2. Good(tab, T)
  BY OneFits, Zenon DEF FitWork
<1> HIDE DEF T
<1>3. GoodEffect(tab, Served(tab, i, w)) /\ GoodEffect(tab, Effect(T, w.out, d))
  BY <1>1, <1>2, Zenon DEF GoodEffect, FitWork
<1> QED BY <1>3, Zenon DEF T

\* One number on from a sequence number.
LEMMA NextSeq ==
  ASSUME NEW x \in SeqNos
  PROVE  (x + 1) % SEQ \in SeqNos
<1>1. x + 1 \in Int
  BY SeqNosAre
<1> QED BY <1>1, ModSeq, Zenon

\* send_reset() answers whoever sent the segment.
LEMMA ResetWire ==
  ASSUME NEW h \in Hosts, NEW g, IsSeg(g)
  PROVE  Wire(send_reset(h, g).out)
<1> DEFINE r == TcpSock
           s == [r EXCEPT !.rip = g.from, !.lport = g.dport, !.rport = g.sport]
           w == Working(h, s)
           n == (g.seq + 1) % SEQ
<1>1. send_reset(h, g) = tcp_send_seg(w, 0, n, {"RST", "ACK"}, <<>>)
  BY Zenon DEF send_reset
<1>2. IsSock(r) /\ Within(r)
  BY BlankFits, Zenon DEF Fits
<1> HIDE DEF r
<1>3. IsSock(s) /\ s.rip = g.from
  BY <1>2, ZenonT(40) DEF IsSock, Fields
<1>4. Alike(r, s)
  BY <1>2, ZenonT(40) DEF Alike, IsSock, Fields
<1> HIDE DEF s
<1>5. Within(s)
  BY <1>2, <1>4, Zenon DEF Within, Alike
<1>6. IsWork(w) /\ w.s = s
  BY <1>3, WorkingIs, Zenon
<1>7. w.h = h /\ w.out = None
  BY Zenon DEF Working
<1> HIDE DEF w
<1>8. n \in SeqNos
  BY NextSeq, Zenon DEF IsSeg
<1> HIDE DEF n
<1>9. g.from \in Hosts
  BY Zenon DEF IsSeg
<1>10. Wire(w.out) /\ w.h \in Hosts /\ w.s.rip \in Hosts /\ Within(w.s)
  BY <1>3, <1>5, <1>6, <1>7, <1>9, NoneWire, Zenon
<1> QED BY <1>1, <1>6, <1>8, <1>10, SeqNosAre, EmptySeq, SegWire

\* handle_syn_ack(): the client is connected, to whom it called.
LEMMA SynAckFits ==
  ASSUME NEW tab, Sound(tab), FitTable(tab), NEW i \in Slots, tab[i].used, tab[i].state = "SYN_SENT",
         NEW h \in Hosts, NEW g, IsSeg(g)
  PROVE  GoodEffect(tab, handle_syn_ack(h, tab, i, g))
<1> DEFINE r == tab[i]
           no == FALSE
           b == (g.seq + 1) % SEQ
           s == [r EXCEPT !.wnd = g.win, !.una = g.ack, !.nxt = g.ack, !.base = b,
                          !.rcv = <<>>, !.rto = no, !.state = "ESTABLISHED"]
<1>1. \/ handle_syn_ack(h, tab, i, g) = Nothing(tab)
      \/ handle_syn_ack(h, tab, i, g) = Served(tab, i, tcp_send_ack(Working(h, s)))
  BY Zenon DEF handle_syn_ack
<1>2. Fits(r) /\ r.used /\ r.state = "SYN_SENT"
  BY Zenon DEF FitTable
<1>3. b \in SeqNos
  BY NextSeq, Zenon DEF IsSeg
<1> HIDE DEF r, no, b
<1>4. IsSock(r) /\ Within(r) /\ Paired(r) /\ r.backlog <= MAX_ACCEPT
  BY <1>2, Zenon DEF Fits, Quiet
<1>5. IsSock(s) /\ s.used = r.used /\ s.rip = r.rip /\ s.backlog = r.backlog
  BY <1>4, ZenonT(40) DEF IsSock, Fields, States
<1>6. /\ s.una = g.ack /\ s.nxt = g.ack /\ s.base = b /\ s.iss = r.iss /\ s.snd = r.snd
      /\ s.rcv = <<>> /\ s.wnd = g.win
  BY <1>4, ZenonT(40) DEF IsSock, Fields
<1> HIDE DEF s
<1>7. Within(s)
  <2>1. Len(<<>>) <= RECV_CAP
    BY EmptySeq, SocketLimits
  <2> QED BY <1>3, <1>4, <1>6, <2>1, EmptySeq, Zenon DEF Within, IsSeg
<1>8. Fits(s) /\ s.used /\ Paired(s)
  BY <1>2, <1>4, <1>5, <1>7, Zenon DEF Fits, Paired
<1>9. FitWork(tcp_send_ack(Working(h, s)))
  BY <1>8, WorkingFits, AckFits, Zenon
<1>10. tab = [j \in Slots |-> tab[j]]
  BY Zenon DEF Sound, IsTable
<1> QED BY <1>1, <1>9, <1>10, ServedFits, EffectFits, NoneWire, Zenon

\* The n-th initial sequence number is one.
LEMMA IssSeq ==
  ASSUME NEW n \in Nat
  PROVE  ISN(n) \in SeqNos
<1>1. ISS_STEP * n \in Int
  BY NetworkLimits
<1> QED BY <1>1, ModSeq, Zenon DEF ISN

\* The child a SYN spawns.
LEMMA ChildFits ==
  ASSUME ticks \in Nat, NEW l \in Slots, NEW g, IsSeg(g)
  PROVE  Fits(Child(l, g)) /\ Child(l, g).used /\ Paired(Child(l, g))
<1> DEFINE r == TcpSock
           yes == TRUE
           d == derive_iss
           b == (g.seq + 1) % SEQ
           s == [r EXCEPT !.used = yes, !.state = "SYN_RCVD", !.rip = g.from,
                          !.rport = g.sport, !.lport = g.dport, !.lst = l,
                          !.iss = d, !.una = d, !.nxt = d, !.base = b, !.wnd = g.win, !.rto = yes]
<1>1. Child(l, g) = s
  BY Zenon DEF Child
<1>2. IsSock(s) /\ s.used
  BY <1>1, ChildIs
<1>3. IsSock(r) /\ Within(r) /\ r.backlog <= MAX_ACCEPT
  BY BlankFits, Zenon DEF Fits
<1>4. d \in SeqNos
  <2>1. ticks + 1 \in Nat
    OBVIOUS
  <2> QED BY <2>1, IssSeq, Zenon DEF derive_iss
<1>5. b \in SeqNos
  BY NextSeq, Zenon DEF IsSeg
<1> HIDE DEF r, yes, d, b
<1>6. /\ s.una = d /\ s.nxt = d /\ s.base = b /\ s.iss = d /\ s.snd = r.snd
      /\ s.rcv = r.rcv /\ s.wnd = g.win
  BY <1>3, ZenonT(40) DEF IsSock, Fields
<1>7. s.rip = g.from /\ s.backlog = r.backlog
  BY <1>3, ZenonT(40) DEF IsSock, Fields
<1> HIDE DEF s
<1>8. Within(s)
  BY <1>3, <1>4, <1>5, <1>6, Zenon DEF Within, IsSeg
<1> QED BY <1>1, <1>2, <1>3, <1>7, <1>8, Zenon DEF Fits, Paired, IsSeg

\* send_syn_ack() and send_syn() send one segment.
LEMMA SynsFit ==
  ASSUME NEW w, FitWork(w)
  PROVE  /\ FitWork(send_syn_ack(w)) /\ send_syn_ack(w).s = w.s
         /\ FitWork(send_syn(w)) /\ send_syn(w).s = w.s
<1>1. w.s.iss \in SeqNos /\ w.s.base \in SeqNos
  BY Zenon DEF FitWork, Fits, Within
<1>2. FitWork(send_syn_ack(w)) /\ send_syn_ack(w).s = w.s
  BY <1>1, EmptySeq, SegFits DEF send_syn_ack
<1> DEFINE zero == 0
<1>3. zero \in SeqNos /\ send_syn(w) = tcp_send_seg(w, w.s.iss, zero, {"SYN"}, <<>>)
  BY SeqNosAre, Zenon DEF send_syn
<1> HIDE DEF zero
<1>4. FitWork(send_syn(w)) /\ send_syn(w).s = w.s
  BY <1>1, <1>3, EmptySeq, SegFits
<1> QED BY <1>2, <1>4, Zenon

\* handle_incoming_syn(): the SYN-ACK again, a reset, nothing, or a child.
LEMMA IncomingSynFits ==
  ASSUME ticks \in Nat, NEW tab, Sound(tab), FitTable(tab), NEW h \in Hosts, NEW g, IsSeg(g)
  PROVE  GoodEffect(tab, handle_incoming_syn(h, tab, g))
<1> DEFINE x == find_peer_sock(tab, g)
           l == find_listener(tab, g)
           i == FreeSlot(tab)
           w == send_syn_ack(Working(h, Child(l, g)))
           e == handle_incoming_syn(h, tab, g)
           yes == TRUE
           no == FALSE
<1>1. x # NoSlot => x \in Slots /\ tab[x].used
  BY FirstIsIn, Zenon DEF find_peer_sock
<1>2. l # NoSlot => l \in Slots
  BY FirstIsIn, Zenon DEF find_listener
<1>3. i # NoSlot => i \in Slots
  BY FirstIsIn, Zenon DEF FreeSlot
<1>4. \/ /\ x # NoSlot /\ tab[x].state = "SYN_RCVD"
         /\ e = Served(tab, x, send_syn_ack(Working(h, tab[x])))
      \/ e = Effect(tab, send_reset(h, g).out, no)
      \/ e = Nothing(tab)
      \/ /\ l # NoSlot /\ i # NoSlot /\ e = Effect([tab EXCEPT ![i] = w.s], w.out, yes)
  BY Zenon DEF handle_incoming_syn
<1>5. tab = [j \in Slots |-> tab[j]]
  BY Zenon DEF Sound, IsTable
<1> HIDE DEF x, l, i, w, e, yes, no
<1>6. CASE /\ x # NoSlot /\ tab[x].state = "SYN_RCVD"
           /\ e = Served(tab, x, send_syn_ack(Working(h, tab[x])))
  <2>1. x \in Slots /\ Fits(tab[x]) /\ tab[x].used /\ Paired(tab[x])
    BY <1>1, <1>6, Zenon DEF FitTable, Fits, Quiet
  <2>2. FitWork(send_syn_ack(Working(h, tab[x])))
    BY <2>1, WorkingFits, SynsFit, Zenon
  <2> QED BY <1>5, <1>6, <2>1, <2>2, ServedFits, Zenon DEF e
<1>7. CASE e = Effect(tab, send_reset(h, g).out, no)
  BY <1>7, ResetWire, EffectFits, Zenon DEF e
<1>8. CASE e = Nothing(tab)
  BY <1>8, NoneWire, EffectFits, Zenon DEF e
<1>9. CASE l # NoSlot /\ i # NoSlot /\ e = Effect([tab EXCEPT ![i] = w.s], w.out, yes)
  <2>1. Fits(Child(l, g)) /\ Child(l, g).used /\ Paired(Child(l, g))
    BY <1>2, <1>9, ChildFits, Zenon
  <2>2. FitWork(w)
    BY <2>1, WorkingFits, SynsFit, Zenon DEF w
  <2> QED BY <1>3, <1>5, <1>9, <2>2, ServedFits, Zenon DEF e
<1> QED BY <1>4, <1>6, <1>7, <1>8, <1>9, Zenon

\* A segment with SYN set.
LEMMA InputSynFits ==
  ASSUME ticks \in Nat, NEW tab, Sound(tab), FitTable(tab), NEW h \in Hosts, NEW g, IsSeg(g)
  PROVE  GoodEffect(tab, InputSyn(h, tab, g))
<1> DEFINE i == find_peer_sock(tab, g)
           no == FALSE
<1>1. i # NoSlot => i \in Slots /\ tab[i].used
  BY FirstIsIn, Zenon DEF find_peer_sock
<1>2. \/ /\ i # NoSlot /\ tab[i].state = "SYN_SENT"
         /\ InputSyn(h, tab, g) = handle_syn_ack(h, tab, i, g)
      \/ InputSyn(h, tab, g) = Nothing(tab)
      \/ InputSyn(h, tab, g) = Effect(tab, send_reset(h, g).out, no)
      \/ InputSyn(h, tab, g) = handle_incoming_syn(h, tab, g)
  BY Zenon DEF InputSyn
<1> HIDE DEF i, no
<1>3. Wire(send_reset(h, g).out)
  BY ResetWire, Zenon
<1>4. GoodEffect(tab, Nothing(tab)) /\ GoodEffect(tab, Effect(tab, send_reset(h, g).out, no))
  BY <1>3, EffectFits, Zenon
<1> QED BY <1>1, <1>2, <1>4, SynAckFits, IncomingSynFits, Zenon

\* A segment for a connection.
LEMMA InputConnectedFits ==
  ASSUME NEW tab, Sound(tab), FitTable(tab), NEW i \in Slots, tab[i].used, Connected(tab[i]),
         NEW h \in Hosts, NEW g, IsSeg(g)
  PROVE  GoodEffect(tab, InputConnected(h, tab, i, g))
<1> DEFINE w == Working(h, tab[i])
           v == IF "ACK" \in g.flags THEN acknowledge(w, g.ack, g.win) ELSE w
           u == TakePayload(v, g)
<1>1. InputConnected(h, tab, i, g) = Served(tab, i, u)
  BY Zenon DEF InputConnected
<1>2. Fits(tab[i]) /\ Paired(tab[i])
  BY Zenon DEF FitTable, Fits, Quiet, Connected
<1>3. FitWork(w) /\ w.s = tab[i]
  BY <1>2, WorkingFits, Zenon
<1> HIDE DEF w
<1>4. FitWork(acknowledge(w, g.ack, g.win)) /\ Same(w.s, acknowledge(w, g.ack, g.win).s)
  BY <1>3, AcknowledgeFits, Zenon DEF IsSeg
<1>5. FitWork(v) /\ Connected(v.s)
  BY <1>3, <1>4, Zenon DEF Same, Connected
<1> HIDE DEF v
<1>6. FitWork(u)
  BY <1>5, TakePayloadFits, Zenon
<1> HIDE DEF u
<1>7. tab = [j \in Slots |-> tab[j]]
  BY Zenon DEF Sound, IsTable
<1> QED BY <1>1, <1>6, <1>7, ServedFits, Zenon

\* The final ACK: the child is connected, and its listener's queue one longer.
LEMMA FinishFits ==
  ASSUME NEW tab, Sound(tab), FitTable(tab), NEW i \in Slots, tab[i].used, tab[i].state = "SYN_RCVD",
         NEW g, IsSeg(g)
  PROVE  Good(tab, FinishHandshake(tab, i, g))
<1> DEFINE no == FALSE
           yes == TRUE
           r == tab[i]
           s == [r EXCEPT !.una = g.ack, !.nxt = g.ack, !.wnd = g.win, !.rto = no,
                          !.state = "ESTABLISHED"]
           l == tab[i].lst
           T == [tab EXCEPT ![i] = s]
           F == FinishHandshake(tab, i, g)
<1>1. Fits(r) /\ r.used /\ IsSock(r) /\ Within(r) /\ Paired(r) /\ r.backlog <= MAX_ACCEPT
  BY Zenon DEF FitTable, Fits, Quiet
<1>2. tab = [j \in Slots |-> tab[j]]
  BY Zenon DEF Sound, IsTable
<1>3. T = [tab EXCEPT ![i].una = g.ack, ![i].nxt = g.ack, ![i].wnd = g.win, ![i].rto = FALSE,
                      ![i].state = "ESTABLISHED"]
  BY <1>1, <1>2, Zenon DEF IsSock, Fields
<1>4. F = accept_push(T, i)
  BY <1>3, Zenon DEF FinishHandshake
<1>5. l = NoSlot \/ (l \in Slots /\ Listens(tab[l]) /\ l # i)
  BY Zenon DEF Sound, IsTable, IsSock, ChildrenOwned, Listens
<1> HIDE DEF no, r, F
<1>6. IsSock(s) /\ s.used = r.used /\ s.lst = r.lst /\ s.rip = r.rip /\ s.backlog = r.backlog
  BY <1>1, ZenonT(40) DEF IsSock, Fields, States
<1>7. /\ s.una = g.ack /\ s.nxt = g.ack /\ s.base = r.base /\ s.iss = r.iss /\ s.snd = r.snd
      /\ s.rcv = r.rcv /\ s.wnd = g.win
  BY <1>1, ZenonT(40) DEF IsSock, Fields
<1> HIDE DEF s
<1>8. Within(s)
  BY <1>1, <1>7, Zenon DEF Within, IsSeg
<1>9. Fits(s) /\ s.used
  BY <1>1, <1>6, <1>8, Zenon DEF Fits, Paired
<1>10. Good(tab, T)
  BY <1>2, <1>9, OneFits, Zenon
<1>11. T[i] = s /\ T = [j \in Slots |-> T[j]] /\ s.lst = l
  BY <1>2, <1>6, Zenon DEF r
<1>12. \A j \in Slots \ {i} : T[j] = tab[j]
  BY <1>2, Zenon
<1>13. CASE l = NoSlot
  <2>1. accept_push(T, i) = T
    BY <1>11, <1>13, Zenon DEF accept_push
  <2> QED BY <1>4, <1>10, <2>1, Zenon DEF F
<1>14. CASE l # NoSlot
  <2> DEFINE m == T[l]
             nq == Append(m.q, i)
             t == [m EXCEPT !.q = nq]
             c == [s EXCEPT !.queued = yes]
             U == [T EXCEPT ![l] = t]
             V == [U EXCEPT ![i] = c]
  <2>1. l \in Slots /\ l # i /\ m = tab[l] /\ Listens(m)
    BY <1>5, <1>12, <1>14, Zenon
  <2>2. F = [T EXCEPT ![l].q = Append(@, i), ![i].queued = yes]
    BY <1>4, <1>11, <1>14, Zenon DEF accept_push
  <2>3. F = V
    <3> HIDE DEF T, l
    <3> QED BY <1>11, <2>1, <2>2, Zenon
  <2>4. yes \in BOOLEAN
    OBVIOUS
  <2>5. Fits(m) /\ m.used /\ m.q \in Seq(Slots)
    BY <2>1, Zenon DEF FitTable, Fits, Listens, IsSock
  <2>6. nq \in Seq(Slots)
    <3>1. \A q \in Seq(Slots) : Append(q, i) \in Seq(Slots)
      OBVIOUS
    <3> QED BY <2>5, <3>1, Zenon
  <2> HIDE DEF yes, m, nq, T, l
  <2>7. IsSock(t) /\ t.used = m.used /\ t.rip = m.rip /\ t.state = m.state /\ t.backlog = m.backlog
    BY <2>5, <2>6, ZenonT(40) DEF Fits, IsSock, Fields
  <2>8. Alike(m, t)
    BY <2>5, ZenonT(40) DEF Alike, Fits, IsSock, Fields
  <2>9. IsSock(c) /\ c.used = s.used /\ c.rip = s.rip /\ c.state = s.state /\ c.backlog = s.backlog
    BY <1>6, <2>4, ZenonT(40) DEF IsSock, Fields
  <2>10. Alike(s, c)
    BY <1>6, ZenonT(40) DEF Alike, IsSock, Fields
  <2> HIDE DEF t, c
  <2>11. Fits(t) /\ t.used
    BY <2>5, <2>7, <2>8, FitsLike, Zenon DEF Fits
  <2>12. Fits(c) /\ c.used
    BY <1>9, <2>9, <2>10, FitsLike, Zenon DEF Fits
  <2>13. Good(T, U) /\ U = [j \in Slots |-> U[j]]
    BY <1>10, <1>11, <2>1, <2>11, OneFits, Zenon DEF Good
  <2> HIDE DEF U
  <2>14. Good(U, V)
    BY <2>12, <2>13, OneFits, Zenon DEF Good
  <2> HIDE DEF V
  <2> QED BY <1>10, <2>3, <2>13, <2>14, Zenon DEF Good, F
<1> QED BY <1>13, <1>14, Zenon

\* input_packet(): whatever the segment.
LEMMA InputFits ==
  ASSUME ticks \in Nat, NEW tab, Sound(tab), FitTable(tab), NEW h \in Hosts, NEW g, IsSeg(g)
  PROVE  GoodEffect(tab, input_packet(h, tab, g))
<1> DEFINE i == find_peer_sock(tab, g)
           yes == TRUE
           e == input_packet(h, tab, g)
           F == FinishHandshake(tab, i, g)
           R == [tab EXCEPT ![i].err = yes]
<1>1. i # NoSlot => i \in Slots /\ tab[i].used
  BY FirstIsIn, Zenon DEF find_peer_sock
<1>2. \/ e = InputSyn(h, tab, g)
      \/ e = Nothing(tab)
      \/ i # NoSlot /\ e = Nothing(R)
      \/ i # NoSlot /\ tab[i].state = "SYN_RCVD" /\ e = InputConnected(h, F, i, g)
      \/ i # NoSlot /\ Connected(tab[i]) /\ e = InputConnected(h, tab, i, g)
  BY Zenon DEF input_packet, Connected
<1>3. tab = [j \in Slots |-> tab[j]]
  BY Zenon DEF Sound, IsTable
<1> HIDE DEF i, e, yes
<1>4. CASE i # NoSlot /\ e = Nothing(R)
  <2> DEFINE r == tab[i]
             s == [r EXCEPT !.err = yes]
  <2>1. Fits(r) /\ r.used /\ i \in Slots
    BY <1>1, <1>4, Zenon DEF FitTable
  <2>2. R = [tab EXCEPT ![i] = s]
    BY <1>1, <1>4, <1>3, Zenon
  <2> HIDE DEF r
  <2>3. IsSock(s) /\ s.used = r.used /\ s.rip = r.rip /\ s.state = r.state /\ s.backlog = r.backlog
    BY <2>1, ZenonT(40) DEF Fits, IsSock, Fields
  <2>4. Alike(r, s)
    BY <2>1, ZenonT(40) DEF Alike, Fits, IsSock, Fields
  <2> HIDE DEF s
  <2>5. Fits(s) /\ s.used
    BY <2>1, <2>3, <2>4, FitsLike, Zenon DEF Fits
  <2>6. Good(tab, R)
    BY <1>3, <2>1, <2>2, <2>5, OneFits, Zenon
  <2> HIDE DEF R
  <2>7. GoodEffect(R, Nothing(R)) /\ Nothing(R).tab = R
    BY <2>6, NoneWire, EffectFits, TabOf, Zenon DEF Good
  <2> QED BY <1>4, <2>6, <2>7, Zenon DEF GoodEffect, e
<1>5. CASE i # NoSlot /\ tab[i].state = "SYN_RCVD" /\ e = InputConnected(h, F, i, g)
  <2>1. Keeps(tab, F) /\ Connected(F[i]) /\ Good(tab, F) /\ i \in Slots /\ tab[i].used
    BY <1>1, <1>5, FinishKeeps, FinishFits, Zenon
  <2> HIDE DEF F
  <2>2. GoodEffect(F, e)
    BY <1>5, <2>1, InputConnectedFits, Zenon DEF Keeps, Good
  <2> QED BY <2>1, <2>2, Zenon DEF GoodEffect, Good, e
<1>6. CASE i # NoSlot /\ Connected(tab[i]) /\ e = InputConnected(h, tab, i, g)
  BY <1>1, <1>6, InputConnectedFits, Zenon DEF e
<1>7. CASE e = InputSyn(h, tab, g)
  BY <1>7, InputSynFits, Zenon DEF e
<1>8. CASE e = Nothing(tab)
  BY <1>8, NoneWire, EffectFits, Zenon DEF e
<1> QED BY <1>2, <1>4, <1>5, <1>6, <1>7, <1>8, Zenon
=============================================================================
