----------------------------- MODULE TcpProofs ------------------------------
(***************************************************************************)
(* Two theorems about the TCP stack, for any number of machines, socket    *)
(* slots and segments and any limits.  The accept queue of a listener is   *)
(* exact (QueueExact).  The limits hold (TypeOK): no buffer outgrows its   *)
(* capacity, the windows stay within the peer's buffer, sequence numbers   *)
(* within their width, and a process waits only on a socket that is open.  *)
(*                                                                         *)
(* TcpHandlers has what a handler does to one table; here every call and   *)
(* every segment delivered is shown to keep the two inductive invariants.  *)
(***************************************************************************)
EXTENDS TcpHandlers

-----------------------------------------------------------------------------
(* Steps, and the accept queue. *)

\* The inductive invariant: every table is sound, and what a close() waits for is a
\* connection that no listener owns.
QueueInv ==
  /\ socks = [h \in Hosts |-> socks[h]] /\ pc = [h \in Hosts |-> pc[h]]
  /\ \A h \in Hosts : Sound(socks[h])
  /\ \A h \in Hosts : pc[h].op = "close" => pc[h].s \in Slots /\ Closing(socks[h][pc[h].s])

\* What the invariant says of every table includes QueueExact.
LEMMA InvIsExact == QueueInv => QueueExact
<1> HAVE QueueInv
<1>1. ASSUME NEW h \in Hosts, NEW i \in Slots
      PROVE  /\ Listens(socks[h][i]) =>
                  /\ IsInjective(socks[h][i].q)
                  /\ Range(socks[h][i].q) = Parked(socks[h], i)
                  /\ Cardinality(Children(socks[h], i)) <= socks[h][i].backlog
             /\ socks[h][i].used /\ socks[h][i].lst # NoSlot =>
                  Listens(socks[h][socks[h][i].lst])
  <2>1. Sound(socks[h])
    BY Zenon DEF QueueInv
  <2> QED BY <2>1, Zenon DEF Sound, QueuesExact, ChildrenOwned
<1> QED BY <1>1, Zenon DEF QueueExact, Parked, Children, Listens

\* A step of one machine: its table becomes T and its process goes to x.
LEMMA MachineSteps ==
  ASSUME QueueInv, NEW h \in Hosts, NEW T, Sound(T), socks' = [socks EXCEPT ![h] = T],
         NEW x, pc' = [pc EXCEPT ![h] = x], x.op = "close" => x.s \in Slots /\ Closing(T[x.s])
  PROVE  QueueInv'
<1>1. /\ socks' = [k \in Hosts |-> socks'[k]] /\ pc' = [k \in Hosts |-> pc'[k]]
      /\ socks'[h] = T /\ pc'[h] = x
      /\ \A k \in Hosts \ {h} : socks'[k] = socks[k] /\ pc'[k] = pc[k]
  BY Zenon DEF QueueInv
<1> QED BY <1>1, ZenonT(40) DEF QueueInv

\* A process that goes nowhere.
LEMMA Stays ==
  ASSUME QueueInv, NEW h \in Hosts
  PROVE  /\ pc = [pc EXCEPT ![h] = pc[h]] /\ socks = [socks EXCEPT ![h] = socks[h]]
         /\ Sound(socks[h])
         /\ pc[h].op = "close" => pc[h].s \in Slots /\ Closing(socks[h][pc[h].s])
BY Zenon DEF QueueInv

\* A process that waits elsewhere or returns, and leaves the tables alone.
LEMMA ProcessSteps ==
  ASSUME QueueInv, NEW h \in Hosts, socks' = socks,
         NEW x, pc' = [pc EXCEPT ![h] = x], x.op = "close" => x.s \in Slots /\ Closing(socks[h][x.s])
  PROVE  QueueInv'
BY Stays, MachineSteps, Zenon

\* Serving socket i of machine h replaces it in the table of h.
LEMMA ServeIs ==
  ASSUME QueueInv, NEW h \in Hosts, NEW i \in Slots, NEW w, Serve(h, i, w)
  PROVE  socks' = [socks EXCEPT ![h] = [socks[h] EXCEPT ![i] = w.s]]
BY Zenon DEF Serve, QueueInv

\* A call serves socket i, which moves on within its connection.
LEMMA ServeMoves ==
  ASSUME QueueInv, NEW h \in Hosts, NEW i \in Slots, NEW w, Same(socks[h][i], w.s), Serve(h, i, w),
         NEW x, pc' = [pc EXCEPT ![h] = x], x.op # "close" \/ x = pc[h]
  PROVE  QueueInv'
<1> DEFINE T == [socks[h] EXCEPT ![i] = w.s]
<1>1. socks' = [socks EXCEPT ![h] = T]
  BY ServeIs, ZenonT(40)
<1>2. Sound(T) /\ \A j \in Slots : Closing(socks[h][j]) => Closing(T[j])
  BY Stays, OneMoves, Zenon
<1> HIDE DEF T
<1>3. x.op = "close" => x.s \in Slots /\ Closing(T[x.s])
  BY <1>2, Stays, ZenonT(40)
<1> QED BY <1>1, <1>2, <1>3, MachineSteps, Zenon

\* The same for a socket that has to do with no queue before and after.
LEMMA ServeReplaces ==
  ASSUME QueueInv, NEW h \in Hosts, NEW i \in Slots, NEW s, IsSock(s), Outside(socks[h][i]), Outside(s),
         socks' = [socks EXCEPT ![h] = [socks[h] EXCEPT ![i] = s]],
         NEW x, pc' = [pc EXCEPT ![h] = x], x.op # "close"
  PROVE  QueueInv'
<1> DEFINE T == [socks[h] EXCEPT ![i] = s]
<1>1. Sound(T)
  BY Stays, OneReplaced, ZenonT(40)
<1> HIDE DEF T
<1> QED BY <1>1, MachineSteps, Zenon DEF T

\* open() takes a slot nobody used.
LEMMA OpenKeeps ==
  ASSUME QueueInv, NEW h \in Hosts, Open(h)
  PROVE  QueueInv'
<1> DEFINE k == FreeSlot(socks[h])
           yes == TRUE
           p == FIRST_PORT + opens[h]
           s == [TcpSock EXCEPT !.used = yes, !.lport = p]
<1>1. k \in {i \in Slots : ~socks[h][i].used}
  BY FirstIsIn, Zenon DEF Open, FreeSlot
<1>2. yes \in BOOLEAN
  BY SMTT(30)
<1> HIDE DEF k, yes, p
<1>3. s.state = "CLOSED" /\ s.q = <<>> /\ s.lst = NoSlot /\ s.backlog = 0 /\ s.queued = FALSE
      /\ s.used = yes
  BY ZenonT(40) DEF TcpSock
<1>4. s = [f \in Fields |-> s[f]]
  BY ZenonT(40) DEF TcpSock, Fields
<1>5. socks' = [socks EXCEPT ![h] = [socks[h] EXCEPT ![k] = s]]
  BY Zenon DEF Open, QueueInv, k, yes, p
<1> HIDE DEF s
<1>6. IsSock(s)
  <2>1. s.queued \in BOOLEAN /\ s.used \in BOOLEAN /\ s.lst \in Slots \cup {NoSlot}
    BY <1>2, <1>3, Zenon
  <2>2. s.state \in States /\ s.backlog \in Nat /\ s.q \in Seq(Slots)
    BY <1>3 DEF States
  <2> QED BY <1>4, <2>1, <2>2, Zenon DEF IsSock
<1>7. socks[h][k].q = <<>>
  BY <1>1, Stays, Zenon DEF Sound, OnlyListenersQueue, Listens
<1>8. Outside(socks[h][k]) /\ Outside(s)
  BY <1>1, <1>3, <1>7, Zenon DEF Outside
<1>9. pc' = pc /\ pc[h].op # "close"
  BY SMTT(30) DEF Open, Idle
<1> QED BY <1>1, <1>5, <1>6, <1>8, <1>9, Stays, ServeReplaces, Zenon

\* A socket that is used and fresh has to do with no queue.
LEMMA FreshOutside ==
  ASSUME QueueInv, NEW h \in Hosts, NEW i \in Slots, socks[h][i].used, socks[h][i].state = "CLOSED"
  PROVE  IsSock(socks[h][i]) /\ Outside(socks[h][i]) /\ socks[h][i].lst = NoSlot
<1>1. Sound(socks[h])
  BY Stays, ZenonT(40)
<1>2. socks[h][i].state # "LISTEN" /\ socks[h][i].state # "SYN_RCVD" /\ ~Connected(socks[h][i])
  BY ZenonT(40) DEF Connected
<1>3. socks[h][i].q = <<>> /\ socks[h][i].lst = NoSlot /\ IsSock(socks[h][i])
  BY <1>1, <1>2, Zenon DEF Sound, OnlyListenersQueue, ChildrenOwned, IsTable, Listens
<1> QED BY <1>2, <1>3, ZenonT(40) DEF Outside

\* bind() changes the port only.
LEMMA BindKeeps ==
  ASSUME QueueInv, NEW h \in Hosts, NEW i \in Slots, Bind(h, i)
  PROVE  QueueInv'
<1> DEFINE r == socks[h][i]
           s == [r EXCEPT !.lport = PORT]
<1>1. IsSock(r) /\ Outside(r)
  BY FreshOutside, ZenonT(40) DEF Bind
<1>2. socks' = [socks EXCEPT ![h] = [socks[h] EXCEPT ![i] = s]]
  BY Zenon DEF Bind, QueueInv
<1> HIDE DEF r
<1>3. IsSock(s) /\ s.used = r.used /\ s.state = r.state /\ s.q = r.q /\ s.lst = r.lst
  BY <1>1, SMTT(30) DEF IsSock, Fields
<1> HIDE DEF s
<1>4. Outside(s)
  BY <1>1, <1>3, Zenon DEF Outside
<1>5. pc' = pc /\ pc[h].op # "close"
  BY DEF Bind, Idle
<1> QED BY <1>1, <1>2, <1>3, <1>4, <1>5, Stays, ServeReplaces, ZenonT(40) DEF r

\* listen() starts with an empty queue and a backlog of at most MAX_ACCEPT.
LEMMA ListenKeeps ==
  ASSUME QueueInv, NEW h \in Hosts, NEW i \in Slots, NEW n \in Nat, Listen(h, i, n)
  PROVE  QueueInv'
<1> DEFINE r == socks[h][i]
           m == Least({n, MAX_ACCEPT})
           none == <<>>
           s == [r EXCEPT !.state = "LISTEN", !.q = none, !.backlog = m]
           T == [socks[h] EXCEPT ![i] = s]
<1>1. IsSock(r) /\ Outside(r) /\ r.lst = NoSlot /\ r.used
  BY FreshOutside, ZenonT(40) DEF Listen
<1>2. m \in Nat
  <2>1. \E x \in {n, MAX_ACCEPT} : \A y \in {n, MAX_ACCEPT} : x <= y
    BY SocketLimits, LeastNat, ZenonT(40)
  <2> QED BY <2>1, SocketLimits, ZenonT(40) DEF Least
<1>3. socks' = [socks EXCEPT ![h] = T]
  BY Zenon DEF Listen, QueueInv
<1>7. none \in Seq(Slots)
  BY SMTT(30)
<1> HIDE DEF r, m, none
<1>4. IsSock(s) /\ s.used = r.used /\ s.state = "LISTEN" /\ s.q = none /\ s.lst = r.lst
  BY <1>1, <1>2, <1>7, ZenonT(40) DEF IsSock, Fields, States
<1> HIDE DEF s
<1>5. Sound(T)
  BY <1>1, <1>4, Stays, OneListens, Zenon DEF r, Listens, none
<1>6. pc' = pc /\ pc[h].op # "close"
  BY SMTT(30) DEF Listen, Idle
<1> HIDE DEF T
<1> QED BY <1>3, <1>5, <1>6, Stays, MachineSteps, ZenonT(40)

\* connect() up to the first SYN, or up to the ARP query nobody answers.
LEMMA ConnectKeeps ==
  ASSUME QueueInv, NEW h \in Hosts, NEW i \in Slots, NEW arp, Connect(h, i, arp)
  PROVE  QueueInv'
<1> DEFINE r == socks[h][i]
           yes == TRUE
           o == Other(h)
           d == derive_iss
           s == [r EXCEPT !.rip = o, !.rport = PORT, !.iss = d, !.una = d, !.nxt = d,
                          !.snd = <<>>, !.wnd = 0, !.rto = yes, !.state = "SYN_SENT"]
<1>1. IsSock(r) /\ Outside(r) /\ r.lst = NoSlot
  BY FreshOutside, Zenon DEF Connect
<1>2. \E w : w \in {send_syn(Working(h, s)), Working(h, s)} /\ Serve(h, i, w)
  BY Zenon DEF Connect
<1>3. \/ pc' = [pc EXCEPT ![h] = Idle]
      \/ pc' = [pc EXCEPT ![h] = [op |-> "connect", s |-> i, todo |-> <<>>]]
  BY Zenon DEF Connect, Wait, Return
<1> HIDE DEF r, yes, o, d
<1>4. IsSock(s) /\ s.used = r.used /\ s.state = "SYN_SENT" /\ s.q = r.q /\ s.lst = r.lst
  BY <1>1, ZenonT(40) DEF IsSock, Fields, States
<1> HIDE DEF s
<1>5. Working(h, s).s = s /\ send_syn(Working(h, s)).s = s
  BY <1>4, WorkingIs, SegKeeps DEF send_syn
<1>6. socks' = [socks EXCEPT ![h] = [socks[h] EXCEPT ![i] = s]]
  BY <1>2, <1>5, ServeIs, SMTT(30)
<1>7. Outside(s)
  BY <1>1, <1>4, Zenon DEF Outside
<1>8. \E x : pc' = [pc EXCEPT ![h] = x] /\ x.op # "close"
  <2> DEFINE x == [op |-> "connect", s |-> i, todo |-> <<>>]
  <2>1. x.op # "close" /\ Idle.op # "close"
    BY Zenon DEF Idle
  <2>2. pc' = [pc EXCEPT ![h] = Idle] \/ pc' = [pc EXCEPT ![h] = x]
    BY <1>3, ZenonT(40)
  <2> HIDE DEF x
  <2> QED BY <2>1, <2>2, Zenon
<1> QED BY <1>1, <1>4, <1>6, <1>7, <1>8, ServeReplaces, Zenon DEF r

\* A call that waits, or returns, without touching the tables.
LEMMA WaitIs ==
  ASSUME NEW h, NEW op, NEW i, NEW todo, Wait(h, op, i, todo)
  PROVE  \E x : pc' = [pc EXCEPT ![h] = x] /\ x.op = op /\ x.s = i
<1> DEFINE x == [op |-> op, s |-> i, todo |-> todo]
<1>1. x.op = op /\ x.s = i
  OBVIOUS
<1>2. pc' = [pc EXCEPT ![h] = x]
  BY Zenon DEF Wait
<1> HIDE DEF x
<1> QED BY <1>1, <1>2, Zenon

\* A process that returns waits for nothing.
LEMMA ReturnIs ==
  ASSUME NEW h, Return(h)
  PROVE  pc' = [pc EXCEPT ![h] = Idle] /\ Idle.op # "close"
BY ZenonT(40) DEF Return, Idle

\* A call that starts to wait.
LEMMA WaitKeeps ==
  ASSUME QueueInv, NEW h \in Hosts, NEW i \in Slots, NEW op, op # "close" \/ Closing(socks[h][i]),
         NEW todo, Wait(h, op, i, todo), socks' = socks
  PROVE  QueueInv'
BY WaitIs, ProcessSteps, SMTT(30)

\* A call that returns.
LEMMA ReturnKeeps ==
  ASSUME QueueInv, NEW h \in Hosts, Return(h), socks' = socks
  PROVE  QueueInv'
BY ReturnIs, ProcessSteps, Zenon

\* send() copies what fits and pushes it.
LEMMA SendChunkKeeps ==
  ASSUME QueueInv, NEW h \in Hosts, NEW i \in Slots, NEW data, SendChunk(h, i, data)
  PROVE  QueueInv'
<1> DEFINE r == socks[h][i]
<1>1. PICK b : Serve(h, i, tcp_push(Working(h, [r EXCEPT !.snd = b])))
  BY Zenon DEF SendChunk
<1>2. \E x : pc' = [pc EXCEPT ![h] = x] /\ x.op # "close"
  <2>1. Return(h) \/ \E todo : Wait(h, "send", i, todo)
    BY Zenon DEF SendChunk
  <2> QED BY <2>1, WaitIs, ReturnIs, SMTT(30)
<1>3. IsSock(r)
  BY Stays, Zenon DEF Sound, IsTable
<1> DEFINE s == [r EXCEPT !.snd = b]
           w == tcp_push(Working(h, s))
<1> HIDE DEF r
<1>4. Same(r, s)
  BY <1>3, ZenonT(40) DEF IsSock, Fields, Same
<1> HIDE DEF s
<1>5. IsWork(Working(h, s)) /\ Working(h, s).s = s
  BY <1>4, WorkingIs, ZenonT(40) DEF Same
<1>6. Same(s, w.s)
  BY <1>5, PushKeeps, ZenonT(40)
<1> HIDE DEF w
<1>7. Same(r, w.s)
  BY <1>4, <1>6, SameThen, ZenonT(40)
<1>8. Serve(h, i, w)
  BY <1>1, ZenonT(40) DEF w, s
<1> QED BY <1>2, <1>7, <1>8, ServeMoves, ZenonT(40) DEF r

\* send() pushes or waits for room.
LEMMA SendKeeps ==
  ASSUME QueueInv, NEW h \in Hosts, NEW i \in Slots, NEW n, Send(h, i, n)
  PROVE  QueueInv'
<1>1. (\E data : SendChunk(h, i, data)) \/ ((\E todo : Wait(h, "send", i, todo)) /\ socks' = socks)
  BY Zenon DEF Send
<1> QED BY <1>1, SendChunkKeeps, WaitKeeps, ZenonT(40)

\* send() once there is room, or an error.
LEMMA SendMoreKeeps ==
  ASSUME QueueInv, NEW h \in Hosts, NEW i \in Slots, SendMore(h, i)
  PROVE  QueueInv'
BY SendChunkKeeps, ReturnKeeps, ZenonT(40) DEF SendMore

\* recv() takes bytes off the buffer and tells the peer of the room.
LEMMA RecvReturnsKeeps ==
  ASSUME QueueInv, NEW h \in Hosts, NEW i \in Slots, NEW len, RecvReturns(h, i, len)
  PROVE  QueueInv'
<1> DEFINE r == socks[h][i]
           s(b, c) == [r EXCEPT !.rcv = b, !.base = c]
<1>1. socks' = socks \/ \E b, c : Serve(h, i, tcp_send_ack(Working(h, s(b, c))))
  BY Zenon DEF RecvReturns
<1>2. Return(h)
  BY Zenon DEF RecvReturns
<1>3. IsSock(r)
  BY Stays, Zenon DEF Sound, IsTable
<1>4. CASE socks' = socks
  BY <1>2, <1>4, ReturnKeeps, ZenonT(40)
<1>5. ASSUME NEW b, NEW c, Serve(h, i, tcp_send_ack(Working(h, s(b, c))))
      PROVE  QueueInv'
  <2> DEFINE w == tcp_send_ack(Working(h, s(b, c)))
  <2> HIDE DEF r
  <2>1. Same(r, s(b, c))
    BY <1>3, ZenonT(40) DEF IsSock, Fields, Same
  <2> HIDE DEF s
  <2>2. w.s = s(b, c)
    BY <2>1, WorkingIs, AckKeeps, SMTT(30) DEF Same
  <2>3. Serve(h, i, w)
    BY <1>5, Zenon
  <2> HIDE DEF w
  <2> QED BY <1>2, <2>1, <2>2, <2>3, ReturnIs, ServeMoves, ZenonT(40) DEF r
<1> QED BY <1>1, <1>4, <1>5, ZenonT(40)

\* accept() hands out the head of the queue.
LEMMA AcceptReturnsKeeps ==
  ASSUME QueueInv, NEW h \in Hosts, NEW l \in Slots, AcceptReturns(h, l)
  PROVE  QueueInv'
<1> DEFINE tab == socks[h]
           c == Head(tab[l].q)
           no == FALSE
           rest == Tail(tab[l].q)
           t == [tab[l] EXCEPT !.q = rest]
           s == [tab[c] EXCEPT !.lst = NoSlot, !.queued = no]
           T == [tab EXCEPT ![l] = t, ![c] = s]
<1>1. Sound(tab) /\ IsTable(tab)
  BY Stays, Zenon DEF Sound
<1>2. tab[l].q # <<>> /\ Return(h)
  BY Zenon DEF AcceptReturns
<1>3. no \in BOOLEAN
  OBVIOUS
<1>5. c \in Slots /\ c # l /\ rest \in Seq(Slots)
  BY <1>1, <1>2, HeadIsChild
<1>6. socks' = [socks EXCEPT ![h] = T]
  BY <1>5, Zenon DEF AcceptReturns, QueueInv
<1> HIDE DEF rest, no
<1>7. IsSock(t) /\ t.used = tab[l].used /\ t.state = tab[l].state /\ t.lst = tab[l].lst
      /\ t.queued = tab[l].queued /\ t.backlog = tab[l].backlog /\ t.q = rest
  BY <1>1, <1>5, QueueSet, SMTT(30) DEF IsTable
<1>8. IsSock(s) /\ s.used = tab[c].used /\ s.state = tab[c].state /\ s.q = tab[c].q /\ s.lst = NoSlot
  <2> DEFINE m == tab[c]
  <2>1. IsSock(m)
    BY <1>1, <1>5, Zenon DEF IsTable
  <2> HIDE DEF m
  <2>2. IsSock([m EXCEPT !.lst = NoSlot, !.queued = no])
        /\ [m EXCEPT !.lst = NoSlot, !.queued = no].used = m.used
        /\ [m EXCEPT !.lst = NoSlot, !.queued = no].state = m.state
        /\ [m EXCEPT !.lst = NoSlot, !.queued = no].q = m.q
        /\ [m EXCEPT !.lst = NoSlot, !.queued = no].lst = NoSlot
    BY <1>3, <2>1, ZenonT(40) DEF IsSock, Fields
  <2> QED BY <2>2, Zenon DEF m
<1> HIDE DEF t, s, c
<1>9. Sound(T)
  BY <1>1, <1>2, <1>7, <1>8, OneHanded, Zenon DEF rest, c
<1> HIDE DEF T
<1> QED BY <1>2, <1>6, <1>9, ReturnIs, MachineSteps, ZenonT(40)

\* close() frees a listener, its children and a fresh socket at once, and waits for a connection.
LEMMA CloseKeeps ==
  ASSUME QueueInv, NEW h \in Hosts, NEW i \in Slots, Close(h, i)
  PROVE  QueueInv'
<1>1. CASE Connected(socks[h][i]) /\ socks[h][i].lst = NoSlot
  <2>1. Wait(h, "close", i, <<>>) /\ socks' = socks /\ socks[h][i].used
    BY <1>1, Zenon DEF Close
  <2> QED BY <1>1, <2>1, WaitKeeps, ZenonT(40) DEF Closing
<1>2. CASE ~(Connected(socks[h][i]) /\ socks[h][i].lst = NoSlot)
  <2> DEFINE T == Freed(socks[h], i)
  <2>1. socks' = [socks EXCEPT ![h] = T] /\ pc' = pc /\ socks[h][i].used
    BY <1>2, Zenon DEF Close, QueueInv
  <2>2. Sound(T)
    BY <2>1, Stays, OneFreed, ZenonT(40)
  <2>3. pc[h].op # "close"
    BY SMTT(30) DEF Close, Idle
  <2> HIDE DEF T
  <2> QED BY <2>1, <2>2, <2>3, Stays, MachineSteps, ZenonT(40)
<1> QED BY <1>1, <1>2, ZenonT(40)

\* What a close() waits for can be freed: no queue has to do with it.
LEMMA ClosingFreed ==
  ASSUME QueueInv, NEW h \in Hosts, NEW i \in Slots, At(h, "close", i), Return(h),
         socks' = [socks EXCEPT ![h] = [socks[h] EXCEPT ![i] = TcpSock]]
  PROVE  QueueInv'
<1>1. Closing(socks[h][i]) /\ Sound(socks[h])
  BY Stays, Zenon DEF At
<1>2. Outside(socks[h][i])
  BY <1>1, Zenon DEF Sound, OnlyListenersQueue, Listens, Closing, Connected, Outside
<1>3. IsSock(TcpSock) /\ Outside(TcpSock)
  BY BlankSock, Zenon DEF Outside, TcpSock
<1> QED BY <1>2, <1>3, ReturnIs, ServeReplaces, ZenonT(40)

\* A pass of the loop of close().
LEMMA ClosePassKeeps ==
  ASSUME QueueInv, NEW h \in Hosts, NEW i \in Slots, NEW due, ClosePass(h, i, due)
  PROVE  QueueInv'
<1> DEFINE r == socks[h][i]
           w == FlushAndFin(Working(h, r))
           v == IF due THEN tcp_retransmit(w) ELSE w
<1>1. IsSock(r)
  BY Stays, Zenon DEF Sound, IsTable
<1>2. IsWork(Working(h, r)) /\ Working(h, r).s = r
  BY <1>1, WorkingIs, Zenon
<1>3. IsWork(w) /\ Same(r, w.s)
  BY <1>2, FlushKeeps, ZenonT(40)
<1>4. At(h, "close", i) /\ IF w.s.finr THEN Serve(h, i, [w EXCEPT !.s = TcpSock]) /\ Return(h)
                          ELSE Serve(h, i, v) /\ pc' = pc
  BY Zenon DEF ClosePass
<1> HIDE DEF w
<1>5. CASE w.s.finr
  <2>1. [w EXCEPT !.s = TcpSock].s = TcpSock
    BY <1>3, BlankSock, WorkWith, ZenonT(40)
  <2>2. socks' = [socks EXCEPT ![h] = [socks[h] EXCEPT ![i] = TcpSock]]
    BY <1>4, <1>5, <2>1, ServeIs, ZenonT(40)
  <2> QED BY <1>4, <1>5, <2>2, ClosingFreed, Zenon
<1>6. CASE ~w.s.finr
  <2>1. Same(r, v.s)
    BY <1>3, RetransmitKeeps, SameThen, Zenon
  <2>2. Serve(h, i, v) /\ pc' = pc
    BY <1>4, <1>6, Zenon
  <2> HIDE DEF v
  <2> QED BY <2>1, <2>2, Stays, ServeMoves, Zenon
<1> QED BY <1>5, <1>6, Zenon

\* close() after its second is over.
LEMMA CloseEndsKeeps ==
  ASSUME QueueInv, NEW h \in Hosts, NEW i \in Slots, CloseEnds(h, i)
  PROVE  QueueInv'
<1>1. socks' = [socks EXCEPT ![h] = [socks[h] EXCEPT ![i] = TcpSock]]
  BY Zenon DEF CloseEnds, QueueInv
<1> QED BY <1>1, ClosingFreed, Zenon DEF CloseEnds

\* A frame off the ring, for a machine of the network or for nobody.
LEMMA DeliverKeeps ==
  ASSUME QueueInv, NEW g, NEW again, Deliver(g, again)
  PROVE  QueueInv'
<1> DEFINE h == g.to
           T == input_packet(h, socks[h], g).tab
<1>1. socks' = [socks EXCEPT ![h] = T] /\ pc' = pc
  BY Zenon DEF Deliver
<1>2. CASE h \in Hosts
  <2>1. Keeps(socks[h], T)
    BY <1>2, Stays, InputKeeps, Zenon
  <2> HIDE DEF T, h
  <2> QED BY <1>1, <1>2, <2>1, Stays, MachineSteps, ZenonT(40) DEF Keeps
<1>3. CASE h \notin Hosts
  <2> HIDE DEF T, h
  <2>1. socks' = socks
    BY <1>1, <1>3, ZenonT(40) DEF QueueInv
  <2> QED BY <1>1, <2>1, Zenon DEF QueueInv
<1> QED BY <1>2, <1>3, ZenonT(40)

\* The zero-initialised table is sound.
LEMMA BlankSound == Sound(Blank)
<1>1. /\ Blank = [i \in Slots |-> Blank[i]]
      /\ \A i \in Slots : Blank[i] = TcpSock
  BY Zenon DEF Blank
<1>2. IsSock(TcpSock) /\ ~TcpSock.used /\ TcpSock.q = <<>>
  BY BlankSock, ZenonT(40) DEF TcpSock
<1> QED BY <1>1, <1>2, Zenon DEF Sound, IsTable, OnlyListenersQueue, QueuesExact, ChildrenOwned,
                             Listens

\* A table with a connection put into it.
LEMMA EndSound ==
  ASSUME NEW tab, Sound(tab), NEW i, i \in Slots => Outside(tab[i]),
         NEW lport, NEW rport, NEW peer, NEW iss, NEW irs
  PROVE  Sound([tab EXCEPT ![i] = End(lport, rport, peer, iss, irs)])
<1> DEFINE yes == TRUE
           o == (iss + 1) % SEQ
           b == (irs + 1) % SEQ
           s == [TcpSock EXCEPT !.used = yes, !.state = "ESTABLISHED", !.rip = peer,
                                !.lport = lport, !.rport = rport, !.iss = iss,
                                !.una = o, !.nxt = o, !.base = b, !.wnd = RECV_CAP]
<1>1. yes \in BOOLEAN
  BY SMTT(30)
<1>2. End(lport, rport, peer, iss, irs) = s
  BY Zenon DEF End
<1> DEFINE r == TcpSock
<1>3. IsSock(r) /\ r.q = <<>> /\ r.lst = NoSlot
  BY BlankSock, ZenonT(40) DEF TcpSock
<1> HIDE DEF yes, o, b, r
<1>4. IsSock(s) /\ s.q = <<>> /\ s.lst = NoSlot /\ s.state = "ESTABLISHED"
  <2> DEFINE m == [r EXCEPT !.used = yes, !.state = "ESTABLISHED", !.rip = peer,
                            !.lport = lport, !.rport = rport, !.iss = iss,
                            !.una = o, !.nxt = o, !.base = b, !.wnd = RECV_CAP]
  <2>1. IsSock(m) /\ m.q = <<>> /\ m.lst = NoSlot /\ m.state = "ESTABLISHED"
    BY <1>1, <1>3, ZenonT(40) DEF IsSock, Fields, States
  <2> QED BY <2>1, Zenon DEF r
<1> HIDE DEF s
<1>5. Outside(s)
  BY <1>4, Zenon DEF Outside
<1>6. CASE i \in Slots
  BY <1>2, <1>4, <1>5, <1>6, OneReplaced, Zenon
<1>7. CASE i \notin Slots
  <2>1. tab = [j \in Slots |-> tab[j]]
    BY Zenon DEF Sound, IsTable
  <2>2. [tab EXCEPT ![i] = End(lport, rport, peer, iss, irs)] = tab
    BY <1>7, <2>1, Zenon
  <2> QED BY <2>2, Zenon
<1> QED BY <1>6, <1>7, ZenonT(40)

\* So are the tables of two machines with one connection accepted.
LEMMA JointSound ==
  ASSUME NEW h \in Hosts
  PROVE  Sound(Joint[h])
<1> DEFINE L == [Blank EXCEPT ![0] = Listener]
<1>1. 0 \in Slots
  BY SlotsApart, Zenon
<1>2. /\ Outside(TcpSock)
      /\ \A i \in Slots : Blank[i] = TcpSock
  BY ZenonT(40) DEF Outside, TcpSock, Blank
<1>3. Sound(L)
  <2> DEFINE yes == TRUE
             r == TcpSock
             m == [r EXCEPT !.used = yes, !.state = "LISTEN", !.lport = PORT, !.backlog = MAX_ACCEPT]
  <2>1. IsSock(r) /\ r.q = <<>> /\ r.lst = NoSlot
    BY BlankSock, Zenon DEF TcpSock
  <2>2. yes \in BOOLEAN /\ MAX_ACCEPT \in Nat
    BY SocketLimits, Zenon
  <2>3. Listener = m
    BY Zenon DEF Listener
  <2> HIDE DEF yes, r
  <2>4. IsSock(m) /\ m.used = yes /\ m.state = "LISTEN" /\ m.q = <<>> /\ m.lst = NoSlot
    BY <2>1, <2>2, ZenonT(40) DEF IsSock, Fields, States
  <2> HIDE DEF m
  <2>5. Listens(m)
    BY <2>4, Zenon DEF Listens, yes
  <2> QED BY <1>1, <1>2, <2>3, <2>4, <2>5, BlankSound, OneListens, Zenon
<1>4. 1 \in Slots => L[1] = TcpSock
  BY <1>2 DEF Blank
<1>5. \A tab, s, t : [tab EXCEPT ![0] = s, ![1] = t] = [[tab EXCEPT ![0] = s] EXCEPT ![1] = t]
  OBVIOUS
<1> HIDE DEF L
<1>6. CASE h \in Servers
  <2> DEFINE p == Other(h)
             e == End(PORT, FIRST_PORT, p, ISN(2), ISN(1))
  <2>1. Joint[h] = [Blank EXCEPT ![0] = Listener, ![1] = e]
    BY <1>6, Zenon DEF Joint
  <2>2. Joint[h] = [L EXCEPT ![1] = e]
    BY <2>1, <1>5, Zenon DEF L
  <2> QED BY <1>2, <1>3, <1>4, <2>2, EndSound, SMTT(30)
<1>7. CASE h \notin Servers
  <2> DEFINE p == Other(h)
             e == End(FIRST_PORT, PORT, p, ISN(1), ISN(2))
  <2>1. Joint[h] = [Blank EXCEPT ![0] = e]
    BY <1>7, Zenon DEF Joint
  <2> QED BY <1>1, <1>2, <2>1, BlankSound, EndSound, SMTT(30)
<1> QED BY <1>6, <1>7, Zenon

\* The initial states satisfy the invariant.
LEMMA InitQueue == Init => QueueInv
<1> HAVE Init
<1>1. pc = [h \in Hosts |-> Idle] /\ Idle.op # "close"
  BY ZenonT(40) DEF Init, Idle
<1>2. socks = [h \in Hosts |-> Blank] \/ socks = Joint
  BY Zenon DEF Init
<1>3. socks = [h \in Hosts |-> socks[h]] /\ \A h \in Hosts : socks[h] = Blank \/ socks[h] = Joint[h]
  BY <1>2, ZenonT(40) DEF Joint
<1> QED BY <1>1, <1>3, BlankSound, JointSound, Zenon DEF QueueInv

\* One step of the specification, action by action.
LEMMA StepQueue ==
  ASSUME QueueInv, [Next]_vars
  PROVE  QueueInv'
<1>1. CASE UNCHANGED vars
  BY <1>1, Zenon DEF vars, QueueInv
<1>2. ASSUME NEW g, Lose(g)
      PROVE  QueueInv'
  BY <1>2, Zenon DEF Lose, QueueInv
<1>3. ASSUME NEW h \in Hosts, Timeout(h)
      PROVE  QueueInv'
  BY <1>3, ReturnKeeps, ZenonT(40) DEF Timeout
<1>4. ASSUME NEW h \in Hosts, NEW i \in Slots, Call(h, i)
      PROVE  QueueInv'
  <2>1. CASE \E n \in {1, MAX_ACCEPT + 1} : Listen(h, i, n)
    <3>1. {1, MAX_ACCEPT + 1} \subseteq Nat
      BY SocketLimits, SMTT(30)
    <3> QED BY <2>1, <3>1, ListenKeeps, ZenonT(40)
  <2>2. CASE Recv(h, i)
    BY <2>2, WaitKeeps, Zenon DEF Recv
  <2>3. CASE Accept(h, i)
    BY <2>3, WaitKeeps, Zenon DEF Accept
  <2> QED BY <1>4, <2>1, <2>2, <2>3, BindKeeps, ConnectKeeps, SendKeeps, CloseKeeps, ZenonT(40) DEF Call
<1>5. ASSUME NEW h \in Hosts, NEW i \in Slots, Step(h, i)
      PROVE  QueueInv'
  <2>1. CASE ConnectReturns(h, i)
    BY <2>1, ReturnKeeps, Zenon DEF ConnectReturns
  <2>2. CASE ConnectTimer(h, i)
    <3> DEFINE r == socks[h][i]
               w == tcp_retransmit(Working(h, r))
    <3>1. IsSock(r)
      BY Stays, Zenon DEF Sound, IsTable
    <3>2. IsWork(Working(h, r)) /\ Working(h, r).s = r
      BY <3>1, WorkingIs, ZenonT(40)
    <3>3. Same(r, w.s)
      BY <3>2, RetransmitKeeps, ZenonT(40)
    <3>4. Serve(h, i, w) /\ pc' = pc
      BY <2>2, ZenonT(40) DEF ConnectTimer
    <3> HIDE DEF w
    <3> QED BY <3>3, <3>4, Stays, ServeMoves, Zenon
  <2> QED BY <1>5, <2>1, <2>2, SendMoreKeeps, RecvReturnsKeeps, AcceptReturnsKeeps,
             ClosePassKeeps, CloseEndsKeeps, Zenon DEF Step
<1> QED BY <1>1, <1>2, <1>3, <1>4, <1>5, OpenKeeps, DeliverKeeps, Zenon DEF Next, Network

\* "The backlog cap makes sure this can never overflow" (tcp.cpp, accept_push()): whatever
\* the network loses, repeats or delays, and however many sockets and however long a queue
\* the kernel is built with, a listener's queue holds exactly the connected children nobody
\* has accepted, each once, no more children hang on a listener than its backlog allows,
\* and the listener of a child is open.
THEOREM QueueAlwaysExact == Spec => []QueueExact
<1>1. Init => QueueInv
  BY InitQueue, ZenonT(40)
<1>2. QueueInv /\ [Next]_vars => QueueInv'
  BY StepQueue, ZenonT(40)
<1>3. QueueInv => QueueExact
  BY InvIsExact, Zenon
<1> QED BY <1>1, <1>2, <1>3, PTL DEF Spec

-----------------------------------------------------------------------------
(* Steps, and the limits. *)

\* Where a process may be: nowhere, or waiting on a socket in use, and to send on
\* a connection of its own.
Waits(tab, x) ==
  /\ x = Idle \/ (x.s \in Slots /\ tab[x.s].used)
  /\ x.op = "send" => Closing(tab[x.s]) /\ IsSeq(x.todo)

\* What bounds the bytes a program writes is a number for every machine.
Funded(b) == "bytes" \in DOMAIN b /\ b.bytes \in [Hosts -> Nat]

\* The inductive invariant.
TypeInv ==
  /\ QueueInv
  /\ \A h \in Hosts : FitTable(socks[h]) /\ Waits(socks[h], pc[h])
  /\ Wire(net)
  /\ ticks \in Nat
  /\ Funded(budget)

\* What a machine's part of the invariant says.
LEMMA TypeHere ==
  ASSUME TypeInv, NEW h \in Hosts
  PROVE  /\ QueueInv /\ Sound(socks[h]) /\ socks[h] = [j \in Slots |-> socks[h][j]]
         /\ FitTable(socks[h]) /\ Waits(socks[h], pc[h])
         /\ Wire(net) /\ ticks \in Nat /\ Funded(budget)
BY Zenon DEF TypeInv, QueueInv, Sound, IsTable

\* A step of one machine: its table becomes T and its process goes to x.
LEMMA TypeSteps ==
  ASSUME TypeInv, QueueInv', NEW h \in Hosts, NEW T, FitTable(T), socks' = [socks EXCEPT ![h] = T],
         NEW x, pc' = [pc EXCEPT ![h] = x], Waits(T, x),
         Wire(net'), ticks' \in Nat, Funded(budget')
  PROVE  TypeInv'
<1>1. QueueInv
  BY Zenon DEF TypeInv
<1>2. /\ socks'[h] = T /\ pc'[h] = x
      /\ \A k \in Hosts \ {h} : socks'[k] = socks[k] /\ pc'[k] = pc[k]
  BY <1>1, Zenon DEF QueueInv
<1>3. \A k \in Hosts : FitTable(socks'[k]) /\ Waits(socks'[k], pc'[k])
  BY <1>2, Zenon DEF TypeInv
<1> QED BY <1>3, Zenon DEF TypeInv

\* A process that moves while the tables stay.
LEMMA TypeReturns ==
  ASSUME TypeInv, QueueInv', NEW h \in Hosts, socks' = socks,
         NEW x, pc' = [pc EXCEPT ![h] = x], Waits(socks[h], x),
         Wire(net'), ticks' \in Nat, Funded(budget')
  PROVE  TypeInv'
<1>1. QueueInv /\ FitTable(socks[h])
  BY TypeHere, Zenon
<1>2. socks' = [socks EXCEPT ![h] = socks[h]]
  BY <1>1, Stays, Zenon
<1> QED BY <1>1, <1>2, TypeSteps, Zenon

\* A process that waits for nothing.
LEMMA IdleWaits ==
  ASSUME NEW tab
  PROVE  Waits(tab, Idle) /\ Idle.op = "idle"
<1>1. Idle.op = "idle"
  BY Zenon DEF Idle
<1> QED BY <1>1, Zenon DEF Waits

\* One that waits, and not to send.
LEMMA CallWaits ==
  ASSUME NEW tab, NEW i \in Slots, tab[i].used, NEW op, op # "send", NEW todo,
         NEW x, x = [op |-> op, s |-> i, todo |-> todo]
  PROVE  Waits(tab, x)
<1>1. x.op = op /\ x.s = i
  OBVIOUS
<1> QED BY <1>1, Zenon DEF Waits

\* A process goes on waiting.
LEMMA StillWaits ==
  ASSUME NEW tab, NEW T, Good(tab, T), \A j \in Slots : Closing(tab[j]) => Closing(T[j]),
         NEW x, Waits(tab, x)
  PROVE  Waits(T, x)
<1>1. x.op = "send" => x.s \in Slots
  BY IdleWaits, Zenon DEF Waits
<1> QED BY <1>1, Zenon DEF Waits, Good

\* A process that waits does so on a socket in use.
LEMMA WaitsOn ==
  ASSUME TypeInv, NEW h \in Hosts, NEW i \in Slots, NEW op, op # "idle", At(h, op, i)
  PROVE  /\ socks[h][i].used
         /\ op = "send" => Closing(socks[h][i]) /\ IsSeq(pc[h].todo)
<1>1. Waits(socks[h], pc[h]) /\ pc[h].op = op /\ pc[h].s = i
  BY TypeHere, Zenon DEF At
<1>2. pc[h] # Idle
  BY <1>1, IdleWaits, Zenon
<1> QED BY <1>1, <1>2, Zenon DEF Waits

\* Spending on anything but bytes.
LEMMA Spent ==
  ASSUME NEW b, Funded(b), NEW c, NEW d
  PROVE  /\ Funded([b EXCEPT !.loss = c]) /\ Funded([b EXCEPT !.dup = c])
         /\ Funded([b EXCEPT !.rtx = c]) /\ Funded([b EXCEPT !.opens = c])
         /\ Funded([b EXCEPT !.pass = c, !.rtx = d])
BY Zenon DEF Funded

\* A call that serves socket i.
LEMMA TypeServes ==
  ASSUME TypeInv, QueueInv', NEW h \in Hosts, NEW i \in Slots, NEW w, FitWork(w), Serve(h, i, w),
         NEW x, pc' = [pc EXCEPT ![h] = x], Waits([socks[h] EXCEPT ![i] = w.s], x),
         ticks' \in Nat, Funded(budget')
  PROVE  TypeInv'
<1> DEFINE T == [socks[h] EXCEPT ![i] = w.s]
<1>1. socks' = [socks EXCEPT ![h] = T]
  <2>1. QueueInv
    BY Zenon DEF TypeInv
  <2> QED BY <2>1, ServeIs, Zenon
<1>2. FitTable(T)
  <2>1. Good(socks[h], T)
    BY TypeHere, OneFits, Zenon DEF FitWork
  <2> QED BY <2>1, Zenon DEF Good
<1>3. Wire(net')
  BY TypeHere, PlusWire, Zenon DEF Serve, FitWork
<1> HIDE DEF T
<1>4. Waits(T, x)
  BY Zenon DEF T
<1> QED BY <1>1, <1>2, <1>3, <1>4, TypeSteps, Zenon

\* The same while the socket stays what it is to its process.
LEMMA TypeMoves ==
  ASSUME TypeInv, QueueInv', NEW h \in Hosts, NEW i \in Slots, NEW w, FitWork(w), Serve(h, i, w),
         Same(socks[h][i], w.s), pc' = pc \/ Return(h), ticks' \in Nat, Funded(budget')
  PROVE  TypeInv'
<1> DEFINE T == [socks[h] EXCEPT ![i] = w.s]
<1>1. Good(socks[h], T)
  BY TypeHere, OneFits, Zenon DEF FitWork
<1>2. \A j \in Slots : Closing(socks[h][j]) => Closing(T[j])
  BY TypeHere, OneMoves, Zenon
<1>3. Waits(T, pc[h]) /\ Waits(T, Idle)
  <2> HIDE DEF T
  <2>1. Waits(socks[h], pc[h])
    BY TypeHere, Zenon
  <2> QED BY <1>1, <1>2, <2>1, StillWaits, IdleWaits, Zenon
<1>4. \E x : pc' = [pc EXCEPT ![h] = x] /\ Waits(T, x)
  <2>1. pc = [pc EXCEPT ![h] = pc[h]]
    BY TypeHere, Stays, Zenon
  <2> HIDE DEF T
  <2> QED BY <1>3, <2>1, Zenon DEF Return
<1> QED BY <1>4, TypeServes, Zenon

\* A step that replaces one socket by one in use, while the process is idle.
LEMMA TypeReplaces ==
  ASSUME TypeInv, QueueInv', NEW h \in Hosts, NEW i \in Slots, NEW s, Fits(s), s.used,
         socks' = [socks EXCEPT ![h] = [socks[h] EXCEPT ![i] = s]],
         pc[h] = Idle, pc' = pc, net' = net, ticks' = ticks, Funded(budget')
  PROVE  TypeInv'
<1> DEFINE T == [socks[h] EXCEPT ![i] = s]
<1>1. FitTable(T)
  BY TypeHere, OneFits, Zenon DEF Good
<1> HIDE DEF T
<1>2. pc' = [pc EXCEPT ![h] = Idle] /\ Waits(T, Idle)
  BY TypeHere, Stays, IdleWaits, Zenon
<1>3. socks' = [socks EXCEPT ![h] = T]
  BY Zenon DEF T
<1>4. Wire(net') /\ ticks' \in Nat
  BY TypeHere, Zenon
<1> QED BY <1>1, <1>2, <1>3, <1>4, TypeSteps, Zenon

\* open() takes a cleared slot.
LEMMA OpenFits ==
  ASSUME TypeInv, QueueInv', NEW h \in Hosts, Open(h)
  PROVE  TypeInv'
<1> DEFINE k == FreeSlot(socks[h])
           yes == TRUE
           r == TcpSock
           p == FIRST_PORT + opens[h]
           s == [r EXCEPT !.used = yes, !.lport = p]
<1>1. k \in Slots
  BY FirstIsIn, Zenon DEF Open, FreeSlot
<1>2. yes \in BOOLEAN /\ yes
  OBVIOUS
<1>3. socks' = [socks EXCEPT ![h] = [socks[h] EXCEPT ![k] = s]]
  <2>1. socks = [m \in Hosts |-> socks[m]]
    BY Zenon DEF TypeInv, QueueInv
  <2> QED BY <2>1, Zenon DEF Open
<1>4. IsSock(r) /\ Within(r) /\ Quiet(r) /\ r.backlog <= MAX_ACCEPT
  BY BlankFits, SocketLimits, Zenon DEF Fits, Quiet, TcpSock
<1> HIDE DEF k, yes, p, r
<1>5. IsSock(s) /\ s.used = yes /\ s.rip = r.rip /\ s.state = r.state /\ s.backlog = r.backlog
  BY <1>2, <1>4, ZenonT(40) DEF IsSock, Fields
<1>6. Alike(r, s)
  BY <1>4, ZenonT(40) DEF Alike, IsSock, Fields
<1> HIDE DEF s
<1>7. Fits(s) /\ s.used
  BY <1>2, <1>4, <1>5, <1>6, Zenon DEF Fits, Within, Quiet, Alike
<1>8. pc[h] = Idle /\ pc' = pc /\ net' = net /\ ticks' = ticks
  BY Zenon DEF Open
<1>9. Funded(budget')
  <2>1. budget' = [budget EXCEPT !.opens = [budget.opens EXCEPT ![h] = budget.opens[h] - 1]]
    BY Zenon DEF Open
  <2>2. Funded(budget)
    BY Zenon DEF TypeInv
  <2> QED BY <2>1, <2>2, Spent, Zenon
<1> QED BY <1>1, <1>3, <1>7, <1>8, <1>9, TypeReplaces, Zenon

\* bind() changes the port.
LEMMA BindFits ==
  ASSUME TypeInv, QueueInv', NEW h \in Hosts, NEW i \in Slots, Bind(h, i)
  PROVE  TypeInv'
<1> DEFINE r == socks[h][i]
           s == [r EXCEPT !.lport = PORT]
<1>1. Fits(r) /\ r.used
  BY TypeHere, Zenon DEF FitTable, Bind
<1>2. socks' = [socks EXCEPT ![h] = [socks[h] EXCEPT ![i] = s]]
  <2>1. socks = [m \in Hosts |-> socks[m]]
    BY Zenon DEF TypeInv, QueueInv
  <2> QED BY <2>1, Zenon DEF Bind
<1> HIDE DEF r
<1>3. IsSock(s) /\ s.used = r.used /\ s.rip = r.rip /\ s.state = r.state /\ s.backlog = r.backlog
  BY <1>1, ZenonT(40) DEF Fits, IsSock, Fields
<1>4. Alike(r, s)
  BY <1>1, ZenonT(40) DEF Alike, Fits, IsSock, Fields
<1> HIDE DEF s
<1>5. Fits(s) /\ s.used
  BY <1>1, <1>3, <1>4, FitsLike, Zenon DEF Fits
<1>6. pc[h] = Idle /\ pc' = pc /\ net' = net /\ ticks' = ticks /\ budget' = budget
  BY Zenon DEF Bind
<1> QED BY <1>2, <1>5, <1>6, TypeHere, TypeReplaces, Zenon

\* listen() cuts the backlog to MAX_ACCEPT.
LEMMA ListenFits ==
  ASSUME TypeInv, QueueInv', NEW h \in Hosts, NEW i \in Slots, NEW n \in Nat, Listen(h, i, n)
  PROVE  TypeInv'
<1> DEFINE r == socks[h][i]
           m == Least({n, MAX_ACCEPT})
           none == <<>>
           s == [r EXCEPT !.state = "LISTEN", !.q = none, !.backlog = m]
<1>1. Fits(r) /\ r.used
  BY TypeHere, Zenon DEF FitTable, Listen
<1>2. m \in Nat /\ m <= MAX_ACCEPT
  BY SocketLimits, LeastOfTwo, Zenon
<1>3. none \in Seq(Slots)
  OBVIOUS
<1>4. socks' = [socks EXCEPT ![h] = [socks[h] EXCEPT ![i] = s]]
  <2>1. socks = [k \in Hosts |-> socks[k]]
    BY Zenon DEF TypeInv, QueueInv
  <2> QED BY <2>1, Zenon DEF Listen
<1> HIDE DEF r, m, none
<1>5. IsSock(s) /\ s.used = r.used /\ s.rip = r.rip /\ s.state = "LISTEN" /\ s.backlog = m
  BY <1>1, <1>2, <1>3, ZenonT(40) DEF Fits, IsSock, Fields, States
<1>6. Alike(r, s)
  BY <1>1, ZenonT(40) DEF Alike, Fits, IsSock, Fields
<1> HIDE DEF s
<1>7. Fits(s) /\ s.used
  BY <1>1, <1>2, <1>5, <1>6, FitsLike, Zenon
<1>8. pc[h] = Idle /\ pc' = pc /\ net' = net /\ ticks' = ticks /\ budget' = budget
  BY Zenon DEF Listen
<1> QED BY <1>4, <1>7, <1>8, TypeHere, TypeReplaces, Zenon

\* Every machine has a peer.
LEMMA OtherIs ==
  ASSUME NEW h \in Hosts
  PROVE  Other(h) \in Hosts
<1>1. \E k \in Hosts : k # h
  BY NetworkLimits, Zenon
<1> QED BY <1>1, Zenon DEF Other

\* connect() names the peer before it sends.
LEMMA ConnectFits ==
  ASSUME TypeInv, QueueInv', NEW h \in Hosts, NEW i \in Slots, NEW arp, Connect(h, i, arp)
  PROVE  TypeInv'
<1> DEFINE r == socks[h][i]
           yes == TRUE
           o == Other(h)
           d == derive_iss
           zero == 0
           s == [r EXCEPT !.rip = o, !.rport = PORT, !.iss = d, !.una = d, !.nxt = d,
                          !.snd = <<>>, !.wnd = zero, !.rto = yes, !.state = "SYN_SENT"]
           x == [op |-> "connect", s |-> i, todo |-> <<>>]
<1>1. Fits(r) /\ r.used /\ ticks \in Nat
  BY TypeHere, Zenon DEF FitTable, Connect
<1>2. \/ Serve(h, i, send_syn(Working(h, s))) /\ pc' = [pc EXCEPT ![h] = x]
      \/ Serve(h, i, Working(h, s)) /\ pc' = [pc EXCEPT ![h] = Idle]
  BY Zenon DEF Connect, Wait, Return
<1>3. ticks' = ticks + 1 /\ budget' = budget
  BY Zenon DEF Connect
<1>4. ticks + 1 \in Nat
  BY <1>1
<1>5. d \in SeqNos
  BY <1>4, IssSeq, Zenon DEF derive_iss
<1>6. o \in Hosts
  BY OtherIs, Zenon
<1>7. zero \in 0 .. RECV_CAP /\ Len(<<>>) <= SEND_CAP
  BY SocketLimits, EmptySeq
<1> HIDE DEF r, yes, o, d, zero
<1>8. IsSock(s) /\ s.used = r.used /\ s.rip = o /\ s.backlog = r.backlog
  BY <1>1, ZenonT(40) DEF Fits, IsSock, Fields, States
<1>9. /\ s.una = d /\ s.nxt = d /\ s.base = r.base /\ s.iss = d /\ s.snd = <<>>
      /\ s.rcv = r.rcv /\ s.wnd = zero
  BY <1>1, ZenonT(40) DEF Fits, IsSock, Fields
<1> HIDE DEF s
<1>10. Within(s)
  <2>1. Within(r)
    BY <1>1, Zenon DEF Fits
  <2> QED BY <1>5, <1>7, <1>9, <2>1, EmptySeq, Zenon DEF Within
<1>11. Fits(s) /\ s.used /\ Paired(s)
  BY <1>1, <1>6, <1>8, <1>10, Zenon DEF Fits, Paired
<1>12. /\ FitWork(Working(h, s)) /\ Working(h, s).s = s
       /\ FitWork(send_syn(Working(h, s))) /\ send_syn(Working(h, s)).s = s
  <2>1. FitWork(Working(h, s)) /\ Working(h, s).s = s
    BY <1>11, WorkingFits, Zenon
  <2> QED BY <2>1, SynsFit, Zenon
<1>13. Waits([socks[h] EXCEPT ![i] = s], x) /\ Waits([socks[h] EXCEPT ![i] = s], Idle)
  <2>1. [socks[h] EXCEPT ![i] = s][i].used
    BY <1>11, TypeHere, Zenon
  <2>2. "connect" # "send"
    OBVIOUS
  <2> QED BY <2>1, <2>2, CallWaits, IdleWaits, Zenon
<1> HIDE DEF x
<1>14. ticks' \in Nat /\ Funded(budget')
  BY <1>3, <1>4, TypeHere, Zenon
<1> QED BY <1>2, <1>12, <1>13, <1>14, TypeServes, Zenon

\* What is copied fits, and the rest is what there was of it.
LEMMA ChunkFits ==
  ASSUME NEW b, IsSeq(b), Len(b) <= SEND_CAP, NEW data, IsSeq(data),
         NEW n, n = Least({Len(data), SEND_CAP - Len(b)})
  PROVE  /\ IsSeq(b \o SubSeq(data, 1, n)) /\ Len(b \o SubSeq(data, 1, n)) <= SEND_CAP
         /\ IsSeq(SubSeq(data, n + 1, Len(data)))
<1> DEFINE m == Len(b)
           k == Len(data)
           c == SubSeq(data, 1, n)
<1>1. m \in Nat /\ k \in Nat /\ SEND_CAP \in Nat
  BY SeqJoined, SocketLimits, Zenon
<1>2. SEND_CAP - m \in Nat
  <2> HIDE DEF m, k
  <2> QED BY <1>1 DEF m
<1>3. n \in {k, SEND_CAP - m} /\ n <= k /\ n <= SEND_CAP - m
  BY <1>1, <1>2, LeastOfTwo, Zenon
<1>4. n \in 0 .. k /\ m + n <= SEND_CAP
  <2> HIDE DEF m, k
  <2> QED BY ONLY <1>1, <1>2, <1>3
<1>5. IsSeq(c) /\ Len(c) = n /\ IsSeq(SubSeq(data, n + 1, Len(data)))
  BY <1>4, SeqCut, Zenon
<1> HIDE DEF c
<1>6. IsSeq(b \o c) /\ Len(b \o c) = m + n
  BY <1>5, SeqJoined, Zenon
<1> QED BY <1>4, <1>5, <1>6, Zenon DEF c

\* send() copies what fits, pushes it, and waits on its connection for the rest.
LEMMA SendChunkFits ==
  ASSUME TypeInv, QueueInv', NEW h \in Hosts, NEW i \in Slots, Closing(socks[h][i]),
         NEW data, IsSeq(data), SendChunk(h, i, data)
  PROVE  TypeInv'
<1> DEFINE r == socks[h][i]
           n == Least({Len(data), SEND_CAP - Len(r.snd)})
           b == r.snd \o SubSeq(data, 1, n)
           rest == SubSeq(data, n + 1, Len(data))
           s == [r EXCEPT !.snd = b]
           w == tcp_push(Working(h, s))
           x == [op |-> "send", s |-> i, todo |-> rest]
           T == [socks[h] EXCEPT ![i] = w.s]
<1>1. /\ Serve(h, i, w) /\ ticks' = ticks /\ budget' = budget
      /\ pc' = [pc EXCEPT ![h] = Idle] \/ pc' = [pc EXCEPT ![h] = x]
  BY Zenon DEF SendChunk, Return, Wait
<1>2. Fits(r) /\ r.used /\ Within(r) /\ Paired(r)
  BY TypeHere, Zenon DEF FitTable, Fits, Quiet, Closing, Connected
<1>3. IsSeq(b) /\ Len(b) <= SEND_CAP /\ IsSeq(rest)
  BY <1>2, ChunkFits, Zenon DEF Within
<1> HIDE DEF r, b, rest
<1>4. Same(r, s) /\ s.rip = r.rip
  BY <1>2, ZenonT(40) DEF Fits, IsSock, Fields, Same
<1>5. /\ s.una = r.una /\ s.nxt = r.nxt /\ s.base = r.base /\ s.iss = r.iss /\ s.snd = b
      /\ s.rcv = r.rcv /\ s.wnd = r.wnd
  BY <1>2, ZenonT(40) DEF Fits, IsSock, Fields
<1> HIDE DEF s
<1>6. Fits(s) /\ s.used /\ Paired(s)
  <2>1. Within(s)
    BY <1>2, <1>3, <1>5, Zenon DEF Within
  <2> QED BY <1>2, <1>4, <2>1, FitsOn, Zenon
<1>7. FitWork(w) /\ Same(r, w.s)
  <2>1. FitWork(Working(h, s)) /\ Working(h, s).s = s
    BY <1>6, WorkingFits, Zenon
  <2> QED BY <1>4, <2>1, PushFits, SameThen, Zenon
<1> HIDE DEF w
<1>8. Waits(T, Idle) /\ Waits(T, x)
  <2>1. Closing(w.s) /\ T[i] = w.s
    BY <1>7, TypeHere, Zenon DEF r, Closing, Same, Connected
  <2>2. x.op = "send" /\ x.s = i /\ x.todo = rest
    OBVIOUS
  <2> HIDE DEF x, T
  <2>3. Waits(T, x)
    BY <1>3, <2>1, <2>2, Zenon DEF Waits, Closing
  <2> QED BY <2>3, IdleWaits, Zenon
<1> HIDE DEF x
<1>9. ticks' \in Nat /\ Funded(budget')
  BY <1>1, TypeHere, Zenon
<1> QED BY <1>1, <1>7, <1>8, <1>9, TypeServes, Zenon

\* send() of n bytes of the program.
LEMMA SendFits ==
  ASSUME TypeInv, QueueInv', NEW h \in Hosts, NEW i \in Slots, NEW n \in Int, Send(h, i, n)
  PROVE  TypeInv'
<1> DEFINE m == Len(sent[h][ClientPort(socks[h][i])])
           data == [k \in 1 .. n |-> m + k]
           x == [op |-> "send", s |-> i, todo |-> data]
<1>1. Closing(socks[h][i])
  BY Zenon DEF Send, Closing
<1>2. \/ SendChunk(h, i, data)
      \/ /\ pc' = [pc EXCEPT ![h] = x]
         /\ socks' = socks /\ net' = net /\ ticks' = ticks /\ budget' = budget
  BY Zenon DEF Send, Wait
<1>3. IsSeq(data)
  <2>1. data = [k \in 1 .. n |-> data[k]]
    BY Zenon
  <2> HIDE DEF data
  <2> QED BY <2>1, SeqGiven, Zenon
<1> HIDE DEF data
<1>4. CASE SendChunk(h, i, data)
  BY <1>1, <1>3, <1>4, SendChunkFits, Zenon
<1>5. CASE /\ pc' = [pc EXCEPT ![h] = x]
           /\ socks' = socks /\ net' = net /\ ticks' = ticks /\ budget' = budget
  <2>1. x.op = "send" /\ x.s = i /\ x.todo = data
    OBVIOUS
  <2> HIDE DEF x
  <2>2. Waits(socks[h], x)
    BY <1>1, <1>3, <2>1, Zenon DEF Waits, Closing
  <2>3. Wire(net') /\ ticks' \in Nat /\ Funded(budget')
    BY <1>5, TypeHere, Zenon
  <2> QED BY <1>5, <2>2, <2>3, TypeReturns, Zenon
<1> QED BY <1>2, <1>4, <1>5, Zenon

\* A call returns, and changes nothing the limits speak of.
LEMMA ReturnFits ==
  ASSUME TypeInv, QueueInv', NEW h \in Hosts, Return(h),
         socks' = socks, net' = net, ticks' = ticks, budget' = budget
  PROVE  TypeInv'
<1>1. Wire(net') /\ ticks' \in Nat /\ Funded(budget')
  BY TypeHere, Zenon
<1> QED BY <1>1, IdleWaits, TypeReturns, Zenon DEF Return

\* A call starts to wait on a socket in use, and not to send.
LEMMA WaitFits ==
  ASSUME TypeInv, QueueInv', NEW h \in Hosts, NEW i \in Slots, socks[h][i].used,
         NEW op, op # "send", NEW todo, Wait(h, op, i, todo),
         socks' = socks, net' = net, ticks' = ticks, budget' = budget
  PROVE  TypeInv'
<1> DEFINE x == [op |-> op, s |-> i, todo |-> todo]
<1>1. Wire(net') /\ ticks' \in Nat /\ Funded(budget')
  BY TypeHere, Zenon
<1>2. Waits(socks[h], x) /\ pc' = [pc EXCEPT ![h] = x]
  BY CallWaits, Zenon DEF Wait
<1> HIDE DEF x
<1> QED BY <1>1, <1>2, TypeReturns, Zenon

\* send() once there is room, or an error.
LEMMA SendMoreFits ==
  ASSUME TypeInv, QueueInv', NEW h \in Hosts, NEW i \in Slots, SendMore(h, i)
  PROVE  TypeInv'
<1>1. At(h, "send", i)
  BY Zenon DEF SendMore
<1>2. Closing(socks[h][i]) /\ IsSeq(pc[h].todo)
  BY <1>1, WaitsOn
<1>3. \/ SendChunk(h, i, pc[h].todo)
      \/ Return(h) /\ socks' = socks /\ net' = net /\ ticks' = ticks /\ budget' = budget
  BY Zenon DEF SendMore
<1> QED BY <1>2, <1>3, SendChunkFits, ReturnFits, Zenon

\* recv() takes bytes off the buffer; a socket whose buffer holds any has a peer.
LEMMA RecvReturnsFits ==
  ASSUME TypeInv, QueueInv', NEW h \in Hosts, NEW i \in Slots, NEW len \in Nat, RecvReturns(h, i, len)
  PROVE  TypeInv'
<1> DEFINE r == socks[h][i]
           take == Least({len, Len(r.rcv)})
           b == SubSeq(r.rcv, take + 1, Len(r.rcv))
           c == (r.base + take) % SEQ
           s == [r EXCEPT !.rcv = b, !.base = c]
           w == tcp_send_ack(Working(h, s))
<1>1. /\ At(h, "recv", i) /\ Return(h) /\ ticks' = ticks /\ budget' = budget
      /\ \/ socks' = socks /\ net' = net
         \/ r.rcv # <<>> /\ Serve(h, i, w)
  BY Zenon DEF RecvReturns
<1>2. CASE socks' = socks /\ net' = net
  BY <1>1, <1>2, ReturnFits, Zenon
<1>3. CASE r.rcv # <<>> /\ Serve(h, i, w)
  <2>1. "recv" # "idle"
    OBVIOUS
  <2>2. Fits(r) /\ r.used /\ Within(r) /\ Paired(r)
    BY <1>1, <1>3, <2>1, WaitsOn, TypeHere, Zenon DEF FitTable, Fits, Quiet
  <2>3. IsSeq(r.rcv) /\ Len(r.rcv) \in Nat /\ Len(r.rcv) <= RECV_CAP /\ r.base \in SeqNos
    BY <2>2, SeqJoined, Zenon DEF Within
  <2>4. take \in Nat /\ take <= Len(r.rcv)
    BY <2>3, LeastOfTwo, Zenon
  <2>5. take \in 0 .. Len(r.rcv) /\ r.base + take \in Int
    <3>1. r.base \in Nat
      BY <2>3, SeqNosAre, Zenon
    <3> HIDE DEF take, r
    <3> QED BY ONLY <2>3, <2>4, <3>1
  <2>6. c \in SeqNos /\ IsSeq(b) /\ Len(b) = Len(r.rcv) - take
    BY <2>3, <2>5, ModSeq, SeqCut, Zenon
  <2>7. Len(b) <= RECV_CAP
    <3>1. RECV_CAP \in Nat
      BY SocketLimits, Zenon
    <3> HIDE DEF take, r, b
    <3> QED BY ONLY <2>3, <2>4, <2>6, <3>1
  <2> HIDE DEF r, b, c
  <2>8. Same(r, s) /\ s.rip = r.rip
    BY <2>2, ZenonT(40) DEF Fits, IsSock, Fields, Same
  <2>9. /\ s.una = r.una /\ s.nxt = r.nxt /\ s.base = c /\ s.iss = r.iss /\ s.snd = r.snd
        /\ s.rcv = b /\ s.wnd = r.wnd
    BY <2>2, ZenonT(40) DEF Fits, IsSock, Fields
  <2> HIDE DEF s
  <2>10. Within(s)
    BY <2>2, <2>6, <2>7, <2>9, Zenon DEF Within
  <2>11. Fits(s) /\ s.used /\ Paired(s)
    BY <2>2, <2>8, <2>10, FitsOn, Zenon
  <2>12. FitWork(w) /\ w.s = s
    <3>1. FitWork(Working(h, s)) /\ Working(h, s).s = s
      BY <2>11, WorkingFits, Zenon
    <3> QED BY <3>1, AckFits, Zenon
  <2> HIDE DEF w
  <2>13. ticks' \in Nat /\ Funded(budget') /\ Same(socks[h][i], w.s)
    BY <1>1, <2>8, <2>12, TypeHere, Zenon DEF r
  <2> QED BY <1>1, <1>3, <2>12, <2>13, TypeMoves, Zenon
<1> QED BY <1>1, <1>2, <1>3, Zenon

\* A listener whose queue changes.
LEMMA QueueFits ==
  ASSUME NEW m, Fits(m), m.used, NEW q \in Seq(Slots)
  PROVE  Fits([m EXCEPT !.q = q]) /\ [m EXCEPT !.q = q].used
<1> DEFINE t == [m EXCEPT !.q = q]
<1>1. IsSock(t) /\ t.used = m.used /\ t.rip = m.rip /\ t.state = m.state /\ t.backlog = m.backlog
  BY ZenonT(40) DEF Fits, IsSock, Fields
<1>2. Alike(m, t)
  BY ZenonT(40) DEF Alike, Fits, IsSock, Fields
<1> HIDE DEF t
<1>3. Fits(t) /\ t.used
  BY <1>1, <1>2, FitsLike, Zenon DEF Fits
<1> QED BY <1>3, Zenon DEF t

\* accept() hands out the head of the queue.
LEMMA AcceptReturnsFits ==
  ASSUME TypeInv, QueueInv', NEW h \in Hosts, NEW l \in Slots, AcceptReturns(h, l)
  PROVE  TypeInv'
<1> DEFINE tab == socks[h]
           c == Head(tab[l].q)
           no == FALSE
           rest == Tail(tab[l].q)
           m == tab[l]
           t == [m EXCEPT !.q = rest]
           r == tab[c]
           s == [r EXCEPT !.lst = NoSlot, !.queued = no]
           U == [tab EXCEPT ![l] = t]
           T == [U EXCEPT ![c] = s]
<1>1. Sound(tab) /\ FitTable(tab) /\ tab = [j \in Slots |-> tab[j]]
  BY TypeHere, Zenon
<1>2. tab[l].q # <<>> /\ Return(h) /\ At(h, "accept", l)
  BY Zenon DEF AcceptReturns
<1>3. no \in BOOLEAN
  OBVIOUS
<1>4. c \in Slots /\ c # l /\ rest \in Seq(Slots) /\ tab[c].used
  BY <1>1, <1>2, HeadIsChild
<1>5. "accept" # "idle"
  OBVIOUS
<1>6. Fits(m) /\ m.used /\ Fits(r) /\ r.used
  <2>1. tab[l].used
    BY <1>2, <1>5, WaitsOn, Zenon
  <2> QED BY <1>1, <1>4, <2>1, Zenon DEF FitTable
<1>7. socks' = [socks EXCEPT ![h] = T]
  <2>1. socks = [k \in Hosts |-> socks[k]]
    BY Zenon DEF TypeInv, QueueInv
  <2> QED BY <1>1, <1>4, <2>1, Zenon DEF AcceptReturns
<1> HIDE DEF rest, no, c, m, r
<1>8. Fits(t) /\ t.used
  BY <1>4, <1>6, QueueFits, Zenon
<1>9. IsSock(s) /\ s.used = r.used /\ s.rip = r.rip /\ s.state = r.state /\ s.backlog = r.backlog
  BY <1>3, <1>6, ZenonT(40) DEF Fits, IsSock, Fields
<1>10. Alike(r, s)
  BY <1>6, ZenonT(40) DEF Alike, Fits, IsSock, Fields
<1> HIDE DEF t, s
<1>11. Fits(s) /\ s.used
  BY <1>6, <1>9, <1>10, FitsLike, Zenon DEF Fits
<1>12. FitTable(U) /\ U = [j \in Slots |-> U[j]]
  BY <1>1, <1>8, OneFits, Zenon DEF Good
<1> HIDE DEF U
<1>13. FitTable(T)
  BY <1>4, <1>11, <1>12, OneFits, Zenon DEF Good
<1> HIDE DEF T
<1>14. Wire(net') /\ ticks' \in Nat /\ Funded(budget')
  BY TypeHere, Zenon DEF AcceptReturns
<1> QED BY <1>2, <1>7, <1>13, <1>14, IdleWaits, TypeSteps, Zenon DEF Return

\* Freeing a socket clears it and, for a listener, its children.
LEMMA FreedFits ==
  ASSUME NEW tab, Sound(tab), FitTable(tab), NEW i \in Slots, Sound(Freed(tab, i))
  PROVE  FitTable(Freed(tab, i))
<1> DEFINE T == Freed(tab, i)
           l == tab[i].lst
           u == Unqueued(tab[l].q, i)
<1> SUFFICES ASSUME NEW j \in Slots PROVE Fits(T[j])
  BY Zenon DEF FitTable
<1>1. tab = [k \in Slots |-> tab[k]] /\ IsSock(T[j]) /\ Fits(tab[j])
  BY Zenon DEF Sound, IsTable, FitTable
<1>2. T[j] = TcpSock \/ T[j] = accept_remove(tab, i)[j]
  BY Zenon DEF Freed
<1>3. \/ accept_remove(tab, i)[j] = tab[j]
      \/ /\ tab[j].used
         /\ accept_remove(tab, i)[j] = [tab[j] EXCEPT !.q = u]
  BY <1>1, Zenon DEF accept_remove
<1> HIDE DEF T, u
<1>4. CASE T[j] = TcpSock \/ T[j] = tab[j]
  BY <1>1, <1>4, BlankFits, Zenon
<1>5. CASE tab[j].used /\ T[j] = [tab[j] EXCEPT !.q = u]
  <2> DEFINE m == tab[j]
             t == [m EXCEPT !.q = u]
  <2>1. Fits(m) /\ m.used /\ T[j] = t /\ IsSock(t)
    BY <1>1, <1>5, Zenon
  <2> HIDE DEF m
  <2>2. t.q = u
    BY <2>1, ZenonT(40) DEF Fits, IsSock, Fields
  <2> HIDE DEF t
  <2>3. u \in Seq(Slots)
    BY <2>1, <2>2, Zenon DEF IsSock
  <2> QED BY <2>1, <2>3, QueueFits, Zenon DEF t
<1> QED BY <1>2, <1>3, <1>4, <1>5, Zenon

\* close() waits for a connection and frees the rest at once.
LEMMA CloseFits ==
  ASSUME TypeInv, QueueInv', NEW h \in Hosts, NEW i \in Slots, Close(h, i)
  PROVE  TypeInv'
<1> DEFINE T == Freed(socks[h], i)
<1>1. /\ pc[h] = Idle /\ socks[h][i].used
      /\ net' = net /\ ticks' = ticks /\ budget' = budget
      /\ \/ Wait(h, "close", i, <<>>) /\ socks' = socks
         \/ socks' = [socks EXCEPT ![h] = T] /\ pc' = pc
  BY Zenon DEF Close
<1>2. CASE Wait(h, "close", i, <<>>) /\ socks' = socks
  <2>1. "close" # "send"
    OBVIOUS
  <2> QED BY <1>1, <1>2, <2>1, WaitFits, Zenon
<1>3. CASE socks' = [socks EXCEPT ![h] = T] /\ pc' = pc
  <2>1. Sound(T)
    BY <1>1, TypeHere, OneFreed, Zenon
  <2>2. FitTable(T)
    BY <2>1, TypeHere, FreedFits, Zenon
  <2> HIDE DEF T
  <2>3. pc' = [pc EXCEPT ![h] = Idle] /\ Waits(T, Idle)
    BY <1>1, <1>3, TypeHere, Stays, IdleWaits, Zenon
  <2>4. Wire(net') /\ ticks' \in Nat /\ Funded(budget')
    BY <1>1, TypeHere, Zenon
  <2> QED BY <1>3, <2>2, <2>3, <2>4, TypeSteps, Zenon
<1> QED BY <1>1, <1>2, <1>3, Zenon

\* A call that frees socket i and returns.
LEMMA TypeFrees ==
  ASSUME TypeInv, QueueInv', NEW h \in Hosts, NEW i \in Slots, Return(h),
         socks' = [socks EXCEPT ![h] = [socks[h] EXCEPT ![i] = TcpSock]],
         Wire(net'), ticks' \in Nat, Funded(budget')
  PROVE  TypeInv'
<1> DEFINE T == [socks[h] EXCEPT ![i] = TcpSock]
<1>1. \A j \in Slots : T[j] = TcpSock \/ T[j] = socks[h][j]
  BY TypeHere, Zenon
<1>2. FitTable(T)
  BY <1>1, BlankFits, TypeHere, Zenon DEF FitTable
<1> HIDE DEF T
<1>3. socks' = [socks EXCEPT ![h] = T]
  BY Zenon DEF T
<1> QED BY <1>2, <1>3, IdleWaits, TypeSteps, Zenon DEF Return

\* A pass of the loop of close().
LEMMA ClosePassFits ==
  ASSUME TypeInv, QueueInv', NEW h \in Hosts, NEW i \in Slots, NEW due, ClosePass(h, i, due)
  PROVE  TypeInv'
<1> DEFINE r == socks[h][i]
           w == FlushAndFin(Working(h, r))
           v == IF due THEN tcp_retransmit(w) ELSE w
           z == [w EXCEPT !.s = TcpSock]
<1>1. /\ At(h, "close", i) /\ ticks' = ticks
      /\ (Serve(h, i, z) /\ Return(h)) \/ (Serve(h, i, v) /\ pc' = pc)
  BY Zenon DEF ClosePass
<1>2. Funded(budget')
  <2>1. PICK c, d : budget' = [budget EXCEPT !.pass = c, !.rtx = d]
    BY Zenon DEF ClosePass
  <2>2. Funded([budget EXCEPT !.pass = c, !.rtx = d])
    BY Spent, Zenon DEF TypeInv
  <2> QED BY <2>1, <2>2, Zenon
<1>3. Closing(r)
  BY <1>1, TypeHere, Stays, Zenon DEF At
<1>4. Fits(r) /\ r.used /\ Paired(r)
  BY <1>3, TypeHere, Zenon DEF FitTable, Fits, Quiet, Closing, Connected
<1>5. FitWork(w) /\ Same(r, w.s)
  <2>1. FitWork(Working(h, r)) /\ Working(h, r).s = r
    BY <1>4, WorkingFits, Zenon
  <2> QED BY <2>1, FlushFits, Zenon
<1> HIDE DEF w
<1>6. FitWork(v) /\ Same(r, v.s)
  BY <1>5, RetransmitFits, SameThen, Zenon
<1> HIDE DEF v
<1>7. ticks' \in Nat
  BY <1>1, TypeHere, Zenon
<1>8. CASE Serve(h, i, v) /\ pc' = pc
  BY <1>2, <1>6, <1>7, <1>8, TypeMoves, Zenon
<1>9. CASE Serve(h, i, z) /\ Return(h)
  <2>1. z.s = TcpSock /\ z.out = w.out
    BY <1>5, Zenon DEF FitWork, IsWork
  <2> HIDE DEF z
  <2>2. socks' = [socks EXCEPT ![h] = [socks[h] EXCEPT ![i] = TcpSock]]
    BY <1>9, <2>1, TypeHere, ServeIs, Zenon
  <2>3. Wire(net')
    BY <1>5, <1>9, <2>1, TypeHere, PlusWire, Zenon DEF Serve, FitWork
  <2> QED BY <1>2, <1>7, <1>9, <2>2, <2>3, TypeFrees, Zenon
<1> QED BY <1>1, <1>8, <1>9, Zenon

\* close() after its second is over.
LEMMA CloseEndsFits ==
  ASSUME TypeInv, QueueInv', NEW h \in Hosts, NEW i \in Slots, CloseEnds(h, i)
  PROVE  TypeInv'
<1>1. socks' = [socks EXCEPT ![h] = [socks[h] EXCEPT ![i] = TcpSock]]
  <2>1. socks = [k \in Hosts |-> socks[k]]
    BY Zenon DEF TypeInv, QueueInv
  <2> QED BY <2>1, Zenon DEF CloseEnds
<1>2. Wire(net') /\ ticks' \in Nat /\ Funded(budget')
  BY TypeHere, Zenon DEF CloseEnds
<1> QED BY <1>1, <1>2, TypeFrees, Zenon DEF CloseEnds

\* The timer of connect().
LEMMA ConnectTimerFits ==
  ASSUME TypeInv, QueueInv', NEW h \in Hosts, NEW i \in Slots, ConnectTimer(h, i)
  PROVE  TypeInv'
<1> DEFINE r == socks[h][i]
           w == tcp_retransmit(Working(h, r))
<1>1. /\ At(h, "connect", i) /\ r.state = "SYN_SENT"
      /\ Serve(h, i, w) /\ pc' = pc /\ ticks' = ticks
  BY Zenon DEF ConnectTimer
<1>2. Funded(budget')
  <2>1. PICK c : budget' = [budget EXCEPT !.rtx = c]
    BY Zenon DEF ConnectTimer
  <2>2. Funded([budget EXCEPT !.rtx = c])
    BY Spent, Zenon DEF TypeInv
  <2> QED BY <2>1, <2>2, Zenon
<1>3. "connect" # "idle"
  OBVIOUS
<1>4. Fits(r) /\ r.used /\ Paired(r)
  <2>1. r.used
    BY <1>1, <1>3, WaitsOn, Zenon
  <2> QED BY <1>1, <2>1, TypeHere, Zenon DEF FitTable, Fits, Quiet
<1>5. FitWork(w) /\ Same(r, w.s)
  <2>1. FitWork(Working(h, r)) /\ Working(h, r).s = r
    BY <1>4, WorkingFits, Zenon
  <2> QED BY <2>1, RetransmitFits, Zenon
<1> HIDE DEF w
<1>6. ticks' \in Nat
  BY <1>1, TypeHere, Zenon
<1> QED BY <1>1, <1>2, <1>5, <1>6, TypeMoves, Zenon

\* A frame off the ring, for the machine it names.
LEMMA DeliverFits ==
  ASSUME TypeInv, QueueInv', NEW g \in DOMAIN net, NEW again, Deliver(g, again)
  PROVE  TypeInv'
<1> DEFINE h == g.to
           e == input_packet(h, socks[h], g)
           n == IF again THEN net ELSE Minus(net, g)
<1>1. /\ socks' = [socks EXCEPT ![h] = e.tab] /\ net' = Plus(n, e.out)
      /\ ticks' = (IF e.drew THEN ticks + 1 ELSE ticks) /\ pc' = pc
  BY Zenon DEF Deliver
<1>2. IsSeg(g) /\ h \in Hosts
  BY Zenon DEF TypeInv, Wire, IsSeg
<1>3. Funded(budget')
  <2>1. PICK c : budget' = budget \/ budget' = [budget EXCEPT !.dup = c]
    BY Zenon DEF Deliver
  <2>2. Funded(budget) /\ Funded([budget EXCEPT !.dup = c])
    BY Spent, Zenon DEF TypeInv
  <2> QED BY <2>1, <2>2, Zenon
<1>4. GoodEffect(socks[h], e) /\ Keeps(socks[h], e.tab)
  BY <1>2, TypeHere, InputFits, InputKeeps, Zenon
<1> HIDE DEF e, h
<1>5. Wire(net')
  <2>1. Wire(n)
    BY <1>2, TypeHere, MinusWire, Zenon
  <2> HIDE DEF n
  <2> QED BY <1>1, <1>4, <2>1, PlusWire, Zenon DEF GoodEffect
<1>6. ticks' \in Nat
  <2>1. ticks \in Nat
    BY Zenon DEF TypeInv
  <2> QED BY <1>1, <2>1
<1>7. Waits(e.tab, pc[h]) /\ pc' = [pc EXCEPT ![h] = pc[h]]
  BY <1>1, <1>2, <1>4, TypeHere, Stays, StillWaits, Zenon DEF GoodEffect, Keeps
<1> QED BY <1>1, <1>2, <1>3, <1>4, <1>5, <1>6, <1>7, TypeSteps, Zenon DEF GoodEffect, Good

\* The two ends of an accepted connection.
LEMMA EndFits ==
  ASSUME NEW lport, NEW rport, NEW peer \in Hosts, NEW iss \in SeqNos, NEW irs \in SeqNos
  PROVE  Fits(End(lport, rport, peer, iss, irs))
<1> DEFINE r == TcpSock
           yes == TRUE
           o == (iss + 1) % SEQ
           b == (irs + 1) % SEQ
           s == [r EXCEPT !.used = yes, !.state = "ESTABLISHED", !.rip = peer,
                          !.lport = lport, !.rport = rport, !.iss = iss,
                          !.una = o, !.nxt = o, !.base = b, !.wnd = RECV_CAP]
<1>1. End(lport, rport, peer, iss, irs) = s
  BY Zenon DEF End
<1>2. yes \in BOOLEAN /\ yes
  OBVIOUS
<1>3. o \in SeqNos /\ b \in SeqNos
  BY NextSeq, Zenon
<1>4. IsSock(r) /\ Within(r) /\ r.backlog <= MAX_ACCEPT
  BY BlankFits, Zenon DEF Fits
<1>5. RECV_CAP \in 0 .. RECV_CAP
  BY SocketLimits
<1> HIDE DEF r, yes, o, b
<1>6. IsSock(s) /\ s.used = yes /\ s.rip = peer /\ s.backlog = r.backlog
  BY <1>2, <1>4, ZenonT(40) DEF IsSock, Fields, States
<1>7. /\ s.una = o /\ s.nxt = o /\ s.base = b /\ s.iss = iss /\ s.snd = r.snd
      /\ s.rcv = r.rcv /\ s.wnd = RECV_CAP
  BY <1>4, ZenonT(40) DEF IsSock, Fields
<1> HIDE DEF s
<1>8. Within(s)
  BY <1>3, <1>4, <1>5, <1>7, Zenon DEF Within
<1> QED BY <1>1, <1>2, <1>4, <1>6, <1>8, Zenon DEF Fits, Paired

\* The listener of such a connection.
LEMMA ListenerFits == Fits(Listener)
<1> DEFINE r == TcpSock
           yes == TRUE
           s == [r EXCEPT !.used = yes, !.state = "LISTEN", !.lport = PORT, !.backlog = MAX_ACCEPT]
<1>1. Listener = s
  BY Zenon DEF Listener
<1>2. yes \in BOOLEAN /\ yes /\ MAX_ACCEPT \in Nat
  BY SocketLimits
<1>3. IsSock(r) /\ Within(r) /\ Quiet(r) /\ MAX_ACCEPT <= MAX_ACCEPT
  <2>1. MAX_ACCEPT <= MAX_ACCEPT
    BY SocketLimits
  <2> QED BY <2>1, BlankFits, SocketLimits, Zenon DEF Fits, Quiet, TcpSock
<1> HIDE DEF r, yes
<1>4. IsSock(s) /\ s.used = yes /\ s.rip = r.rip /\ s.backlog = MAX_ACCEPT /\ s.state = "LISTEN"
  BY <1>2, <1>3, ZenonT(40) DEF IsSock, Fields, States
<1>5. Alike(r, s)
  BY <1>3, ZenonT(40) DEF Alike, IsSock, Fields
<1> HIDE DEF s
<1>6. Within(s) /\ Quiet(s)
  BY <1>3, <1>4, <1>5, Zenon DEF Within, Quiet, Alike
<1> QED BY <1>1, <1>2, <1>3, <1>4, <1>6, Zenon DEF Fits

\* The tables a behaviour starts with.
LEMMA StartFits ==
  ASSUME NEW h \in Hosts
  PROVE  FitTable(Blank) /\ FitTable(Joint[h])
<1> DEFINE p == Other(h)
           a == ISN(1)
           b == ISN(2)
           e == End(PORT, FIRST_PORT, p, b, a)
           f == End(FIRST_PORT, PORT, p, a, b)
<1>1. \A i \in Slots : Blank[i] = TcpSock
  BY Zenon DEF Blank
<1>2. 1 \in Nat /\ 2 \in Nat
  OBVIOUS
<1>3. a \in SeqNos /\ b \in SeqNos /\ p \in Hosts
  BY <1>2, IssSeq, OtherIs, Zenon
<1>4. Fits(e) /\ Fits(f)
  BY <1>3, EndFits, Zenon
<1>5. \A i \in Slots : Joint[h][i] \in {TcpSock, Listener, e, f}
  <2>1. \/ Joint[h] = [Blank EXCEPT ![0] = Listener, ![1] = e]
        \/ Joint[h] = [Blank EXCEPT ![0] = f]
    BY Zenon DEF Joint
  <2> HIDE DEF e, f
  <2> QED BY <1>1, <2>1, Zenon DEF Blank
<1> QED BY <1>1, <1>4, <1>5, BlankFits, ListenerFits, Zenon DEF FitTable

\* The initial states satisfy the invariant.
LEMMA InitTypes == Init => TypeInv
<1> HAVE Init
<1>1. QueueInv
  BY InitQueue, Zenon
<1>2. \A h \in Hosts : FitTable(socks[h])
  <2>1. \A h \in Hosts : socks[h] = Blank \/ socks[h] = Joint[h]
    BY Zenon DEF Init
  <2> QED BY <2>1, StartFits, Zenon
<1>3. \A h \in Hosts : Waits(socks[h], pc[h])
  BY IdleWaits, Zenon DEF Init
<1>4. ticks \in Nat
  BY DEF Init
<1>5. Wire(net)
  BY NoneWire, Zenon DEF Init
<1>6. Funded(budget)
  <2>1. budget \in [joined : BOOLEAN, loss : Nat, dup : Nat, rtx : Nat, pass : Nat,
                    bytes : [Hosts -> Nat], opens : [Hosts -> Nat]]
    BY NetworkLimits, Zenon DEF Init
  <2> QED BY <2>1, Zenon DEF Funded
<1> QED BY <1>1, <1>2, <1>3, <1>4, <1>5, <1>6, Zenon DEF TypeInv

\* One step of the specification, action by action.
LEMMA StepTypes ==
  ASSUME TypeInv, [Next]_vars
  PROVE  TypeInv'
<1>1. QueueInv'
  BY StepQueue, Zenon DEF TypeInv
<1>2. CASE UNCHANGED vars
  BY <1>1, <1>2, Zenon DEF vars, TypeInv
<1>3. ASSUME NEW g \in DOMAIN net, Lose(g) PROVE TypeInv'
  <2>1. PICK c : budget' = [budget EXCEPT !.loss = c]
    BY <1>3, Zenon DEF Lose
  <2>2. Funded(budget')
    BY <2>1, Spent, Zenon DEF TypeInv
  <2>3. Wire(net')
    BY <1>3, MinusWire, Zenon DEF TypeInv, Lose
  <2>4. socks' = socks /\ pc' = pc /\ ticks' = ticks
    BY <1>3, Zenon DEF Lose
  <2> QED BY <1>1, <2>2, <2>3, <2>4, Zenon DEF TypeInv
<1>4. ASSUME NEW h \in Hosts, Timeout(h) PROVE TypeInv'
  BY <1>1, <1>4, ReturnFits, Zenon DEF Timeout
<1>5. ASSUME NEW h \in Hosts, NEW i \in Slots, Call(h, i) PROVE TypeInv'
  <2>1. CASE \E n \in {1, MAX_ACCEPT + 1} : Listen(h, i, n)
    <3>1. {1, MAX_ACCEPT + 1} \subseteq Nat
      BY SocketLimits
    <3> QED BY <1>1, <2>1, <3>1, ListenFits, Zenon
  <2>2. CASE \E n \in 1 .. budget.bytes[h] : Send(h, i, n)
    <3>1. 1 .. budget.bytes[h] \subseteq Int
      OBVIOUS
    <3> QED BY <1>1, <2>2, <3>1, SendFits, Zenon
  <2>3. CASE Recv(h, i)
    <3>1. "recv" # "send"
      OBVIOUS
    <3> QED BY <1>1, <2>3, <3>1, WaitFits, Zenon DEF Recv
  <2>4. CASE Accept(h, i)
    <3>1. "accept" # "send"
      OBVIOUS
    <3> QED BY <1>1, <2>4, <3>1, WaitFits, Zenon DEF Accept
  <2> QED BY <1>1, <1>5, <2>1, <2>2, <2>3, <2>4, BindFits, ConnectFits, CloseFits, Zenon DEF Call
<1>6. ASSUME NEW h \in Hosts, NEW i \in Slots, Step(h, i) PROVE TypeInv'
  <2>1. CASE ConnectReturns(h, i)
    BY <1>1, <2>1, ReturnFits, Zenon DEF ConnectReturns
  <2>2. CASE \E len \in 1 .. RECV_CAP : RecvReturns(h, i, len)
    <3>1. 1 .. RECV_CAP \subseteq Nat
      OBVIOUS
    <3> QED BY <1>1, <2>2, <3>1, RecvReturnsFits, Zenon
  <2> QED BY <1>1, <1>6, <2>1, <2>2, ConnectTimerFits, SendMoreFits, AcceptReturnsFits,
             ClosePassFits, CloseEndsFits, Zenon DEF Step
<1> QED BY <1>1, <1>2, <1>3, <1>4, <1>5, <1>6, OpenFits, DeliverFits, Zenon DEF Next, Network

\* The invariant says what TypeOK says.
LEMMA InvIsType == TypeInv => TypeOK
<1> HAVE TypeInv
<1>1. ASSUME NEW h \in Hosts, NEW i \in Slots
      PROVE  LET s == socks[h][i]
             IN  /\ s.state \in States /\ s.rip \in Hosts \cup {NoHost}
                 /\ {s.una, s.nxt, s.base, s.iss} \subseteq SeqNos
                 /\ Len(s.snd) <= SEND_CAP /\ Len(s.rcv) <= RECV_CAP
                 /\ s.wnd \in 0 .. RECV_CAP
                 /\ s.lst \in Slots \cup {NoSlot} /\ s.backlog \in 0 .. MAX_ACCEPT
                 /\ ~s.used => s = TcpSock
  <2> DEFINE s == socks[h][i]
  <2>1. Fits(s)
    BY TypeHere, Zenon DEF FitTable
  <2> HIDE DEF s
  <2>2. s.backlog \in 0 .. MAX_ACCEPT
    BY <2>1, SocketLimits DEF Fits, IsSock
  <2>3. s.rip \in Hosts \cup {NoHost}
    BY <2>1, Zenon DEF Fits, Paired, Quiet
  <2>4. s.state \in States /\ s.lst \in Slots \cup {NoSlot}
    BY <2>1, Zenon DEF Fits, IsSock
  <2>5. /\ {s.una, s.nxt, s.base, s.iss} \subseteq SeqNos
        /\ Len(s.snd) <= SEND_CAP /\ Len(s.rcv) <= RECV_CAP /\ s.wnd \in 0 .. RECV_CAP
    BY <2>1, Zenon DEF Fits, Within
  <2> QED BY <2>1, <2>2, <2>3, <2>4, <2>5, Zenon DEF Fits, s
<1>2. \A h \in Hosts : pc[h] = Idle \/ (pc[h].s \in Slots /\ socks[h][pc[h].s].used)
  BY Zenon DEF TypeInv, Waits
<1>3. \A g \in DOMAIN net : net[g] \in Nat \ {0}
  BY Zenon DEF TypeInv, Wire
<1> QED BY <1>1, <1>2, <1>3, Zenon DEF TypeOK

\* Whatever the network loses, repeats or delays, and whatever the sizes the kernel is built
\* with: no buffer of the socket table outgrows its capacity (what send() copies, what
\* input_packet() takes, what an acknowledgement leaves), a window never exceeds the buffer it
\* speaks of, sequence numbers stay within their width, a backlog within the accept queue,
\* and a process waits only on a socket that is open, however it was closed elsewhere.
THEOREM LimitsAlwaysHold == Spec => []TypeOK
<1>1. Init => TypeInv
  BY InitTypes, Zenon
<1>2. TypeInv /\ [Next]_vars => TypeInv'
  BY StepTypes, Zenon
<1>3. TypeInv => TypeOK
  BY InvIsType, Zenon
<1> QED BY <1>1, <1>2, <1>3, PTL DEF Spec
=============================================================================
