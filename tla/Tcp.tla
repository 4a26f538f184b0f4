-------------------------------- MODULE Tcp --------------------------------
(***************************************************************************)
(* The TCP stack (kernel/net/tcp.cpp): the socket table of each machine,   *)
(* the handshake, the send and receive windows, the FIN and the accept     *)
(* queue, on machines joined by a network that loses, duplicates and       *)
(* reorders segments.                                                      *)
(*                                                                         *)
(* One process per machine makes the socket calls.  A segment is handled   *)
(* only while that process sits in the wait loop of a blocking call, which *)
(* is the only place that calls rx_drain(); so an input step (Deliver) and *)
(* the test that follows the drain in the loop are separate actions, and   *)
(* nothing else happens on that machine in between.  Every call and every  *)
(* segment is handled in one step: the kernel runs them with interrupts    *)
(* off.  The ARP exchange is external: it succeeds at once or fails.       *)
(*                                                                         *)
(* fin_sent is read in six places and assigned in none, so it is FALSE     *)
(* throughout; fin_acked, ST_FIN_WAIT1 and ST_FIN_WAIT2 hang on it and     *)
(* cannot occur.  The tests of them are left out for that reason.          *)
(***************************************************************************)
EXTENDS Integers, Sequences, FiniteSets, Functions

CONSTANTS
  Hosts,       \* the machines; two of them, each the other's peer
  Servers,     \* those whose process binds and listens; the rest connect
  NoHost,      \* rip == 0
  MAX_SOCKS,   \* slots of the socket table
  SEND_CAP,    \* bytes of a send buffer
  RECV_CAP,    \* bytes of a receive buffer
  MSS,         \* both ends' maximum segment size
  MAX_ACCEPT,  \* capacity of the accept queue
  SEQ,         \* sequence numbers are modulo SEQ (2^32 in the code)
  ISS_STEP,    \* how far the clock moves the initial sequence number
  PORT,        \* the port the servers bind
  FIRST_PORT,  \* 49152, the first ephemeral port
  Stale,       \* a byte of a buffer that no program wrote
  MaxOpens,    \* bound: sockets a machine can ever open (ephemeral ports)
  Budgets      \* the bounds a behaviour may start with, records of: segments
               \* lost, duplicated; retransmission timeouts; passes of a closing
               \* loop; per machine, bytes written and sockets opened; and
               \* whether it starts with a connection

ASSUME SocketLimits ==
  /\ MAX_SOCKS \in Nat \ {0}
  /\ MAX_ACCEPT \in Nat \ {0}
  /\ RECV_CAP \in Nat \ {0}
  /\ SEND_CAP \in Nat \ {0}
  /\ NoHost \notin Hosts
  /\ Servers \subseteq Hosts

\* The network has more than one machine, a segment may carry data, and the bounds
\* of a behaviour are numbers.
ASSUME NetworkLimits ==
  /\ \A h \in Hosts : \E k \in Hosts : k # h
  /\ SEQ \in Nat \ {0}
  /\ MSS \in Nat \ {0}
  /\ ISS_STEP \in Nat
  /\ Budgets \subseteq [joined : BOOLEAN, loss : Nat, dup : Nat, rtx : Nat, pass : Nat,
                         bytes : [Hosts -> Nat], opens : [Hosts -> Nat]]

VARIABLES
  socks,       \* g_socks of each machine
  opens,       \* how often g_ephemeral has moved on, per machine
  ticks,       \* handshakes begun so far: what the clock adds to an ISN
  net,         \* the bag of segments under way
  pc,          \* where the process of each machine is
  budget,      \* what is left of the bounds
  sent, got,   \* the bytes written and read, per machine and client port
  eof,         \* the connections a recv() has found ended, per machine
  accepted     \* the client ports accept() has returned, in order

vars == <<socks, opens, ticks, net, pc, budget, sent, got, eof, accepted>>

Slots == 0 .. MAX_SOCKS - 1
NoSlot == -1
ClientPorts == FIRST_PORT .. FIRST_PORT + MaxOpens - 1
Least(S) == CHOOSE x \in S : \A y \in S : x <= y
Other(h) == CHOOSE k \in Hosts : k # h

States == {"CLOSED", "LISTEN", "SYN_RCVD", "SYN_SENT", "ESTABLISHED", "CLOSE_WAIT"}

\* A zero-initialised slot.  Freeing a slot leaves its other fields behind, but
\* nothing reads them before the next owner clears them, so they are cleared here.
TcpSock ==
  [used |-> FALSE, state |-> "CLOSED", rip |-> NoHost, rport |-> 0, lport |-> 0,
   iss |-> 0, snd |-> <<>>, una |-> 0, nxt |-> 0, wnd |-> 0, rto |-> FALSE,
   base |-> 0, rcv |-> <<>>, finr |-> FALSE, err |-> FALSE,
   lst |-> NoSlot, q |-> <<>>, backlog |-> 0, queued |-> FALSE]

Idle == [op |-> "idle", s |-> NoSlot, todo |-> <<>>]

\* Segments under way, a bag: how many copies of each there are.
None == [g \in {} |-> 0]
Once(S) == [g \in S |-> 1]
Copies(n, g) == IF g \in DOMAIN n THEN n[g] ELSE 0
Plus(n, m) == [g \in DOMAIN n \cup DOMAIN m |-> Copies(n, g) + Copies(m, g)]
Minus(n, g) == [x \in {y \in DOMAIN n : y # g \/ n[y] > 1} |-> IF x = g THEN n[x] - 1 ELSE n[x]]

-----------------------------------------------------------------------------
(***************************************************************************)
(* Output.  The handlers work on a record w of the socket they serve, its  *)
(* machine and the segments they have sent so far.                         *)
(***************************************************************************)
Working(h, s) == [h |-> h, s |-> s, out |-> None]

rcv_ackno(s) == (s.base + Len(s.rcv) + IF s.finr THEN 1 ELSE 0) % SEQ
rcv_window(s) == RECV_CAP - Len(s.rcv)

tcp_send_seg(w, seq, ackno, flags, pay) ==
  LET g == [from |-> w.h, to |-> w.s.rip, sport |-> w.s.lport, dport |-> w.s.rport,
            seq |-> seq, ack |-> ackno, flags |-> flags,
            win |-> rcv_window(w.s), pay |-> pay]
  IN  [w EXCEPT !.out = Plus(@, Once({g}))]

\* The bytes from..to of the send buffer; past the buffered ones lie old bytes.
SendBytes(s, from, to) ==
  [k \in 1 .. to - from |->
     IF from + k <= Len(s.snd) THEN s.snd[from + k] ELSE Stale]

\* The loop sends MSS-sized pieces until the window or the buffer ends.  All
\* subtractions are unsigned: once a FIN is outstanding snd_used - inflight wraps.
tcp_push(w) ==
  LET s        == w.s
      inflight == (s.nxt - s.una) % SEQ
      unsent   == (Len(s.snd) - inflight) % SEQ
      n        == IF inflight < s.wnd THEN Least({unsent, s.wnd - inflight}) ELSE 0
      pieces   == {[from |-> w.h, to |-> s.rip, sport |-> s.lport, dport |-> s.rport,
                    seq |-> (s.nxt + o) % SEQ, ack |-> rcv_ackno(s), flags |-> {"ACK"},
                    win |-> rcv_window(s),
                    pay |-> SendBytes(s, inflight + o, inflight + Least({o + MSS, n}))] :
                     o \in {MSS * k : k \in 0 .. ((n + MSS - 1) \div MSS) - 1}}
  IN  [w EXCEPT !.out = Plus(@, Once(pieces)),
                !.s.nxt = (@ + n) % SEQ,
                !.s.rto = @ \/ n > 0]

tcp_send_ack(w) == tcp_send_seg(w, w.s.nxt, rcv_ackno(w.s), {"ACK"}, <<>>)

tcp_send_fin(w) ==
  [tcp_send_seg(w, w.s.nxt, rcv_ackno(w.s), {"ACK", "FIN"}, <<>>)
     EXCEPT !.s.nxt = (@ + 1) % SEQ, !.s.rto = TRUE]

send_syn(w) == tcp_send_seg(w, w.s.iss, 0, {"SYN"}, <<>>)
send_syn_ack(w) == tcp_send_seg(w, w.s.iss, w.s.base, {"SYN", "ACK"}, <<>>)

send_reset(h, g) ==
  tcp_send_seg(Working(h, [TcpSock EXCEPT !.rip = g.from, !.lport = g.dport,
                                          !.rport = g.sport]),
               0, (g.seq + 1) % SEQ, {"RST", "ACK"}, <<>>)

\* What a timeout does; ST_SYN_RCVD is not a state its two callers can see.
tcp_retransmit(w) ==
  IF w.s.state = "SYN_SENT" THEN send_syn(w)
  ELSE tcp_push([w EXCEPT !.s.nxt = w.s.una])

-----------------------------------------------------------------------------
(***************************************************************************)
(* Input                                                                   *)
(***************************************************************************)
\* Mutant: an old acknowledgement is heard too, and its window with it.
acknowledgeStale(w, ackno, window) ==
  LET s == w.s
      adv == IF ackno <= s.una THEN 0 ELSE ackno - s.una
  IN  IF ackno > (s.una + Len(s.snd)) % SEQ THEN w
      ELSE tcp_push([w EXCEPT !.s = [s EXCEPT
             !.snd = SubSeq(s.snd, adv + 1, Len(s.snd)),
             !.una = s.una + adv, !.wnd = window, !.rto = @ /\ adv < Len(s.snd)]])

\* Mutant: every byte on the wire counts as acknowledged.
acknowledgeAll(w, ackno, window) ==
  IF ackno <= w.s.una \/ ackno > (w.s.una + Len(w.s.snd)) % SEQ THEN w
  ELSE tcp_push([w EXCEPT !.s.snd = SubSeq(@, w.s.nxt - w.s.una + 1, Len(@)),
                          !.s.una = w.s.nxt, !.s.wnd = window])

\* Sequence numbers are compared as plain unsigned integers.
acknowledge(w, ackno, window) ==
  LET s == w.s
      adv == ackno - s.una
  IN  IF ackno <= s.una \/ ackno > (s.una + Len(s.snd)) % SEQ THEN w
      ELSE tcp_push([w EXCEPT !.s = [s EXCEPT
             !.snd = SubSeq(s.snd, adv + 1, Len(s.snd)),
             !.una = ackno,
             !.wnd = window,
             !.rto = @ /\ adv < Len(s.snd)]])

\* Lowest matching slot, or NoSlot: the two table searches.
FirstSlot(S) == IF S = {} THEN NoSlot ELSE Least(S)

find_peer_sock(tab, g) ==
  FirstSlot({i \in Slots : /\ tab[i].used
                           /\ tab[i].rip = g.from
                           /\ tab[i].rport = g.sport
                           /\ tab[i].lport = g.dport})

find_listener(tab, g) ==
  FirstSlot({i \in Slots : /\ tab[i].used
                           /\ tab[i].state = "LISTEN"
                           /\ tab[i].lport = g.dport})

FreeSlot(tab) == FirstSlot({i \in Slots : ~tab[i].used})

\* Mutant: the parked children are not counted.
PendingHalfOpen(tab, l) ==
  {i \in Slots : tab[i].used /\ tab[i].lst = l /\ tab[i].state = "SYN_RCVD"}

Pending(tab, l) ==
  {i \in Slots : /\ tab[i].used
                 /\ tab[i].lst = l
                 /\ tab[i].state = "SYN_RCVD" \/ tab[i].queued}

listener_pending(tab, l) == Cardinality(Pending(tab, l))

\* The n-th initial sequence number: the clock has moved on at each.
ISN(n) == (ISS_STEP * n) % SEQ
derive_iss == ISN(ticks + 1)

\* What handling a segment does to a machine: its table, the segments sent, and
\* whether an initial sequence number was drawn.
Effect(tab, out, drew) == [tab |-> tab, out |-> out, drew |-> drew]
Nothing(tab) == Effect(tab, None, FALSE)
Served(tab, i, w) == Effect([tab EXCEPT ![i] = w.s], w.out, FALSE)

handle_syn_ack(h, tab, i, g) ==
  IF g.ack # (tab[i].iss + 1) % SEQ THEN Nothing(tab)
  ELSE Served(tab, i, tcp_send_ack(Working(h, [tab[i] EXCEPT
         !.wnd = g.win, !.una = g.ack, !.nxt = g.ack,
         !.base = (g.seq + 1) % SEQ, !.rcv = <<>>,
         !.rto = FALSE, !.state = "ESTABLISHED"])))

\* The child a listener spawns for a SYN.
Child(l, g) ==
  [TcpSock EXCEPT !.used = TRUE, !.state = "SYN_RCVD", !.rip = g.from,
                  !.rport = g.sport, !.lport = g.dport, !.lst = l,
                  !.iss = derive_iss, !.una = derive_iss, !.nxt = derive_iss,
                  !.base = (g.seq + 1) % SEQ, !.wnd = g.win, !.rto = TRUE]

handle_incoming_syn(h, tab, g) ==
  LET exists == find_peer_sock(tab, g)
      l      == find_listener(tab, g)
      slot   == FreeSlot(tab)
      w      == send_syn_ack(Working(h, Child(l, g)))
  IN  IF exists # NoSlot /\ tab[exists].state = "SYN_RCVD"
        THEN Served(tab, exists, send_syn_ack(Working(h, tab[exists])))
      ELSE IF l = NoSlot
        THEN Effect(tab, send_reset(h, g).out, FALSE)
      ELSE IF listener_pending(tab, l) >= tab[l].backlog \/ slot = NoSlot
        THEN Nothing(tab)
      ELSE Effect([tab EXCEPT ![slot] = w.s], w.out, TRUE)

\* A segment with SYN set: our own handshake's answer, a stray one, or a request.
InputSyn(h, tab, g) ==
  LET i == find_peer_sock(tab, g)
  IN  IF i # NoSlot /\ tab[i].state = "SYN_SENT"
        THEN IF "ACK" \in g.flags THEN handle_syn_ack(h, tab, i, g) ELSE Nothing(tab)
      ELSE IF "ACK" \in g.flags
        THEN Effect(tab, send_reset(h, g).out, FALSE)
      ELSE handle_incoming_syn(h, tab, g)

\* The final ACK of the server's handshake parks the child in its listener's queue.
accept_push(tab, i) ==
  LET l == tab[i].lst
  IN  IF l = NoSlot THEN tab
      ELSE [tab EXCEPT ![l].q = Append(@, i), ![i].queued = TRUE]

FinishHandshake(tab, i, g) ==
  accept_push([tab EXCEPT ![i].una = g.ack, ![i].nxt = g.ack, ![i].wnd = g.win,
                          ![i].rto = FALSE, ![i].state = "ESTABLISHED"], i)

\* The FIN is taken whatever its sequence number.
TakeFin(w, g, need_ack) ==
  LET fresh == "FIN" \in g.flags /\ ~w.s.finr
      v     == IF fresh THEN [w EXCEPT !.s.finr = TRUE, !.s.state = "CLOSE_WAIT"] ELSE w
  IN  IF fresh \/ need_ack THEN tcp_send_ack(v) ELSE v

\* Mutant: a payload from further on is taken as well.
TakePayloadAhead(w, g) ==
  LET expected == (w.s.base + Len(w.s.rcv)) % SEQ
  IN  IF g.pay = <<>> \/ Len(w.s.rcv) + Len(g.pay) > RECV_CAP THEN TakeFin(w, g, FALSE)
      ELSE IF g.seq >= expected THEN TakeFin([w EXCEPT !.s.rcv = @ \o g.pay], g, TRUE)
      ELSE tcp_send_ack(w)

\* Only the next expected payload is taken; one that does not fit is skipped.
TakePayload(w, g) ==
  LET expected == (w.s.base + Len(w.s.rcv)) % SEQ
  IN  IF g.pay = <<>> \/ Len(w.s.rcv) + Len(g.pay) > RECV_CAP THEN TakeFin(w, g, FALSE)
      ELSE IF g.seq = expected THEN TakeFin([w EXCEPT !.s.rcv = @ \o g.pay], g, TRUE)
      ELSE IF g.seq < expected THEN tcp_send_ack(w)
      ELSE w

InputConnected(h, tab, i, g) ==
  LET w == Working(h, tab[i])
  IN  Served(tab, i, TakePayload(IF "ACK" \in g.flags
                                 THEN acknowledge(w, g.ack, g.win) ELSE w, g))

\* Mutant: any ACK completes a server's handshake.
input_packetAnyAck(h, tab, g) ==
  LET i == find_peer_sock(tab, g)
  IN  IF "SYN" \in g.flags THEN InputSyn(h, tab, g)
      ELSE IF i = NoSlot THEN Nothing(tab)
      ELSE IF "RST" \in g.flags THEN Nothing([tab EXCEPT ![i].err = TRUE])
      ELSE IF tab[i].state = "SYN_RCVD"
        THEN InputConnected(h, FinishHandshake(tab, i, g), i, g)
      ELSE IF tab[i].state \in {"ESTABLISHED", "CLOSE_WAIT"}
        THEN InputConnected(h, tab, i, g)
      ELSE Nothing(tab)

input_packet(h, tab, g) ==
  LET i == find_peer_sock(tab, g)
  IN  IF "SYN" \in g.flags THEN InputSyn(h, tab, g)
      ELSE IF i = NoSlot THEN Nothing(tab)
      ELSE IF "RST" \in g.flags THEN Nothing([tab EXCEPT ![i].err = TRUE])
      ELSE IF tab[i].state = "SYN_RCVD"
        THEN IF "ACK" \in g.flags /\ g.ack = (tab[i].iss + 1) % SEQ
             THEN InputConnected(h, FinishHandshake(tab, i, g), i, g)
             ELSE Nothing(tab)
      ELSE IF tab[i].state \in {"ESTABLISHED", "CLOSE_WAIT"}
        THEN InputConnected(h, tab, i, g)
      ELSE Nothing(tab)

-----------------------------------------------------------------------------
(***************************************************************************)
(* The network, and rx_drain                                               *)
(***************************************************************************)
\* The process is in a loop that drains the receive ring: send() only once its
\* buffer is full, the other blocking calls from the start.
Polling(h) == pc[h].op # "idle"

\* The tables after machine h's socket i became w.s, with w's segments on the wire.
Serve(h, i, w) ==
  /\ socks' = [socks EXCEPT ![h][i] = w.s]
  /\ net' = Plus(net, w.out)

\* One frame off the ring.  A duplicated frame stays under way.
Deliver(g, again) ==
  /\ Polling(g.to)
  /\ again => budget.dup > 0
  /\ \E e \in {input_packet(g.to, socks[g.to], g)} :
       /\ socks' = [socks EXCEPT ![g.to] = e.tab]
       /\ net' = Plus(IF again THEN net ELSE Minus(net, g), e.out)
       /\ ticks' = IF e.drew THEN ticks + 1 ELSE ticks
  /\ budget' = IF again THEN [budget EXCEPT !.dup = @ - 1] ELSE budget
  /\ UNCHANGED <<opens, pc, sent, got, eof, accepted>>

Lose(g) ==
  /\ budget.loss > 0
  /\ budget' = [budget EXCEPT !.loss = @ - 1]
  /\ net' = Minus(net, g)
  /\ UNCHANGED <<socks, opens, ticks, pc, sent, got, eof, accepted>>

-----------------------------------------------------------------------------
(***************************************************************************)
(* The calls.  A program uses the handles it was given, so none of them is *)
(* a child that nobody accepted (lst # NoSlot), except that close() of one *)
(* is followed too.  A client connects a socket once and a server listens  *)
(* on the port it has bound.                                               *)
(***************************************************************************)
At(h, op, i) == pc[h].op = op /\ pc[h].s = i
Return(h) == pc' = [pc EXCEPT ![h] = Idle]
Wait(h, op, i, todo) == pc' = [pc EXCEPT ![h] = [op |-> op, s |-> i, todo |-> todo]]
Connected(s) == s.state \in {"ESTABLISHED", "CLOSE_WAIT"}

\* The client's port names a connection on both machines.
ClientPort(s) == IF s.lport \in ClientPorts THEN s.lport ELSE s.rport

Open(h) ==
  /\ pc[h] = Idle
  /\ budget.opens[h] > 0
  /\ FreeSlot(socks[h]) # NoSlot
  /\ socks' = [socks EXCEPT ![h][FreeSlot(socks[h])] =
                 [TcpSock EXCEPT !.used = TRUE, !.lport = FIRST_PORT + opens[h]]]
  /\ opens' = [opens EXCEPT ![h] = @ + 1]
  /\ budget' = [budget EXCEPT !.opens[h] = @ - 1]
  /\ UNCHANGED <<ticks, net, pc, sent, got, eof, accepted>>

\* A port any other live socket owns, an accepted child included, is refused.
Bind(h, i) ==
  /\ pc[h] = Idle
  /\ h \in Servers
  /\ socks[h][i].used /\ socks[h][i].state = "CLOSED"
  /\ \A j \in Slots \ {i} : ~(socks[h][j].used /\ socks[h][j].lport = PORT)
  /\ socks' = [socks EXCEPT ![h][i].lport = PORT]
  /\ UNCHANGED <<opens, ticks, net, pc, budget, sent, got, eof, accepted>>

Listen(h, i, backlog) ==
  /\ pc[h] = Idle
  /\ socks[h][i].used /\ socks[h][i].state = "CLOSED"
  /\ socks[h][i].lport = PORT
  /\ socks' = [socks EXCEPT ![h][i].state = "LISTEN", ![h][i].q = <<>>,
                            ![h][i].backlog = Least({backlog, MAX_ACCEPT})]
  /\ UNCHANGED <<opens, ticks, net, pc, budget, sent, got, eof, accepted>>

\* connect() up to the first SYN; without an ARP answer it stops before it.
Connect(h, i, arp) ==
  /\ pc[h] = Idle
  /\ h \notin Servers
  /\ socks[h][i].used /\ socks[h][i].state = "CLOSED"
  /\ LET s == [socks[h][i] EXCEPT !.rip = Other(h), !.rport = PORT,
                 !.iss = derive_iss, !.una = derive_iss, !.nxt = derive_iss,
                 !.snd = <<>>, !.wnd = 0, !.rto = TRUE, !.state = "SYN_SENT"]
     IN  IF arp THEN Serve(h, i, send_syn(Working(h, s))) /\ Wait(h, "connect", i, <<>>)
         ELSE Serve(h, i, Working(h, s)) /\ Return(h)
  /\ ticks' = ticks + 1
  /\ UNCHANGED <<opens, budget, sent, got, eof, accepted>>

ConnectReturns(h, i) ==
  /\ At(h, "connect", i)
  /\ socks[h][i].state = "ESTABLISHED" \/ socks[h][i].err
  /\ Return(h)
  /\ UNCHANGED <<socks, opens, ticks, net, budget, sent, got, eof, accepted>>

\* The retransmission timer fires in the loop of connect().
ConnectTimer(h, i) ==
  /\ At(h, "connect", i)
  /\ socks[h][i].state = "SYN_SENT" /\ ~socks[h][i].err
  /\ budget.rtx > 0
  /\ budget' = [budget EXCEPT !.rtx = @ - 1]
  /\ Serve(h, i, tcp_retransmit(Working(h, socks[h][i])))
  /\ UNCHANGED <<opens, ticks, pc, sent, got, eof, accepted>>

\* The deadline of a connect(), a send() with no room, a recv() or an accept().
Timeout(h) ==
  /\ pc[h].op \in {"connect", "send", "recv", "accept"}
  /\ Return(h)
  /\ UNCHANGED <<socks, opens, ticks, net, budget, sent, got, eof, accepted>>

\* Mutant: the room left in the buffer is not considered.
SendChunkWhole(h, i, data) ==
  /\ Serve(h, i, tcp_push(Working(h, [socks[h][i] EXCEPT !.snd = @ \o data])))
  /\ sent' = [sent EXCEPT ![h][ClientPort(socks[h][i])] = @ \o data]
  /\ Return(h)
  /\ UNCHANGED <<opens, ticks, budget, got, eof, accepted>>

\* Copying what fits and pushing it; the rest waits until an ACK frees room.
SendChunk(h, i, data) ==
  LET s     == socks[h][i]
      n     == Least({Len(data), SEND_CAP - Len(s.snd)})
      chunk == SubSeq(data, 1, n)
      rest  == SubSeq(data, n + 1, Len(data))
  IN  /\ Serve(h, i, tcp_push(Working(h, [s EXCEPT !.snd = @ \o chunk])))
      /\ sent' = [sent EXCEPT ![h][ClientPort(s)] = @ \o chunk]
      /\ IF rest = <<>> \/ s.err THEN Return(h) ELSE Wait(h, "send", i, rest)
      /\ UNCHANGED <<opens, ticks, budget, got, eof, accepted>>

\* The bytes of a program are numbered, so that every one is distinct.
Send(h, i, n) ==
  /\ pc[h] = Idle
  /\ socks[h][i].used /\ Connected(socks[h][i]) /\ socks[h][i].lst = NoSlot
  /\ LET m == Len(sent[h][ClientPort(socks[h][i])])
     IN  /\ m + n <= budget.bytes[h]
         /\ IF Len(socks[h][i].snd) < SEND_CAP
            THEN SendChunk(h, i, [k \in 1 .. n |-> m + k])
            ELSE /\ Wait(h, "send", i, [k \in 1 .. n |-> m + k])
                 /\ UNCHANGED <<socks, opens, ticks, net, budget, sent, got, eof, accepted>>

SendMore(h, i) ==
  /\ At(h, "send", i)
  /\ \/ /\ socks[h][i].err
        /\ Return(h)
        /\ UNCHANGED <<socks, opens, ticks, net, budget, sent, got, eof, accepted>>
     \/ /\ ~socks[h][i].err
        /\ Len(socks[h][i].snd) < SEND_CAP
        /\ SendChunk(h, i, pc[h].todo)

\* recv() of any socket but a fresh one, be it connecting or listening.
Recv(h, i) ==
  /\ pc[h] = Idle
  /\ socks[h][i].used /\ socks[h][i].lst = NoSlot
  /\ socks[h][i].state # "CLOSED" \/ socks[h][i].finr
  /\ Wait(h, "recv", i, <<>>)
  /\ UNCHANGED <<socks, opens, ticks, net, budget, sent, got, eof, accepted>>

\* Mutant: the FIN is looked at before the buffer.
RecvReturnsFinFirst(h, i, len) ==
  /\ At(h, "recv", i)
  /\ LET s    == socks[h][i]
         take == Least({len, Len(s.rcv)})
         took == [s EXCEPT !.rcv = SubSeq(@, take + 1, Len(@)), !.base = (@ + take) % SEQ]
     IN  \/ /\ s.err
            /\ UNCHANGED <<socks, net, got, eof>>
         \/ /\ ~s.err /\ ~s.finr /\ s.rcv # <<>>
            /\ Serve(h, i, tcp_send_ack(Working(h, took)))
            /\ got' = [got EXCEPT ![h][ClientPort(s)] = @ \o SubSeq(s.rcv, 1, take)]
            /\ UNCHANGED eof
         \/ /\ ~s.err /\ s.finr
            /\ eof' = [eof EXCEPT ![h] = @ \cup {ClientPort(s)}]
            /\ UNCHANGED <<socks, net, got>>
  /\ Return(h)
  /\ UNCHANGED <<opens, ticks, budget, sent, accepted>>

RecvReturns(h, i, len) ==
  /\ At(h, "recv", i)
  /\ LET s    == socks[h][i]
         take == Least({len, Len(s.rcv)})
         data == SubSeq(s.rcv, 1, take)
         took == [s EXCEPT !.rcv = SubSeq(@, take + 1, Len(@)), !.base = (@ + take) % SEQ]
     IN  \/ /\ s.err
            /\ UNCHANGED <<socks, net, got, eof>>
         \/ /\ ~s.err /\ s.rcv # <<>>
            /\ Serve(h, i, tcp_send_ack(Working(h, took)))
            /\ got' = [got EXCEPT ![h][ClientPort(s)] = @ \o data]
            /\ UNCHANGED eof
         \/ /\ ~s.err /\ s.rcv = <<>> /\ s.finr
            /\ eof' = [eof EXCEPT ![h] = @ \cup {ClientPort(s)}]
            /\ UNCHANGED <<socks, net, got>>
  /\ Return(h)
  /\ UNCHANGED <<opens, ticks, budget, sent, accepted>>

\* accept() hands out the head of the queue, whatever has become of it since.
Accept(h, i) ==
  /\ pc[h] = Idle
  /\ socks[h][i].used /\ socks[h][i].state = "LISTEN"
  /\ Wait(h, "accept", i, <<>>)
  /\ UNCHANGED <<socks, opens, ticks, net, budget, sent, got, eof, accepted>>

AcceptReturns(h, i) ==
  /\ At(h, "accept", i)
  /\ socks[h][i].q # <<>>
  /\ LET c == Head(socks[h][i].q)
     IN  /\ socks' = [socks EXCEPT ![h][i].q = Tail(@),
                                   ![h][c].lst = NoSlot, ![h][c].queued = FALSE]
         /\ accepted' = Append(accepted, socks[h][c].rport)
  /\ Return(h)
  /\ UNCHANGED <<opens, ticks, net, budget, sent, got, eof>>

\* Taking slot i out of a queue: the entries after it move up.
Unqueued(q, i) ==
  LET k == Least({n \in DOMAIN q : q[n] = i})
  IN  IF i \in Range(q) THEN [n \in 1 .. Len(q) - 1 |-> IF n < k THEN q[n] ELSE q[n + 1]]
      ELSE q

\* Freeing slot i: a listener takes the children nobody accepted with it, and
\* such a child leaves its listener's queue.
accept_remove(tab, i) ==
  IF tab[i].lst # NoSlot /\ tab[i].queued /\ tab[tab[i].lst].used
  THEN [tab EXCEPT ![tab[i].lst].q = Unqueued(@, i)]
  ELSE tab

Freed(tab, i) ==
  [j \in Slots |->
     IF j = i \/ (tab[i].state = "LISTEN" /\ tab[j].used /\ tab[j].lst = i)
     THEN TcpSock ELSE accept_remove(tab, i)[j]]

\* close(): a connection goes through the loop below, the rest is freed at once.
Close(h, i) ==
  /\ pc[h] = Idle
  /\ socks[h][i].used
  /\ IF Connected(socks[h][i]) /\ socks[h][i].lst = NoSlot
     THEN Wait(h, "close", i, <<>>) /\ UNCHANGED socks
     ELSE socks' = [socks EXCEPT ![h] = Freed(@, i)] /\ UNCHANGED pc
  /\ UNCHANGED <<opens, ticks, net, budget, sent, got, eof, accepted>>

\* Pushing what is left and, when nothing is, a FIN: one on every pass.
FlushAndFin(w) ==
  LET v == tcp_push(w) IN IF v.s.snd = <<>> THEN tcp_send_fin(v) ELSE v

\* One pass.  The timer can only be due for data: a FIN has just restarted it,
\* and the loop ends before it can run out again.
ClosePass(h, i, due) ==
  /\ At(h, "close", i)
  /\ budget.pass > 0
  /\ due => /\ budget.rtx > 0
            /\ socks[h][i].rto /\ socks[h][i].snd # <<>> /\ ~socks[h][i].finr
  /\ LET w == FlushAndFin(Working(h, socks[h][i]))
     IN  IF w.s.finr THEN Serve(h, i, [w EXCEPT !.s = TcpSock]) /\ Return(h)
         ELSE Serve(h, i, IF due THEN tcp_retransmit(w) ELSE w) /\ UNCHANGED pc
  /\ budget' = [budget EXCEPT !.pass = @ - 1, !.rtx = IF due THEN @ - 1 ELSE @]
  /\ UNCHANGED <<opens, ticks, sent, got, eof, accepted>>

\* The second is over.
CloseEnds(h, i) ==
  /\ At(h, "close", i)
  /\ socks' = [socks EXCEPT ![h][i] = TcpSock]
  /\ Return(h)
  /\ UNCHANGED <<opens, ticks, net, budget, sent, got, eof, accepted>>

-----------------------------------------------------------------------------
\* Where a behaviour starts: nothing open yet, or one connection accepted and
\* nothing under way, which is how the first kind goes on without faults.
Blank == [i \in Slots |-> TcpSock]

End(lport, rport, peer, iss, irs) ==
  [TcpSock EXCEPT !.used = TRUE, !.state = "ESTABLISHED", !.rip = peer,
                  !.lport = lport, !.rport = rport, !.iss = iss,
                  !.una = (iss + 1) % SEQ, !.nxt = (iss + 1) % SEQ,
                  !.base = (irs + 1) % SEQ, !.wnd = RECV_CAP]

Listener ==
  [TcpSock EXCEPT !.used = TRUE, !.state = "LISTEN", !.lport = PORT,
                  !.backlog = MAX_ACCEPT]

Joint ==
  [h \in Hosts |->
     IF h \in Servers
     THEN [Blank EXCEPT ![0] = Listener,
                        ![1] = End(PORT, FIRST_PORT, Other(h), ISN(2), ISN(1))]
     ELSE [Blank EXCEPT ![0] = End(FIRST_PORT, PORT, Other(h), ISN(1), ISN(2))]]

Init ==
  /\ budget \in Budgets
  /\ \/ /\ ~budget.joined
        /\ socks = [h \in Hosts |-> Blank]
        /\ opens = [h \in Hosts |-> 0]
        /\ ticks = 0
        /\ accepted = <<>>
     \/ /\ budget.joined
        /\ socks = Joint
        /\ opens = [h \in Hosts |-> 1]
        /\ ticks = 2
        /\ accepted = <<FIRST_PORT>>
  /\ net = None
  /\ pc = [h \in Hosts |-> Idle]
  /\ sent = [h \in Hosts |-> [p \in ClientPorts |-> <<>>]]
  /\ got = sent
  /\ eof = [h \in Hosts |-> {}]

Call(h, i) ==
  \/ Bind(h, i)
  \/ \E n \in {1, MAX_ACCEPT + 1} : Listen(h, i, n)
  \/ \E arp \in BOOLEAN : Connect(h, i, arp)
  \/ \E n \in 1 .. budget.bytes[h] : Send(h, i, n)
  \/ Recv(h, i)
  \/ Accept(h, i)
  \/ Close(h, i)

Step(h, i) ==
  \/ ConnectReturns(h, i)
  \/ ConnectTimer(h, i)
  \/ SendMore(h, i)
  \/ \E len \in 1 .. RECV_CAP : RecvReturns(h, i, len)
  \/ AcceptReturns(h, i)
  \/ \E due \in BOOLEAN : ClosePass(h, i, due)
  \/ CloseEnds(h, i)

Network ==
  \E g \in DOMAIN net : Lose(g) \/ \E again \in BOOLEAN : Deliver(g, again)

Next ==
  \/ Network
  \/ \E h \in Hosts : Open(h) \/ Timeout(h) \/ \E i \in Slots : Call(h, i) \/ Step(h, i)

Spec == Init /\ [][Next]_vars

-----------------------------------------------------------------------------
(***************************************************************************)
(* Properties                                                              *)
(***************************************************************************)
SeqNos == 0 .. SEQ - 1

TypeOK ==
  /\ \A h \in Hosts, i \in Slots :
       LET s == socks[h][i]
       IN  /\ s.state \in States /\ s.rip \in Hosts \cup {NoHost}
           /\ {s.una, s.nxt, s.base, s.iss} \subseteq SeqNos
           /\ Len(s.snd) <= SEND_CAP /\ Len(s.rcv) <= RECV_CAP
           /\ s.wnd \in 0 .. RECV_CAP
           /\ s.lst \in Slots \cup {NoSlot} /\ s.backlog \in 0 .. MAX_ACCEPT
           /\ ~s.used => s = TcpSock
  /\ \A h \in Hosts : pc[h] = Idle \/ (pc[h].s \in Slots /\ socks[h][pc[h].s].used)
  /\ \A g \in DOMAIN net : net[g] \in Nat \ {0}

\* The two ends of a connection, each alive and past the handshake.
Joined(h, i, j) ==
  LET s == socks[h][i]
      r == socks[Other(h)][j]
  IN  /\ s.used /\ Connected(s) /\ r.used /\ Connected(r)
      /\ s.rport = r.lport /\ s.lport = r.rport

\* What recv() has returned, followed by what is buffered, is a prefix of what the
\* other program wrote, whatever the network lost, repeated or reordered, and
\* whatever the sender pushed from beyond its buffer while closing.
StreamInOrder ==
  \A h \in Hosts, i \in Slots :
    LET s       == socks[h][i]
        written == sent[Other(h)][ClientPort(s)]
    IN  s.used /\ Connected(s) =>
          \E n \in 0 .. Len(written) : got[h][ClientPort(s)] \o s.rcv = SubSeq(written, 1, n)

\* A recv() that returned 0 returned it after every byte the other program wrote,
\* although input_packet() takes a FIN whatever its sequence number.
EofAfterEverything ==
  \A h \in Hosts : \A p \in eof[h] : got[h][p] = sent[Other(h)][p]

\* Bytes that acknowledge() dropped from a send buffer are in the other end's
\* hands: with both ends alive nothing is forgotten on the way.
AckedIsHeld ==
  \A h \in Hosts, i, j \in Slots :
    Joined(h, i, j) =>
      LET s == socks[h][i]
          p == ClientPort(s)
      IN  Len(sent[h][p]) - Len(s.snd) <=
            Len(got[Other(h)][p]) + Len(socks[Other(h)][j].rcv)

\* tcp_push() never puts a byte on the wire that the receiver has no room for, even
\* with acknowledgements arriving late, twice or out of order: so an in-order
\* payload is never refused for want of room in input_packet().  A segment that
\* lies half the sequence space ahead is an old one.
WindowRespected ==
  \A g \in DOMAIN net :
    LET j == find_peer_sock(socks[g.to], g)
    IN  (g.pay # <<>> /\ j # NoSlot /\ Connected(socks[g.to][j])) =>
          LET ahead == (g.seq + Len(g.pay) - socks[g.to][j].base) % SEQ
          IN  ahead <= RECV_CAP \/ ahead > SEQ \div 2

\* accept_push() cannot overflow: a listener's queue holds exactly its parked
\* children, each once, and with the half-open ones they stay within the backlog;
\* no child outlives the listener it still refers to.
QueueExact ==
  \A h \in Hosts, i \in Slots :
    LET s == socks[h][i]
    IN  /\ s.used /\ s.state = "LISTEN" =>
             /\ IsInjective(s.q)
             /\ Range(s.q) = {j \in Slots : /\ socks[h][j].used
                                            /\ socks[h][j].lst = i
                                            /\ socks[h][j].queued}
             /\ Cardinality({j \in Slots : socks[h][j].used /\ socks[h][j].lst = i})
                  <= s.backlog
        /\ s.used /\ s.lst # NoSlot =>
             socks[h][s.lst].used /\ socks[h][s.lst].state = "LISTEN"

\* However often its SYN arrives, one connection is handed out by accept() once.
AcceptedOnce == IsInjective(accepted)

\* When every byte sent has been acknowledged, no segment is under way and the
\* reader has room, no byte waits unsent: the comment on the ACK that socket_recv()
\* sends says it is a window update so that the peer resumes sending.
WindowUpdateResumes ==
  \A h \in Hosts, i, j \in Slots :
    (Joined(h, i, j) /\ net = None /\ socks[h][i].nxt = socks[h][i].una) =>
      socks[h][i].snd = <<>> \/ Len(socks[Other(h)][j].rcv) = RECV_CAP

\* A SYN sent again does no harm: handle_incoming_syn() says it just re-arms the
\* SYN-ACK.  So with both ends connected and neither closing, none has been reset.
RepeatedSynHarmless ==
  \A h \in Hosts, i, j \in Slots : Joined(h, i, j) => ~socks[h][i].err
=============================================================================
