----------------------------- MODULE KernelUser -----------------------------
(***************************************************************************)
(* The ring-3 programs of aios-kernel/src/user.rs over the system calls of *)
(* syscalls.rs, the mailboxes, the socket table of sock.rs and the         *)
(* loopback ring of net.rs.                                                *)
(*                                                                         *)
(* A program is the list of rows its builder emits; a row has the number   *)
(* of bytes of its instructions, because the builder's forward jumps are   *)
(* displacements of one byte (patch_rel8).  Rows that only use registers   *)
(* of their own are folded into the system call they prepare, except where *)
(* a jump may land between them.                                           *)
(*                                                                         *)
(* Kernel code is never preempted: a system call is one step, and no task  *)
(* runs while the loopback ring is drained.                                *)
(* An address stays once it is bound; nothing is lost on the way then, and *)
(* the timers of tick (KernelTcp) find nothing to send again.              *)
(* Messages and datagrams are their lengths.                               *)
(***************************************************************************)
EXTENDS Integers, Sequences, FiniteSets, FiniteSetsExt, SequencesExt

CONSTANTS
    Groups,       \* sets of programs (A to E are 1 .. 5) that run together; the
                  \* others have nothing to do with them and stay asleep
    MaxPid,       \* MAX_PID
    Depth,        \* MAILBOX_DEPTH
    Wrap,         \* the word a counter wraps at
    Rounds,       \* SLEEPER_ROUNDS
    MaxSocks,     \* MAX_SOCKS
    UdpSlots,     \* UDP_SLOTS
    LoopSlots,    \* LOOP_SLOTS
    Addresses     \* addresses the host may be given

VARIABLES
    cpu,       \* registers of each program; pc is the row it is at
    asleep,    \* programs inside SYS_SLEEP
    box,       \* MAILBOXES: [buf, srcs, head, len] of each slot
    event,     \* the input event waiting for the client window of program D
    socks,     \* SOCKS
    ring,      \* the loopback ring, oldest frame first
    draining,  \* drain_loopback is at work
    ip         \* the bound address, 0 when there is none

vars == <<cpu, asleep, box, event, socks, ring, draining, ip>>

ASSUME UserAssumption ==
    /\ \A G \in Groups : G \subseteq 1 .. 5
    /\ MaxPid > 6 /\ Depth > 0 /\ Wrap > 1 /\ Rounds > 0
    /\ MaxSocks > 4 /\ UdpSlots > 0 /\ LoopSlots > 1

None == -1                     \* u64::MAX in rax
Slot(p) == p + 1               \* the scheduler slot: the worker owns slot 1

(* Ports of program E *)
CliPort == 110
SrvPort == 111
TcpCliPort == 112
TcpSrvPort == 113

-----------------------------------------------------------------------------
(* Rows.  x is an immediate, y a register or label. *)
R(op, x, y, size) == [op |-> op, x |-> x, y |-> y, size |-> size]
Label(l) == <<R("label", 0, l, 0)>>
Sleep(n) == <<R("SLEEP", n, "", 12)>>
Write(n) == <<R("WRITE", n, "", 12)>>
Imm(n) == <<R("imm", n, "", 5)>>
Use(reg) == <<R("use", 0, reg, 3)>>
Save(reg, size) == <<R("save", 0, reg, size)>>
Jz(l) == <<R("eq", 0, l, 5)>>            \* test, jz
Jne(n, l) == <<R("ne", n, l, 5)>>        \* test or cmp, jne
Je(n, l) == <<R("eq", n, l, 5)>>         \* cmp, je
Jmp(l) == <<R("jmp", 0, l, 5)>>          \* jmp_back, a displacement of four bytes

(* Two ping-pong programs: counter sent, inbox drained, a line written *)
SendRow(slot) == <<R("SEND", slot, "", 14)>>
RecvRow == <<R("RECV", 0, "", 9)>>
PaceJmp(l) == <<R("jmp", 0, l, 16)>>     \* a loop that counts down, then jmp_back
ProgramA == Label("start") \o Sleep(20) \o SendRow(3) \o RecvRow \o Write(2) \o PaceJmp("start")
ProgramB == Label("start") \o Sleep(20) \o RecvRow \o SendRow(2) \o Write(2) \o PaceJmp("start")

ProgramC ==
    Write(11) \o <<R("GETPID", 0, "", 7)>>
    \o Label("cycle") \o <<R("count", 0, "", 6)>>
    \o Label("sleeper") \o Sleep(20) \o Write(1)
    \o <<R("down", 0, "sleeper", 5)>> \o Jmp("cycle")

(* The window client: the colour it fills with is in r8d *)
Gui(n, size) == <<R("GUI", n, "", size)>>
ProgramD ==
    Sleep(20) \o <<R("colour", 0, "", 6)>> \o Gui(0, 17)
    \o Label("cycle") \o <<R("fill", 0, "", 23)>> \o Gui(1, 12) \o Sleep(6)
    \o <<R("rotate", 0, "", 7)>> \o Gui(2, 12) \o Jz("none")
    \o <<R("event", 1, "key", 13)>> \o <<R("event", 2, "click", 5)>> \o <<R("skip", 0, "none", 2)>>
    \o Label("click") \o <<R("colour", 2, "", 6)>> \o Write(8) \o <<R("skip", 0, "none", 2)>>
    \o Label("key") \o <<R("colour", 1, "", 6)>> \o Write(6)
    \o Label("none") \o Jmp("cycle")

(* The socket client *)
Open(kind, reg) == Imm(kind) \o <<R("SOCKET", 0, "", 7)>> \o Save(reg, 3)
Bind(reg, port) == Use(reg) \o <<R("BIND", port, "", 12)>>
Connect(reg, port) == Use(reg) \o <<R("CONNECT", port, "", 14)>>
SockSend(reg, n) == Use(reg) \o <<R("SOCKSEND", n, "", 17)>>
SockRecv(reg) == Use(reg) \o <<R("SOCKRECV", 16, "", 17)>>
Accept(reg) == Use(reg) \o <<R("ACCEPT", 0, "", 7)>>
CloseRow(reg) == Use(reg) \o <<R("CLOSE", 0, "", 7)>>

(* Repeats `call` every tick until `test` jumps out *)
Until(l, out, call, test) == Label(l) \o call \o test \o Sleep(1) \o Jmp(l) \o Label(out)

Opening ==
    Sleep(20) \o Open(0, "r8") \o Open(0, "r9") \o Bind("r8", CliPort) \o Bind("r9", SrvPort)
    \o Open(1, "r12") \o Open(1, "r13") \o Bind("r12", TcpCliPort) \o Bind("r13", TcpSrvPort)
    \o Use("r13") \o <<R("LISTEN", 0, "", 7)>>

UdpRound ==
    Label("start") \o <<R("ADDR", 0, "", 7)>> \o Save("ebx", 2) \o Jz("retry")
    \o Connect("r8", SrvPort) \o Jz("retry") \o SockSend("r8", 5) \o Jz("retry")
    \o Until("rw1", "got1", SockRecv("r9"), Je(5, "got1"))
    \o Connect("r9", CliPort) \o Jz("retry") \o SockSend("r9", 4) \o Jz("retry")
    \o Until("rw2", "got2", SockRecv("r8"), Je(4, "got2"))
    \o Write(9)

TcpRound ==
    Until("tconn", "connected", Connect("r12", TcpSrvPort), Jne(0, "connected"))
    \o Until("tacc", "accepted", Accept("r13"), Jne(None, "accepted")) \o Save("r14", 3)
    \o Until("ts1", "sent1", SockSend("r12", 3), Jne(0, "sent1"))
    \o Until("rwt1", "gott1", SockRecv("r14"), Je(3, "gott1"))
    \o Until("ts2", "sent2", SockSend("r14", 2), Jne(0, "sent2"))
    \o Until("rwt2", "gott2", SockRecv("r12"), Je(2, "gott2"))
    \o Write(10) \o CloseRow("r14") \o CloseRow("r14") \o Sleep(60)

ProgramE == Opening \o UdpRound \o TcpRound \o Label("retry") \o Sleep(20) \o Jmp("start")

Texts == <<ProgramA, ProgramB, ProgramC, ProgramD, ProgramE>>
Text(p) == Texts[p]

-----------------------------------------------------------------------------
(* The bytes before a row, added up by size; the row after a label *)
Sizes == 0 .. 23
Offset(text, i) ==
    MapThenSumSet(LAMBDA n : n * Cardinality({ k \in 1 .. i - 1 : text[k].size = n }), Sizes)
RowOf(text, l) == CHOOSE i \in 2 .. Len(text) : text[i - 1].op = "label" /\ text[i - 1].y = l
Nowhere == 0

(* patch_rel8 of the jump that row i is: a displacement as i8 from the end *)
(* of the jump.  A jump into the middle of a row leads Nowhere: what runs  *)
(* there is no row.                                                        *)
patch_rel8(text, i) ==
    LET after == Offset(text, i + 1)
        rel == (Offset(text, RowOf(text, text[i].y)) - after) % 256
        there == after + (IF rel > 127 THEN rel - 256 ELSE rel)
        hits == { j \in 1 .. Len(text) : text[j].op # "label" /\ Offset(text, j) = there }
    IN  IF hits = {} THEN Nowhere ELSE CHOOSE j \in hits : TRUE

Jumps == {"eq", "ne", "skip", "event", "down"}

(* jmp_back, with a displacement of four bytes, always lands on its label *)
jmp_back(text, i) == RowOf(text, text[i].y)

Landings ==
    [p \in 1 .. 5 |-> [i \in { k \in 1 .. Len(Text(p)) : Text(p)[k].op \in Jumps \cup {"jmp"} } |->
       IF Text(p)[i].op = "jmp" THEN jmp_back(Text(p), i) ELSE patch_rel8(Text(p), i)]]

-----------------------------------------------------------------------------
NoSock == [used |-> FALSE, kind |-> "udp", port |-> 0, rip |-> 0, rport |-> 0, eof |-> FALSE,
           udp |-> <<>>, state |-> "Closed", parent |-> None, nxt |-> 0, iss |-> 0, rcv |-> 0,
           rx |-> 0, queue |-> 0, tx |-> 0, txseq |-> 0]
Fds == 0 .. MaxSocks - 1
Free == { fd \in Fds : ~ socks[fd].used }
Owned(fd) == fd \in Fds /\ socks[fd].used
Lowest(S) == CHOOSE fd \in S : \A x \in S : fd <= x

(* seed: a number that differs from the last one of the socket *)
Seed(sk) == IF sk.iss = 50 THEN 100 ELSE 50

EmptyBox == [buf |-> [i \in 0 .. Depth - 1 |-> 0], srcs |-> [i \in 0 .. Depth - 1 |-> 0],
             head |-> 0, len |-> 0]
Cpu(p) == [pc |-> 1, eax |-> 0, ecx |-> 0, edi |-> p,
           reg |-> [r \in {"r8", "r9", "r12", "r13", "r14", "ebx"} |-> 0]]

Init ==
    /\ \E G \in Groups : cpu = [p \in G |-> Cpu(p)]
    /\ asleep = {}
    /\ box = [s \in 1 .. MaxPid - 1 |-> EmptyBox]
    /\ event = 0
    /\ socks = [fd \in Fds |-> NoSock]
    /\ ring = <<>> /\ draining = FALSE
    /\ ip \in {0} \cup Addresses

Runs(p) == p \notin asleep /\ ~ draining /\ cpu[p].pc # Nowhere
Row(p) == Text(p)[cpu[p].pc]

Goes(p, c) == cpu' = [cpu EXCEPT ![p] = c]
Returns(p, rax) == Goes(p, [cpu[p] EXCEPT !.pc = @ + 1, !.eax = rax])
kernelVars == <<box, event, socks, ring, draining, ip>>

(* Instructions that touch only registers, and jumps *)
Compute(p) ==
    /\ Runs(p)
    /\ LET row == Row(p)
           c == cpu[p]
           there == Landings[p][c.pc]
       IN  \/ /\ row.op \in {"label", "fill"}
              /\ Goes(p, [c EXCEPT !.pc = @ + 1])
           \/ row.op = "imm" /\ Goes(p, [c EXCEPT !.pc = @ + 1, !.edi = row.x])
           \/ row.op = "use" /\ Goes(p, [c EXCEPT !.pc = @ + 1, !.edi = c.reg[row.y]])
           \/ row.op = "save" /\ Goes(p, [c EXCEPT !.pc = @ + 1, !.reg[row.y] = c.eax])
           \/ row.op = "jmp" /\ Goes(p, [c EXCEPT !.pc = there])
           \/ row.op = "skip" /\ Goes(p, [c EXCEPT !.pc = there])
           \/ /\ row.op = "eq"
              /\ Goes(p, [c EXCEPT !.pc = IF c.eax = row.x THEN there ELSE @ + 1])
           \/ /\ row.op = "ne"
              /\ Goes(p, [c EXCEPT !.pc = IF c.eax # row.x THEN there ELSE @ + 1])
           \/ /\ row.op = "event"
              /\ Goes(p, [c EXCEPT !.pc = IF c.eax = row.x THEN there ELSE @ + 1])
           \/ row.op = "colour" /\ Goes(p, [c EXCEPT !.pc = @ + 1, !.reg["r8"] = row.x])
           \/ row.op = "count" /\ Goes(p, [c EXCEPT !.pc = @ + 1, !.reg["r8"] = Rounds])
           \/ row.op = "rotate" /\ Goes(p, [c EXCEPT !.pc = @ + 1, !.reg["r8"] = 0])
           \/ /\ row.op = "down"
              /\ Goes(p, [c EXCEPT !.reg["r8"] = @ - 1,
                                   !.pc = IF c.reg["r8"] # 1 THEN there ELSE @ + 1])
    /\ UNCHANGED <<asleep, kernelVars>>

-----------------------------------------------------------------------------
(* System calls that do not concern sockets *)
Call(p, name) == Runs(p) /\ Row(p).op = name

SysSleep(p) ==
    /\ Call(p, "SLEEP")
    /\ Returns(p, 0) /\ asleep' = asleep \cup {p}
    /\ UNCHANGED kernelVars

(* schedule finds that the deadline has passed *)
Wake(p) ==
    /\ p \in asleep /\ ~ draining
    /\ asleep' = asleep \ {p}
    /\ UNCHANGED <<cpu, kernelVars>>

SysWrite(p) ==
    /\ Call(p, "WRITE")
    /\ Returns(p, Row(p).x)
    /\ UNCHANGED <<asleep, kernelVars>>

SysGetpid(p) ==
    /\ Call(p, "GETPID")
    /\ Returns(p, Slot(p))
    /\ UNCHANGED <<asleep, kernelVars>>

(* Mailboxes: an array with a head and a length *)
CanSend(src, dst) == dst \in 1 .. MaxPid - 1 /\ src # dst /\ box[dst].len < Depth
PushedAtLen(b, src, value) ==
    [b EXCEPT !.buf[b.len] = value, !.srcs[b.len] = src, !.len = @ + 1]
Pushed(b, src, value) ==
    LET tail == (b.head + b.len) % Depth
    IN  [b EXCEPT !.buf[tail] = value, !.srcs[tail] = src, !.len = @ + 1]
Popped(b) == [b EXCEPT !.head = (@ + 1) % Depth, !.len = @ - 1]

SysSend(p) ==
    /\ Call(p, "SEND")
    /\ LET dst == Row(p).x
           value == (cpu[p].ecx + 1) % Wrap
           ok == CanSend(Slot(p), dst)
       IN  /\ Goes(p, [cpu[p] EXCEPT !.pc = @ + 1, !.ecx = value, !.eax = IF ok THEN 1 ELSE 0])
           /\ box' = IF ok THEN [box EXCEPT ![dst] = Pushed(@, Slot(p), value)] ELSE box
    /\ UNCHANGED <<asleep, event, socks, ring, draining, ip>>

SysRecv(p) ==
    /\ Call(p, "RECV")
    /\ LET b == box[Slot(p)]
       IN  IF b.len = 0
           THEN Returns(p, None) /\ UNCHANGED box
           ELSE /\ Goes(p, [cpu[p] EXCEPT !.pc = @ + 1, !.eax = b.srcs[b.head], !.ecx = b.buf[b.head]])
                /\ box' = [box EXCEPT ![Slot(p)] = Popped(@)]
    /\ UNCHANGED <<asleep, event, socks, ring, draining, ip>>

(* The window calls: create, present, take the event *)
SysGui(p) ==
    /\ Call(p, "GUI")
    /\ Returns(p, IF Row(p).x = 2 THEN event ELSE 1)
    /\ event' = IF Row(p).x = 2 THEN 0 ELSE event
    /\ UNCHANGED <<asleep, box, socks, ring, draining, ip>>

(* The desktop posts a key or a click (1, 2) to the window of program D *)
Posted(e) ==
    /\ 4 \in DOMAIN cpu /\ event = 0
    /\ event' = e
    /\ UNCHANGED <<cpu, asleep, box, socks, ring, draining, ip>>

-----------------------------------------------------------------------------
(* Sockets.  Work on one of them: its record and the frames it emitted.    *)
Work(fd) == [fd |-> fd, sk |-> socks[fd], out |-> <<>>]
Emit(h, frame) == [h EXCEPT !.out = Append(@, frame)]

(* emit_ipv4: to the own address through the ring, whose oldest frame is   *)
(* overwritten when it is full; anything else leaves on the wire.          *)
Queued(r, frame) == IF Len(r) < LoopSlots THEN Append(r, frame) ELSE Append(Tail(r), frame)
emit_ipv4(r, frames) ==
    FoldLeft(LAMBDA q, f : IF ip # 0 /\ f.dst = ip THEN Queued(q, f) ELSE q, r, frames)

(* send_segment *)
Segment(h, flags, seq, len) ==
    Emit(h, [dst |-> h.sk.rip, sport |-> h.sk.port, dport |-> h.sk.rport, flags |-> flags, seq |-> seq,
             ack |-> IF "ACK" \in flags THEN h.sk.rcv ELSE 0, len |-> len])
Datagram(h, len) ==
    Emit(h, [dst |-> h.sk.rip, sport |-> h.sk.port, dport |-> h.sk.rport, flags |-> {"udp"}, seq |-> 0,
             ack |-> 0, len |-> len])

Done(p, rax, h) ==
    /\ Returns(p, rax)
    /\ socks' = [socks EXCEPT ![h.fd] = h.sk]
    /\ ring' = emit_ipv4(ring, h.out)
    /\ UNCHANGED <<asleep, box, event, draining, ip>>
Refused(p, rax) == Returns(p, rax) /\ UNCHANGED <<asleep, kernelVars>>

SysSocket(p) ==
    /\ Call(p, "SOCKET")
    /\ IF Free = {} THEN Refused(p, None)
       ELSE LET fd == Lowest(Free)
                sk == [NoSock EXCEPT !.used = TRUE, !.kind = IF cpu[p].edi = 1 THEN "tcp" ELSE "udp"]
            IN  Done(p, fd, [Work(fd) EXCEPT !.sk = sk])

SysBind(p) ==
    /\ Call(p, "BIND")
    /\ LET fd == cpu[p].edi
       IN  IF Owned(fd) THEN Done(p, 1, [Work(fd) EXCEPT !.sk.port = Row(p).x]) ELSE Refused(p, 0)

SysListen(p) ==
    /\ Call(p, "LISTEN")
    /\ LET fd == cpu[p].edi
       IN  IF Owned(fd) /\ socks[fd].kind = "tcp"
           THEN Done(p, 1, [Work(fd) EXCEPT !.sk.state = "Listen", !.sk.eof = FALSE])
           ELSE Refused(p, 0)

SysAddr(p) ==
    /\ Call(p, "ADDR")
    /\ Refused(p, ip)

(* connect keeps `eof` and what is left of the connection before *)
SysConnect(p) ==
    /\ Call(p, "CONNECT")
    /\ LET fd == cpu[p].edi
           h == [Work(fd) EXCEPT !.sk.rip = cpu[p].reg["ebx"], !.sk.rport = Row(p).x]
           iss == Seed(h.sk)
           g == [h EXCEPT !.sk.iss = iss, !.sk.nxt = iss + 1, !.sk.state = "SynSent"]
       IN  CASE ~ Owned(fd) -> Refused(p, 0)
             [] Owned(fd) /\ h.sk.kind = "udp" -> Done(p, 1, [h EXCEPT !.sk.state = "Established"])
             [] Owned(fd) /\ h.sk.kind = "tcp" ->
                  IF h.sk.state = "Listen" \/ ip = 0 THEN Done(p, 0, h)
                  ELSE Done(p, 1, Segment(g, {"SYN"}, iss, 0))

Children(fd) == { c \in Fds : socks[c].used /\ socks[c].parent = fd /\ socks[c].state = "Established" }
SysAccept(p) ==
    /\ Call(p, "ACCEPT")
    /\ LET fd == cpu[p].edi
       IN  IF Owned(fd) /\ socks[fd].state = "Listen" /\ Children(fd) # {}
           THEN Done(p, Lowest(Children(fd)), [Work(Lowest(Children(fd))) EXCEPT !.sk.parent = None])
           ELSE Refused(p, None)

(* kick: one segment is in flight at a time *)
Kick(h) ==
    LET n == h.sk.queue
        g == [h EXCEPT !.sk.queue = 0, !.sk.tx = n, !.sk.txseq = h.sk.nxt, !.sk.nxt = @ + n]
    IN  IF h.sk.tx # 0 \/ n = 0 THEN h ELSE Segment(g, {"PSH", "ACK"}, h.sk.nxt, n)

(* A datagram that leaves on the wire may be refused there *)
SysSockSend(p) ==
    /\ Call(p, "SOCKSEND")
    /\ LET fd == cpu[p].edi
           n == Row(p).x
           h == Work(fd)
       IN  CASE ~ Owned(fd) -> Refused(p, None)
             [] Owned(fd) /\ h.sk.kind = "udp" ->
                  IF h.sk.rip = 0 THEN Refused(p, None)
                  ELSE \E r \in {n} \cup (IF h.sk.rip = ip THEN {} ELSE {None}) : Done(p, r, Datagram(h, n))
             [] Owned(fd) /\ h.sk.kind = "tcp" ->
                  IF h.sk.state = "Established" THEN Done(p, n, Kick([h EXCEPT !.sk.queue = @ + n])) ELSE Refused(p, None)

SysSockRecv(p) ==
    /\ Call(p, "SOCKRECV")
    /\ LET fd == cpu[p].edi
           h == Work(fd)
       IN  CASE ~ Owned(fd) -> Refused(p, None)
             [] Owned(fd) /\ h.sk.kind = "udp" ->
                  IF h.sk.udp = <<>> THEN Refused(p, None)
                  ELSE Done(p, Head(h.sk.udp), [h EXCEPT !.sk.udp = Tail(@)])
             [] Owned(fd) /\ h.sk.kind = "tcp" ->
                  IF h.sk.rx = 0 THEN Refused(p, IF h.sk.eof THEN 0 ELSE None)
                  ELSE Done(p, h.sk.rx, [h EXCEPT !.sk.rx = 0])

(* mutant: a second close waits for the peer like the first *)
CloseKeeps(fd) ==
    LET h == Work(fd)
        Final(state) == Segment([h EXCEPT !.sk.state = state, !.sk.nxt = @ + 1], {"FIN", "ACK"}, h.sk.nxt, 0)
    IN  CASE h.sk.state = "Established" -> Final("FinWait1")
          [] h.sk.state = "CloseWait" -> Final("LastAck")
          [] OTHER -> h

(* close: a FIN while the connection stands, the slot otherwise *)
Close(fd) ==
    LET h == Work(fd)
        Final(state) == Segment([h EXCEPT !.sk.state = state, !.sk.nxt = @ + 1], {"FIN", "ACK"}, h.sk.nxt, 0)
    IN  CASE h.sk.state = "Established" -> Final("FinWait1")
          [] h.sk.state = "CloseWait" -> Final("LastAck")
          [] OTHER -> [h EXCEPT !.sk = NoSock]

SysClose(p) ==
    /\ Call(p, "CLOSE")
    /\ IF Owned(cpu[p].edi) THEN Done(p, 0, Close(cpu[p].edi)) ELSE Refused(p, 0)

-----------------------------------------------------------------------------
(* drain_loopback: frames come from the address bound now *)
Handled(h) ==
    /\ socks' = [socks EXCEPT ![h.fd] = h.sk]
    /\ ring' = emit_ipv4(Tail(ring), h.out)

(* deliver_udp, to the first socket of the port with room and this peer *)
UdpTargets(f) ==
    { fd \in Fds : /\ socks[fd].used /\ socks[fd].kind = "udp" /\ socks[fd].port = f.dport
                   /\ socks[fd].rip # 0 => socks[fd].rip = ip /\ socks[fd].rport = f.sport
                   /\ Len(socks[fd].udp) < UdpSlots }
deliver_udp(f) ==
    IF UdpTargets(f) = {} THEN UNCHANGED socks /\ ring' = Tail(ring)
    ELSE Handled([Work(Lowest(UdpTargets(f))) EXCEPT !.sk.udp = Append(@, f.len)])

Listeners(f) ==
    { fd \in Fds : socks[fd].used /\ socks[fd].kind = "tcp" /\ socks[fd].state = "Listen" /\ socks[fd].port = f.dport }
spawn_child(f) ==
    LET n == Lowest(Free)
        iss == f.seq + 25
        sk == [NoSock EXCEPT !.used = TRUE, !.kind = "tcp", !.port = f.dport, !.rip = ip, !.rport = f.sport,
                             !.parent = Lowest(Listeners(f)), !.iss = iss, !.nxt = iss + 1, !.rcv = f.seq + 1,
                             !.state = "SynRecv"]
    IN  IF Free = {} THEN UNCHANGED socks /\ ring' = Tail(ring)
        ELSE Handled(Segment([fd |-> n, sk |-> sk, out |-> <<>>], {"SYN", "ACK"}, iss, 0))

(* deliver_tcp on the first socket of the connection: the handshake, the   *)
(* acknowledgement of the segment in flight, the payload, the FIN.         *)
TcpTargets(f) ==
    { fd \in Fds : /\ socks[fd].used /\ socks[fd].kind = "tcp" /\ socks[fd].port = f.dport
                   /\ socks[fd].rport = f.sport /\ socks[fd].rip = ip }
Acked(h, f) ==
    LET g == IF h.sk.tx # 0 /\ f.ack = h.sk.txseq + h.sk.tx THEN Kick([h EXCEPT !.sk.tx = 0]) ELSE h
    IN  IF "ACK" \notin f.flags THEN h
        ELSE [g EXCEPT !.sk.state = CASE @ = "FinWait1" -> "FinWait2" [] @ = "LastAck" -> "Closed" [] OTHER -> @]
Payload(h, f) ==
    LET g == IF f.seq = h.sk.rcv THEN [h EXCEPT !.sk.rx = @ + f.len, !.sk.rcv = @ + f.len] ELSE h
    IN  IF f.len = 0 \/ h.sk.state # "Established" THEN h ELSE Segment(g, {"ACK"}, g.sk.nxt, 0)
Fin(h, f) ==
    LET g == [h EXCEPT !.sk.rcv = @ + 1, !.sk.eof = TRUE]
        a == Segment(g, {"ACK"}, g.sk.nxt, 0)
    IN  IF "FIN" \notin f.flags THEN h
        ELSE [a EXCEPT !.sk.state = CASE @ = "Established" -> "CloseWait" [] @ = "FinWait2" -> "TimeWait" [] OTHER -> @]

deliver_tcp(f) ==
    LET h == Work(Lowest(TcpTargets(f)))
        up == [h EXCEPT !.sk.state = "Established"]
        answers == "ACK" \in f.flags /\ f.ack = h.sk.nxt
    IN  IF TcpTargets(f) = {} THEN UNCHANGED socks /\ ring' = Tail(ring)
        ELSE CASE h.sk.state = "SynSent" ->
                    IF answers /\ "SYN" \in f.flags
                    THEN Handled(Segment([up EXCEPT !.sk.rcv = f.seq + 1], {"ACK"}, h.sk.nxt, 0))
                    ELSE Handled(h)
               [] h.sk.state = "SynRecv" ->
                    IF answers THEN Handled(Fin(Payload(Acked(up, f), f), f)) ELSE Handled(h)
               [] h.sk.state = "Closed" -> Handled(h)
               [] OTHER -> Handled(Fin(Payload(Acked(h, f), f), f))

drain_loopback ==
    /\ ring # <<>>
    /\ LET f == Head(ring)
       IN  IF "udp" \in f.flags THEN deliver_udp(f)
           ELSE IF f.flags = {"SYN"} /\ Listeners(f) # {} THEN spawn_child(f) ELSE deliver_tcp(f)
    /\ draining' = (ring' # <<>>)
    /\ UNCHANGED <<cpu, asleep, box, event, ip>>

(* What tick, which comes after the ring is drained, would send again *)
Unanswered(sk) ==
    /\ sk.used /\ sk.kind = "tcp"
    /\ sk.state \in {"SynSent", "SynRecv"} \/ (sk.state = "Established" /\ sk.tx # 0)
(* The network client is given an address *)
Bound ==
    /\ ip = 0 /\ ~ draining
    /\ ip' \in Addresses
    /\ UNCHANGED <<cpu, asleep, box, event, socks, ring, draining>>

Step(p) ==
    \/ Compute(p) \/ SysSleep(p) \/ SysWrite(p) \/ SysGetpid(p) \/ SysSend(p) \/ SysRecv(p) \/ SysGui(p)
    \/ SysSocket(p) \/ SysBind(p) \/ SysListen(p) \/ SysAddr(p) \/ SysConnect(p) \/ SysAccept(p)
    \/ SysSockSend(p) \/ SysSockRecv(p) \/ SysClose(p)

Next ==
    \/ \E p \in DOMAIN cpu : Step(p) \/ Wake(p)
    \/ \E e \in {1, 2} : Posted(e)
    \/ drain_loopback \/ Bound

(* The scheduler runs and wakes every task (EveryTaskRuns of KernelFault); *)
(* the idle loop polls the network.                                        *)
Fairness ==
    /\ \A p \in 1 .. 5 : WF_vars(p \in DOMAIN cpu /\ Step(p)) /\ WF_vars(p \in DOMAIN cpu /\ Wake(p))
    /\ WF_vars(drain_loopback)

Spec == Init /\ [][Next]_vars /\ Fairness

-----------------------------------------------------------------------------
Content(b) == [i \in 1 .. b.len |-> LET k == (b.head + i - 1) % Depth IN <<b.srcs[k], b.buf[k]>>]

(* "Dequeue the oldest packet addressed to `dst`", and a full mailbox      *)
(* refuses: whatever two programs do to it in turn, a mailbox is a queue   *)
(* of Depth packets, and a receiver is given its front with its sender.    *)
MailIsQueue ==
    [][\A p \in DOMAIN cpu \cap {1, 2} :
         LET q == Content(box[Slot(p)])
             now == Content(box'[Slot(p)])
             peer == 3 - p
         IN  \/ now = q
             \/ Len(q) < Depth /\ now = Append(q, <<Slot(peer), cpu'[peer].ecx>>)
             \/ q # <<>> /\ now = Tail(q) /\ <<cpu'[p].eax, cpu'[p].ecx>> = Head(q)]_vars

(* Every program keeps on completing its loop.  For the socket client, the *)
(* loop is a whole round over the loopback ring: once the host has an      *)
(* address, "every round returns its transient child to the socket table"  *)
(* and the next one finds a slot for its own; no timer has to help.        *)
At(p, op, x) == cpu[p].pc # Nowhere /\ Row(p).op = op /\ Row(p).x = x
LoopsCompleted ==
    /\ \A p \in 1 .. 4 : []<>(p \in DOMAIN cpu => Row(p).op = "jmp")
    /\ [](ring = <<>> => \A fd \in Fds : ~ Unanswered(socks[fd]))
    /\ <>[](ip # 0) => []<>(5 \in DOMAIN cpu => At(5, "WRITE", 10))

(* "Any failed handshake step retries after a short sleep so the demo      *)
(* never spins": without an address the socket client sleeps again and     *)
(* again.  Refuted: the jump to the sleep is too long for its byte.        *)
NeverSpins == []<>(5 \in DOMAIN cpu => 5 \in asleep)
=============================================================================
