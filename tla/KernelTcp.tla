------------------------------ MODULE KernelTcp ------------------------------
(***************************************************************************)
(* The TCP half of the kernel's socket layer (aios-kernel/src/sock.rs):    *)
(* one client and one listening server, both running this code, over a     *)
(* network that loses, repeats and reorders segments.                      *)
(*                                                                         *)
(* A segment carries one byte.  `wire` holds every segment ever sent; any  *)
(* of them may be delivered at any time, again, or never.  A timer may     *)
(* fire at any moment it is armed.  Sequence numbers start at a number of  *)
(* the socket's own, far from the others, as seed() gives with high        *)
(* probability; a slot is used once, so no segment outlives its            *)
(* connection by a reuse of the slot.  The congestion window only gates a  *)
(* segment larger than it and never falls below one segment: left out, as  *)
(* are window scaling, ARP and checksums.                                  *)
(***************************************************************************)
EXTENDS Integers, Sequences, FiniteSets, FiniteSetsExt

CONSTANTS
    Children,     \* the server's slots beside the listener: 2, 3, ...
    MaxSend,      \* bound: bytes the client sends
    QCap, RxCap,  \* TX_QCAP, TCP_RXCAP
    RexmitMax,    \* REXMIT_MAX
    Closing,      \* whether sockets are closed
    MaxFins,      \* bound: FINs a socket counts, repetitions included
    Resets        \* whether a segment with RST is on the wire

KernelTcpAssumption ==
    /\ IsFiniteSet(Children) /\ Children \subseteq Nat \ {0, 1}
    /\ MaxSend \in Nat /\ QCap \in Nat \ {0} /\ RxCap \in Nat /\ RexmitMax \in Nat
    /\ MaxFins \in Nat
    /\ Closing \in BOOLEAN /\ Resets \in BOOLEAN

VARIABLES
    sock,         \* slot -> Socket
    listening,    \* the listener is open
    wire,
    sent,         \* bytes send() accepted; byte i of the stream is i
    got           \* slot -> bytes recv() returned

vars == <<sock, listening, wire, sent, got>>

Client == 1
Slots == {Client} \cup Children
Iss(s) == 100 * s

Free == [state |-> "Free", parent |-> FALSE, snd_nxt |-> 0, rcv_nxt |-> 0,
         tx |-> 0, tx_seq |-> 0, tx_q |-> <<>>, rx |-> <<>>,
         eof |-> FALSE, retries |-> 0]

(* send_segment: to the other side; ack is 0 without the flag              *)
Segment(s, sk, flags, seq, data) ==
    [toServer |-> s = Client, flags |-> flags, seq |-> seq,
     ack |-> IF "ACK" \in flags THEN sk.rcv_nxt ELSE 0, data |-> data]

Init ==
    /\ sock = [s \in Slots |-> Free]
    /\ listening = TRUE
    /\ wire = IF Resets
              THEN {[toServer |-> b, flags |-> {"RST"}, seq |-> 0, ack |-> 0, data |-> 0]
                      : b \in BOOLEAN}
              ELSE {}
    /\ sent = 0 /\ got = [s \in Slots |-> <<>>]

(* Work on socket s in progress: its record and the segments sent so far   *)
Work(s) == [id |-> s, sk |-> sock[s], out |-> {}]
Emit(h, flags, seq, data) ==
    [h EXCEPT !.out = @ \cup {Segment(h.id, h.sk, flags, seq, data)}]
Done(h) ==
    /\ sock' = [sock EXCEPT ![h.id] = h.sk]
    /\ wire' = wire \cup h.out

-----------------------------------------------------------------------------
(* open and connect: the client's active open                              *)
Connect ==
    /\ sock[Client] = Free /\ \A m \in wire : m.flags = {"RST"}
    /\ LET h == [Work(Client) EXCEPT !.sk.state = "SynSent",
                                     !.sk.snd_nxt = Iss(Client) + 1]
       IN Done(Emit(h, {"SYN"}, Iss(Client), 0))
    /\ UNCHANGED <<listening, sent, got>>

(* kick: the next queued byte becomes the segment in flight                *)
Kick(h) ==
    IF h.sk.tx # 0 \/ h.sk.tx_q = <<>> THEN h
    ELSE LET seq == h.sk.snd_nxt
             data == Head(h.sk.tx_q)
             g == [h EXCEPT !.sk.tx = data, !.sk.tx_q = Tail(@),
                            !.sk.tx_seq = seq, !.sk.snd_nxt = @ + 1,
                            !.sk.retries = 0]
         IN Emit(g, {"PSH", "ACK"}, seq, data)

Send ==
    /\ sent < MaxSend
    /\ sock[Client].state = "Established" /\ Len(sock[Client].tx_q) < QCap
    /\ sent' = sent + 1
    /\ Done(Kick([Work(Client) EXCEPT !.sk.tx_q = Append(@, sent + 1)]))
    /\ UNCHANGED <<listening, got>>

(* recv on a socket the server's task was handed                           *)
Recv(s) ==
    /\ ~sock[s].parent /\ sock[s].rx # <<>>
    /\ sock' = [sock EXCEPT ![s].rx = Tail(@)]
    /\ got' = [got EXCEPT ![s] = Append(@, Head(sock[s].rx))]
    /\ UNCHANGED <<listening, wire, sent>>

(* accept: the first child of the listener that is Established             *)
Acceptable == {s \in Children : sock[s].parent /\ sock[s].state = "Established"}
Accept ==
    /\ listening /\ Acceptable # {}
    /\ sock' = [sock EXCEPT ![Min(Acceptable)].parent = FALSE]
    /\ UNCHANGED <<listening, wire, sent, got>>

Close(s) ==
    /\ Closing /\ sock[s].state # "Free" /\ ~sock[s].parent
    /\ LET seq == sock[s].snd_nxt
           Fin(state) == Emit([Work(s) EXCEPT !.sk.state = state, !.sk.snd_nxt = @ + 1],
                              {"FIN", "ACK"}, seq, 0)
       IN Done(CASE sock[s].state = "Established" -> Fin("FinWait1")
                 [] sock[s].state = "CloseWait" -> Fin("LastAck")
                 [] OTHER -> [Work(s) EXCEPT !.sk = Free])
    /\ UNCHANGED <<listening, sent, got>>

CloseListener ==
    /\ Closing /\ listening /\ listening' = FALSE
    /\ sock' = [s \in Slots |-> IF s \in Children /\ sock[s].parent THEN Free ELSE sock[s]]
    /\ UNCHANGED <<wire, sent, got>>

-----------------------------------------------------------------------------
(* tick: retransmission and the end of TimeWait                            *)
Resend(h) ==
    CASE h.sk.state = "SynSent" -> Emit(h, {"SYN"}, Iss(h.id), 0)
      [] h.sk.state = "SynRecv" -> Emit(h, {"SYN", "ACK"}, Iss(h.id), 0)
      [] OTHER -> Emit(h, {"PSH", "ACK"}, h.sk.tx_seq, h.sk.tx)

GiveUp(sk) ==
    IF sk.state = "SynRecv" THEN Free
    ELSE [sk EXCEPT !.state = "Closed", !.eof = TRUE, !.tx = 0]

MayResend(sk) == sk.retries < RexmitMax

Tick(s) ==
    /\ \/ sock[s].state \in {"SynSent", "SynRecv"}
       \/ sock[s].state = "Established" /\ sock[s].tx # 0
    /\ IF MayResend(sock[s])
       THEN Done(Resend([Work(s) EXCEPT !.sk.retries = @ + 1]))
       ELSE Done([Work(s) EXCEPT !.sk = GiveUp(@)])
    /\ UNCHANGED <<listening, sent, got>>

TimeWaitOver(s) ==
    /\ sock[s].state = "TimeWait"
    /\ sock' = [sock EXCEPT ![s] = Free]
    /\ UNCHANGED <<listening, wire, sent, got>>

-----------------------------------------------------------------------------
(* deliver_tcp.  A SYN for the listener spawns a child in the first free   *)
(* slot; in the model, one never used before                               *)
Unused == {s \in Children : sock[s].state = "Free"
                            /\ \A m \in wire : m.toServer \/ m.seq < Iss(s) \/ m.seq >= Iss(s) + 100}

DeliverSyn(m) ==
    /\ m.toServer /\ "SYN" \in m.flags /\ "ACK" \notin m.flags
    /\ listening /\ Unused # {}
    /\ LET s == Min(Unused)
           h == [Work(s) EXCEPT !.sk.state = "SynRecv", !.sk.parent = TRUE,
                                !.sk.snd_nxt = Iss(s) + 1, !.sk.rcv_nxt = m.seq + 1]
       IN Done(Emit(h, {"SYN", "ACK"}, Iss(s), 0))
    /\ UNCHANGED <<listening, sent, got>>

(* The socket a segment is matched with: the first of its side in use      *)
Matching(m) == {s \in Slots : (s = Client) # m.toServer /\ sock[s].state # "Free"}

CompletesAny(sk, m) == "ACK" \in m.flags

(* The handshake: SynSent answers and stops, SynRecv goes on when promoted *)
Completes(sk, m) ==
    /\ "ACK" \in m.flags /\ m.ack = sk.snd_nxt
    /\ sk.state = "SynSent" => "SYN" \in m.flags

Handshake(h, m) ==
    IF h.sk.state = "SynSent"
    THEN Emit([h EXCEPT !.sk.rcv_nxt = m.seq + 1, !.sk.state = "Established"],
              {"ACK"}, h.sk.snd_nxt, 0)
    ELSE [h EXCEPT !.sk.state = "Established"]

AcknowledgesAny(sk, m) == sk.tx # 0
Acknowledges(sk, m) == sk.tx # 0 /\ m.ack = sk.tx_seq + 1

Acked(h, m) ==
    IF "ACK" \notin m.flags THEN h
    ELSE LET g == IF Acknowledges(h.sk, m)
                  THEN Kick([h EXCEPT !.sk.tx = 0]) ELSE h
         IN [g EXCEPT !.sk.state = CASE @ = "FinWait1" -> "FinWait2"
                                     [] @ = "LastAck" -> "Closed"
                                     [] OTHER -> @]

ExpectedAny(sk, m) == TRUE

(* append_rx's result is ignored: the byte is acknowledged all the same    *)
Expected(sk, m) == m.seq = sk.rcv_nxt
AppendRx(sk, data) == IF Len(sk.rx) < RxCap THEN [sk EXCEPT !.rx = Append(@, data)] ELSE sk

Data(h, m) ==
    IF m.data = 0 \/ h.sk.state # "Established" THEN h
    ELSE LET g == IF Expected(h.sk, m)
                  THEN [h EXCEPT !.sk = [AppendRx(@, m.data) EXCEPT !.rcv_nxt = @ + 1]]
                  ELSE h
         IN Emit(g, {"ACK"}, g.sk.snd_nxt, 0)

Finished(h, m) ==
    IF "FIN" \notin m.flags THEN h
    ELSE LET g == Emit([h EXCEPT !.sk.rcv_nxt = @ + 1, !.sk.eof = TRUE], {"ACK"}, h.sk.snd_nxt, 0)
         IN [g EXCEPT !.sk.state = CASE @ = "Established" -> "CloseWait"
                                     [] @ = "FinWait2" -> "TimeWait"
                                     [] OTHER -> @]

Reset(m, s) ==
    /\ "RST" \in m.flags
    /\ sock' = [sock EXCEPT ![s].state = "Closed", ![s].eof = TRUE, ![s].tx = 0]
    /\ UNCHANGED wire

Segments(m, s) ==
    LET h == Work(s)
        opening == sock[s].state \in {"SynSent", "SynRecv"}
        g == IF opening THEN Handshake(h, m) ELSE h
    IN /\ "RST" \notin m.flags /\ sock[s].state # "Closed"
       /\ opening => Completes(sock[s], m)
       /\ IF sock[s].state = "SynSent" THEN Done(g)
          ELSE Done(Finished(Data(Acked(g, m), m), m))

(* A SYN for the server finds the listener first; without one it goes on   *)
(* to the match, like every other segment                                  *)
Deliver(m) ==
    /\ ~(m.toServer /\ listening /\ "SYN" \in m.flags)
    /\ Matching(m) # {}
    /\ LET s == Min(Matching(m))
       IN /\ "FIN" \in m.flags => sock[s].rcv_nxt % 100 <= MaxSend + MaxFins
          /\ Reset(m, s) \/ Segments(m, s)
    /\ UNCHANGED <<listening, sent, got>>

Next ==
    \/ Connect \/ Send \/ Accept \/ CloseListener
    \/ \E s \in Slots : Recv(s) \/ Close(s) \/ Tick(s) \/ TimeWaitOver(s)
    \/ \E m \in wire : DeliverSyn(m) \/ Deliver(m)

Spec == Init /\ [][Next]_vars

-----------------------------------------------------------------------------
TcpStates == {"Free", "Closed", "SynRecv", "SynSent", "Established",
              "CloseWait", "FinWait1", "FinWait2", "LastAck", "TimeWait"}
Stream(s) == got[s] \o sock[s].rx

TypeOK ==
    /\ \A s \in Slots : sock[s].state \in TcpStates /\ sock[s].retries \in 0 .. RexmitMax
                        /\ Len(sock[s].tx_q) <= QCap /\ Len(sock[s].rx) <= RxCap
    /\ listening \in BOOLEAN /\ sent \in 0 .. MaxSend

(* "Reliable byte stream": what a server socket's task reads is the        *)
(* client's stream from its first byte on, nothing lost, repeated or       *)
(* swapped, although segments are.                                         *)
StreamInOrder ==
    \A s \in Children : \A i \in 1 .. Len(Stream(s)) : Stream(s)[i] = i

(* A byte that the client no longer keeps for retransmission has been      *)
(* received: the acknowledgement that completes a segment is its own.      *)
AckedWasReceived ==
    sock[Client].state = "Established" =>
      sent - Len(sock[Client].tx_q) - (IF sock[Client].tx = 0 THEN 0 ELSE 1)
        <= Max({Len(Stream(s)) : s \in Children})

(* Two Established ends belong to the same handshake, however often SYN    *)
(* and SYN-ACK arrived: each expects what the other sends next, up to the  *)
(* byte in flight.                                                         *)
Synchronised ==
    \A s \in Children :
      sock[Client].state = "Established" /\ sock[s].state = "Established" =>
        /\ sock[Client].rcv_nxt = sock[s].snd_nxt
        /\ sock[s].rcv_nxt \in {sock[Client].snd_nxt,
                                sock[Client].snd_nxt - (IF sock[Client].tx = 0 THEN 0 ELSE 1)}

(* "`Some(0)` at end-of-stream (TCP FIN, after queued bytes drain)": a     *)
(* task that reads the end of the stream has read everything sent.         *)
\* Refuted: section 5 of the README.
EndIsComplete ==
    \A s \in Children :
      sock[s].state \in {"CloseWait", "LastAck"} /\ sock[s].eof => Len(Stream(s)) = sent

(* "a per-listener child created at the SYN-ACK and handed out once the    *)
(* three-way handshake completes": a child past its handshake that was not *)
(* handed out is one that accept finds.                                    *)
\* Refuted: section 5 of the README.
PromotedIsHandedOut ==
    \A s \in Children :
      sock[s].parent /\ sock[s].state \notin {"Free", "SynRecv"} => s \in Acceptable

(* spawn_child "remembers the client's 5-tuple so its final ACK lands on   *)
(* this child": the child whose SYN-ACK the client took is the one that    *)
(* the client's segments are matched with.                                 *)
\* Refuted: section 5 of the README.
FinalAckLands ==
    \A s \in Children :
      sock[Client].state = "Established" /\ sock[s].state = "SynRecv"
        /\ sock[Client].rcv_nxt = sock[s].snd_nxt
      => \A x \in Children : sock[x].state # "Free" => s <= x

(* close "keeps the slot until the peer acknowledges": the acknowledgement *)
(* of the last FIN gives the slot back.                                    *)
\* Refuted: section 5 of the README.
AckReleasesSlot ==
    [][\A s \in Slots : sock[s].state = "LastAck" /\ sock'[s].state # "LastAck"
                        => sock'[s].state = "Free"]_vars
=============================================================================
