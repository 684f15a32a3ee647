--------------------------- MODULE MCKernelNetwork --------------------------
(***************************************************************************)
(* The kernel's network stack for TLC: the DHCP client and connectivity    *)
(* checks (net), TCP sockets (tcp), the Wi-Fi station (wifi) and the       *)
(* network drivers (nic), each with several sets of bounds.  A behaviour   *)
(* exercises the one `part` and `card` name; the others rest in an initial *)
(* state of theirs.                                                        *)
(***************************************************************************)
EXTENDS Integers, FiniteSets, Sequences

CONSTANTS None, Static, A, B

VARIABLES part,
          net, wire, link,                            \* KernelNet
          sock, listening, segments, sent, got,       \* KernelTcp
          w, calls,                                   \* KernelWifi
          card, rx, tx, accepted, delivered, cable, reported, late   \* KernelNic

netVars == <<net, wire, link>>
tcpVars == <<sock, listening, segments, sent, got>>
wifiVars == <<w, calls>>
nicVars == <<rx, tx, accepted, delivered, cable, reported, late>>

Auto == [dhcp |-> TRUE, ip |-> None]
Manual == [dhcp |-> FALSE, ip |-> Static]

(* A server without a gateway that may refuse, a link that goes down, any  *)
(* settings                                                                *)
Dhcp == INSTANCE KernelNet WITH
    Servers <- {A}, Configs <- [dhcp : BOOLEAN, ip : {Static, None}],
    WithGw <- {}, WithDns <- {A}, MaxRetries <- 1, MaxFails <- 1, MaxDrain <- 1,
    Naks <- TRUE, LinkChanges <- TRUE
(* A server with a gateway, so that all four checks run                    *)
Probes == INSTANCE KernelNet WITH
    Servers <- {A}, Configs <- {Auto, Manual},
    WithGw <- {A}, WithDns <- {A}, MaxRetries <- 1, MaxFails <- 1, MaxDrain <- 1,
    Naks <- FALSE, LinkChanges <- FALSE

(* Three bytes, with resets; nobody closes                                 *)
Transfer == INSTANCE KernelTcp WITH
    wire <- segments, Children <- {2, 3}, MaxSend <- 3, QCap <- 2, RxCap <- 3,
    RexmitMax <- 2, Closing <- FALSE, MaxFins <- 1, Resets <- TRUE
(* Two bytes; both sides and the listener close at any moment              *)
Close == INSTANCE KernelTcp WITH
    wire <- segments, Children <- {2, 3}, MaxSend <- 2, QCap <- 2, RxCap <- 2,
    RexmitMax <- 1, Closing <- TRUE, MaxFins <- 2, Resets <- TRUE

(* One open and one WPA2 network, late polls, traffic                      *)
Mixed == INSTANCE KernelWifi WITH
    APs <- {A, B}, Secure <- {B}, Nonces <- {0}, Payloads <- {"ask"}, QDepth <- 6,
    Burst <- 3, ScanTicks <- 2, BeaconTicks <- 2, ConnectTicks <- 3, MaxLag <- 4,
    MaxCalls <- 4
(* Two WPA2 networks and two nonces                                        *)
Wpa2 == INSTANCE KernelWifi WITH
    APs <- {A, B}, Secure <- {A, B}, Nonces <- {0, 1}, Payloads <- {}, QDepth <- 6,
    Burst <- 3, ScanTicks <- 2, BeaconTicks <- 2, ConnectTicks <- 3, MaxLag <- 1,
    MaxCalls <- 4

(* Rings that wrap twice; a virtqueue of four with three buffers, whose    *)
(* indices wrap too; frames of one to three cells in a linear buffer of    *)
(* eight.  A card either receives or sends.                                *)
Nic(kind, in, out) == INSTANCE KernelNic WITH
    wire <- cable, Kind <- kind, Ring <- IF kind = "virtio" THEN 4 ELSE 3, RxBufs <- 3,
    Size <- 8, Lens <- IF kind = "rtl8139" THEN 1 .. 3 ELSE {1},
    Indices <- IF kind = "virtio" THEN 8 ELSE 6, MaxRx <- in, MaxTx <- out

Card(kind, in, out) == [kind |-> kind, in |-> in, out |-> out]
NoCard == Card("e1000", 0, 0)
Cards == { Card(k, 0, 5) : k \in {"e1000", "rtl8139", "rtl8169", "virtio", "pcnet"} }
    \cup { Card(k, 7, 0) : k \in {"e1000", "rtl8169", "pcnet"} }
    \cup { Card("virtio", 9, 0), Card("rtl8139", 4, 0) }

ASSUME \A c \in Cards : Nic(c.kind, c.in, c.out)!NicAssumption
ASSUME Dhcp!NetAssumption /\ Probes!NetAssumption
ASSUME Transfer!KernelTcpAssumption /\ Close!KernelTcpAssumption

NetRests == Probes!Init /\ net.settings = Auto

MCInit ==
    /\ \/ part = "dhcp" /\ Dhcp!Init
       \/ part = "probes" /\ Probes!Init
       \/ part \in {"transfer", "close", "mixed", "wpa2", "nic"} /\ NetRests
    /\ Transfer!Init /\ Mixed!Init
    /\ \/ part = "nic" /\ \E c \in Cards : card = c /\ Nic(c.kind, c.in, c.out)!Init
       \/ part # "nic" /\ card = NoCard /\ Nic("e1000", 0, 0)!Init

NetStep == (part = "dhcp" /\ Dhcp!Next) \/ (part = "probes" /\ Probes!Next)
TcpStep == (part = "transfer" /\ Transfer!Next) \/ (part = "close" /\ Close!Next)
WifiStep == (part = "mixed" /\ Mixed!Next) \/ (part = "wpa2" /\ Wpa2!Next)
NicStep == part = "nic" /\ \E c \in Cards : c = card /\ Nic(c.kind, c.in, c.out)!Next

MCNext ==
    /\ UNCHANGED <<part, card>>
    /\ \/ NetStep /\ UNCHANGED <<tcpVars, wifiVars, nicVars>>
       \/ TcpStep /\ UNCHANGED <<netVars, wifiVars, nicVars>>
       \/ WifiStep /\ UNCHANGED <<netVars, tcpVars, nicVars>>
       \/ NicStep /\ UNCHANGED <<netVars, tcpVars, wifiVars>>

MCSpec == MCInit /\ [][MCNext]_<<part, card, netVars, tcpVars, wifiVars, nicVars>>

-----------------------------------------------------------------------------
(* A phase of net that works for an address has one, and a probe of the    *)
(* gateway a gateway, whatever arrives, expires or is applied meanwhile    *)
(* (start_check and step_bound read BOUND long after it was set); and with *)
(* one server, an address taken from DHCP is one that it acknowledged      *)
(* (dhcp_ack binds the OFFER of the moment).                               *)
(* A station is associated with a WPA2 network only if it was given the    *)
(* passphrase of that network, whatever other attempts left in the queues; *)
(* and once the frames of an association have reached the access point, it *)
(* serves the network the station asked for, counts the station in, and    *)
(* under WPA2 both hold the same key and know it (sta_rx, ap_rx).          *)
JoinedAsGranted ==
    /\ part = "dhcp" => Dhcp!AddressUnderCheck /\ Dhcp!BoundWasGranted
    /\ part = "probes" => Probes!AddressUnderCheck
    /\ part = "mixed" => Mixed!BothAgree /\ Mixed!NeverWithWrongPassphrase
    /\ part = "wpa2" => Wpa2!BothAgree /\ Wpa2!NeverWithWrongPassphrase

(* "Reliable byte stream", where the receive ring never fills: what a      *)
(* server socket's task reads is the client's stream from its first byte   *)
(* on, nothing lost, repeated or swapped (deliver_tcp, recv).              *)
(* Two Established ends belong to the same handshake, however often SYN    *)
(* and SYN-ACK arrived: each expects what the other sends next, up to the  *)
(* byte in flight (spawn_child, deliver_tcp).  While nobody closes, a byte *)
(* that the client no longer keeps for retransmission has been received    *)
(* (deliver_tcp's test of the ACK).                                        *)
StreamSound ==
    /\ Transfer!StreamInOrder /\ Transfer!Synchronised
    /\ part = "transfer" => Transfer!AckedWasReceived

(* What poll_rx returns is every good frame the device stored, whole, once *)
(* and in order, whatever the rings wrapped: nothing is overwritten while  *)
(* it is copied, and when poll_rx answers None nothing the device reported *)
(* is left behind (poll_rx_e1000 and the other four).  The frames that     *)
(* send reports as sent are those on the wire, once and in order, as long  *)
(* as no send has timed out; and a frame on the wire is never parts of     *)
(* two, after a timeout too where the driver looks at the ownership bit    *)
(* (send_e1000 and the other four).                                        *)
FramesInOrder ==
    \A c \in Cards : c = card =>
        /\ Nic(c.kind, c.in, c.out)!RxInOrder
        /\ Nic(c.kind, c.in, c.out)!TxHonest
=============================================================================
