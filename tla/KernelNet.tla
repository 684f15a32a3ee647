----------------------------- MODULE KernelNet ------------------------------
(***************************************************************************)
(* The kernel's network client (aios-kernel/src/net.rs): DHCP acquisition  *)
(* and renewal, the reachability probes, and recovery from link changes.   *)
(*                                                                         *)
(* `net` holds the module's statics.  DEADLINE and NEXT_ACTION are each    *)
(* armed on entry to the phases that read them, so one flag `due` says     *)
(* whether the armed one has passed.  The age of the lease is the last of  *)
(* T1, T2 and its end that has passed.                                     *)
(*                                                                         *)
(* `wire` holds the answers that may still arrive, any number of times and *)
(* in any order.  A new transaction id makes the stack ignore the answers  *)
(* to the earlier one, so they leave `wire`.  A server hands out one       *)
(* address, named like the server.                                         *)
(***************************************************************************)
EXTENDS Integers, FiniteSets, SequencesExt

CONSTANTS
    Servers,       \* the DHCP servers on the link
    Configs,       \* the settings apply may bring: [dhcp, ip]
    WithGw,        \* the servers, or Static, whose options name a gateway
    WithDns,       \* ... and a DNS server
    MaxRetries,    \* 5 in dhcp_timeout
    MaxFails,      \* where the count of failed checks is capped
    MaxDrain,      \* MAX_DRAIN
    Naks,          \* whether servers may refuse
    LinkChanges,   \* whether the link may go down
    None, Static

(* parse_lease_options takes the server itself when it names no DNS server *)
NetAssumption == Servers \subseteq WithDns

VARIABLES net, wire, link

vars == <<net, wire, link>>

NoLease == [ip |-> None, server |-> None, opts |-> None]
Addresses == Servers \cup {Static, None}
Leases == [ip : Addresses, server : Servers \cup {None}, opts : Addresses]
Dhcp == {"Discover", "Request", "Renew"}
Checks == {"CheckArp", "CheckIcmp", "CheckDns"}
Phases == Dhcp \cup Checks \cup {"Idle", "Bound"}
ProbeTries == 2

(* granted, heard, proven, polled and rebound only record history          *)
Net ==
    [phase : Phases, settings : Configs, offer : Leases, bound : Leases,
     retries : 0 .. MaxRetries + 1, tries : 0 .. ProbeTries, fails : 0 .. MaxFails,
     due : BOOLEAN, age : 0 .. 3, polled : BOOLEAN,
     got : SUBSET {"OFFER", "ACK", "NAK", "ARP", "ICMP", "DNS"},
     netOk : BOOLEAN, rebinding : BOOLEAN, lastLink : {None, TRUE, FALSE},
     cached : SUBSET Addresses, state : {"NoNic", "NoLink", "LinkOnly", "Local", "Checking", "Internet"},
     granted : SUBSET Servers, heard : SUBSET {"ARP", "ICMP", "DNS"},
     proven : BOOLEAN, rebound : BOOLEAN]

Init ==
    /\ \E s \in Configs :
         net = [phase |-> "Idle", settings |-> s, offer |-> NoLease, bound |-> NoLease,
                retries |-> 0, tries |-> 0, fails |-> 0, due |-> TRUE, age |-> 0,
                polled |-> FALSE, got |-> {}, netOk |-> FALSE, rebinding |-> FALSE,
                lastLink |-> None, cached |-> {}, state |-> "NoNic",
                granted |-> {}, heard |-> {}, proven |-> FALSE, rebound |-> FALSE]
    /\ wire = {}
    /\ link \in (IF LinkChanges THEN BOOLEAN ELSE {TRUE})

-----------------------------------------------------------------------------
(* What a call changes: the statics and the answers it makes possible      *)
Step(n, answers) == [n |-> n, answers |-> answers, fresh |-> FALSE]
NewXid(s) == [s EXCEPT !.fresh = TRUE]

(* handle_dhcp: the lease grows out of the last offer                      *)
Offered(s) == [ip |-> s, server |-> s, opts |-> s]
Acked(l, s) == [l EXCEPT !.ip = IF @ = None THEN s ELSE @, !.opts = s]

Heard(n, probe) == IF n.phase \in Checks THEN n.heard \cup {probe} ELSE {}

(* handle_dhcp, handle_arp, handle_ipv4, handle_dns                        *)
Receive(n, m) ==
    CASE m.type = "OFFER" -> [n EXCEPT !.offer = Offered(m.from), !.got = @ \cup {"OFFER"}]
      [] m.type = "ACK" -> [n EXCEPT !.offer = Acked(@, m.from), !.got = @ \cup {"ACK"},
                                     !.granted = @ \cup {m.from}]
      [] m.type = "NAK" -> [n EXCEPT !.got = (@ \ {"OFFER", "ACK"}) \cup {"NAK"}]
      [] m.type = "ARP" ->
           LET ours == m.from = n.bound.opts
           IN [n EXCEPT !.cached = IF m.kept THEN @ \cup {m.from} ELSE @,
                        !.got = IF ours THEN @ \cup {"ARP"} ELSE @,
                        !.heard = IF ours THEN Heard(n, "ARP") ELSE @]
      [] m.type = "ICMP" ->
           IF m.to = n.bound.ip
           THEN [n EXCEPT !.got = @ \cup {"ICMP"}, !.heard = Heard(n, "ICMP")]
           ELSE n
      [] m.type = "DNS" -> [n EXCEPT !.got = @ \cup {"DNS"}, !.heard = Heard(n, "DNS")]

-----------------------------------------------------------------------------
(* The answers a frame may bring.  A server acknowledges its own address   *)
(* and refuses any other; a rebind goes to every server.                   *)
Offers == {[type |-> "OFFER", from |-> s] : s \in Servers}
Refusal == IF Naks THEN {[type |-> "NAK"]} ELSE {}
Verdicts(ip, server) ==
    Refusal \cup {[type |-> "ACK", from |-> s] : s \in {s \in Servers : s = ip /\ server \in {s, None}}}
ArpAnswers(gw) == {[type |-> "ARP", from |-> gw, kept |-> k] : k \in BOOLEAN}
EchoAnswers(n) == {[type |-> "ICMP", to |-> n.bound.ip]}
DnsAnswers == {[type |-> "DNS"]}

HasIp(n) == n.bound.ip # None
HasGw(n) == n.bound.opts \in WithGw
HasDns(n) == n.bound.opts \in WithDns

SendDiscover(n) ==
    Step([n EXCEPT !.phase = "Discover", !.due = FALSE, !.tries = 0, !.got = @ \ {"NAK"}], Offers)

SendRequest(n, renew) ==
    Step([n EXCEPT !.phase = IF renew THEN "Renew" ELSE "Request", !.due = FALSE, !.tries = 0,
                   !.got = @ \ {"NAK"}, !.rebinding = renew /\ @],
         Verdicts(IF renew THEN n.bound.ip ELSE n.offer.ip, n.offer.server))

SendRebind(n) ==
    Step([n EXCEPT !.phase = "Renew", !.due = FALSE, !.tries = 0, !.got = @ \ {"NAK"},
                   !.rebinding = TRUE, !.rebound = TRUE],
         Verdicts(n.bound.ip, None))

StaticLease(n) == [ip |-> n.settings.ip, server |-> None, opts |-> n.settings.ip]
BindTo(n, lease) ==
    [n EXCEPT !.bound = lease, !.netOk = FALSE, !.phase = "Bound", !.due = FALSE, !.age = 0,
              !.retries = 0, !.proven = FALSE, !.rebound = FALSE]

(* bind                                                                    *)
Bind(n) == Step([BindTo(n, n.offer) EXCEPT !.fails = 0, !.rebinding = FALSE, !.cached = {}], {})

(* dhcp_nak                                                                *)
DhcpNak(n) ==
    LET m == [n EXCEPT !.retries = 0, !.tries = 0]
    IN IF n.phase = "Renew" /\ ~n.rebinding
       THEN SendRebind(m)
       ELSE NewXid(SendDiscover([m EXCEPT !.bound = NoLease, !.netOk = FALSE, !.rebinding = FALSE,
                                          !.cached = {}, !.proven = FALSE, !.age = 0,
                                          !.rebound = FALSE]))

Exhausted(n) == n.retries > MaxRetries

(* dhcp_timeout.  TRIES stretches the back-off, which is left out with the *)
(* lengths of all delays.                                                  *)
DhcpTimeout(n) ==
    LET m == [n EXCEPT !.retries = @ + 1]
        later == [m EXCEPT !.due = FALSE]
    IN IF Exhausted(m)
       THEN IF n.settings.ip # None
            THEN Step([BindTo(m, StaticLease(n)) EXCEPT !.fails = 0, !.rebinding = FALSE, !.cached = {}], {})
            ELSE Step([m EXCEPT !.phase = "Idle", !.due = FALSE, !.retries = MaxRetries + 1], {})
       ELSE CASE n.phase = "Discover" -> Step(later, Offers)
              [] n.phase = "Request" -> SendRequest(later, FALSE)
              [] n.phase = "Renew" -> SendRequest(later, TRUE)

(* step_idle                                                               *)
StepIdleOnce(n) ==
    IF ~n.due \/ n.retries > MaxRetries THEN Step(n, {})
    ELSE IF n.settings.dhcp THEN NewXid(SendDiscover([n EXCEPT !.retries = 0]))
    ELSE IF n.settings.ip = None THEN Step(n, {})
    ELSE Step(BindTo(n, StaticLease(n)), {})
StepIdle(n) ==
    IF ~n.due THEN Step(n, {})
    ELSE IF n.settings.dhcp THEN NewXid(SendDiscover([n EXCEPT !.retries = 0]))
    ELSE IF n.settings.ip = None THEN Step(n, {})
    ELSE Step(BindTo(n, StaticLease(n)), {})

(* step_dhcp: an answer of the awaited kind, a refusal, or the deadline    *)
AwaitsAny(n) == {"OFFER", "ACK"} \cap n.got # {}
Awaits(n) == (IF n.phase = "Discover" THEN "OFFER" ELSE "ACK") \in n.got
StepDhcp(n) ==
    CASE Awaits(n) ->
           IF n.phase = "Discover" THEN SendRequest([n EXCEPT !.got = @ \ {"OFFER"}], FALSE)
                                   ELSE Bind([n EXCEPT !.got = @ \ {"ACK"}])
      [] ~Awaits(n) /\ "NAK" \in n.got ->
           LET m == [n EXCEPT !.got = @ \ {"NAK"}]
           IN IF n.phase = "Discover" THEN NewXid(SendDiscover(m)) ELSE DhcpNak(m)
      [] ~Awaits(n) /\ "NAK" \notin n.got /\ n.due -> DhcpTimeout(n)
      [] OTHER -> Step(n, {})

-----------------------------------------------------------------------------
(* The probes: ask the gateway's address, then the gateway, then a name    *)
Probe(n, phase, answers) == Step([n EXCEPT !.phase = phase, !.due = FALSE, !.tries = 0], answers)
Again(n) ==
    CASE n.phase = "CheckArp" -> ArpAnswers(n.bound.opts)
      [] n.phase = "CheckIcmp" -> EchoAnswers(n)
      [] n.phase = "CheckDns" -> DnsAnswers

StartCheck(n) ==
    LET m == [n EXCEPT !.tries = 0, !.heard = {}]
    IN IF HasGw(n) /\ n.bound.opts \notin n.cached THEN Probe(m, "CheckArp", ArpAnswers(n.bound.opts))
       ELSE IF HasGw(n) THEN Probe(m, "CheckIcmp", EchoAnswers(n))
       ELSE IF HasDns(n) THEN Probe(m, "CheckDns", DnsAnswers)
       ELSE Step([m EXCEPT !.due = FALSE], {})

(* succeed_check, fail_check                                               *)
SucceedCheck(n) ==
    Step([n EXCEPT !.netOk = TRUE, !.fails = 0, !.phase = "Bound", !.due = FALSE, !.heard = {},
                   !.proven = /\ HasGw(n) => "ICMP" \in n.heard
                              /\ HasDns(n) => "DNS" \in n.heard], {})
FailCheck(n) ==
    Step([n EXCEPT !.netOk = FALSE, !.fails = IF @ < MaxFails THEN @ + 1 ELSE @,
                   !.phase = "Bound", !.due = FALSE, !.heard = {}, !.proven = FALSE], {})

(* step_arp, step_icmp, step_dns                                           *)
Probed(n) == [CheckArp |-> "ARP", CheckIcmp |-> "ICMP", CheckDns |-> "DNS"][n.phase]
MoreTries(n) == n.tries < ProbeTries
StepCheck(n) ==
    LET m == [n EXCEPT !.got = @ \ {Probed(n)}]
    IN IF Probed(n) \in n.got
       THEN CASE n.phase = "CheckArp" -> Probe(m, "CheckIcmp", EchoAnswers(n))
              [] n.phase = "CheckIcmp" /\ HasDns(n) -> Probe(m, "CheckDns", DnsAnswers)
              [] OTHER -> SucceedCheck(m)
       ELSE IF ~n.due THEN Step(n, {})
       ELSE IF MoreTries(n) THEN Step([n EXCEPT !.tries = @ + 1, !.due = FALSE], Again(n))
       ELSE FailCheck(n)

(* step_bound: rebind from T2 on, renew from T1 on, else check             *)
StepBound(n) ==
    LET m == [n EXCEPT !.rebinding = FALSE]
        leased == n.settings.dhcp /\ n.bound.server # None
    IN IF ~HasIp(n) THEN Step(n, {})
       ELSE IF leased /\ n.age >= 2 THEN SendRebind(m)
       ELSE IF leased /\ n.age = 1 THEN SendRequest(m, TRUE)
       ELSE IF n.due THEN StartCheck(n)
       ELSE Step(n, {})

(* compute_state, but for a scanning radio; a NIC is present               *)
ComputeState(n, up) ==
    IF ~up THEN "NoLink"
    ELSE IF n.phase \in Dhcp \cup Checks THEN "Checking"
    ELSE IF HasIp(n) THEN IF n.netOk THEN "Internet" ELSE "Local"
    ELSE IF n.phase = "Idle" /\ n.settings.dhcp /\ n.retries <= MaxRetries THEN "Checking"
    ELSE "LinkOnly"

-----------------------------------------------------------------------------
(* The head of poll: an edge of the link abandons what is under way        *)
LinkEdge(n, up) ==
    LET down == n.lastLink = TRUE /\ ~up
        back == n.lastLink = FALSE /\ up
        m == [n EXCEPT !.lastLink = up, !.polled = n.bound.server # None /\ n.age < 3]
    IN IF down THEN [m EXCEPT !.netOk = FALSE, !.phase = "Idle", !.fails = 0, !.cached = {}, !.due = FALSE, !.heard = {}, !.proven = FALSE]
       ELSE IF back THEN [m EXCEPT !.netOk = FALSE, !.phase = "Idle", !.due = TRUE]
       ELSE m

Advance(n, up) ==
    CASE n.phase = "Idle" -> IF up THEN StepIdle(n) ELSE Step(n, {})
      [] n.phase \in Dhcp -> StepDhcp(n)
      [] n.phase \in Checks -> StepCheck(n)
      [] n.phase = "Bound" -> StepBound(n)

Answers(w, s) ==
    LET kept == {m \in w : s.fresh => m.type \notin {"OFFER", "ACK", "NAK"}}
    IN (IF DnsAnswers \subseteq s.answers THEN kept \ DnsAnswers ELSE kept) \cup s.answers

(* poll, with the frames it drains                                         *)
Poll(frames) ==
    LET s == Advance(FoldLeft(Receive, LinkEdge(net, link), frames), link)
    IN /\ net' = [s.n EXCEPT !.state = ComputeState(s.n, link)]
       /\ wire' = Answers(wire, s)
       /\ UNCHANGED link

(* apply and recheck, from the GUI                                         *)
ApplyInPlace(s) ==
    /\ net' = [net EXCEPT !.settings = s, !.bound = NoLease, !.retries = 0, !.due = TRUE, !.netOk = FALSE]
    /\ UNCHANGED <<wire, link>>
Apply(s) ==
    /\ net' = [net EXCEPT !.settings = s, !.bound = NoLease, !.phase = "Idle", !.retries = 0,
                          !.due = TRUE, !.netOk = FALSE, !.heard = {}, !.proven = FALSE,
                          !.age = 0, !.polled = FALSE, !.rebound = FALSE]
    /\ UNCHANGED <<wire, link>>

Recheck ==
    LET n == [net EXCEPT !.netOk = FALSE, !.proven = FALSE, !.got = @ \ {"ARP", "ICMP", "DNS"}]
        s == IF n.phase = "Bound" /\ HasIp(n) /\ link THEN StartCheck(n) ELSE Step(n, {})
    IN net' = s.n /\ wire' = Answers(wire, s) /\ UNCHANGED link

(* The world: the armed timer passes, the lease ages (never past a stage   *)
(* in which poll did not run), a cached address expires, the link changes  *)
TimerPasses == ~net.due /\ net' = [net EXCEPT !.due = TRUE] /\ UNCHANGED <<wire, link>>

LeaseAges ==
    /\ net.bound.server # None /\ net.age < 3 /\ net.polled
    /\ net' = [net EXCEPT !.age = @ + 1, !.polled = FALSE]
    /\ UNCHANGED <<wire, link>>

ArpExpires ==
    \E a \in net.cached : net' = [net EXCEPT !.cached = @ \ {a}] /\ UNCHANGED <<wire, link>>

LinkChange == LinkChanges /\ link' = ~link /\ UNCHANGED <<net, wire>>

Frames == UNION {[1 .. k -> wire] : k \in 0 .. MaxDrain}

Next ==
    \/ \E frames \in Frames : Poll(frames)
    \/ \E s \in Configs : Apply(s)
    \/ Recheck
    \/ TimerPasses \/ LeaseAges \/ ArpExpires \/ LinkChange

Spec == Init /\ [][Next]_vars

(* The idle loop polls every tick, time passes, and an answer that is sent *)
(* again and again arrives                                                 *)
Fairness ==
    /\ WF_vars(Poll(<<>>)) /\ WF_vars(TimerPasses)
    /\ \A s \in Servers : /\ SF_vars([type |-> "OFFER", from |-> s] \in wire
                                       /\ Poll(<<[type |-> "OFFER", from |-> s]>>))
                          /\ SF_vars([type |-> "ACK", from |-> s] \in wire
                                       /\ Poll(<<[type |-> "ACK", from |-> s]>>))
LiveNext == (\E frames \in Frames : Poll(frames)) \/ TimerPasses
LiveSpec == Init /\ [][LiveNext]_vars /\ Fairness

-----------------------------------------------------------------------------
TypeOK == net \in Net /\ link \in BOOLEAN

(* Whatever arrives, expires or is applied in the middle of it: a phase    *)
(* that works for an address has one, and a probe of the gateway a gateway *)
(* (start_check and step_bound read BOUND long after it was set).          *)
AddressUnderCheck ==
    /\ net.phase \in {"Bound", "Renew"} \cup Checks => HasIp(net)
    /\ net.phase \in {"CheckArp", "CheckIcmp"} => HasGw(net)

(* Lease.ip: "Assigned IPv4 address."  An address taken from DHCP is one   *)
(* its server has acknowledged.                                            *)
BoundWasGranted == net.bound.server # None => net.bound.ip \in net.granted

(* State::Internet: "ICMP + DNS probes succeeded": both were answered      *)
(* since the check began.                                                  *)
\* Refuted: section 5 of the README.
InternetIsProven == net.state = "Internet" => net.proven \/ ~net.netOk

(* "rebind at T2 = 7/8 lifetime": when a lease runs out, a rebind has been *)
(* tried.                                                                  *)
\* Refuted: section 5 of the README.
RebindAtT2 == net.bound.server # None /\ net.age = 3 => net.rebound

(* "net::recheck and net::apply reset the new backoff/rebind state".       *)
\* Refuted: section 5 of the README.
ApplyResetsBackoff == [][net'.settings # net.settings => net'.fails = 0 /\ ~net'.rebinding]_vars

(* With a server that answers, the client ends up with an address, and     *)
(* with one again whenever it lost it.                                     *)
EventuallyBound == []<>HasIp(net)
=============================================================================
