------------------------------ MODULE MCLiveness ----------------------------
(***************************************************************************)
(* What must eventually happen, for TLC: the tasks of the kernel scheduler,*)
(* the watchdog of a dead and of a healthy orchestrator, the DHCP client   *)
(* and the Wi-Fi station, on small instances.  A behaviour exercises the   *)
(* one `part` names; the others rest in their initial states, and the      *)
(* fairness is that of the part.                                           *)
(***************************************************************************)
EXTENDS KernelFault, FiniteSets

CONSTANTS None, Static, A, B

VARIABLES part,
          state, missed, last, flying, sinceBeat, alive, late,   \* Watchdog
          runner, decided, actions, stopping, calls, recovering,
          net, wire, link,                                       \* KernelNet
          w, tries                                               \* KernelWifi

dogVars == <<state, missed, last, flying, sinceBeat, alive, late,
             runner, decided, actions, stopping, calls, recovering>>
netVars == <<net, wire, link>>
wifiVars == <<w, tries>>

Dead == INSTANCE Watchdog WITH
    MaxMissed <- 3, Warn <- 2, Recovery <- 4, MaxLate <- 2, MaxCalls <- 1,
    MayDie <- TRUE, MayStop <- TRUE, Tracked <- {}
Healthy == INSTANCE Watchdog WITH
    MaxMissed <- 3, Warn <- 2, Recovery <- 4, MaxLate <- 8, MaxCalls <- 1,
    MayDie <- FALSE, MayStop <- FALSE, Tracked <- {}
Dhcp == INSTANCE KernelNet WITH
    Servers <- {A}, Configs <- {[dhcp |-> TRUE, ip |-> None]},
    WithGw <- {}, WithDns <- {A}, MaxRetries <- 1, MaxFails <- 1, MaxDrain <- 1,
    Naks <- FALSE, LinkChanges <- FALSE
Wifi == INSTANCE KernelWifi WITH
    calls <- tries, APs <- {A, B}, Secure <- {B}, Nonces <- {0}, Payloads <- {},
    QDepth <- 6, Burst <- 3, ScanTicks <- 2, BeaconTicks <- 2, ConnectTicks <- 5,
    MaxLag <- 1, MaxCalls <- 4

MCInit ==
    /\ part \in {"tasks", "dead", "healthy", "dhcp", "wifi"}
    /\ Init /\ present = Slots /\ thermal = "normal"
    /\ Dead!Init /\ Dhcp!Init /\ Wifi!Init

MCNext ==
    /\ UNCHANGED part
    /\ \/ part = "tasks" /\ Next /\ UNCHANGED <<dogVars, netVars, wifiVars>>
       \/ part = "dead" /\ Dead!Next /\ UNCHANGED <<vars, netVars, wifiVars>>
       \/ part = "healthy" /\ Healthy!Next /\ UNCHANGED <<vars, netVars, wifiVars>>
       \/ part = "dhcp" /\ Dhcp!LiveNext /\ UNCHANGED <<vars, dogVars, wifiVars>>
       \/ part = "wifi" /\ Wifi!Next /\ UNCHANGED <<vars, dogVars, netVars>>

(* The timer interrupts, and the idle task and the worker yield.           *)
TaskFairness ==
    /\ WF_vars(part = "tasks" /\ \E f \in Frame : TimerTick(f))
    /\ WF_vars(part = "tasks" /\ YieldKernel)

(* Both threads are scheduled by the operating system, and time passes.    *)
(* The operator owes nothing.                                              *)
WatchdogFairness ==
    /\ WF_dogVars(part \in {"dead", "healthy"} /\ Dead!Beat)
    /\ WF_dogVars(part \in {"dead", "healthy"} /\ Dead!ReceiveHeartbeat)
    /\ WF_dogVars(part \in {"dead", "healthy"} /\ Dead!RunnerCheck)
    /\ WF_dogVars(part \in {"dead", "healthy"} /\ Dead!RunnerPush)
    /\ WF_dogVars(part \in {"dead", "healthy"} /\ Dead!RunnerStops)
    /\ WF_dogVars(part = "dead" /\ Dead!Elapse)
    /\ WF_dogVars(part = "healthy" /\ Healthy!Elapse)

(* The idle loop polls every tick, time passes, and an answer that is sent *)
(* again and again arrives.                                                *)
Answer(type) == [type |-> type, from |-> A]
DhcpFairness ==
    /\ WF_netVars(part = "dhcp" /\ Dhcp!Poll(<<>>))
    /\ WF_netVars(part = "dhcp" /\ Dhcp!TimerPasses)
    /\ SF_netVars(part = "dhcp" /\ Answer("OFFER") \in wire /\ Dhcp!Poll(<<Answer("OFFER")>>))
    /\ SF_netVars(part = "dhcp" /\ Answer("ACK") \in wire /\ Dhcp!Poll(<<Answer("ACK")>>))

(* The idle loop polls.                                                    *)
WifiFairness == WF_wifiVars(part = "wifi" /\ Wifi!Poll(1, 0, 0))

MCSpec ==
    /\ MCInit /\ [][MCNext]_<<part, vars, dogVars, netVars, wifiVars>>
    /\ TaskFairness /\ WatchdogFairness /\ DhcpFairness /\ WifiFairness

-----------------------------------------------------------------------------
(* Unless the CPU stays too hot, round robin starves nobody: a ring-3 task *)
(* that is neither frozen nor removed gets the CPU again (schedule,        *)
(* timer_irq).                                                             *)
TasksRotate == part = "tasks" => EveryTaskRuns

Unsettled ==
    \/ part = "dead" /\ ~alive
    \/ part = "dhcp"
    \/ part = "wifi" /\ Wifi!Attempting
Settled ==
    \/ part = "dead" /\ Dead!Silenced
    \/ part = "dhcp" /\ Dhcp!HasIp(net)
    \/ part = "wifi" /\ Wifi!Settled

(* An orchestrator that stops for ever ends in safe mode, unless the       *)
(* watchdog itself is stopped (check_timeout, WatchdogRunner::start); one  *)
(* that is late only finitely often ends up, and stays, in Monitoring,     *)
(* from every state the delays and the operator led to                     *)
(* (receive_heartbeat, check_timeout, reset).                              *)
(* With a server that answers, the DHCP client always gets an address      *)
(* (dhcp_timeout's restart, poll).                                         *)
(* An attempt to associate that nothing interrupts ends: associated with   *)
(* the right passphrase or on an open network, and back in Idle with a     *)
(* wrong one (connect, poll's timeout).                                    *)
AllSettle ==
    /\ part = "healthy" => Healthy!HealthyIsMonitored
    /\ Unsettled ~> Settled
=============================================================================
