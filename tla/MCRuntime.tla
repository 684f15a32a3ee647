------------------------------ MODULE MCRuntime -----------------------------
(***************************************************************************)
(* The runtime for TLC: the zero-copy ring buffer, the bus with two sets   *)
(* of bounds, the ring transport, the process scheduler with three sets of *)
(* bounds, and the watchdog of the orchestrator.  A behaviour exercises    *)
(* the one `part` names; the others rest in an initial state of theirs.    *)
(***************************************************************************)
EXTENDS RingBuffer

VARIABLES part,
          queue, seen, frozen, held, received, gone,                 \* IpcBus
          ring, sent, accepted, delivered,
          procs, ready, current, quotaUp, rr, waited, clock, used,   \* ProcessScheduler
          nextPid, mode, threads, faults, snaps, members,
          state, missed, last, flying, sinceBeat, alive, late,       \* Watchdog
          runner, decided, actions, stopping, calls, recovering

ipcVars == <<queue, seen, frozen, held, received, gone, ring, sent, accepted, delivered>>
schedVars == <<procs, ready, current, quotaUp, rr, waited, clock, used,
               nextPid, mode, threads, faults, snaps, members>>
dogVars == <<state, missed, last, flying, sinceBeat, alive, late,
             runner, decided, actions, stopping, calls, recovering>>

(* Both kinds of sender, retries, two blocks to reroute between; two pairs *)
(* with a ring that holds up to three small packets                        *)
Mixed == INSTANCE IpcBus WITH
    MaxQueue <- 2, DropOldest <- TRUE, Dedup <- TRUE, PlainSends <- TRUE,
    Ids <- {1, 2}, Priorities <- {0, 1}, Blocks <- {1, 2}, MaxSends <- 4,
    Pairs <- {<<1, 2>>, <<2, 1>>}, RingCapacity <- 4, Sizes <- {1, 2}
(* Senders that all use send_priority                                      *)
Ranked == INSTANCE IpcBus WITH
    MaxQueue <- 3, DropOldest <- TRUE, Dedup <- FALSE, PlainSends <- FALSE,
    Ids <- {1}, Priorities <- {0, 1}, Blocks <- {1}, MaxSends <- 5,
    Pairs <- {<<1, 2>>, <<2, 1>>}, RingCapacity <- 4, Sizes <- {1, 2}

(* Three processes of two priorities and two quotas, normal mode           *)
Table == INSTANCE ProcessScheduler WITH queue <- ready,
    MaxPid <- 3, Prios <- {3, 4}, TotalRam <- 3, Rams <- {1, 2}, AgeEvery <- 1,
    MaxCrashes <- 0, Modes <- {"Normal"}, Uses <- {}
(* Real threads that end or panic at any moment                            *)
Real == INSTANCE ProcessScheduler WITH queue <- ready,
    MaxPid <- 2, Prios <- {4}, TotalRam <- 2, Rams <- {1}, AgeEvery <- 1,
    MaxCrashes <- 1, Modes <- {"Normal"}, Uses <- {"real"}
(* A process group, both scheduling modes                                  *)
Groups == INSTANCE ProcessScheduler WITH queue <- ready,
    MaxPid <- 2, Prios <- {3, 4}, TotalRam <- 3, Rams <- {1}, AgeEvery <- 1,
    MaxCrashes <- 0, Modes <- {"Normal", "RealTime"}, Uses <- {"groups"}

Dog == INSTANCE Watchdog WITH
    MaxMissed <- 3, Warn <- 2, Recovery <- 4, MaxLate <- 6, MaxCalls <- 2,
    MayDie <- TRUE, MayStop <- TRUE, Tracked <- {"KillProcess"}

ASSUME Mixed!BusAssumption /\ Ranked!BusAssumption
ASSUME Table!SchedulerAssumption /\ Real!SchedulerAssumption /\ Groups!SchedulerAssumption
ASSUME Dog!WatchdogAssumption

MCInit ==
    /\ part \in {"ring", "mixed", "ranked", "transport", "table", "real", "groups", "watchdog"}
    /\ Init /\ Mixed!Init
    /\ part # "ring" => data = [c \in 0 .. Capacity - 1 |-> 0]
    /\ IF part = "groups" THEN Groups!Init
       ELSE IF part = "real" THEN Real!Init ELSE Table!Init
    /\ Dog!Init

IpcStep ==
    \/ part = "mixed" /\ Mixed!BusNext
    \/ part = "ranked" /\ Ranked!BusNext
    \/ part = "transport" /\ Ranked!RingNext

SchedStep ==
    \/ part = "table" /\ Table!Next
    \/ part = "real" /\ Real!Next
    \/ part = "groups" /\ Groups!Next

MCNext ==
    /\ UNCHANGED part
    /\ \/ part = "ring" /\ Next /\ UNCHANGED <<ipcVars, schedVars, dogVars>>
       \/ IpcStep /\ UNCHANGED <<vars, schedVars, dogVars>>
       \/ SchedStep /\ UNCHANGED <<vars, ipcVars, dogVars>>
       \/ part = "watchdog" /\ Dog!Next /\ UNCHANGED <<vars, ipcVars, schedVars>>

MCSpec == MCInit /\ [][MCNext]_<<part, vars, ipcVars, schedVars, dogVars>>

-----------------------------------------------------------------------------
(* "IPC bus freeze prevents message loss during hot-swap": every packet    *)
(* the bus ever accepted is in exactly one place, queued, held by the      *)
(* updater, received, or evicted, and none is there twice; senders that    *)
(* all use send_priority are served by priority, first come first served   *)
(* within one; and a resend is dropped only while its first copy is still  *)
(* there to be handled (send_priority, the evictions, freeze, unfreeze).   *)
(* Whatever the sizes and the refusals, a pair of the ring transport sees  *)
(* its own packets only, each at most once, in the order they were sent,   *)
(* and none that is still in the ring (send_via_ring,                      *)
(* try_receive_from_ring).                                                 *)
PacketsKept ==
    /\ part = "mixed" => Mixed!FilterMatchesQueue /\ Mixed!Bounded
    /\ part = "ranked" => Ranked!NoPacketLost /\ Ranked!ServedByPriority
    /\ part = "transport" => Ranked!DeliveredInOrder

(* used_ram_mb is the sum of the quotas of the processes that exist and    *)
(* never more than there is, however they end (kill_process, kill_group).  *)
(* In normal mode only the current process is Running: a state set by any  *)
(* other call is never left behind by a switch (schedule_next, tick,       *)
(* force_preempt).  A pending fault is one of a process that exists, has   *)
(* crashed at least once and has no thread left, so a recovery decision    *)
(* finds it (poll_faults, kill_process, kill_group).  While no process is  *)
(* rolled back, every process stands in the queue of its priority, once    *)
(* (set_priority, set_group_priority, kill_process).                       *)
TableSound ==
    /\ part \in {"table", "real"} => Table!RunningIsCurrent
    /\ part = "table" => Table!RamAccounted /\ Table!QueuedOnce
    /\ part = "real" => Real!RamAccounted /\ Real!QueuedOnce /\ Real!DecisionFindsProcess
    /\ part = "groups" => Groups!RamAccounted /\ Groups!QueuedOnce

=============================================================================
