-------------------------- MODULE ProcessScheduler --------------------------
(***************************************************************************)
(* aios-process-mgr scheduler.rs and fault.rs: the process table, the      *)
(* priority queues with round robin and aging, the RAM quota, crash and    *)
(* fault handling of real threads, and process groups.  The scheduler is   *)
(* behind a mutex: every call is one action.  The threads of real          *)
(* processes run beside it.  Time is counted in slices: a slice of time    *)
(* uses up the running process's quota, and every AgeEvery slices a        *)
(* waiting process has waited one more aging_threshold.                    *)
(***************************************************************************)
EXTENDS Naturals, Sequences, FiniteSets, FiniteSetsExt, Functions

CONSTANTS MaxPid,       \* bound: processes spawned in one behaviour
          Prios,        \* priorities in use, a subset of 0..4
          TotalRam,     \* total_ram_mb
          Rams,         \* quotas asked for
          AgeEvery,     \* aging_threshold / time slice
          MaxCrashes,   \* bound: crash_count of a process
          Modes,        \* bound: the scheduling modes that are set
          Uses          \* bound: of "real", "rollback" and "groups", what is used

Critical == 4

SchedulerAssumption ==
  /\ MaxPid \in Nat \ {0} /\ TotalRam \in Nat /\ AgeEvery \in Nat \ {0} /\ MaxCrashes \in Nat
  /\ Prios \subseteq 0 .. Critical /\ Prios # {} /\ Rams \subseteq Nat
  /\ Modes \subseteq {"Normal", "RealTime"} /\ Uses \subseteq {"real", "rollback", "groups"}

VARIABLES procs,      \* processes: pid -> priority, state, quota, crash count
          queue,      \* priority_queues, one sequence of pids per priority
          current,    \* 0 for None; there is a timer exactly when there is one
          quotaUp,    \* timer.quota_exceeded()
          rr,         \* round_robin_positions
          waited,     \* pid -> aging thresholds since last_scheduled_ms
          clock,      \* slices since the last aging threshold passed
          used,       \* used_ram_mb
          nextPid, mode,
          threads,    \* real_threads: pid -> "running", "done" or "panicked"
          faults,     \* pids in fault_queue
          snaps,      \* snapshots: pid -> priority at spawn
          members     \* member_pids of the one group

table == <<procs, queue, used, nextPid>>
cpu   == <<current, quotaUp, rr, waited, clock, mode>>
real  == <<threads, faults, snaps>>
vars  == <<table, cpu, real, members>>

Live == DOMAIN procs
Set(p, state) == [procs EXCEPT ![p].state = state]
With(f, p, v) == [q \in DOMAIN f \cup {p} |-> IF q = p THEN v ELSE f[q]]
Drop(s, p)    == SelectSeq(s, LAMBDA q : q # p)

Init ==
  /\ procs = <<>> /\ queue = [k \in Prios |-> <<>>] /\ used = 0 /\ nextPid = 1
  /\ current = 0 /\ quotaUp = FALSE /\ rr = [k \in Prios |-> 0] /\ waited = <<>> /\ clock = 0
  /\ mode \in Modes
  /\ threads = <<>> /\ faults = {} /\ snaps = <<>> /\ members = <<>>

----------------------------------------------------------------------------
(* The process table                                                       *)

(* A refused request leaves no trace, so only accepted ones are steps.     *)
Insert(k, ram) ==
  /\ nextPid <= MaxPid /\ used + ram <= TotalRam
  /\ nextPid' = nextPid + 1 /\ used' = used + ram
  /\ procs' = With(procs, nextPid, [prio |-> k, state |-> "Ready", ram |-> ram, crashes |-> 0])
  /\ queue' = [queue EXCEPT ![k] = Append(@, nextPid)]
  /\ UNCHANGED <<current, quotaUp, rr, clock, mode, faults, members>>

SpawnProcess(k, ram) ==
  Insert(k, ram) /\ waited' = With(waited, nextPid, 0) /\ UNCHANGED <<threads, snaps>>

SpawnReal(k, ram) ==
  /\ "real" \in Uses
  /\ Insert(k, ram) /\ waited' = With(waited, nextPid, 0)
  /\ threads' = With(threads, nextPid, "running") /\ snaps' = With(snaps, nextPid, k)

(* a child gets no last_scheduled_ms entry: it does not age                *)
SpawnChild(k, ram) == Insert(k, ram) /\ UNCHANGED <<waited, threads, snaps>>

(* Mutant: the quota of a killed process is not given back.                *)
KillAllKeepsRam(S) ==
  LET dead == S \cap Live
  IN  /\ procs' = Restrict(procs, Live \ dead)
      /\ queue' = [k \in Prios |-> SelectSeq(queue[k], LAMBDA p : p \notin dead)]
      /\ threads' = Restrict(threads, DOMAIN threads \ S)
      /\ snaps' = Restrict(snaps, DOMAIN snaps \ S)
      /\ current' = IF current \in dead THEN 0 ELSE current
      /\ quotaUp' = (quotaUp /\ current \notin dead)
      /\ waited' = Restrict(waited, DOMAIN waited \ dead)
      /\ UNCHANGED used

(* What kill_process leaves of the table once the processes S are gone;    *)
(* pids are not reused, so their last_scheduled_ms is never read again.    *)
KillAll(S) ==
  LET dead == S \cap Live
  IN  /\ procs' = Restrict(procs, Live \ dead)
      /\ used' = used - MapThenSumSet(LAMBDA p : procs[p].ram, dead)
      /\ queue' = [k \in Prios |->
                     SelectSeq(queue[k], LAMBDA p : ~(p \in dead /\ procs[p].prio = k))]
      /\ threads' = Restrict(threads, DOMAIN threads \ S)
      /\ snaps' = Restrict(snaps, DOMAIN snaps \ S)
      /\ current' = IF current \in dead THEN 0 ELSE current
      /\ quotaUp' = (quotaUp /\ current \notin dead)
      /\ waited' = Restrict(waited, DOMAIN waited \ dead)

(* Mutant: the pending fault of a killed process stays in the queue.       *)
KillProcessKeepsFault(p) ==
  /\ KillAll({p}) /\ faults' = faults
  /\ UNCHANGED <<nextPid, rr, clock, mode, members>>

KillProcess(p) ==
  /\ KillAll({p}) /\ faults' = faults \ {p}
  /\ UNCHANGED <<nextPid, rr, clock, mode, members>>

(* Mutant: the process is added to its new queue but not taken out of the  *)
(* old one.                                                                *)
MovedTwice(P, k) ==
  [j \in Prios |-> IF j # k THEN queue[j]
                  ELSE queue[j] \o SelectSeq(P, LAMBDA p : procs[p].prio # k)]

(* The queues after set_priority of the processes in P, in that order      *)
Moved(P, k) ==
  [j \in Prios |->
     LET stay == SelectSeq(queue[j], LAMBDA p : ~(p \in Range(P) /\ procs[p].prio = j /\ j # k))
     IN  IF j # k THEN stay
         ELSE stay \o SelectSeq(P, LAMBDA p : procs[p].prio # k)]

Reprioritise(P, k) ==
  /\ queue' = Moved(P, k)
  /\ procs' = [p \in Live |-> IF p \in Range(P) THEN [procs[p] EXCEPT !.prio = k] ELSE procs[p]]

SetPriority(p, k) ==
  /\ p \in Live /\ procs[p].prio # k
  /\ Reprioritise(<<p>>, k)
  /\ UNCHANGED <<used, nextPid, cpu, real, members>>

SuspendProcess(p) ==
  /\ p \in Live
  /\ procs' = Set(p, "Suspended")
  /\ current' = IF current = p THEN 0 ELSE current
  /\ quotaUp' = (quotaUp /\ current # p)
  /\ UNCHANGED <<queue, used, nextPid, rr, waited, clock, mode, real, members>>

ResumeProcess(p) ==
  /\ p \in Live /\ procs[p].state = "Suspended"
  /\ procs' = Set(p, "Ready")
  /\ UNCHANGED <<queue, used, nextPid, cpu, real, members>>

Crashed(ps, S) ==
  [p \in DOMAIN ps |-> IF p \in S THEN [ps[p] EXCEPT !.state = "Crashed", !.crashes = @ + 1]
                                  ELSE ps[p]]

ReportCrash(p) ==
  /\ p \in Live /\ procs[p].crashes < MaxCrashes
  /\ procs' = Crashed(procs, {p})
  /\ UNCHANGED <<queue, used, nextPid, cpu, real, members>>

----------------------------------------------------------------------------
(* Real threads and their faults                                           *)

(* The payload of a real process returns or panics at any moment.          *)
ThreadEnds(p, how) ==
  /\ p \in DOMAIN threads /\ threads[p] = "running"
  /\ how = "panicked" => procs[p].crashes < MaxCrashes
  /\ threads' = [threads EXCEPT ![p] = how]
  /\ UNCHANGED <<table, cpu, faults, snaps, members>>

PollFaults ==
  LET found == {p \in DOMAIN threads : threads[p] = "panicked"}
  IN  /\ found # {}
      /\ threads' = Restrict(threads, DOMAIN threads \ found)
      /\ procs' = Crashed(procs, found)
      /\ faults' = faults \cup found
      /\ UNCHANGED <<queue, used, nextPid, cpu, snaps, members>>

TakeFaults == faults # {} /\ faults' = {} /\ UNCHANGED <<table, cpu, threads, snaps, members>>

CheckRealThreads ==
  LET ended == {p \in DOMAIN threads : threads[p] # "running"}
  IN  /\ ended # {}
      /\ threads' = Restrict(threads, DOMAIN threads \ ended)
      /\ procs' = [p \in Live |-> IF p \in ended /\ procs[p].state = "Running"
                                  THEN [procs[p] EXCEPT !.state = "Ready"] ELSE procs[p]]
      /\ UNCHANGED <<queue, used, nextPid, cpu, faults, snaps, members>>

(* resolve_fault: Terminate, Resume and Rollback.  A rollback restores the *)
(* priority of the spawn but leaves the queues alone.                      *)
ResolveTerminate(p) == p \in faults /\ KillProcess(p)

ResolveResume(p) ==
  /\ p \in faults /\ faults' = faults \ {p}
  /\ procs' = Set(p, "Ready")
  /\ UNCHANGED <<queue, used, nextPid, cpu, threads, snaps, members>>

ResolveRollback(p) ==
  /\ "rollback" \in Uses /\ p \in faults /\ faults' = faults \ {p}
  /\ procs' = [procs EXCEPT ![p] = [@ EXCEPT !.prio = snaps[p], !.state = "Ready", !.crashes = 0]]
  /\ UNCHANGED <<queue, used, nextPid, cpu, threads, snaps, members>>

----------------------------------------------------------------------------
(* Scheduling                                                              *)

(* Slot <<k, i>>: the i-th process to be looked at in the queue of         *)
(* priority k, counted from its round robin position                       *)
Turn(s) == queue[s[1]][((rr[s[1]] + s[2] - 1) % Len(queue[s[1]])) + 1]

Slots(ps, skip) ==
  {s \in Prios \X (1 .. MaxPid + 1) :
     /\ s[2] <= Len(queue[s[1]])
     /\ Turn(s) # skip /\ Turn(s) \in DOMAIN ps /\ ps[Turn(s)].state = "Ready"}

Effective(s, wt) ==
  LET boost == IF Turn(s) \in DOMAIN wt THEN wt[Turn(s)] ELSE 0
  IN  IF s[1] + boost > Critical THEN Critical ELSE s[1] + boost

(* a slot that is looked at later wins only with a higher effective        *)
(* priority; higher queues are looked at first                             *)
Before(a, b, wt) ==
  \/ Effective(a, wt) > Effective(b, wt)
  \/ Effective(a, wt) = Effective(b, wt) /\ (a[1] > b[1] \/ (a[1] = b[1] /\ a[2] < b[2]))

Candidates(ps, skip, wt) ==
  {s \in Slots(ps, skip) : \A o \in Slots(ps, skip) \ {s} : Before(s, o, wt)}

NextPosition(p, k) ==
  LET at == {i \in 1 .. Len(queue[k]) : queue[k][i] = p}
  IN  IF at = {} THEN rr ELSE [rr EXCEPT ![k] = Min(at) % Len(queue[k])]

Dispatch(ps, skip, wt) ==
  /\ waited' = wt /\ quotaUp' = FALSE
  /\ \/ Slots(ps, skip) = {} /\ current' = 0 /\ procs' = ps /\ rr' = rr
     \/ \E s \in Candidates(ps, skip, wt) : LET p == Turn(s) IN
          /\ current' = p
          /\ procs' = [ps EXCEPT ![p].state = "Running"]
          /\ rr' = NextPosition(p, ps[p].prio)

(* Mutant: a process whose slice is over is not made Ready.                *)
PreemptedNot == procs

(* the current process, whatever its state, made Ready                     *)
Preempted == IF current = 0 THEN procs ELSE Set(current, "Ready")

ScheduleNormal ==
  /\ mode = "Normal" /\ (current = 0 \/ quotaUp)
  /\ Dispatch(Preempted, current, IF current = 0 THEN waited ELSE With(waited, current, 0))
  /\ UNCHANGED <<queue, used, nextPid, clock, mode, real, members>>

(* deadlines are data: any Ready process may have the earliest             *)
ScheduleRt(ps, cur) ==
  LET ready == {p \in DOMAIN ps : ps[p].state = "Ready"}
      old   == IF cur = 0 THEN ps ELSE [ps EXCEPT ![cur].state = "Ready"]
  IN  /\ quotaUp' = FALSE
      /\ \/ ready = {} /\ current' = 0 /\ procs' = ps /\ UNCHANGED waited
         \/ \E p \in ready :
              /\ current' = p /\ procs' = [old EXCEPT ![p].state = "Running"]
              /\ waited' = With(waited, p, 0)
      /\ UNCHANGED <<queue, used, nextPid, rr, clock, mode, real, members>>

ScheduleNext == ScheduleNormal \/ (mode = "RealTime" /\ ScheduleRt(procs, current))

(* tick: a process whose quota is used up is put back first, so that       *)
(* schedule_next does not know it was running                              *)
Tick ==
  \/ /\ mode = "Normal" /\ (current = 0 \/ quotaUp)
     /\ Dispatch(Preempted, 0, waited)
     /\ UNCHANGED <<queue, used, nextPid, clock, mode, real, members>>
  \/ mode = "RealTime" /\ IF quotaUp THEN ScheduleRt(Preempted, 0) ELSE ScheduleRt(procs, current)

ForcePreempt ==
  /\ current # 0
  /\ procs' = Preempted /\ waited' = With(waited, current, 0)
  /\ current' = 0 /\ quotaUp' = FALSE
  /\ UNCHANGED <<queue, used, nextPid, rr, clock, mode, real, members>>

SetSchedulingMode(m) ==
  mode' = m /\ UNCHANGED <<table, current, quotaUp, rr, waited, clock, real, members>>

(* boosts beyond Critical make no difference                               *)
Elapse ==
  /\ quotaUp' = (current # 0)
  /\ clock' = (clock + 1) % AgeEvery
  /\ waited' = IF clock' # 0 THEN waited
               ELSE [p \in DOMAIN waited |-> Min({waited[p] + 1, Critical - Min(Prios)})]
  /\ UNCHANGED <<table, current, rr, mode, real, members>>

----------------------------------------------------------------------------
(* The process group                                                       *)

Member == Range(members)

AddToGroup(p) ==
  /\ "groups" \in Uses /\ p \notin Member /\ members' = Append(members, p)
  /\ UNCHANGED <<table, cpu, real>>

RemoveFromGroup(p) ==
  /\ p \in Member \cap Live /\ members' = Drop(members, p)
  /\ UNCHANGED <<table, cpu, real>>

KillGroup ==
  /\ members # <<>> /\ members' = <<>>
  /\ KillAll(Member) /\ faults' = faults \ Member
  /\ UNCHANGED <<nextPid, rr, clock, mode>>

(* suspend_group and resume_group set states only: neither current nor     *)
(* the suspend flags of real threads change                                *)
GroupState(from, to) ==
  /\ \E p \in Member \cap Live : procs[p].state \in from
  /\ procs' = [p \in Live |-> IF p \in Member /\ procs[p].state \in from
                              THEN [procs[p] EXCEPT !.state = to] ELSE procs[p]]
  /\ UNCHANGED <<queue, used, nextPid, cpu, real, members>>

SuspendGroup == GroupState({"Running", "Ready"}, "Suspended")
ResumeGroup  == GroupState({"Suspended"}, "Ready")

(* set_group_priority stops at the first member that is no longer there    *)
SetGroupPriority(k) ==
  LET gone == {i \in 1 .. Len(members) : members[i] \notin Live}
      upTo == IF gone = {} THEN Len(members) ELSE Min(gone) - 1
  IN  /\ upTo > 0 /\ Reprioritise(SubSeq(members, 1, upTo), k)
      /\ UNCHANGED <<used, nextPid, cpu, real, members>>

----------------------------------------------------------------------------
TableStep ==
  \/ \E k \in Prios, ram \in Rams :
       SpawnProcess(k, ram) \/ SpawnReal(k, ram) \/ (Live # {} /\ SpawnChild(k, ram))
  \/ \E p \in Live : KillProcess(p) \/ SuspendProcess(p) \/ ResumeProcess(p) \/ ReportCrash(p)
  \/ \E p \in Live, k \in Prios : SetPriority(p, k)
  \/ \E m \in Modes : SetSchedulingMode(m)

FaultStep ==
  \/ \E p \in DOMAIN threads, how \in {"done", "panicked"} : ThreadEnds(p, how)
  \/ PollFaults \/ TakeFaults \/ CheckRealThreads
  \/ \E p \in faults : ResolveTerminate(p) \/ ResolveResume(p) \/ ResolveRollback(p)

GroupStep ==
  \/ \E p \in 1 .. nextPid - 1 : AddToGroup(p) \/ RemoveFromGroup(p)
  \/ KillGroup \/ SuspendGroup \/ ResumeGroup
  \/ \E k \in Prios : SetGroupPriority(k)

Next == TableStep \/ FaultStep \/ GroupStep \/ ScheduleNext \/ Tick \/ ForcePreempt \/ Elapse

Spec == Init /\ [][Next]_vars

(* The GUI's scheduler thread and nothing else after the spawns: a poll    *)
(* for faults and a tick, every few milliseconds, for ever                 *)
TickLoop ==
  /\ Init
  /\ [][(\E k \in Prios, ram \in Rams : SpawnProcess(k, ram)) \/ PollFaults \/ Tick \/ Elapse]_vars
  /\ WF_vars(Tick) /\ WF_vars(Elapse)

----------------------------------------------------------------------------
(* used_ram_mb is the sum of the quotas of the processes that exist and    *)
(* never more than there is, however they end (kill_process).              *)
RamAccounted ==
  used = MapThenSumSet(LAMBDA p : procs[p].ram, Live) /\ used <= TotalRam

(* A recovery decision always finds its process: a pending fault is one of *)
(* a process that exists, has crashed at least once and has no thread left *)
(* (poll_faults, kill_process, kill_group).                                *)
DecisionFindsProcess ==
  \A p \in faults : p \in Live /\ procs[p].crashes > 0 /\ p \notin DOMAIN threads

(* Only the current process is Running: a state set by any other call is   *)
(* never left behind by a switch (schedule_next, tick, force_preempt).     *)
RunningIsCurrent == \A p \in Live : procs[p].state = "Running" => p = current

(* Every process stands in the queue of its priority, once: set_priority   *)
(* and resolve_fault, which restores "the task's pre-run snapshot metadata"*)
(* (its priority among it), keep the queues and the table in step.         *)
QueuedOnce ==
  \A p \in Live, k \in Prios :
    Cardinality({i \in 1 .. Len(queue[k]) : queue[k][i] = p}) = IF procs[p].prio = k THEN 1 ELSE 0

(* aios-core fault.rs: "the interceptor freezes that task (the scheduler   *)
(* stops giving it CPU time)" until the recovery decision.                 *)
\* Refuted: section 5 of the README.
FaultedIsFrozen == \A p \in faults : procs[p].state = "Crashed"

(* docs/TODO.md: "Process aging: prevent starvation of low-priority        *)
(* processes".  A process that stays Ready is scheduled eventually.        *)
\* Refuted: section 5 of the README.
NoStarvation ==
  \A p \in 1 .. MaxPid : (p \in Live /\ procs[p].state = "Ready") ~> (p \notin Live \/ current = p)
=============================================================================
