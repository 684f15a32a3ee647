---------------------------- MODULE KernelFault ----------------------------
(***************************************************************************)
(* The bare-metal kernel's task scheduler (aios-kernel/src/sched.rs), its   *)
(* interrupt-level fault interceptor and hang watchdog (fault.rs), the      *)
(* interrupt entries that drive them (interrupts.rs, syscalls.rs) and the   *)
(* crash dialog that answers them (gui.rs).                                 *)
(*                                                                         *)
(* The kernel is single-CPU and interrupt gates do not nest, so every      *)
(* interrupt handler is one action.  The specification starts at the end   *)
(* of boot, when boot_finished() has deregistered the boot context.        *)
(*                                                                         *)
(* Time is kept as ages instead of absolute ticks: stallAge[p] stands for   *)
(* TICKS - STALL_SINCE[p], activityAge[p] for TICKS - LAST_ACTIVITY[p]      *)
(* (both capped at HangTicks, the only value they are compared with),      *)
(* sinceSwitch for TICKS - LAST_SWITCH_TICK, and sleep[p] for the ticks     *)
(* left until sleep_until.  A trap frame is its rip and the rest of the     *)
(* register bundle; the FNV hash that seals a snapshot is taken to be      *)
(* injective, so comparing hashes is comparing frames.                     *)
(***************************************************************************)
EXTENDS Integers, Sequences

CONSTANTS
    MaxTasks,       \* MAX_TASKS: slot 0 idle, slot 1 kernel worker, the rest ring 3
    HangTicks,      \* HANG_WATCHDOG_TICKS
    SwitchDivider,  \* SWITCH_DIVIDER
    MaxSleep,       \* longest SYS_SLEEP request considered
    MaxFaults,      \* MAX_FAULTS_PER_TASK
    EventLen,       \* FAULT_EVENT_LEN
    Rips, Regs,     \* instruction pointers and the other registers of a frame
    NoRip           \* the 0 that reset_stall writes into STALL_RIP

ASSUME KernelAssumption ==
    /\ MaxTasks \in Nat /\ MaxTasks > 2
    /\ HangTicks \in Nat \ {0}
    /\ SwitchDivider \in Nat \ {0}
    /\ MaxSleep \in Nat \ {0}
    /\ MaxFaults \in Nat
    /\ EventLen \in Nat \ {0}
    /\ NoRip \notin Rips

VARIABLES
    present,      \* slots that hold a registered task
    sleep,        \* ticks until the task may run, Frozen for a frozen task
    frame,        \* the saved trap frame of each ring-3 slot
    cur,          \* CURRENT: the running slot, -1 for the abandoned boot context
    stallAge, stallRip, activityAge,   \* the hang watchdog's bookkeeping
    sinceSwitch,  \* ticks since the timer last called schedule
    thermal,      \* the last temperature reading, see Thermal
    queue,        \* the system fault queue, oldest record first
    count,        \* CRASH_COUNTS
    events,       \* the fault event ring, oldest event first
    overlap       \* history: some exception's own schedule() also reported a hang

vars == <<present, sleep, frame, cur, stallAge, stallRip, activityAge,
          sinceSwitch, thermal, queue, count, events, overlap>>

Slots == 0 .. MaxTasks - 1
UserSlots == 2 .. MaxTasks - 1
KernelSlots == {0, 1}
Frozen == MaxSleep + 1
FaultQueueLen == MaxTasks
U8Max == 255
Frame == [rip : Rips, regs : Regs]
Kinds == {"exception", "hang"}
Thermal == {"normal", "critical", "simulated"}   \* critical(): real DTS, at the gate
Recoveries == {"Resume", "Terminate", "Rollback"}
Record == [pid : UserSlots, kind : Kinds, frame : Frame, count : 1 .. U8Max]
Event == [pid : UserSlots, kind : Kinds, count : 1 .. U8Max]

Least(a, b) == IF a < b THEN a ELSE b

-----------------------------------------------------------------------------
(* The part of the kernel state that a handler passes from one call to the  *)
(* next: Kernel is its value on entry, and the operators below are the      *)
(* calls.                                                                   *)
Kernel == [sleep |-> sleep, frame |-> frame, stallAge |-> stallAge,
           stallRip |-> stallRip, activityAge |-> activityAge,
           queue |-> queue, count |-> count, events |-> events]

Commit(k) ==
    /\ sleep' = k.sleep
    /\ frame' = k.frame
    /\ stallAge' = k.stallAge
    /\ stallRip' = k.stallRip
    /\ activityAge' = k.activityAge
    /\ queue' = k.queue
    /\ count' = k.count
    /\ events' = k.events

(* post_event: on overflow the oldest event makes room for the new one. *)
PostEvent(ev, e) ==
    IF Len(ev) >= EventLen THEN Append(Tail(ev), e) ELSE Append(ev, e)

(* publish: charge the task, post the event, enqueue unless the queue is full. *)
Publish(k, p, kind, f) ==
    LET c == Least(k.count[p] + 1, U8Max)
        record == [pid |-> p, kind |-> kind, frame |-> f, count |-> c]
    IN  [k EXCEPT
           !.count = [@ EXCEPT ![p] = c],
           !.events = PostEvent(@, [pid |-> p, kind |-> kind, count |-> c]),
           !.queue = IF Len(@) >= FaultQueueLen THEN @ ELSE Append(@, record)]

(* Mutant: the record is published but the task is left runnable. *)
FreezeTaskForgotten(k, p) == k

FreezeTask(k, p) == [k EXCEPT !.sleep = [@ EXCEPT ![p] = Frozen]]

NoteActivity(k, p) == [k EXCEPT !.activityAge = [@ EXCEPT ![p] = 0]]

ResetStall(k, p) ==
    [k EXCEPT !.stallAge = [@ EXCEPT ![p] = 0],
              !.stallRip = [@ EXCEPT ![p] = NoRip],
              !.activityAge = [@ EXCEPT ![p] = 0]]

(* Mutant: a deadline of 0 is counted down too. *)
ElapseUnderflow(k) ==
    [k EXCEPT
       !.sleep = [s \in Slots |-> IF @[s] # Frozen THEN @[s] - 1 ELSE @[s]],
       !.stallAge = [p \in UserSlots |-> Least(@[p] + 1, HangTicks)],
       !.activityAge = [p \in UserSlots |-> Least(@[p] + 1, HangTicks)]]

(* Mutant: the deadline of a frozen task is counted down too. *)
ElapseThaws(k) ==
    [k EXCEPT
       !.sleep = [s \in Slots |-> IF @[s] > 0 THEN @[s] - 1 ELSE @[s]],
       !.stallAge = [p \in UserSlots |-> Least(@[p] + 1, HangTicks)],
       !.activityAge = [p \in UserSlots |-> Least(@[p] + 1, HangTicks)]]

(* One more tick has passed for every deadline and every age. *)
Elapse(k) ==
    [k EXCEPT
       !.sleep = [s \in Slots |-> IF @[s] \in 1 .. MaxSleep THEN @[s] - 1 ELSE @[s]],
       !.stallAge = [p \in UserSlots |-> Least(@[p] + 1, HangTicks)],
       !.activityAge = [p \in UserSlots |-> Least(@[p] + 1, HangTicks)]]

(* The stall age schedule() arrives at for the outgoing task p trapped in f: *)
(* a moved rip restarts the clock, a later syscall moves the anchor up.      *)
StallAge(k, p, f) ==
    Least(IF k.stallRip[p] # f.rip THEN 0 ELSE k.stallAge[p], k.activityAge[p])

Hung(k, p, f) == StallAge(k, p, f) >= HangTicks

(* The outgoing-context refresh of schedule() for ring-3 task p, with the    *)
(* hang watchdog and, when it fires, record_hang.                            *)
Refresh(k, p, f) ==
    LET saved == [k EXCEPT !.frame = [@ EXCEPT ![p] = f],
                           !.stallRip = [@ EXCEPT ![p] = f.rip],
                           !.stallAge = [@ EXCEPT ![p] = StallAge(k, p, f)]]
        hang == FreezeTask(Publish(saved, p, "hang", f), p)
    IN  IF Hung(k, p, f)
        THEN [hang EXCEPT !.stallAge = [@ EXCEPT ![p] = 0]]
        ELSE saved

(* Mutant: the rotation always starts at slot 0. *)
DistanceFromZero(c) == c

(* How far the rotation of schedule() is from slot c when it starts after cur. *)
Distance(c) == (c + MaxTasks - cur - 1) % MaxTasks

(* Mutant: the rotation does not look at sleep_until. *)
RunnableAsleep(k) ==
    {c \in Slots : c \in present /\ c # cur /\ ~ (thermal = "critical" /\ c \in UserSlots)}

Runnable(k) ==
    {c \in Slots : /\ c \in present
                   /\ c # cur
                   /\ k.sleep[c] = 0
                   /\ ~ (thermal = "critical" /\ c \in UserSlots)}

(* The rotation: the nearest runnable slot, or no switch when there is none. *)
Rotate(k) ==
    \/ /\ Runnable(k) = {}
       /\ cur' = cur
    \/ \E next \in Runnable(k) :
          /\ \A c \in Runnable(k) : Distance(next) <= Distance(c)
          /\ cur' = next

(* schedule() entered with kernel state k while the outgoing task is in f.   *)
Schedule(k, f) ==
    LET out == IF cur \in UserSlots THEN Refresh(k, cur, f) ELSE k
    IN  Commit(out) /\ Rotate(out)

-----------------------------------------------------------------------------
(* boot_finished(): the idle task and the worker are registered, user::init  *)
(* has spawned the ring-3 tasks in slot order until one failed.              *)
Init ==
    /\ \E last \in 1 .. MaxTasks - 1 : present = 0 .. last
    /\ sleep = [s \in Slots |-> 0]
    /\ frame \in [UserSlots -> Frame]
    /\ cur = -1
    /\ stallAge = [p \in UserSlots |-> 0]
    /\ stallRip = [p \in UserSlots |-> NoRip]
    /\ activityAge = [p \in UserSlots |-> 0]
    /\ sinceSwitch = 0
    /\ thermal \in Thermal
    /\ queue = <<>>
    /\ count = [p \in UserSlots |-> 0]
    /\ events = <<>>
    /\ overlap = FALSE

(* The timer interrupt (vector 32 or the LAPIC vector): advance TICKS, then   *)
(* sched::tick, which calls schedule() every SwitchDivider ticks.  A hardware *)
(* tick never switches a running ring-0 task away.                           *)
TimerTick(f) ==
    /\ IF sinceSwitch + 1 < SwitchDivider
       THEN sinceSwitch' = sinceSwitch + 1 /\ Commit(Elapse(Kernel)) /\ UNCHANGED cur
       ELSE /\ sinceSwitch' = 0
            /\ IF cur \in KernelSlots
               THEN Commit(Elapse(Kernel)) /\ UNCHANGED cur
               ELSE Schedule(Elapse(Kernel), f)
    /\ UNCHANGED <<present, thermal, overlap>>

(* yield_kernel (int 0xfa) from the idle loop, the worker or the boot context. *)
YieldKernel ==
    /\ cur \notin UserSlots
    /\ \E f \in Frame : Schedule(Kernel, f)
    /\ UNCHANGED <<present, sinceSwitch, thermal, overlap>>

(* int 0x80 other than sleep and fault poll: every syscall is a heartbeat.   *)
Syscall ==
    /\ cur \in UserSlots
    /\ Commit(NoteActivity(Kernel, cur))
    /\ UNCHANGED <<present, cur, sinceSwitch, thermal, overlap>>

(* SYS_FAULT_POLL: drain the oldest fault event. *)
FaultPoll ==
    /\ cur \in UserSlots
    /\ events # <<>>
    /\ Commit([NoteActivity(Kernel, cur) EXCEPT !.events = Tail(@)])
    /\ UNCHANGED <<present, cur, sinceSwitch, thermal, overlap>>

(* SYS_SLEEP for n ticks: a zero request still sleeps for one tick. *)
Sleep(n, f) ==
    /\ cur \in UserSlots
    /\ LET k == NoteActivity(Kernel, cur)
           asleep == [k EXCEPT !.sleep = [@ EXCEPT ![cur] = IF n < 1 THEN 1 ELSE n]]
       IN  Schedule(asleep, f)
    /\ UNCHANGED <<present, sinceSwitch, thermal, overlap>>

(* A CPU exception in ring 3: intercept publishes, freezes and reschedules.   *)
Intercept(f) ==
    /\ cur \in UserSlots
    /\ LET k == FreezeTask(Publish(Kernel, cur, "exception", f), cur)
       IN  /\ Schedule(k, f)
           /\ overlap' = (overlap \/ Hung(k, cur, f))
    /\ UNCHANGED <<present, sinceSwitch, thermal>>

(* thermal::poll, run by the idle loop: once the DTS readout is lost it stays *)
(* simulated, and a simulated temperature never pauses user tasks.            *)
ThermalPoll ==
    /\ cur = 0
    /\ thermal' \in IF thermal = "simulated" THEN {"simulated"} ELSE Thermal
    /\ UNCHANGED <<present, sleep, frame, cur, stallAge, stallRip, activityAge,
                   sinceSwitch, queue, count, events, overlap>>

(* Mutant: off by one in the fault budget. *)
OverBudgetByOne(record) == record.count > MaxFaults + 1

OverBudget(record) == record.count > MaxFaults

(* task_snapshot: the frozen task still carries the frame it was queued with. *)
Intact(record) == record.pid \in present /\ frame[record.pid] = record.frame

(* remove_task, with the counter reset that both callers make. *)
RemoveTask(k, p) ==
    LET gone == [k EXCEPT !.sleep = [@ EXCEPT ![p] = 0]]
        k1 == IF p \in present THEN ResetStall(gone, p) ELSE k
    IN  [k1 EXCEPT !.count = [@ EXCEPT ![p] = 0]]

UnfreezeTask(k, p) ==
    IF p \in present
    THEN ResetStall([k EXCEPT !.sleep = [@ EXCEPT ![p] = 0]], p)
    ELSE k

RestoreTask(k, p, f) ==
    IF p \in present
    THEN UnfreezeTask([k EXCEPT !.frame = [@ EXCEPT ![p] = f]], p)
    ELSE k

(* The crash dialog, in the idle context, applies one decision to the front  *)
(* record (fault::resolve).  Over budget only Terminate is taken.            *)
Resolve(action) ==
    /\ cur = 0
    /\ queue # <<>>
    /\ LET record == Head(queue)
           p == record.pid
           popped == [Kernel EXCEPT !.queue = Tail(@)]
           removes == action = "Terminate" \/ (action = "Resume" /\ ~ Intact(record))
       IN  /\ action = "Terminate" \/ ~ OverBudget(record)
           /\ present' = IF removes THEN present \ {p} ELSE present
           /\ Commit(CASE removes -> RemoveTask(popped, p)
                       [] action = "Rollback" -> RestoreTask(popped, p, record.frame)
                       [] OTHER -> UnfreezeTask(popped, p))
    /\ UNCHANGED <<cur, sinceSwitch, thermal, overlap>>

Next ==
    \/ \E f \in Frame : TimerTick(f)
    \/ YieldKernel
    \/ Syscall
    \/ FaultPoll
    \/ \E n \in 0 .. MaxSleep, f \in Frame : Sleep(n, f)
    \/ \E f \in Frame : Intercept(f)
    \/ ThermalPoll
    \/ \E action \in Recoveries : Resolve(action)

Spec == Init /\ [][Next]_vars

-----------------------------------------------------------------------------

TypeOK ==
    /\ present \subseteq Slots
    /\ sleep \in [Slots -> 0 .. Frozen]
    /\ frame \in [UserSlots -> Frame]
    /\ cur \in Slots \cup {-1}
    /\ stallAge \in [UserSlots -> 0 .. HangTicks]
    /\ stallRip \in [UserSlots -> Rips \cup {NoRip}]
    /\ activityAge \in [UserSlots -> 0 .. HangTicks]
    /\ sinceSwitch \in 0 .. SwitchDivider - 1
    /\ thermal \in Thermal
    /\ queue \in Seq(Record)
    /\ count \in [UserSlots -> 0 .. U8Max]
    /\ events \in Seq(Event)
    /\ overlap \in BOOLEAN

Queued(p) == \E i \in 1 .. Len(queue) : queue[i].pid = p

(* The kernel's own two tasks are never put to sleep or removed: this is why *)
(* the rotation always finds a successor for a task that must stop.          *)
KernelTasksReady ==
    /\ KernelSlots \subseteq present
    /\ \A s \in KernelSlots : sleep[s] = 0

(* A frozen, sleeping or removed ring-3 task never holds the CPU after an    *)
(* interrupt: whatever froze it (intercept, record_hang, sleep_current), the *)
(* same handler's schedule() moved on to another slot.                       *)
CurrentIsRunnable ==
    cur \in UserSlots => cur \in present /\ sleep[cur] = 0

(* While no exception has coincided with a hang report, the fault queue is   *)
(* what fault.rs says it is: every waiting record belongs to a task that is  *)
(* frozen with exactly the sealed frame and charged exactly the recorded     *)
(* count, no task waits twice, every frozen task waits (none is lost), and   *)
(* the queue is never full.                                                  *)
RecordsMatchTasks ==
    \A i \in 1 .. Len(queue) :
        LET r == queue[i]
        IN  /\ r.pid \in present
            /\ sleep[r.pid] = Frozen
            /\ frame[r.pid] = r.frame
            /\ count[r.pid] = r.count

RecordsUnique ==
    \A i, j \in 1 .. Len(queue) : queue[i].pid = queue[j].pid => i = j

FrozenIsQueued ==
    \A p \in UserSlots : p \in present /\ sleep[p] = Frozen => Queued(p)

QueueSound ==
    overlap \/ /\ RecordsMatchTasks
               /\ RecordsUnique
               /\ FrozenIsQueued
               /\ Len(queue) < FaultQueueLen

(* A frozen task is given back to the scheduler only by resolving a record   *)
(* of its own, and it comes back with the frame sealed in that record:       *)
(* Resume refuses a frame that changed, Rollback restores it.                *)
Thaws(p) == p \in present' /\ sleep[p] = Frozen /\ sleep'[p] # Frozen

ThawRestoresSnapshot ==
    [][\A p \in UserSlots : Thaws(p) =>
          /\ queue # <<>>
          /\ Head(queue).pid = p
          /\ frame'[p] = Head(queue).frame]_vars

(* A task that failed more than MaxFaults times is not revived, as long as   *)
(* no exception coincided with a hang report.                                *)
BudgetLocks ==
    [][\A p \in UserSlots : Thaws(p) => overlap \/ count[p] <= MaxFaults]_vars

(* fault.rs, on the queue length: "a task is frozen while its record waits". *)
\* Refuted: section 5 of the README.
QueuedIsFrozen ==
    \A i \in 1 .. Len(queue) :
        queue[i].pid \in present => sleep[queue[i].pid] = Frozen

(* Unless the CPU stays too hot, round robin starves nobody: a    *)
(* ring-3 task that is neither frozen nor removed gets the CPU again.        *)
EveryTaskRuns ==
    \A p \in UserSlots :
        <>[](thermal # "critical") =>
            ((p \in present /\ sleep[p] # Frozen)
                ~> (cur = p \/ p \notin present \/ sleep[p] = Frozen))

=============================================================================
