------------------------------ MODULE Watchdog ------------------------------
(***************************************************************************)
(* The watchdog of aios-watchdog: a heartbeat thread of the orchestrator,  *)
(* the runner's thread that calls check_timeout every half interval, and   *)
(* the operator who may reset, force safe mode, escalate, read the actions *)
(* and stop the runner.                                                    *)
(*                                                                         *)
(* Time passes in units of half a heartbeat interval, the runner's sleep.  *)
(* A timestamp is kept as its age, which stops growing at MaxAge, past     *)
(* every threshold it is compared with.  A heartbeat with a wrong HMAC is  *)
(* refused with no effect and is left out, as are the event log and the    *)
(* totals.  The queue of actions is kept as a set: no code here reads its  *)
(* order.                                                                  *)
(***************************************************************************)
EXTENDS Integers, TLAPS

CONSTANTS
    MaxMissed,    \* max_missed_heartbeats
    Warn,         \* warn_threshold
    Recovery,     \* recovery_timeout_ms, in units
    MaxLate,      \* bound: units a live orchestrator is late, in all
    MaxCalls,     \* bound: resets and forced safe modes
    MayDie,       \* whether the orchestrator may stop for ever
    MayStop,      \* whether the runner may be stopped
    Tracked       \* bound: the actions whose place in the queue is followed

WatchdogAssumption ==
    /\ Warn \in Nat \ {0} /\ MaxMissed \in Nat \ {0}
    /\ Recovery \in Nat /\ MaxLate \in Nat /\ MaxCalls \in Nat
    /\ MayDie \in BOOLEAN /\ MayStop \in BOOLEAN

VARIABLES
    state, missed,
    last,         \* age of last_heartbeat, Never for None
    flying,       \* age of a heartbeat created but not yet received
    sinceBeat,    \* units since the orchestrator created one
    alive, late,
    runner,       \* the thread: "check", "push", "sleep" or "done"
    decided,      \* the action it has not pushed yet
    actions,      \* actions_received
    stopping,     \* stop_flag
    calls,
    recovering    \* units since the state became Recovering

wd == <<state, missed, last>>
beat == <<flying, sinceBeat, alive, late>>
thread == <<runner, decided, actions, stopping>>
vars == <<wd, beat, thread, calls, recovering>>

Interval == 2
Never == -1
MaxAge == Interval + MaxMissed + Recovery + 1
Older(age) == IF age = Never \/ age = MaxAge THEN age ELSE age + 1

(* Watchdog::new and WatchdogRunner::start; the orchestrator's first       *)
(* heartbeat is due at once                                                *)
Init ==
    /\ state = "Monitoring" /\ missed = 0 /\ last = Never
    /\ flying = Never /\ sinceBeat = Interval /\ alive = TRUE /\ late = 0
    /\ runner = "check" /\ decided = "None" /\ actions = {} /\ stopping = FALSE
    /\ calls = 0 /\ recovering = 0

-----------------------------------------------------------------------------
(* The orchestrator's heartbeat thread: create, then receive_heartbeat     *)
Beat ==
    /\ alive /\ flying = Never /\ sinceBeat >= Interval
    /\ flying' = 0 /\ sinceBeat' = 0
    /\ UNCHANGED <<wd, thread, alive, late, calls, recovering>>

Die ==
    /\ MayDie /\ alive
    /\ alive' = FALSE
    /\ UNCHANGED <<wd, thread, flying, sinceBeat, late, calls, recovering>>

RecoversNotWarned == {"Recovering", "SafeMode"}
Recovers == {"Recovering", "SafeMode", "Warned"}

MissedAfterHeartbeatKept == missed
MissedAfterHeartbeat == 0

ReceiveHeartbeat ==
    /\ flying # Never
    /\ missed' = MissedAfterHeartbeat
    /\ last' = flying
    /\ state' = IF state \in Recovers THEN "Monitoring" ELSE state
    /\ flying' = Never
    /\ UNCHANGED <<thread, sinceBeat, alive, late, calls, recovering>>

-----------------------------------------------------------------------------
(* Watchdog::check_timeout; Decides names the action it returns            *)
OverdueIfKnown == last # Never /\ last > Interval
Overdue == last = Never \/ last > Interval

Decides(action) ==
    /\ decided' = action
    /\ runner' = IF action = "None" THEN "sleep" ELSE "push"

CheckBeats ==
    /\ state \in {"Monitoring", "Warned"}
    /\ missed' = missed + (IF Overdue THEN 1 ELSE 0)
    /\ \/ /\ Overdue /\ missed' >= MaxMissed
          /\ state' = "Suspended" /\ Decides("SuspendOrchestrator")
       \/ /\ Overdue /\ missed' < MaxMissed
          /\ missed' >= Warn /\ state = "Monitoring"
          /\ state' = "Warned" /\ Decides("WarnOrchestrator")
       \/ /\ ~Overdue \/ (missed' < MaxMissed /\ (missed' < Warn \/ state = "Warned"))
          /\ state' = state /\ Decides("None")
    /\ UNCHANGED recovering

CheckSuspended ==
    /\ state = "Suspended"
    /\ state' = "Recovering" /\ recovering' = 0
    /\ Decides("KillProcess")
    /\ UNCHANGED missed

CheckRecovering ==
    /\ state = "Recovering"
    /\ IF last = Never \/ last > Recovery
       THEN state' = "SafeMode" /\ Decides("SafeModeShell")
       ELSE state' = state /\ Decides("WaitForRecovery")
    /\ UNCHANGED <<missed, recovering>>

CheckSafeMode ==
    /\ state = "SafeMode" /\ Decides("InSafeMode")
    /\ UNCHANGED <<state, missed, recovering>>

(* One pass of the runner's loop: the flag, the check under the watchdog's *)
(* lock, the push under the lock of the actions, the sleep                 *)
RunnerCheck ==
    /\ runner = "check" /\ ~stopping
    /\ CheckBeats \/ CheckSuspended \/ CheckRecovering \/ CheckSafeMode
    /\ UNCHANGED <<last, beat, actions, stopping, calls>>

RunnerPush ==
    /\ runner = "push"
    /\ actions' = actions \cup ({decided} \cap Tracked)
    /\ decided' = "None" /\ runner' = "sleep"
    /\ UNCHANGED <<wd, beat, stopping, calls, recovering>>

RunnerStops ==
    /\ runner = "check" /\ stopping /\ runner' = "done"
    /\ UNCHANGED <<wd, beat, decided, actions, stopping, calls, recovering>>

-----------------------------------------------------------------------------
(* The operator                                                            *)
Reset ==
    /\ calls < MaxCalls /\ calls' = calls + 1
    /\ state' = "Monitoring" /\ last' = Never /\ missed' = 0
    /\ UNCHANGED <<beat, thread, recovering>>

ForceSafeMode ==
    /\ calls < MaxCalls /\ calls' = calls + 1
    /\ state' = "SafeMode"
    /\ UNCHANGED <<missed, last, beat, thread, recovering>>

EscalateActions(s) ==
    CASE s = "SafeMode" -> {"DumpState", "SafeModeShell"}
      [] s = "Suspended" -> {"KillProcess", "DumpState"}
      [] s \in {"Recovering", "Warned"} -> {"DumpState"}
      [] s = "Monitoring" -> {}

Escalate ==
    /\ calls < MaxCalls /\ calls' = calls + 1
    /\ actions' = actions \cup (EscalateActions(state) \cap Tracked)
    /\ UNCHANGED <<wd, beat, runner, decided, stopping, recovering>>

PopActions ==
    /\ actions # {} /\ actions' = {}
    /\ UNCHANGED <<wd, beat, runner, decided, stopping, calls, recovering>>

Stop ==
    /\ MayStop /\ ~stopping /\ stopping' = TRUE
    /\ UNCHANGED <<wd, beat, runner, decided, actions, calls, recovering>>

-----------------------------------------------------------------------------
(* A heartbeat is due and not received: letting time pass makes it late    *)
Due == alive /\ (flying # Never \/ sinceBeat >= Interval)

Elapse ==
    /\ Due => late < MaxLate
    /\ late' = IF Due THEN late + 1 ELSE late
    /\ last' = Older(last) /\ flying' = Older(flying)
    /\ sinceBeat' = IF sinceBeat < Interval THEN sinceBeat + 1 ELSE sinceBeat
    /\ runner' = IF runner = "sleep" THEN "check" ELSE runner
    /\ recovering' = IF state # "Recovering" THEN 0
                     ELSE IF recovering > Recovery THEN recovering ELSE recovering + 1
    /\ UNCHANGED <<state, missed, alive, decided, actions, stopping, calls>>

Next ==
    \/ Beat \/ ReceiveHeartbeat \/ Die
    \/ RunnerCheck \/ RunnerPush \/ RunnerStops
    \/ Reset \/ ForceSafeMode \/ Escalate \/ PopActions \/ Stop
    \/ Elapse

(* Fairness: both threads are scheduled by the operating system, and time  *)
(* passes.  The operator owes nothing.                                     *)
Fairness ==
    /\ WF_vars(Beat) /\ WF_vars(ReceiveHeartbeat)
    /\ WF_vars(RunnerCheck) /\ WF_vars(RunnerPush) /\ WF_vars(RunnerStops)
    /\ WF_vars(Elapse)

Spec == Init /\ [][Next]_vars
LiveSpec == Spec /\ Fairness

-----------------------------------------------------------------------------

Suspends == state # "Suspended" /\ state' = "Suspended"

(* check_timeout suspends the orchestrator only after a silence: its last  *)
(* heartbeat is older than the interval by one check for every miss        *)
(* counted, however late heartbeats come and whatever the operator does.   *)
SuspendedAfterSilence ==
    [][Suspends => last = Never \/ last >= Interval + MaxMissed]_vars

(* "max_missed_heartbeats - consecutive misses before suspension": as many *)
(* heartbeats as that were due since the last one.                         *)
\* Refuted: section 5 of the README.
SuspendedAfterMisses ==
    [][Suspends => last = Never \/ last \div Interval >= MaxMissed]_vars

(* "recovery_timeout_ms - time to wait for recovery before Safe Mode":     *)
(* check_timeout enters safe mode only when it has waited that long.       *)
\* Refuted: section 5 of the README.
SafeModeAfterWaiting ==
    [][state = "Recovering" /\ RunnerCheck /\ state' = "SafeMode"
         => recovering > Recovery]_vars

(* An orchestrator that stops for ever ends in safe mode, unless the       *)
(* watchdog itself is stopped.                                             *)
Silenced == state = "SafeMode" \/ stopping
DeadEndsInSafeMode == ~alive ~> Silenced

(* An orchestrator that is late only finitely often ends up, and stays,    *)
(* in Monitoring, from every state the delays and the operator led to.     *)
HealthyIsMonitored == <>[](state = "Monitoring")

-----------------------------------------------------------------------------
(* What holds between any two steps.  A miss is counted by a check, two    *)
(* checks are at least a unit apart, and the first miss finds the          *)
(* heartbeat older than the interval: so the age exceeds the interval by   *)
(* one unit for every miss, and by one more when the next check is due.    *)
(* The count ends at MaxMissed, which MaxAge lies beyond.                  *)

States == {"Monitoring", "Warned", "Suspended", "Recovering", "SafeMode"}
Ages == {Never} \cup 0 .. MaxAge

TypeOK ==
    /\ state \in States /\ missed \in 0 .. MaxMissed
    /\ last \in Ages /\ flying \in Ages
    /\ runner \in {"check", "push", "sleep", "done"}

Watched == state \in {"Monitoring", "Warned"} => missed < MaxMissed

MissesAreOld ==
    missed > 0 /\ last # Never =>
        last >= Interval + missed + (IF runner = "check" THEN 1 ELSE 0)

SilenceInv == TypeOK /\ Watched /\ MissesAreOld

(* Ages stay within their range as time passes                             *)
LEMMA OlderIsAge ==
    ASSUME WatchdogAssumption, NEW age \in Ages
    PROVE  /\ Older(age) \in Ages
           /\ age = Never => Older(age) = Never
           /\ age # Never => Older(age) = MaxAge \/ Older(age) = age + 1
BY DEF WatchdogAssumption, Ages, Older, MaxAge, Interval, Never

(* Watchdog::new: no heartbeat and no miss yet                             *)
LEMMA SilenceInit == ASSUME WatchdogAssumption, Init PROVE SilenceInv
BY DEF WatchdogAssumption, Init, SilenceInv, TypeOK, Watched, MissesAreOld, States, Ages, Never

(* A pass of check_timeout counts at most one miss, and only when the      *)
(* heartbeat is overdue                                                    *)
LEMMA SilenceCheck ==
    ASSUME WatchdogAssumption, SilenceInv, RunnerCheck
    PROVE  SilenceInv'
<1> USE DEF SilenceInv, WatchdogAssumption
<1>1. last' = last /\ flying' = flying /\ runner = "check"
  BY DEF RunnerCheck, beat
<1>2. runner' \in {"push", "sleep"} /\ MaxMissed \in Nat /\ missed \in 0 .. MaxMissed
  BY DEF RunnerCheck, CheckBeats, CheckSuspended, CheckRecovering, CheckSafeMode, Decides, TypeOK
<1>3. CASE CheckBeats
  <2>1. missed < MaxMissed
    BY <1>3 DEF CheckBeats, Watched
  <2>2. missed' = missed + (IF Overdue THEN 1 ELSE 0) /\ missed' \in 0 .. MaxMissed
    BY <1>2, <1>3, <2>1 DEF CheckBeats
  <2>3. TypeOK'
    BY <1>1, <1>2, <1>3, <2>2 DEF CheckBeats, TypeOK, States, Ages, MaxAge
  <2>4. Watched'
    BY <1>2, <1>3, <2>1, <2>2 DEF CheckBeats, Watched
  <2>5. MissesAreOld'
    BY <1>1, <1>2, <2>2 DEF MissesAreOld, Overdue, TypeOK, Ages, Interval, Never, MaxAge
  <2> QED BY <2>3, <2>4, <2>5
<1>4. CASE CheckSuspended \/ CheckRecovering \/ CheckSafeMode
  <2>1. missed' = missed /\ state' \in {"Recovering", "SafeMode"}
    BY <1>4 DEF CheckSuspended, CheckRecovering, CheckSafeMode
  <2>2. TypeOK' /\ Watched'
    BY <1>1, <1>2, <2>1 DEF TypeOK, Watched, States, Ages, MaxAge
  <2>3. MissesAreOld'
    BY <1>1, <1>2, <2>1 DEF MissesAreOld, TypeOK, Ages, Interval, Never, MaxAge
  <2> QED BY <2>2, <2>3
<1> QED BY <1>3, <1>4 DEF RunnerCheck

(* Time passes: the age grows with the sleep that the next check ends      *)
LEMMA SilenceElapse ==
    ASSUME WatchdogAssumption, SilenceInv, Elapse
    PROVE  SilenceInv'
<1> USE DEF SilenceInv
<1>1. state' = state /\ missed' = missed /\ last' = Older(last) /\ flying' = Older(flying)
  BY DEF Elapse
<1>2. runner' = (IF runner = "sleep" THEN "check" ELSE runner)
  BY DEF Elapse
<1>3. last \in Ages /\ flying \in Ages
  BY DEF TypeOK
<1>4. last' \in Ages /\ flying' \in Ages
  BY <1>1, <1>3, OlderIsAge
<1>5. TypeOK' /\ Watched'
  BY <1>1, <1>2, <1>4 DEF TypeOK, Watched, Ages, MaxAge
<1>6. MissesAreOld'
  <2>1. /\ last = Never => last' = Never
        /\ last # Never => last' = MaxAge \/ last' = last + 1
    BY <1>1, <1>3, OlderIsAge
  <2>2. missed \in 0 .. MaxMissed /\ MaxMissed \in Nat /\ Recovery \in Nat
    BY DEF TypeOK, WatchdogAssumption
  <2> QED BY <1>1, <1>2, <1>3, <2>1, <2>2 DEF MissesAreOld, Ages, MaxAge, Interval, Never
<1> QED BY <1>5, <1>6

(* Every step keeps the invariant                                          *)
LEMMA SilenceStep ==
    ASSUME WatchdogAssumption, SilenceInv, [Next]_vars
    PROVE  SilenceInv'
<1> USE DEF SilenceInv
<1>1. CASE Beat
  BY <1>1 DEF Beat, wd, thread, TypeOK, Watched, MissesAreOld, Ages, MaxAge, Interval, WatchdogAssumption
<1>2. CASE ReceiveHeartbeat
  <2>1. missed' = 0 /\ last' = flying /\ flying' = Never /\ runner' = runner /\ state' \in States
    BY <1>2 DEF ReceiveHeartbeat, MissedAfterHeartbeat, thread, States, TypeOK
  <2> QED BY <2>1 DEF TypeOK, Watched, MissesAreOld, Ages, MaxAge, WatchdogAssumption
<1>3. CASE RunnerCheck
  BY <1>3, SilenceCheck
<1>4. CASE RunnerPush \/ RunnerStops
  <2>1. UNCHANGED <<state, missed, last, flying>> /\ runner' \in {"sleep", "done"}
    BY <1>4 DEF RunnerPush, RunnerStops, wd, beat
  <2> QED BY <2>1 DEF TypeOK, Watched, MissesAreOld, Ages, MaxAge, Interval, WatchdogAssumption
<1>5. CASE Reset
  <2>1. state' = "Monitoring" /\ last' = Never /\ missed' = 0 /\ flying' = flying /\ runner' = runner
    BY <1>5 DEF Reset, beat, thread
  <2> QED BY <2>1 DEF TypeOK, Watched, MissesAreOld, States, Ages, MaxAge, WatchdogAssumption
<1>6. CASE ForceSafeMode
  <2>1. state' = "SafeMode" /\ UNCHANGED <<missed, last, flying, runner>>
    BY <1>6 DEF ForceSafeMode, beat, thread
  <2> QED BY <2>1 DEF TypeOK, Watched, MissesAreOld, States, Ages, MaxAge
<1>7. CASE Die \/ Escalate \/ PopActions \/ Stop \/ UNCHANGED vars
  <2>1. UNCHANGED <<state, missed, last, flying, runner>>
    BY <1>7 DEF Die, Escalate, PopActions, Stop, vars, wd, beat, thread
  <2> QED BY <2>1 DEF TypeOK, Watched, MissesAreOld, Ages, MaxAge
<1>8. CASE Elapse
  BY <1>8, SilenceElapse
<1> QED BY <1>1, <1>2, <1>3, <1>4, <1>5, <1>6, <1>7, <1>8 DEF Next

(* Only check_timeout suspends, with the last of the misses                *)
LEMMA SuspendStep ==
    ASSUME WatchdogAssumption, SilenceInv, [Next]_vars, Suspends
    PROVE  last = Never \/ last >= Interval + MaxMissed
<1>1. RunnerCheck /\ CheckBeats
  BY DEF Suspends, Next, Beat, ReceiveHeartbeat, Die, RunnerCheck, RunnerPush, RunnerStops, Reset,
     ForceSafeMode, Escalate, PopActions, Stop, Elapse, CheckSuspended, CheckRecovering,
     CheckSafeMode, vars, wd
<1>2. Overdue /\ missed' = missed + 1 /\ missed' >= MaxMissed /\ runner = "check"
  BY <1>1 DEF Suspends, CheckBeats, RunnerCheck
<1> QED
  BY <1>2 DEF SilenceInv, TypeOK, MissesAreOld, Overdue, Ages, MaxAge, Interval, Never, WatchdogAssumption

(* A suspension follows a silence of the interval and one unit for each of *)
(* the misses that max_missed_heartbeats allows, for every configuration,  *)
(* any lateness and any number of calls of the operator                    *)
THEOREM SuspensionFollowsSilence ==
    ASSUME WatchdogAssumption
    PROVE  Spec => SuspendedAfterSilence
<1>1. Init => SilenceInv
  BY SilenceInit
<1>2. SilenceInv /\ [Next]_vars => SilenceInv'
  BY SilenceStep
<1>3. SilenceInv /\ [Next]_vars => [Suspends => last = Never \/ last >= Interval + MaxMissed]_vars
  BY SuspendStep
<1> QED BY <1>1, <1>2, <1>3, PTL DEF Spec, SuspendedAfterSilence
=============================================================================
