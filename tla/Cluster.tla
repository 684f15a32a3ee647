------------------------------- MODULE Cluster -------------------------------
(***************************************************************************)
(* aios-cluster scheduler.rs: one coordinator that spawns, kills, migrates *)
(* and fails over processes on worker nodes.  Every call of the            *)
(* coordinator sends one request and dispatches incoming messages until    *)
(* the answer or the ack timeout, so the calls are split at their waits.   *)
(* Each TCP message has a connection and a reader thread of its own:       *)
(* messages arrive in any order, late, or (dead peer, dead link) never.    *)
(* Silence, the checkpoint time-to-live and the ack timeout are real time, *)
(* hence nondeterministic.  The opaque state of a process is represented   *)
(* by the name of the spec of the process it was extracted from.           *)
(***************************************************************************)
EXTENDS Naturals, FiniteSets, Functions

CONSTANTS N,            \* worker nodes 1..N; the coordinator is none of them
          Specs,        \* process specs, each spawned at most once by the user
          RoundRobin,   \* PlacementStrategy; otherwise load or tier decides
          MaxRequests,  \* bound: no new call after that many requests
          MaxTicks,     \* bound: ticks that drop or suspect anything
          Replicating,  \* bound: whether the workers replicate checkpoints
          MaxCrashes    \* bound: worker crashes

Worker == 1 .. N

ASSUME ClusterAssumption ==
  N \in Nat \ {0} /\ RoundRobin \in BOOLEAN /\ MaxCrashes \in Nat
  /\ MaxRequests \in Nat /\ MaxTicks \in Nat /\ Replicating \in BOOLEAN

VARIABLES status,    \* nodes: NodeStatus per worker, "None" if not in the map
          specs,     \* spawned_specs: RemoteProcessId -> spec
          ckpt,      \* checkpoints: RemoteProcessId -> state
          pending,   \* pending request, id 0 for None
          result,    \* spawn_result, ctrl_result or get_state_result
          call,      \* the call being executed, with the caller it returns to
          cursor,    \* rr_cursor
          nextReq,   \* next_request_id
          failing,   \* tick: failed nodes still to be handled
          victims,   \* tick: processes of the current failed node to respawn
          up, procs, nextPid,   \* workers: running?, executor's processes, pids
          msgs,      \* messages in flight
          asked, killed,        \* history: specs the user spawned / killed
          ran,       \* history: <<rid, spec>> of every process ever started
          crashes, ticks,       \* history: how many
          disturbed  \* history: a timeout, a suspicion or a crash happened

coord   == <<status, specs, ckpt, pending, result, call, cursor, nextReq, failing, victims>>
workers == <<up, procs, nextPid>>
ghosts  == <<asked, killed, ran, crashes, ticks, disturbed>>
vars    == <<coord, workers, msgs, ghosts>>

NoState == "none"
NoRid   == [node |-> 0, pid |-> 0]
NoReq   == [id |-> 0, kind |-> "none", node |-> 0]
NoRes   == [st |-> "none"]
Err     == [st |-> "err"]

(* A request yet to be sent for the call op; outer is what it returns to.  *)
Call(op, rid, s, target, state, outer, src) ==
  [op |-> op, sent |-> FALSE, rid |-> rid, spec |-> s, target |-> target,
   state |-> state, outer |-> outer, src |-> src]

Idle == Call("idle", NoRid, NoState, 0, NoState, "user", NoRid)
Free == call = Idle /\ failing = {} /\ victims = {}

Init ==
  /\ status = [n \in Worker |-> "None"] /\ specs = <<>> /\ ckpt = <<>>
  /\ pending = NoReq /\ result = NoRes /\ call = Idle /\ cursor = 0 /\ nextReq = 1
  /\ failing = {} /\ victims = {}
  /\ up = [n \in Worker |-> TRUE] /\ procs = {} /\ nextPid = [n \in Worker |-> 1]
  /\ msgs = {}
  /\ asked = {} /\ killed = {} /\ ran = {} /\ crashes = 0 /\ ticks = 0 /\ disturbed = FALSE

----------------------------------------------------------------------------
(* The user's calls                                                        *)

Enter(c) ==
  /\ Free /\ nextReq <= MaxRequests
  /\ call' = c /\ result' = NoRes
  /\ UNCHANGED <<status, specs, ckpt, pending, cursor, nextReq, failing, victims, workers, msgs>>

Spawn(s, target) ==
  /\ s \notin asked
  /\ Enter(Call("spawn", NoRid, s, target, NoState, "user", NoRid))
  /\ asked' = asked \cup {s} /\ UNCHANGED <<killed, ran, crashes, ticks, disturbed>>

Kill(rid) ==
  /\ Enter(Call("kill", rid, NoState, 0, NoState, "user", NoRid))
  /\ killed' = killed \cup {specs[rid]} /\ UNCHANGED <<asked, ran, crashes, ticks, disturbed>>

SetPriority(rid) ==
  Enter(Call("prio", rid, NoState, 0, NoState, "user", NoRid)) /\ UNCHANGED ghosts

(* migrate: the state of the source, a copy on the target, then the kill   *)
Migrate(rid, target) ==
  /\ target # rid.node
  /\ Enter(Call("state", rid, specs[rid], target, NoState, "migrate", rid))
  /\ UNCHANGED ghosts

----------------------------------------------------------------------------
(* Sending a request                                                       *)

Candidates == {n \in Worker : status[n] = "Online"}

(* select_node: the candidate at the cursor, or the one that the reported  *)
(* load or tier singles out                                                *)
Selected ==
  IF RoundRobin
  THEN {n \in Candidates :
          Cardinality({m \in Candidates : m < n}) = cursor % Cardinality(Candidates)}
  ELSE Candidates

Placement == IF call.target # 0 THEN {call.target} ELSE Selected

Message(n) ==
  [type |-> call.op, id |-> nextReq, to |-> n, pid |-> call.rid.pid,
   spec |-> call.spec, state |-> call.state]

(* A node known only from Metrics has no address; a dead one refuses the   *)
(* connection.  A failed send returns at once and leaves pending set.      *)
SendTo(n) ==
  IF status[n] = "None"
  THEN result' = Err /\ UNCHANGED <<pending, nextReq, msgs>>
  ELSE /\ pending' = [id |-> nextReq, kind |-> call.op, node |-> n]
       /\ nextReq' = nextReq + 1
       /\ IF status[n] # "Unknown" /\ up[n]
          THEN msgs' = msgs \cup {Message(n)} /\ result' = NoRes
          ELSE result' = Err /\ UNCHANGED msgs

RequestSpawn ==
  /\ call.op = "spawn" /\ ~call.sent
  /\ call' = [call EXCEPT !.sent = TRUE]
  /\ \/ /\ Placement = {} /\ result' = Err
        /\ UNCHANGED <<pending, nextReq, msgs>>
     \/ \E n \in Placement : SendTo(n)
  /\ cursor' = IF call.target = 0 /\ RoundRobin /\ Candidates # {}
               THEN (cursor + 1) % Cardinality(Candidates) ELSE cursor
  /\ UNCHANGED <<status, specs, ckpt, failing, victims, workers, ghosts>>

RequestControl ==
  /\ call.op \in {"kill", "state", "prio"} /\ ~call.sent
  /\ call' = [call EXCEPT !.sent = TRUE]
  /\ SendTo(call.rid.node)
  /\ UNCHANGED <<status, specs, ckpt, cursor, failing, victims, workers, ghosts>>

Waiting == call.sent /\ result = NoRes

Timeout ==
  /\ Waiting
  /\ result' = Err /\ pending' = NoReq /\ disturbed' = TRUE
  /\ UNCHANGED <<status, specs, ckpt, call, cursor, nextReq, failing, victims, workers, msgs,
                 asked, killed, ran, crashes, ticks>>

----------------------------------------------------------------------------
(* The return of a call                                                    *)

(* Mutant: migrate kills the source whether or not the copy was started.   *)
FinishSpawnKillsAnyway ==
  /\ call.op = "spawn" /\ result # NoRes
  /\ specs' = IF result = Err THEN specs
              ELSE [r \in DOMAIN specs \cup {[node |-> result.node, pid |-> result.pid]} |->
                      IF r \in DOMAIN specs THEN specs[r] ELSE call.spec]
  /\ call' = IF call.outer # "migrate" THEN Idle
             ELSE Call("kill", call.src, NoState, 0, NoState, "migrate", NoRid)
  /\ result' = NoRes
  /\ UNCHANGED <<status, ckpt, pending, cursor, nextReq, failing, victims, workers, msgs, ghosts>>

(* spawn_with_state tracks the process it was told of; migrate goes on     *)
(* with the kill of the source, or of a copy that landed beside it.        *)
FinishSpawn ==
  /\ call.op = "spawn" /\ result # NoRes
  /\ LET new == [node |-> result.node, pid |-> result.pid]
     IN  IF result = Err
         THEN specs' = specs /\ call' = Idle
         ELSE /\ specs' = [r \in DOMAIN specs \cup {new} |->
                             IF r = new THEN call.spec ELSE specs[r]]
              /\ call' = IF call.outer # "migrate" THEN Idle
                         ELSE IF new.node = call.src.node
                         THEN Call("kill", new, NoState, 0, NoState, "abort", call.src)
                         ELSE Call("kill", call.src, NoState, 0, NoState, "migrate", new)
  /\ result' = NoRes
  /\ UNCHANGED <<status, ckpt, pending, cursor, nextReq, failing, victims, workers, msgs, ghosts>>

FinishKill ==
  /\ call.op = "kill" /\ result # NoRes
  /\ IF result = Err
     THEN UNCHANGED <<specs, ckpt>>
     ELSE /\ specs' = Restrict(specs, DOMAIN specs \ {call.rid})
          /\ ckpt' = Restrict(ckpt, DOMAIN ckpt \ {call.rid})
  /\ call' = Idle /\ result' = NoRes
  /\ UNCHANGED <<status, pending, cursor, nextReq, failing, victims, workers, msgs, ghosts>>

(* get_state for migrate continues with the spawn of the copy              *)
FinishState ==
  /\ call.op \in {"state", "prio"} /\ result # NoRes
  /\ call' = IF result = Err \/ call.op = "prio" THEN Idle
             ELSE Call("spawn", NoRid, call.spec, call.target, result.state, "migrate", call.src)
  /\ result' = NoRes
  /\ UNCHANGED <<status, specs, ckpt, pending, cursor, nextReq, failing, victims, workers, msgs,
                 ghosts>>

----------------------------------------------------------------------------
(* tick                                                                    *)

(* Checkpoints whose time has run out are dropped; Online nodes that have  *)
(* been silent too long are marked Offline.                                *)
Tick(silent, expired) ==
  /\ Free /\ nextReq <= MaxRequests /\ ticks < MaxTicks
  /\ silent # {} \/ expired # {}
  /\ silent \subseteq Candidates /\ expired \subseteq DOMAIN ckpt
  /\ ckpt' = Restrict(ckpt, DOMAIN ckpt \ expired)
  /\ status' = [n \in Worker |-> IF n \in silent THEN "Offline" ELSE status[n]]
  /\ failing' = silent /\ ticks' = ticks + 1
  /\ disturbed' = (disturbed \/ silent # {})
  /\ UNCHANGED <<specs, pending, result, call, cursor, nextReq, victims, workers, msgs,
                 asked, killed, ran, crashes>>

FailoverNode(n) ==
  /\ call = Idle /\ victims = {} /\ n \in failing
  /\ failing' = failing \ {n}
  /\ victims' = {<<r, specs[r]>> : r \in {q \in DOMAIN specs : q.node = n}}
  /\ UNCHANGED <<status, specs, ckpt, pending, result, call, cursor, nextReq, workers, msgs, ghosts>>

(* One respawn: the process is forgotten, and asked for again on another   *)
(* node with the checkpoint stored under its id, if there is one.          *)
Respawn(v) ==
  /\ call = Idle /\ v \in victims
  /\ victims' = victims \ {v}
  /\ specs' = Restrict(specs, DOMAIN specs \ {v[1]})
  /\ ckpt' = Restrict(ckpt, DOMAIN ckpt \ {v[1]})
  /\ call' = Call("spawn", NoRid, v[2], 0,
                  IF v[1] \in DOMAIN ckpt THEN ckpt[v[1]] ELSE NoState, "failover", v[1])
  /\ result' = NoRes
  /\ UNCHANGED <<status, pending, cursor, nextReq, failing, workers, msgs, ghosts>>

----------------------------------------------------------------------------
(* Messages.  The coordinator dispatches them between its calls            *)
(* (process_events) and while it waits; a worker at any time.              *)

Dispatching == call.sent => result = NoRes

(* Hello and the Metrics reply carry nothing but "this node is there": one *)
(* that travels slowly is one that was sent later.                         *)
Hello(n) ==
  /\ up[n] /\ Dispatching
  /\ status' = [status EXCEPT ![n] = "Online"]
  /\ UNCHANGED <<specs, ckpt, pending, result, call, cursor, nextReq, failing, victims, workers,
                 msgs, ghosts>>

Metrics(n) ==
  /\ up[n] /\ Dispatching
  /\ status' = [status EXCEPT ![n] = IF @ = "None" THEN "Unknown" ELSE @]
  /\ UNCHANGED <<specs, ckpt, pending, result, call, cursor, nextReq, failing, victims, workers,
                 msgs, ghosts>>

Checkpoint(m) ==
  /\ m.type = "Checkpoint" /\ Dispatching
  /\ ckpt' = [r \in DOMAIN ckpt \cup {m.rid} |-> IF r = m.rid THEN m.state ELSE ckpt[r]]
  /\ msgs' = msgs \ {m}
  /\ UNCHANGED <<status, specs, pending, result, call, cursor, nextReq, failing, victims, workers,
                 ghosts>>

(* Mutant: an answer is taken for the pending request without a look at ids.*)
MatchesAny(m) == pending.id # 0 /\ pending.kind = m.kind

(* complete_spawn, complete_ctrl, complete_get_state: only the answer to   *)
(* the pending request counts, whatever else arrives is dropped.           *)
Matches(m) == pending.id = m.id /\ (m.kind = "spawn" => pending.kind = "spawn")

Complete(m) ==
  /\ m.type = "Ack" /\ Dispatching
  /\ msgs' = msgs \ {m}
  /\ IF ~Matches(m)
     THEN UNCHANGED <<result, pending>>
     ELSE /\ result' = IF m.ok THEN [st |-> "ok", node |-> pending.node, pid |-> m.pid,
                                     state |-> m.state]
                               ELSE Err
          /\ pending' = NoReq
  /\ UNCHANGED <<status, specs, ckpt, call, cursor, nextReq, failing, victims, workers, ghosts>>

----------------------------------------------------------------------------
(* Workers                                                                 *)

Ack(m, ok, pid, state) ==
  [type |-> "Ack", kind |-> m.type, id |-> m.id, ok |-> ok, pid |-> pid, state |-> state]

At(n, pid) == {p \in procs : p.node = n /\ p.pid = pid}

(* Mutant: a process whose state could not be restored is left running.    *)
HandleSpawnKeeps(m) ==
  /\ m.type = "spawn" /\ up[m.to]
  /\ procs' = procs \cup {[node |-> m.to, pid |-> nextPid[m.to], spec |-> m.spec]}
  /\ nextPid' = [nextPid EXCEPT ![m.to] = @ + 1]
  /\ ran' = ran \cup {<<[node |-> m.to, pid |-> nextPid[m.to]], m.spec>>}
  /\ \/ msgs' = (msgs \ {m}) \cup {Ack(m, TRUE, nextPid[m.to], NoState)}
     \/ m.state # NoState /\ msgs' = (msgs \ {m}) \cup {Ack(m, FALSE, 0, NoState)}
  /\ UNCHANGED <<coord, up, asked, killed, crashes, ticks, disturbed>>

(* exec.spawn and restore_state; a failed restore kills the process again  *)
HandleSpawn(m) ==
  /\ m.type = "spawn" /\ up[m.to]
  /\ LET p   == [node |-> m.to, pid |-> nextPid[m.to]]
         new == [node |-> p.node, pid |-> p.pid, spec |-> m.spec]
     IN  \/ /\ procs' = procs \cup {new}
            /\ nextPid' = [nextPid EXCEPT ![m.to] = @ + 1]
            /\ ran' = ran \cup {<<p, m.spec>>}
            /\ msgs' = (msgs \ {m}) \cup {Ack(m, TRUE, p.pid, NoState)}
         \/ /\ m.state # NoState
            /\ procs' = procs
            /\ nextPid' = [nextPid EXCEPT ![m.to] = @ + 1]
            /\ ran' = ran
            /\ msgs' = (msgs \ {m}) \cup {Ack(m, FALSE, 0, NoState)}
         \/ /\ msgs' = (msgs \ {m}) \cup {Ack(m, FALSE, 0, NoState)}
            /\ UNCHANGED <<procs, nextPid, ran>>
  /\ UNCHANGED <<coord, up, asked, killed, crashes, ticks, disturbed>>

HandleKill(m) ==
  /\ m.type = "kill" /\ up[m.to]
  /\ procs' = procs \ At(m.to, m.pid)
  /\ msgs' = (msgs \ {m}) \cup {Ack(m, At(m.to, m.pid) # {}, 0, NoState)}
  /\ UNCHANGED <<coord, up, nextPid, ghosts>>

HandleState(m) ==
  /\ m.type \in {"state", "prio"} /\ up[m.to]
  /\ msgs' = (msgs \ {m}) \cup
       {IF At(m.to, m.pid) = {} THEN Ack(m, FALSE, 0, NoState)
        ELSE Ack(m, TRUE, 0, (CHOOSE p \in At(m.to, m.pid) : TRUE).spec)}
  /\ UNCHANGED <<coord, workers, ghosts>>

(* The heartbeat thread replicates the state of every local process.       *)
Replicate(p) ==
  /\ Replicating /\ up[p.node]
  /\ msgs' = msgs \cup {[type |-> "Checkpoint", rid |-> [node |-> p.node, pid |-> p.pid],
                         state |-> p.spec]}
  /\ UNCHANGED <<coord, workers, ghosts>>

(* A crash loses the processes and whatever was queued for the node; pids  *)
(* start again at 1.                                                       *)
Crash(n) ==
  /\ up[n] /\ crashes < MaxCrashes
  /\ up' = [up EXCEPT ![n] = FALSE]
  /\ procs' = {p \in procs : p.node # n}
  /\ nextPid' = [nextPid EXCEPT ![n] = 1]
  /\ msgs' = {m \in msgs : m.type \in {"spawn", "kill", "state", "prio"} => m.to # n}
  /\ crashes' = crashes + 1 /\ disturbed' = TRUE
  /\ UNCHANGED <<coord, asked, killed, ran, ticks>>

Restart(n) ==
  /\ ~up[n]
  /\ up' = [up EXCEPT ![n] = TRUE]
  /\ UNCHANGED <<coord, procs, nextPid, msgs, ghosts>>

Next ==
  \/ \E s \in Specs, t \in {0} \cup Worker : Spawn(s, t)
  \/ \E r \in DOMAIN specs : Kill(r) \/ SetPriority(r)
  \/ \E r \in DOMAIN specs, t \in {0} \cup Worker : Migrate(r, t)
  \/ RequestSpawn \/ RequestControl \/ Timeout
  \/ FinishSpawn \/ FinishKill \/ FinishState
  \/ \E silent \in SUBSET Worker, expired \in SUBSET DOMAIN ckpt : Tick(silent, expired)
  \/ \E n \in Worker : FailoverNode(n)
  \/ \E v \in victims : Respawn(v)
  \/ \E m \in msgs : Checkpoint(m) \/ Complete(m)
                     \/ HandleSpawn(m) \/ HandleKill(m) \/ HandleState(m)
  \/ \E p \in procs : Replicate(p)
  \/ \E n \in Worker : Hello(n) \/ Metrics(n) \/ Crash(n) \/ Restart(n)

Spec == Init /\ [][Next]_vars

----------------------------------------------------------------------------
(* Every process the coordinator tracks was really started for that spec   *)
(* by that node: late, reordered and rejected answers never end up in      *)
(* spawned_specs (complete_spawn).                                         *)
TrackedWasStarted == \A r \in DOMAIN specs : <<r, specs[r]>> \in ran

(* A migration never costs the last copy: as long as no worker crashes, a  *)
(* tracked process the user has not killed runs somewhere, through aborted *)
(* and half-failed migrations, timeouts and failovers (migrate).           *)
SurvivesMigration ==
  crashes = 0 =>
    \A r \in DOMAIN specs : specs[r] \in killed \/ \E p \in procs : p.spec = specs[r]

(* Without timeouts, suspicions and crashes nothing leaks: between calls   *)
(* the processes of the workers are exactly the tracked ones (rejected     *)
(* spawns, failed restores, aborted migrations included).                  *)
NoLeak ==
  (call = Idle /\ ~disturbed) =>
    {[node |-> p.node, pid |-> p.pid] : p \in procs} = DOMAIN specs

(* What the coordinator tracks is what was started, no less and no more.   *)
TrackingSound == TrackedWasStarted /\ NoLeak

(* migrate's documentation: without a target "the placement strategy picks *)
(* the destination, excluding the source node".                            *)
\* Refuted: section 5 of the README.
NeverBesideSource ==
  \A m \in msgs : (m.type = "spawn" /\ call.op = "spawn" /\ pending.id = m.id
                   /\ call.outer = "migrate") => m.to # call.src.node

(* What the coordinator knows of: tracked, waiting for a failover, or being *)
(* respawned by one.                                                       *)
Known == {specs[r] : r \in DOMAIN specs} \cup {v[2] : v \in victims}
         \cup {s \in Specs : call.op = "spawn" /\ call.outer = "failover"
                            /\ call.spec = s}

(* lib.rs: the scheduler recovers "from node failures by respawning its    *)
(* processes elsewhere": what the coordinator tracks and the user has not  *)
(* killed it keeps knowing of.                                             *)
\* Refuted: section 5 of the README.
StaysKnown == [][Known \subseteq Known' \cup killed']_vars

(* tick: "a silent node stops renewing its own snapshots, so stale ones    *)
(* cannot be resurrected by accident": a failover restores into a process  *)
(* only a state extracted from a process of the same spec.                 *)
\* Refuted: section 5 of the README.
RestoresOwnState ==
  (call.op = "spawn" /\ call.outer = "failover") => call.state \in {NoState, call.spec}
=============================================================================
