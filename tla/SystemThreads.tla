---------------------------- MODULE SystemThreads ----------------------------
(***************************************************************************)
(* The aios program as its threads: the console (aios/src/tui), the        *)
(* request handlers of the bridge (aios-bridge/src/server.rs) and the      *)
(* cluster loop of the orchestrator, which share one scheduler, one block  *)
(* registry and one message router behind mutexes, and the accounts of     *)
(* the bridge (auth.rs).                                                   *)
(*                                                                         *)
(* A thread is the list of steps it still has to take: take a mutex, free  *)
(* it, or do something while it holds what it holds.  Every handler is the *)
(* list it runs, in the order of the code.  Mutexes that a thread only     *)
(* ever takes last and alone (the log, the metrics, the chat) are left     *)
(* out: nobody can wait for one in a circle.                               *)
(***************************************************************************)
EXTENDS Integers, Sequences, FiniteSets, SequencesExt

CONSTANTS
    Requests,       \* the request tasks of the bridge that may run at once
    Clustered,      \* whether AIOS_CLUSTER_PEERS is set
    Infra, Base,    \* sequences of the placeholders and the compiled-in blocks
    NetBlock,       \* the base block that answers network settings
    Heavy,          \* base blocks left out on a machine with little memory
    Disk, Kind,     \* the files of the block directory in the order they are
                    \* read, and what each one is
    ConsoleOps,     \* the console operations of an instance
    Intents,        \* the prompts a request may carry
    Flows,          \* the workflows (sequences of intents) a request may carry
    Users,          \* the accounts of the bridge
    MaxBlocks, MaxPids,
    None

SystemThreadsAssumption ==
    /\ \E i \in DOMAIN Base : Base[i] = NetBlock
    /\ NetBlock \notin Heavy
    /\ \A i \in DOMAIN Disk : Kind[Disk[i]] \in {"routed", "wasm", "bin", "broken"}
    /\ MaxBlocks \in Nat /\ MaxPids \in Nat

VARIABLES
    boot,           \* "off", "safe" or "up"
    locks,          \* the thread that holds each mutex
    todo,           \* the steps each thread still has to take
    note,           \* what each thread remembers between two critical sections
    registry,       \* BlockRegistry.blocks: id -> name
    nextId,         \* BlockRegistry.next_id
    handlers,       \* MessageRouter.handlers: the ids with a handler
    net,            \* OrchestratorState.net_block_id
    selected,       \* TuiApp.blocks_selected
    procs, nextPid, \* the scheduler's processes
    granted,        \* the capabilities of the bridge's token, none once expired
    users, usersFile, acked, torn

threadVars == <<boot, locks, todo, note, registry, nextId, handlers, net,
                selected, procs, nextPid, granted>>
accountVars == <<users, usersFile, acked, torn>>
vars == <<boot, locks, todo, note, registry, nextId, handlers, net, selected,
          procs, nextPid, granted, users, usersFile, acked, torn>>

Console == "console"
Cluster == "cluster"
Threads == {Console, Cluster} \cup Requests
Mutexes == {"state", "scheduler", "registry", "executor", "watchdog", "node",
            "llm", "acl"}

-----------------------------------------------------------------------------
(* Steps.                                                                  *)

Lock(m) == [op |-> "lock", on |-> m]
Free(m) == [op |-> "free", on |-> m]
Do(e, x) == [op |-> e, on |-> x]

\* body runs while the mutexes ms are held, taken in this order; guards are
\* dropped in the reverse order.
Under(ms, body) ==
    [i \in 1..Len(ms) |-> Lock(ms[i])] \o body
        \o [i \in 1..Len(ms) |-> Free(ms[Len(ms) + 1 - i])]

-----------------------------------------------------------------------------
(* The console.                                                            *)

draw_status_bar == Under(<<"state">>, <<>>)
draw_system_tab == Under(<<"state">>, <<>>)
draw_bridge_tab == Under(<<"state">>, <<>>)
DrawRegistryFirst ==
    Under(<<"state", "registry", "scheduler", "executor">>, <<>>)
draw_blocks_tab == Under(<<"state", "scheduler", "registry", "executor">>, <<>>)

SelectedBlock == Under(<<"state", "registry">>, <<Do("select", None)>>)

\* restart and kill find the selected block, let go of the registry, and take
\* it again.
block_restart ==
    SelectedBlock \o
        <<Do("then", Under(<<"state", "registry">>, <<Do("restart", None)>>))>>
block_kill ==
    SelectedBlock \o
        <<Do("then", Under(<<"state", "registry">>, <<Do("unload", None)>>))>>
block_load_path == Under(<<"state", "registry">>, <<Do("load", "loaded")>>)
handle_blocks_key == Under(<<"state", "registry">>, <<Do("down", None)>>)

dispatch_net == Under(<<"state">>, <<Do("dispatch", None)>>)

shell_ps == Under(<<"state", "scheduler">>, <<>>)
shell_blocks == Under(<<"state", "registry">>, <<>>)
shell_kill == Under(<<"state", "scheduler">>, <<Do("kill", None)>>)
shell_status == Under(<<"state", "registry">>, <<>>)

cluster_execute == Under(<<"state">>, <<>>)

\* The cluster node runs a process on the shared scheduler.
ClusterSpawn ==
    cluster_execute \o
        (IF Clustered
         THEN Under(<<"node">>, Under(<<"scheduler">>, <<Do("spawn", None)>>))
         ELSE <<>>)
ClusterKill ==
    cluster_execute \o
        (IF Clustered
         THEN Under(<<"node">>, Under(<<"scheduler">>, <<Do("kill", None)>>))
         ELSE <<>>)

ConsolePlan(op) ==
    CASE op = "blocks tab" -> draw_status_bar \o draw_blocks_tab
      [] op = "system tab" -> draw_status_bar \o draw_system_tab
      [] op = "bridge tab" -> draw_status_bar \o draw_bridge_tab
      [] op = "restart" -> block_restart
      [] op = "kill block" -> block_kill
      [] op = "load" -> block_load_path
      [] op = "down" -> handle_blocks_key
      [] op = "net" -> dispatch_net
      [] op = "ps" -> shell_ps
      [] op = "blocks" -> shell_blocks
      [] op = "kill" -> shell_kill
      [] op = "status" -> shell_status
      [] op = "cluster spawn" -> ClusterSpawn
      [] op = "cluster kill" -> ClusterKill

-----------------------------------------------------------------------------
(* The bridge.                                                             *)

\* The capabilities of one intent that is no workflow.
CapsOf(intent) ==
    CASE intent = "kill" -> {"ProcessKill"}
      [] intent = "spawn" -> {"ProcessSpawn"}
      [] intent = "adjust" -> {"SchedModify"}
      [] intent = "load" -> {"BlockLoad"}
      [] intent = "unload" -> {"BlockUnload"}
      [] intent = "hot swap" -> {"BlockLoad", "BlockUnload"}
      [] intent = "compact" -> {"MemAlloc"}
      [] OTHER -> {}

\* create_execution_plan: an intent is a sequence of plain ones; a workflow
\* needs what its steps need.
PlanOfFirst(intent) == CapsOf(Head(intent))
create_execution_plan(intent) ==
    UNION {CapsOf(intent[i]) : i \in 1..Len(intent)}

\* execute_intent on one plain intent.  A hot swap stops for want of a path:
\* no rule and no answer of the model ever names one.
ExecuteOne(intent) ==
    CASE intent \in {"kill", "spawn"} -> Under(<<"scheduler">>, <<Do(intent, None)>>)
      [] intent \in {"processes", "adjust", "cpu"} -> Under(<<"scheduler">>, <<>>)
      [] intent \in {"list blocks", "hot swap"} -> Under(<<"registry">>, <<>>)
      [] intent = "load" -> Under(<<"registry">>, <<Do("load", "loaded")>>)
      [] intent = "unload" -> Under(<<"registry">>, <<Do("named", None),
                                                      Do("unload", None)>>)
      [] intent = "all" -> Under(<<"scheduler">>, <<>>) \o Under(<<"registry">>, <<>>)
      [] intent \in {"compact", "unknown"} -> <<>>

execute_intent(intent) ==
    FlattenSeq([i \in DOMAIN intent |-> ExecuteOne(intent[i])])

\* The check of every capability, and what runs once they are all granted.
Cleared(intent) ==
    Under(<<"acl">>, <<Do("check", create_execution_plan(intent))>>)
        \o <<Do("cleared", execute_intent(intent))>>

intent_handler(intent) == Under(<<"llm">>, <<>>) \o Cleared(intent)

\* A workflow holds the language model for all of its prompts.
workflow_handler(flow) ==
    Under(<<"llm">>, FlattenSeq([i \in DOMAIN flow |-> Cleared(flow[i])]))

status_handler == Under(<<"scheduler", "registry", "watchdog">>, <<>>)
handle_ws_socket == Under(<<"scheduler">>, <<>>)
llm_query_handler == Under(<<"llm">>, <<>>)

RequestPlans ==
    {status_handler, handle_ws_socket, llm_query_handler}
        \cup {intent_handler(i) : i \in Intents}
        \cup {workflow_handler(f) : f \in Flows}

\* One tick of the cluster loop: heartbeats read the scheduler's load, a peer
\* may ask for a process to be run or ended.
ClusterPlans ==
    {Under(<<"node">>, Under(<<"scheduler">>, body)) :
        body \in {<<>>, <<Do("spawn", None)>>, <<Do("kill", None)>>}}

-----------------------------------------------------------------------------
(* Boot.                                                                   *)

Nothing == [block |-> None, caps |-> {}]

Init ==
    /\ boot = "off" /\ locks = [m \in Mutexes |-> None]
    /\ todo = [t \in Threads |-> <<>>]
    /\ note = [t \in Threads |-> Nothing]
    /\ registry = <<>> /\ nextId = 1 /\ handlers = {} /\ net = 0
    /\ selected = 0 /\ procs = {} /\ nextPid = 1 /\ granted = {}
    /\ users = {} /\ usersFile = {} /\ acked = {} /\ torn = FALSE

\* Compiled-in blocks of this machine.
base_factories_for(small) ==
    SelectSeq(Base, LAMBDA b : ~(small /\ b \in Heavy))

\* load_disk_blocks: every file is registered; only a module that runs and
\* exports handle_message is routed.
load_disk_blocks(first) ==
    {first + i : i \in {i \in DOMAIN Disk : Kind[Disk[i]] = "routed"}}

\* register_base_blocks: each block is registered and gets its handler.
register_base_blocks(first, small) ==
    {first + i : i \in DOMAIN base_factories_for(small)}

\* initialize: the placeholders, the base blocks, and - unless this is a safe
\* boot - the files of the block directory; the bridge gets its token.
initialize ==
    /\ boot = "off"
    /\ \E small \in BOOLEAN, safe \in BOOLEAN :
           LET base == base_factories_for(small)
               names == Infra \o base \o (IF safe THEN <<>> ELSE Disk)
           IN /\ registry' = names /\ nextId' = Len(names) + 1
              /\ handlers' = register_base_blocks(Len(Infra), small) \cup
                     (IF safe THEN {}
                      ELSE load_disk_blocks(Len(Infra) + Len(base)))
              /\ net' = Len(Infra) + (CHOOSE i \in DOMAIN base : base[i] = NetBlock)
              /\ boot' = IF safe THEN "safe" ELSE "up"
    /\ granted' = {"ProcessKill", "ProcessSpawn", "SchedModify", "BlockLoad",
                   "BlockUnload", "MemAlloc"}
    /\ UNCHANGED <<locks, todo, note, selected, procs, nextPid>>

-----------------------------------------------------------------------------
(* Threads begin work and take their steps.                                *)

Idle(t) == todo[t] = <<>>

Begin(t, plan) ==
    /\ boot # "off" /\ Idle(t)
    /\ todo' = [todo EXCEPT ![t] = plan]
    /\ UNCHANGED <<boot, locks, note, registry, nextId, handlers, net, selected,
                   procs, nextPid, granted>>

handle_key ==
    \E op \in ConsoleOps :
        /\ op = "restart" => nextId <= MaxBlocks
        /\ Begin(Console, ConsolePlan(op))
Request(t) == boot = "up" /\ \E plan \in RequestPlans : Begin(t, plan)
ClusterTick == Clustered /\ \E plan \in ClusterPlans : Begin(Cluster, plan)

\* Up in the block list needs no mutex.
SelectUp ==
    /\ boot # "off" /\ Idle(Console) /\ selected > 0
    /\ selected' = selected - 1
    /\ UNCHANGED <<boot, locks, todo, note, registry, nextId, handlers, net,
                   procs, nextPid, granted>>

\* The token is issued once, for a day.
TokenExpires ==
    /\ boot # "off" /\ granted # {} /\ granted' = {}
    /\ UNCHANGED <<boot, locks, todo, note, registry, nextId, handlers, net,
                   selected, procs, nextPid>>

At(t, op) == todo[t] # <<>> /\ Head(todo[t]).op = op
On(t) == Head(todo[t]).on
Rest(t) == todo' = [todo EXCEPT ![t] = Tail(@)]

\* A handler's locals end with it.
Forget(t) == note' = [note EXCEPT ![t] = IF todo'[t] = <<>> THEN Nothing ELSE @]

Acquire(t) ==
    /\ At(t, "lock") /\ locks[On(t)] = None
    /\ locks' = [locks EXCEPT ![On(t)] = t] /\ Rest(t)
    /\ UNCHANGED <<boot, note, registry, nextId, handlers, net, selected,
                   procs, nextPid, granted>>

Release(t) ==
    /\ At(t, "free")
    /\ locks' = [locks EXCEPT ![On(t)] = None] /\ Rest(t) /\ Forget(t)
    /\ UNCHANGED <<boot, registry, nextId, handlers, net, selected,
                   procs, nextPid, granted>>

\* The k-th id of the sorted list, counted from 0.
IdAt(k) == CHOOSE i \in DOMAIN registry :
               Cardinality({j \in DOMAIN registry : j < i}) = k

\* selected_block: the row is cut down to the list as it is now.
selected_block(t) ==
    /\ At(t, "select")
    /\ LET n == Cardinality(DOMAIN registry)
           row == Min({selected, n - 1})
           id == IdAt(row)
       IN note' = [note EXCEPT ![t].block = IF n = 0 THEN None
                                            ELSE <<id, registry[id]>>]
    /\ Rest(t)
    /\ UNCHANGED <<boot, locks, registry, nextId, handlers, net, selected,
                   procs, nextPid, granted>>

\* The bridge looks a block up by its name: any block of that name, or none.
find_by_name(t) ==
    /\ At(t, "named")
    /\ \E b \in {None} \cup {<<i, registry[i]>> : i \in DOMAIN registry} :
           note' = [note EXCEPT ![t].block = b]
    /\ Rest(t)
    /\ UNCHANGED <<boot, locks, registry, nextId, handlers, net, selected,
                   procs, nextPid, granted>>

\* Work that goes on only if a block was found, or every capability granted.
Continue(t) ==
    /\ At(t, "then") \/ At(t, "cleared")
    /\ todo' = [todo EXCEPT ![t] =
           (IF (At(t, "then") /\ note[t].block # None)
               \/ (At(t, "cleared") /\ note[t].caps # None)
            THEN On(t) ELSE <<>>) \o Tail(@)]
    /\ Forget(t)
    /\ UNCHANGED <<boot, locks, registry, nextId, handlers, net,
                   selected, procs, nextPid, granted>>

\* check_permission of every capability of the plan.
check_permission(t) ==
    /\ At(t, "check")
    /\ note' = [note EXCEPT ![t].caps = IF On(t) \subseteq granted THEN On(t)
                                        ELSE None]
    /\ Rest(t)
    /\ UNCHANGED <<boot, locks, registry, nextId, handlers, net, selected,
                   procs, nextPid, granted>>

Without(id) == [i \in DOMAIN registry \ {id} |-> registry[i]]
Found(t) == note[t].block # None /\ note[t].block[1] \in DOMAIN registry

\* The console takes the block's handler away with it, the bridge does not.
unload_block(t) ==
    /\ At(t, "unload")
    /\ IF Found(t)
       THEN /\ registry' = Without(note[t].block[1])
            /\ handlers' = IF t = Console THEN handlers \ {note[t].block[1]}
                           ELSE handlers
       ELSE UNCHANGED <<registry, handlers>>
    /\ Rest(t)
    /\ UNCHANGED <<boot, locks, note, nextId, net, selected, procs, nextPid,
                   granted>>

\* The second half of block_restart: the same name under a new id, for which
\* nobody registers a handler.
Restarted(t) ==
    /\ At(t, "restart")
    /\ IF Found(t)
       THEN /\ registry' = [i \in (DOMAIN registry \ {note[t].block[1]}) \cup {nextId} |->
                               IF i = nextId THEN registry[note[t].block[1]]
                               ELSE registry[i]]
            /\ nextId' = nextId + 1
            /\ handlers' = handlers \ {note[t].block[1]}
       ELSE UNCHANGED <<registry, nextId, handlers>>
    /\ Rest(t)
    /\ UNCHANGED <<boot, locks, note, net, selected, procs, nextPid, granted>>

\* A file that can be read becomes one more block.
Loaded(t) ==
    /\ At(t, "load")
    /\ \/ /\ nextId < MaxBlocks
          /\ registry' = [i \in DOMAIN registry \cup {nextId} |->
                             IF i = nextId THEN On(t) ELSE registry[i]]
          /\ nextId' = nextId + 1
       \/ UNCHANGED <<registry, nextId>>
    /\ Rest(t)
    /\ UNCHANGED <<boot, locks, note, handlers, net, selected, procs, nextPid,
                   granted>>

SelectDown(t) ==
    /\ At(t, "down")
    /\ selected' = IF selected + 1 < Cardinality(DOMAIN registry)
                   THEN selected + 1 ELSE selected
    /\ Rest(t)
    /\ UNCHANGED <<boot, locks, note, registry, nextId, handlers, net, procs,
                   nextPid, granted>>

\* The router hands the packet to the block behind net_block_id, if there is
\* still a handler for it.
dispatch(t) ==
    /\ At(t, "dispatch") /\ Rest(t)
    /\ note' = [note EXCEPT ![t].block = IF net \in handlers THEN net ELSE None]
    /\ UNCHANGED <<boot, locks, registry, nextId, handlers, net, selected,
                   procs, nextPid, granted>>

kill_process(t) ==
    /\ At(t, "kill")
    /\ \E p \in 1..MaxPids : procs' = procs \ {p}
    /\ Rest(t)
    /\ UNCHANGED <<boot, locks, note, registry, nextId, handlers, net,
                   selected, nextPid, granted>>

spawn_process(t) ==
    /\ At(t, "spawn")
    /\ \/ nextPid <= MaxPids /\ procs' = procs \cup {nextPid} /\ nextPid' = nextPid + 1
       \/ UNCHANGED <<procs, nextPid>>
    /\ Rest(t)
    /\ UNCHANGED <<boot, locks, note, registry, nextId, handlers, net,
                   selected, granted>>

Step(t) ==
    \/ Acquire(t) \/ Release(t) \/ Continue(t)
    \/ selected_block(t) \/ find_by_name(t) \/ check_permission(t)
    \/ unload_block(t) \/ Restarted(t) \/ Loaded(t) \/ SelectDown(t)
    \/ dispatch(t) \/ kill_process(t) \/ spawn_process(t)

ThreadNext ==
    /\ \/ initialize \/ handle_key \/ SelectUp \/ ClusterTick \/ TokenExpires
       \/ \E t \in Requests : Request(t)
       \/ \E t \in Threads : Step(t)
    /\ UNCHANGED accountVars

-----------------------------------------------------------------------------
(* The accounts of the bridge.                                             *)

register(u) ==
    /\ u \notin users
    /\ users' = users \cup {u}
    /\ \/ usersFile' = users' /\ acked' = acked \cup {u}
       \/ UNCHANGED <<usersFile, acked>>
    /\ UNCHANGED torn

\* The program stops, perhaps while it writes, and starts again: a file that
\* cannot be parsed is an empty one.
Restart ==
    \/ users' = usersFile /\ UNCHANGED <<usersFile, acked, torn>>
    \/ /\ \E u \in Users : u \notin users
       /\ usersFile' = {} /\ users' = {} /\ torn' = TRUE /\ UNCHANGED acked

AccountNext ==
    /\ \/ \E u \in Users : register(u)
       \/ Restart
    /\ UNCHANGED threadVars

Next == ThreadNext \/ AccountNext
Spec == Init /\ [][Next]_vars

-----------------------------------------------------------------------------
(* Properties.                                                             *)

Waits(t, u) == At(t, "lock") /\ locks[On(t)] = u

\* No threads wait for each other in a circle: whatever the console draws or
\* does, whatever the bridge serves and the cluster loop runs, the mutexes of
\* the state, the scheduler, the registry, the watchdog, the executor, the
\* cluster node, the language model and the access control are taken in one
\* order, as the comment in draw_blocks_tab asks.
NoWaitCycle ==
    \A S \in SUBSET Threads \ {{}} : \E t \in S : \A u \in S : ~Waits(t, u)

Needs(op) ==
    CASE op = "kill" -> {"ProcessKill"}
      [] op = "spawn" -> {"ProcessSpawn"}
      [] op = "load" -> {"BlockLoad"}
      [] op = "unload" -> {"BlockUnload"}
      [] OTHER -> {}

\* A request changes processes or blocks only after every capability the
\* change needs was granted to it, also as a step of a workflow inside an
\* intent, and also when the token ran out half way through a workflow.
ActsWithCapability ==
    \A t \in Requests :
        todo[t] # <<>> /\ Needs(Head(todo[t]).op) # {} =>
            note[t].caps # None /\ Needs(Head(todo[t]).op) \subseteq note[t].caps

\* What router.rs asks of whoever unloads a block: the router serves no block
\* that is no longer in the registry.
\* Refuted: section 5 of the README.
RoutesOnlyLoaded == handlers \subseteq DOMAIN registry

\* An account whose registration was answered with a token is still there
\* after any restart, whatever other writes of the account file failed;
\* only a write that stopped half way loses accounts.
AcknowledgedAccountsKept == torn \/ acked \subseteq (users \cap usersFile)

=============================================================================
