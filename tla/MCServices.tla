----------------------------- MODULE MCServices -----------------------------
(***************************************************************************)
(* The services beside the runtime for TLC: the block store with the       *)
(* watcher and the dependency graph, the threads of aios-system, the       *)
(* driver engine of aios-auto-hal, the sandboxes of guests, and the        *)
(* keyring, the network settings, DHCP and PID 1 of a host.  A behaviour   *)
(* exercises the one `part` names; the others rest in an initial state.    *)
(***************************************************************************)
EXTENDS HostServices

VARIABLES part, reported,
          catalog, served, disk, op, trusted, calls, spoiled, files,    \* BlockStore
          tracked, registry, nextId, clock, removed, deps,
          boot, locks, todo, note, loaded, nextLoaded, handlers, net,   \* SystemThreads
          selected, running, nextRun, held, users, usersFile, acked, torn,
          machine, tier, attached, profile, mon, events, eng, saved,    \* AutoHal
          drift, pump,
          inst, fresh, call, result, compat, nextCompat, libs, filter,  \* WasmSandbox
          ruled, reply

storeVars == <<catalog, served, disk, op, trusted, calls, spoiled, files, tracked, registry,
               nextId, clock, removed, deps>>
threadVars == <<boot, locks, todo, note, loaded, nextLoaded, handlers, net, selected, running,
                nextRun, held, users, usersFile, acked, torn>>
halVars == <<machine, tier, attached, profile, mon, events, eng, saved, drift, pump>>
wasmVars == <<inst, fresh, call, result, compat, nextCompat, libs, filter, ruled, reply>>

-----------------------------------------------------------------------------
(* The keyring, the settings written by the block and by the GUI, DHCP and *)
(* the processes                                                           *)
HostPolicies == {[tag |-> "pw", secret |-> "a"], [tag |-> "pw", secret |-> "b"],
                 [tag |-> "tee", secret |-> "t"]}
HostUpdates == {[host |-> "h", port |-> None, dns |-> None],
                [host |-> None, port |-> 4, dns |-> None],
                [host |-> "h", port |-> 6, dns |-> "bad"],
                [host |-> "", port |-> None, dns |-> None]}
HostShells == <<"sh", "ash">>
Desktop == INSTANCE HostServices WITH Savers <- {"gui"}, told <- reported

HostInit ==
    /\ VaultInit /\ DhcpInit /\ ProcInit
    /\ IF part = "gui" THEN Desktop!FileInit /\ told = [w \in Savers |-> None]
                          ELSE FileInit /\ reported = <<>>
HostNext ==
    \/ part = "vault" /\ VaultNext
    \/ part = "settings" /\ FileNext
    \/ part = "gui" /\ Desktop!FileNext /\ UNCHANGED told
    \/ part = "dhcp" /\ DhcpNext
    \/ part = "procs" /\ ProcNext

(* The store, the watcher and the dependency graph                         *)
StoreSig == [v \in 1 .. 3 |-> IF v = 2 THEN "trusted" ELSE "unsigned"]
Store == INSTANCE BlockStore WITH
    Names <- {"a"}, Versions <- 1 .. 3, Sig <- StoreSig, Remote <- TRUE, EnvKeys <- FALSE,
    MaxCalls <- 4, Paths <- {"p1"}, Contents <- {1, 2}, MaxTime <- 2, MaxIds <- 3,
    Blocks <- 1 .. 4
StoreNext ==
    \/ part = "store" /\ Store!StoreNext
    \/ part = "reload" /\ Store!ReloadNext
    \/ part = "graph" /\ Store!GraphNext

(* The threads: their locks, the bridge's capabilities, the accounts       *)
Locking == INSTANCE SystemThreads WITH
    registry <- loaded, nextId <- nextLoaded, procs <- running, nextPid <- nextRun,
    granted <- held, Requests <- {"r1"}, Clustered <- TRUE, Infra <- <<"ipc_bus", "scheduler">>,
    Base <- <<"net">>, NetBlock <- "net", Heavy <- {}, Disk <- <<>>, Kind <- <<>>,
    ConsoleOps <- {"blocks tab", "kill", "status", "cluster spawn"},
    Intents <- {<<"all">>, <<"list blocks", "kill">>, <<"spawn">>},
    Flows <- {<< <<"kill">>, <<"hot swap">> >>}, Users <- {}, MaxBlocks <- 3, MaxPids <- 1
Planning == INSTANCE SystemThreads WITH
    registry <- loaded, nextId <- nextLoaded, procs <- running, nextPid <- nextRun,
    granted <- held, Requests <- {"r1"}, Clustered <- FALSE, Infra <- <<"ipc_bus">>,
    Base <- <<"net", "browser">>, NetBlock <- "net", Heavy <- {"browser"}, Disk <- <<>>,
    Kind <- <<>>, ConsoleOps <- {"restart", "kill block", "down", "net", "load"},
    Intents <- {<<"load">>, <<"compact", "unload">>}, Flows <- {},
    Users <- {}, MaxBlocks <- 3, MaxPids <- 0
Reading == INSTANCE SystemThreads WITH
    registry <- loaded, nextId <- nextLoaded, procs <- running, nextPid <- nextRun,
    granted <- held, Requests <- {}, Clustered <- TRUE, Infra <- <<"ipc_bus">>,
    Base <- <<"net">>, NetBlock <- "net", Heavy <- {}, Disk <- <<"d1", "d2">>,
    Kind <- [d1 |-> "routed", d2 |-> "bin"],
    ConsoleOps <- {"ps", "cluster kill", "system tab", "bridge tab", "blocks"},
    Intents <- {}, Flows <- {}, Users <- {"u", "v", "w"}, MaxBlocks <- 4, MaxPids <- 1
ThreadNext ==
    \/ part = "locks" /\ Locking!ThreadNext
    \/ part = "capabilities" /\ Planning!ThreadNext
    \/ part = "console" /\ Reading!ThreadNext
    \/ part = "accounts" /\ Reading!AccountNext

(* Devices and drivers: hot plug with built-in drivers, the engine with    *)
(* fetched ones and their failures, the rank of every kind of machine, the *)
(* thread that listens to the system                                       *)
HalBus == [u1 |-> "usb", n1 |-> "nvme"]
HalKey == [u1 |-> "k1", n1 |-> "kn"]
PlugBuiltin == [u1 |-> "db", n1 |-> None]
PlugRemote == [u1 |-> {}, n1 |-> {"dr"}]
NoBuiltin == [u1 |-> None, n1 |-> None]
AllRemote == [u1 |-> {"dr"}, n1 |-> {"dr"}]
Machine(os, mem, smi, line, gpu, lspci, npu, avx2, avx512, ram) ==
    [os |-> os, meminfo |-> mem, smi |-> smi, smiLine |-> line, rocm |-> gpu, wmic |-> gpu,
     lspci |-> lspci, npu |-> npu, avx2 |-> avx2, avx512 |-> avx512, ram |-> ram]
OneMachine == {Machine("linux", TRUE, TRUE, 4, FALSE, TRUE, "none", TRUE, FALSE, 16)}
AllMachines ==
    {Machine(os, m, s, l, g, TRUE, n, a, b, r) :
        os \in {"linux", "windows"}, m \in BOOLEAN, s \in BOOLEAN, l \in {2, 4}, g \in BOOLEAN,
        n \in {"none", "intel", "qualcomm"}, a \in BOOLEAN, b \in BOOLEAN, r \in {2, 4, 8, 16}}
Plugging == INSTANCE AutoHal WITH
    host <- machine, Devices <- {"u1", "n1"}, Bus <- HalBus, Key <- HalKey,
    Seen <- {"u1", "n1"}, Builtin <- PlugBuiltin, Remote <- PlugRemote, Caps <- {"c1"},
    MaxFail <- 2, Hosts <- OneMachine, Faults <- {"generic"}, MaxEvents <- 2, MaxStrikes <- 2,
    Generic <- "generic"
Driving == INSTANCE AutoHal WITH
    host <- machine, Devices <- {"u1", "n1"}, Bus <- HalBus, Key <- HalKey,
    Seen <- {"u1", "n1"}, Builtin <- NoBuiltin, Remote <- AllRemote, Caps <- {"c1"},
    MaxFail <- 2, Hosts <- OneMachine, Faults <- {"start", "save"}, MaxEvents <- 2,
    MaxStrikes <- 2, Generic <- "generic"
Ranking == INSTANCE AutoHal WITH
    host <- machine, Devices <- {"u1", "n1"}, Bus <- HalBus, Key <- HalKey,
    Seen <- {"u1", "n1"}, Builtin <- PlugBuiltin, Remote <- PlugRemote, Caps <- {"c1"},
    MaxFail <- 2, Hosts <- AllMachines, Faults <- {}, MaxEvents <- 0, MaxStrikes <- 0,
    Generic <- "generic"
HalInit ==
    /\ CASE part = "engine" -> Driving!Init
         [] part = "tier"   -> Ranking!Init
         [] OTHER           -> Plugging!Init
    /\ part # "plug" => attached = {}
HalNext ==
    \/ part = "plug" /\ Plugging!HotplugNext
    \/ part = "engine" /\ Driving!DriverNext
    \/ part = "tier" /\ Ranking!refresh_hw
    \/ part = "pump" /\ Plugging!PumpNext

(* Guests: the calls into a block, compatibility processes, their          *)
(* libraries, and the translation of their system calls                    *)
GuestBinary ==
    [b1 |-> [loads |-> TRUE, pages |-> 1, entry |-> TRUE, alloc |-> FALSE],
     b2 |-> [loads |-> TRUE, pages |-> 1, entry |-> TRUE, alloc |-> TRUE],
     b3 |-> [loads |-> FALSE, pages |-> 0, entry |-> FALSE, alloc |-> FALSE]]
Guests == INSTANCE WasmSandbox WITH
    procs <- compat, nextPid <- nextCompat, Blocks <- {"b1", "b2", "b3"}, Binary <- GuestBinary,
    Page <- 2, MaxPages <- 4, Ticks <- 2, Fuel <- 2, Requests <- {1, 3, 4}, MaxRequest <- 3,
    MaxResponse <- 3, Kinds <- {"pe", "unknown"}, MaxProcs <- 2, MaxPids <- 3, Limit <- 1,
    Symbols <- {"a", "b"}, MaxAddr <- 4, Calls <- {"fd_write", "sock_send"}, Lengths <- {}
Programs == INSTANCE WasmSandbox WITH
    procs <- compat, nextPid <- nextCompat, Blocks <- {"b1", "b2", "b3"}, Binary <- GuestBinary,
    Page <- 2, MaxPages <- 4, Ticks <- 2, Fuel <- 2, Requests <- {}, MaxRequest <- 3,
    MaxResponse <- 3, Kinds <- {"pe", "elf", "native", "unknown"}, MaxProcs <- 2, MaxPids <- 3,
    Limit <- 2, Symbols <- {"a", "b"}, MaxAddr <- 4, Calls <- {"fd_write", "sock_send"},
    Lengths <- {3, 15, 16, 24, 32, 40, 41, 44, 105, 108}
GuestNext ==
    \/ part = "guest" /\ Guests!WasmNext
    \/ part = "processes" /\ Guests!ProcessNext
    \/ part = "libraries" /\ Programs!LibraryNext
    \/ part = "programs" /\ Programs!ReplyNext

-----------------------------------------------------------------------------
Parts == {"vault", "settings", "gui", "dhcp", "procs", "store", "reload", "graph", "locks",
          "capabilities", "console", "accounts", "plug", "engine", "tier", "pump", "guest",
          "processes", "libraries", "programs"}
MCInit ==
    /\ part \in Parts
    /\ HostInit /\ Store!Init /\ HalInit
    /\ IF part = "locks" THEN Locking!Init
       ELSE IF part = "capabilities" THEN Planning!Init ELSE Reading!Init
    /\ Guests!Init /\ (part # "libraries" => filter = CHOOSE f \in Guests!Presets : TRUE)
MCNext ==
    /\ \/ HostNext /\ UNCHANGED <<storeVars, threadVars, halVars, wasmVars>>
                   /\ (part # "gui" => UNCHANGED reported)
       \/ StoreNext /\ UNCHANGED <<vars, reported, threadVars, halVars, wasmVars>>
       \/ ThreadNext /\ UNCHANGED <<vars, reported, storeVars, halVars, wasmVars>>
       \/ HalNext /\ UNCHANGED <<vars, reported, storeVars, threadVars, wasmVars>>
       \/ GuestNext /\ UNCHANGED <<vars, reported, storeVars, threadVars, halVars>>
    /\ UNCHANGED part
MCSpec == MCInit /\ [][MCNext]_<<part, reported, vars, storeVars, threadVars, halVars, wasmVars>>

ASSUME Store!BlockStoreAssumption /\ Locking!SystemThreadsAssumption
ASSUME Planning!SystemThreadsAssumption /\ Reading!SystemThreadsAssumption
ASSUME Plugging!AutoHalAssumption /\ Driving!AutoHalAssumption /\ Ranking!AutoHalAssumption
ASSUME Guests!WasmSandboxAssumption /\ Programs!WasmSandboxAssumption




=============================================================================
