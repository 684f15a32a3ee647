---------------------------- MODULE WasmSandbox ----------------------------
(***************************************************************************)
(* How foreign code is run: the WASM block executor (aios-wasm) with the    *)
(* linear memory an IPC request is staged in and the epoch ticker that cuts *)
(* a call off, and the compatibility layer for Linux and Windows binaries   *)
(* (aios-exec-compat) with its process table, its system call translators,  *)
(* its library healer and the WASI filter.                                  *)
(*                                                                         *)
(* Memory is counted in units, Page units to a page.  An instance keeps how *)
(* many epoch ticks are left before its deadline (set_epoch_deadline is     *)
(* relative to the current epoch), the memory the guest grew by itself and  *)
(* the place of the host's staging buffer.  The executor is behind one      *)
(* mutex, so one call runs at a time; the ticker thread of every instance   *)
(* runs beside it.                                                          *)
(***************************************************************************)
EXTENDS Integers, Sequences, FiniteSets, SequencesExt, Functions

CONSTANTS Blocks,       \* blocks of the registry
          Binary,         \* what the binary of a block does and exports
          Page,           \* units of a page (WASM_PAGE)
          MaxPages,       \* pages the engine grants at most
          Ticks,          \* EPOCH_TICKS_PER_TIMEOUT
          Fuel,           \* fuel_limit, in guest steps
          Requests,       \* lengths of serialised packets
          MaxRequest,     \* MAX_IPC_REQUEST
          MaxResponse,    \* MAX_IPC_RESPONSE
          Kinds,          \* executable types that are started
          MaxProcs,       \* max_processes
          MaxPids,        \* bound on spawned processes
          Limit,          \* max_memory_mb, max_open_files and max_threads
          Symbols,        \* imported library names
          MaxAddr,        \* bound on load addresses
          Calls,          \* names of WASI system calls
          Lengths,        \* lengths of binaries that are parsed
          None

VARIABLES inst,      \* BlockExecutor.executed
          fresh,     \* the instance execute_block is starting
          call,      \* the guest call under way
          result,    \* what the last operation returned
          procs,     \* CompatSandboxManager.processes
          nextPid,   \* next_pid
          libs,      \* DependencyHealer: cache, loaded, next address
          filter,    \* WasiFilter
          ruled,     \* the last rule given for each system call
          reply      \* the last translated system call

wasmVars == <<inst, fresh, call, result>>
compatVars == <<procs, nextPid, libs, filter, ruled, reply>>
vars == <<inst, fresh, call, result, procs, nextPid, libs, filter, ruled, reply>>

WasmSandboxAssumption ==
  /\ Page \in Nat \ {0} /\ Ticks \in Nat \ {0} /\ Fuel \in Nat
  /\ \A b \in Blocks : Binary[b].pages <= MaxPages
  /\ Requests \subseteq Nat \ {0} /\ MaxRequest \in Nat /\ MaxResponse \in Nat
  /\ Kinds \subseteq {"native", "elf", "pe", "unknown"}

----------------------------------------------------------------------------
(* The executor.                                                            *)

\* What create_store and instantiate leave: a full window, full fuel, the
\* declared memory, nothing staged yet.
create_store(b) ==
  [left |-> Ticks, fuel |-> Fuel, size |-> Binary[b].pages * Page,
   own |-> {}, scratch |-> 0, base |-> Binary[b].pages * Page]

arm_timeout(i) == [i EXCEPT !.left = Ticks]

Idle == call = None

\* The instance a call runs on: the one being started, or an executed one.
At(b) == IF fresh # None THEN fresh ELSE inst[b]

Keep(b, i) ==
  IF fresh # None THEN fresh' = i /\ UNCHANGED inst
                  ELSE inst' = [inst EXCEPT ![b] = i] /\ UNCHANGED fresh

\* Mutant: the deadline of the store's creation is used for every call.
CallUnarmed(b, f, len, at, i) ==
  /\ Keep(b, i)
  /\ call' = [id |-> b, func |-> f, len |-> len, at |-> at, ticks |-> 0]

\* WasmBlock::call_func: arm the deadline, enter the guest.
call_func(b, f, len, at, i) ==
  /\ Keep(b, arm_timeout(i))
  /\ call' = [id |-> b, func |-> f, len |-> len, at |-> at, ticks |-> 0]

\* execute_block up to the first guest function: compile, store, link,
\* instantiate.  A module that does not compile or imports what the linker
\* lacks leaves an earlier instance of the block as it was.
execute_block(b) ==
  /\ Idle
  /\ IF Binary[b].loads
     THEN /\ fresh' = create_store(b)
          /\ call' = [id |-> b, func |-> "init", len |-> 0, at |-> 0, ticks |-> 0]
          /\ UNCHANGED <<inst, result>>
     ELSE result' = "error" /\ UNCHANGED <<inst, fresh, call>>
  /\ UNCHANGED compatVars

\* init returned, failed or is not exported: start is called whatever init did.
InitDone ==
  /\ ~Idle /\ call.func = "init"
  /\ fresh' = arm_timeout(fresh)
  /\ call' = [call EXCEPT !.func = "start", !.ticks = 0]
  /\ UNCHANGED <<inst, result>> /\ UNCHANGED compatVars

\* start returned, failed or is not exported: the instance replaces the one of an earlier
\* execution, whose ticker thread is stopped and joined.
StartDone ==
  /\ ~Idle /\ call.func = "start"
  /\ inst' = [inst EXCEPT ![call.id] = fresh]
  /\ fresh' = None /\ call' = None /\ result' = "executed"
  /\ UNCHANGED compatVars

\* dispatch_wasm when the block cannot take the packet at all.
Refused(b) ==
  /\ Idle
  /\ inst[b] = None \/ ~Binary[b].entry
  /\ result' = "error"
  /\ UNCHANGED <<inst, fresh, call>> /\ UNCHANGED compatVars

\* Mutant: whole pages only, the remainder of the request is forgotten.
GrowWhole(i, len) ==
  LET pages == len \div Page
  IN [i EXCEPT !.size = @ + pages * Page, !.scratch = i.size + pages * Page - len]

\* The part of stage_request that makes room: grow the memory by the pages
\* the request needs and put the buffer at their end.
GrowForRequest(i, len) ==
  LET pages == (len + Page - 1) \div Page
  IN [i EXCEPT !.size = @ + pages * Page, !.scratch = i.size + pages * Page - len]

\* The staging buffer of the last request is used again when it is long enough.
Reusable(i, len) == i.scratch # 0 /\ i.scratch + len <= i.size

\* stage_request without a guest allocator, then the call of handle_message.
dispatch_wasm(b, len) ==
  /\ Idle /\ inst[b] # None /\ Binary[b].entry /\ ~Binary[b].alloc
  /\ LET i == inst[b]
         j == IF Reusable(i, len) THEN i ELSE GrowForRequest(i, len)
     IN IF len > MaxRequest \/ i.size = 0 \/ j.size > MaxPages * Page
        THEN result' = "error" /\ UNCHANGED <<inst, fresh, call>>
        ELSE /\ call_func(b, "handle_message", len, j.scratch, j)
             /\ UNCHANGED result
  /\ UNCHANGED compatVars

\* stage_request of a guest that exports aios_alloc begins with that call.
AskAllocator(b, len) ==
  /\ Idle /\ inst[b] # None /\ Binary[b].entry /\ Binary[b].alloc
  /\ call_func(b, "aios_alloc", len, 0, inst[b])
  /\ UNCHANGED result /\ UNCHANGED compatVars

\* The allocator answered: no place, a place outside the memory (the write
\* fails), or the place the request is written to.
Allocated(ptr) ==
  /\ ~Idle /\ call.func = "aios_alloc" /\ inst[call.id].left > 0
  /\ IF ptr <= 0 \/ ptr + call.len > inst[call.id].size
     THEN call' = None /\ result' = "error" /\ UNCHANGED <<inst, fresh>>
     ELSE call_func(call.id, "handle_message", call.len, ptr, inst[call.id]) /\ UNCHANGED result
  /\ UNCHANGED compatVars

\* handle_message returned (ptr << 32) | len: nothing, too much, memory it
\* does not have, or bytes that do or do not decode.
Responded(ptr, len) ==
  /\ ~Idle /\ call.func = "handle_message" /\ inst[call.id].left > 0
  /\ call' = None
  /\ \/ len = 0 /\ result' = "none"
     \/ (len > MaxResponse \/ ptr + len > inst[call.id].size) /\ result' = "error"
     \/ /\ len > 0 /\ len <= MaxResponse /\ ptr + len <= inst[call.id].size
        /\ result' \in {"response", "error"}
  /\ UNCHANGED <<inst, fresh>> /\ UNCHANGED compatVars

\* A guest call ends early: a trap, no fuel, or the epoch deadline.  During
\* init and start that is only logged.
Trapped ==
  /\ ~Idle /\ call.func \notin {"init", "start"}
  /\ call' = None /\ result' = "error"
  /\ UNCHANGED <<inst, fresh>> /\ UNCHANGED compatVars

\* External: the guest runs on while it has fuel and time, and may grow its
\* memory.
GuestGrows ==
  /\ ~Idle
  /\ LET i == At(call.id)
     IN /\ i.fuel > 0 /\ i.left > 0 /\ i.size + Page <= MaxPages * Page /\ i.base > 0
        /\ Keep(call.id, [i EXCEPT !.fuel = @ - 1, !.size = @ + Page,
                                   !.own = @ \cup (i.size .. i.size + Page - 1)])
  /\ UNCHANGED <<call, result>> /\ UNCHANGED compatVars

\* EpochTicker: the thread of an instance wakes, finds stop unset and
\* increments the epoch of its engine.
EpochTick(b) ==
  /\ \/ /\ ~Idle /\ call.id = b
        /\ call.ticks < Ticks
        /\ Keep(b, [At(b) EXCEPT !.left = IF @ = 0 THEN 0 ELSE @ - 1])
        /\ call' = [call EXCEPT !.ticks = @ + 1]
     \/ /\ ~Idle => (call.id # b \/ fresh # None)
        /\ inst[b] # None
        /\ inst[b].left > 0
        /\ inst' = [inst EXCEPT ![b].left = @ - 1]
        /\ UNCHANGED <<fresh, call>>
  /\ UNCHANGED result /\ UNCHANGED compatVars

WasmInit ==
  inst = [b \in Blocks |-> None] /\ fresh = None /\ call = None /\ result = None

WasmNext ==
  \/ \E b \in Blocks :
       \/ execute_block(b) \/ Refused(b) \/ EpochTick(b)
       \/ \E n \in Requests : dispatch_wasm(b, n) \/ AskAllocator(b, n)
  \/ InitDone \/ StartDone \/ Trapped \/ GuestGrows
  \/ \E p \in 0 .. MaxPages * Page : Allocated(p)
  \/ \E p \in {0, Page}, n \in {0, 1, Page + 1, MaxResponse + 1} : Responded(p, n)

----------------------------------------------------------------------------
(* Compatibility processes.                                                 *)

Resources == {"memory", "files", "threads"}

\* ExecutableType::required_capabilities.
required_capabilities(k) ==
  CASE k = "elf" -> {"read", "write", "process", "network"}
    [] k = "pe"  -> {"read", "write", "process", "network", "registry", "winapi"}
    [] OTHER     -> {}

\* Mutant: the network is left out of the Windows profile.
ForTypeOffline(k) ==
  CASE k \in {"native", "elf"} -> {"read", "write", "process", "network"}
    [] k = "pe" -> {"read", "write", "process", "registry", "winapi"}
    [] OTHER -> {"read"}

\* CompatSandboxConfig::for_executable_type: the capabilities of a profile.
for_executable_type(k) ==
  CASE k \in {"native", "elf"} -> {"read", "write", "process", "network"}
    [] k = "pe" -> {"read", "write", "process", "network", "registry", "winapi"}
    [] OTHER -> {"read"}

\* CompatProcess::new.  `held` counts what the process was told it has.
NewProcess(pid, k) ==
  [pid |-> pid, kind |-> k, caps |-> for_executable_type(k), alive |-> TRUE,
   used |-> [r \in Resources |-> IF r = "threads" THEN 1 ELSE 0],
   held |-> [r \in Resources |-> IF r = "threads" THEN 1 ELSE 0]]

\* Mutant: the pid is the position in the table.
SpawnByLength(k) ==
  /\ nextPid < MaxPids
  /\ IF Len(procs) >= MaxProcs THEN UNCHANGED <<procs, nextPid>>
     ELSE procs' = Append(procs, NewProcess(Len(procs), k)) /\ nextPid' = nextPid + 1
  /\ UNCHANGED <<libs, filter, ruled, reply>> /\ UNCHANGED wasmVars

\* spawn_process: the table is full while terminated processes are kept.
spawn_process(k) ==
  /\ nextPid < MaxPids
  /\ IF Len(procs) >= MaxProcs THEN UNCHANGED <<procs, nextPid>>
     ELSE procs' = Append(procs, NewProcess(nextPid, k)) /\ nextPid' = nextPid + 1
  /\ UNCHANGED <<libs, filter, ruled, reply>> /\ UNCHANGED wasmVars

\* Mutant: the limit is checked before the resource is counted.
ChargeChecksFirst(n, r) ==
  /\ procs[n].used[r] <= Limit
  /\ procs' = [procs EXCEPT ![n].used[r] = @ + 1,
                            ![n].held[r] = IF procs[n].used[r] <= Limit THEN @ + 1 ELSE @]
  /\ UNCHANGED <<nextPid, libs, filter, ruled, reply>> /\ UNCHANGED wasmVars

\* allocate_memory, open_file, spawn_thread: count, then check the limit.  A
\* refused request stays counted.
charge(n, r) ==
  /\ procs[n].used[r] <= Limit
  /\ procs' = [procs EXCEPT ![n].used[r] = @ + 1,
                            ![n].held[r] = IF procs[n].used[r] + 1 <= Limit THEN @ + 1 ELSE @]
  /\ UNCHANGED <<nextPid, libs, filter, ruled, reply>> /\ UNCHANGED wasmVars

\* close_file of a file the process has.
close_file(n) ==
  /\ procs[n].held["files"] > 0
  /\ procs' = [procs EXCEPT ![n].used["files"] = @ - 1, ![n].held["files"] = @ - 1]
  /\ UNCHANGED <<nextPid, libs, filter, ruled, reply>> /\ UNCHANGED wasmVars

\* terminate_process, by pid: the first entry of that pid.
terminate_process(pid) ==
  /\ \E n \in DOMAIN procs :
       /\ procs[n].pid = pid /\ \A m \in 1 .. n - 1 : procs[m].pid # pid
       /\ procs' = [procs EXCEPT ![n].alive = FALSE]
  /\ UNCHANGED <<nextPid, libs, filter, ruled, reply>> /\ UNCHANGED wasmVars

cleanup_terminated ==
  /\ procs' = SelectSeq(procs, LAMBDA p : p.alive)
  /\ UNCHANGED <<nextPid, libs, filter, ruled, reply>> /\ UNCHANGED wasmVars

----------------------------------------------------------------------------
(* Missing libraries.                                                       *)

\* add_loaded_library at an address of the caller.
add_loaded_library(s, a) ==
  /\ libs' = [libs EXCEPT !.loaded[s] = a, !.cache[s] = a]
  /\ UNCHANGED <<procs, nextPid, filter, ruled, reply>> /\ UNCHANGED wasmVars

\* scan_dependencies: no file is ever found, so what is not loaded is missing.
scan_dependencies(wanted) == SelectSeq(wanted, LAMBDA s : libs.loaded[s] = None)

\* Mutant: the resolution is cached and the library not noted as loaded.
ResolveCachesOnly(l, s) ==
  IF l.cache[s] # None THEN l
  ELSE [l EXCEPT !.cache[s] = l.next, !.next = @ + 1]

\* resolve_missing with downloads allowed: the cached address, else the next.
resolve_missing(l, s) ==
  IF l.cache[s] # None THEN l
  ELSE [l EXCEPT !.cache[s] = l.next, !.loaded[s] = l.next, !.next = @ + 1]

\* heal_dependencies: with downloads off the first name that is not cached
\* ends it; either way what was resolved before stays.
heal_dependencies(wanted, auto) ==
  /\ LET missing == scan_dependencies(wanted)
         hit == IF auto THEN missing ELSE SelectSeq(missing, LAMBDA s : libs.cache[s] # None)
     IN libs' = FoldLeft(resolve_missing, libs, hit)
  /\ libs'.next <= MaxAddr
  /\ UNCHANGED <<procs, nextPid, filter, ruled, reply>> /\ UNCHANGED wasmVars

clear_cache ==
  /\ libs' = [libs EXCEPT !.cache = [s \in Symbols |-> None]]
  /\ UNCHANGED <<procs, nextPid, filter, ruled, reply>> /\ UNCHANGED wasmVars

----------------------------------------------------------------------------
(* WASI filter, system call translation, binary headers.                    *)

\* Presets a filter starts from: default, permissive, restrictive, no_network.
\* The default set spells its first name " environ_get".
Presets ==
  {[allowed |-> {"fd_write"}, denied |-> {}, logged |-> {}, policy |-> "deny"],
   [allowed |-> {}, denied |-> {}, logged |-> {}, policy |-> "allow"],
   [allowed |-> {}, denied |-> {"sock_send"}, logged |-> {}, policy |-> "allow"]}

allow(c) == [filter EXCEPT !.allowed = @ \cup {c}, !.denied = @ \ {c}]


deny(c) == [filter EXCEPT !.denied = @ \cup {c}, !.allowed = @ \ {c}]

log(c) == [filter EXCEPT !.logged = @ \cup {c}]

check_syscall(c) ==
  CASE c \in filter.allowed -> "allow"
    [] c \notin filter.allowed /\ c \in filter.denied -> "deny"
    [] c \notin filter.allowed \cup filter.denied /\ c \in filter.logged -> "log"
    [] OTHER -> filter.policy

Rule(c) ==
  /\ \/ filter' = allow(c) /\ ruled' = [ruled EXCEPT ![c] = "allow"]
     \/ filter' = deny(c) /\ ruled' = [ruled EXCEPT ![c] = "deny"]
     \/ /\ filter' = log(c)
        /\ ruled' = [ruled EXCEPT ![c] = IF @ = None /\ c \notin filter.allowed \cup filter.denied
                                         THEN "log" ELSE @]
  /\ UNCHANGED <<procs, nextPid, libs, reply>> /\ UNCHANGED wasmVars

\* DefaultPosixTranslator::translate over the buffer and count arguments: the
\* result and the length of the returned data.  read and recv take the buffer
\* argument for the count.
posix_translate(s, buf, count, pid) ==
  CASE s \in {"read", "recv"}  -> [result |-> buf, out |-> buf]
    [] s \in {"write", "send"} -> [result |-> count, out |-> 0]
    [] s = "lseek"             -> [result |-> buf, out |-> 0]
    [] s = "open"              -> [result |-> 3, out |-> 0]
    [] s = "socket"            -> [result |-> 4, out |-> 0]
    [] s = "getpid"            -> [result |-> pid, out |-> 0]
    [] s = "getuid"            -> [result |-> 1000, out |-> 0]
    [] s = "stat"              -> [result |-> 0, out |-> 144]
    [] OTHER                   -> [result |-> 0, out |-> 0]

\* DefaultWin32Translator::translate: constant handles, one buffer of the
\* asked length.
win32_translate(s, count) ==
  CASE s = "ReadFile"     -> [result |-> 1, out |-> count]
    [] s = "CreateFileW"  -> [result |-> 100, out |-> 0]
    [] s = "CreateThread" -> [result |-> 200, out |-> 0]
    [] s = "CreateMutexW" -> [result |-> 300, out |-> 0]
    [] s = "ExitProcess"  -> [result |-> 0, out |-> 0]
    [] OTHER              -> [result |-> 1, out |-> 0]

translate ==
  /\ \E p \in {procs[n].pid : n \in DOMAIN procs} :
       \/ \E s \in {"read", "write", "lseek", "open", "socket", "getpid", "getuid", "stat", "close"} :
            reply' = posix_translate(s, 1, 2, p)
       \/ \E s \in {"ReadFile", "CreateFileW", "CreateThread", "CreateMutexW", "ExitProcess", "CloseHandle"} :
            reply' = win32_translate(s, 2)
  /\ UNCHANGED <<procs, nextPid, libs, filter, ruled>> /\ UNCHANGED wasmVars

\* BinaryHeader::parse: how far the reads of the entry point go.  The length
\* is compared with 24 (ELF) and offset + 40 (PE), the slices end at 32, 28
\* and offset + 44, so a binary cut in between makes the slice panic.
parse_elf(wide, len) ==
  IF len < 24 THEN "no entry" ELSE IF len >= (IF wide THEN 32 ELSE 28) THEN "entry" ELSE "panic"

parse_pe(off, len) ==
  IF off + 40 >= len THEN "no entry" ELSE IF len >= off + 44 THEN "entry" ELSE "panic"

parse_aios(len) == IF len >= 16 THEN "entry" ELSE "no entry"

parse(k, len) ==
  /\ reply' = [kind |-> k,
               entry |-> CASE k = "unknown" \/ len < 4 -> "no entry"
                           [] k = "elf"    -> parse_elf(TRUE, len)
                           [] k = "pe"     -> parse_pe(IF len >= 64 THEN 64 ELSE 0, len)
                           [] k = "native" -> parse_aios(len)]
  /\ UNCHANGED <<procs, nextPid, libs, filter, ruled>> /\ UNCHANGED wasmVars

CompatInit ==
  /\ procs = <<>> /\ nextPid = 0
  /\ libs = [cache |-> [s \in Symbols |-> None], loaded |-> [s \in Symbols |-> None], next |-> 1]
  /\ filter \in Presets /\ ruled = [c \in Calls |-> None] /\ reply = None

ProcessNext ==
  \/ \E k \in Kinds : spawn_process(k)
  \/ \E n \in DOMAIN procs :
       \/ \E r \in Resources : charge(n, r)
       \/ close_file(n) \/ terminate_process(procs[n].pid)
  \/ cleanup_terminated

LibraryNext ==
  \/ \E s \in Symbols : add_loaded_library(s, 0)
  \/ \E w \in Symbols \X Symbols, a \in BOOLEAN : heal_dependencies(w, a)
  \/ clear_cache
  \/ \E c \in Calls : Rule(c)

ReplyNext ==
  \/ nextPid = 0 /\ \E k \in Kinds : spawn_process(k)
  \/ translate
  \/ \E k \in Kinds, n \in Lengths : parse(k, n)

CompatNext == ProcessNext \/ LibraryNext \/ ReplyNext

Init == WasmInit /\ CompatInit
Next == WasmNext \/ CompatNext
Spec == Init /\ [][Next]_vars

----------------------------------------------------------------------------
(* Properties.                                                              *)

\* A request staged by the host lies inside the guest's memory and never over
\* the memory the block was built with, however requests of different lengths
\* follow each other and whatever the guest grew meanwhile; and a call finds
\* its deadline passed only after the full number of ticks since it began,
\* however long its store had been idle (executor.rs stage_request,
\* sandbox.rs call_func and EpochTicker).
GuestCallSound ==
  ~Idle =>
    /\ (call.func = "handle_message" /\ ~Binary[call.id].alloc) =>
         /\ call.at >= inst[call.id].base
         /\ call.at + call.len <= inst[call.id].size
    /\ At(call.id).left = 0 => call.ticks >= Ticks

\* Compatibility processes keep distinct pids across clean-ups, hold what
\* their format requires and never hold more of a resource than its limit; a
\* cached library resolution is the address the library is loaded at; and the
\* WASI filter answers with the last rule given for a call
\* (sandbox_compat.rs, dependency_healer.rs, wasi.rs).
CompatSound ==
  /\ \A m, n \in DOMAIN procs : procs[m].pid = procs[n].pid => m = n
  /\ \A n \in DOMAIN procs :
       /\ required_capabilities(procs[n].kind) \subseteq procs[n].caps
       /\ \A r \in Resources : procs[n].held[r] <= Limit
  /\ \A s \in Symbols : libs.cache[s] # None => libs.cache[s] = libs.loaded[s]
  /\ \A c \in Calls : ruled[c] # None => check_syscall(c) = ruled[c]

\* A staged request does not touch memory the guest grew for itself
\* (executor.rs: "Place the buffer in freshly grown memory so it never
\* overlaps the block's own data, then remember it for subsequent calls.").
\* Refuted: section 5 of the README.
StagingKeepsGuestData ==
  (~Idle /\ call.func = "handle_message" /\ ~Binary[call.id].alloc) =>
    (call.at .. call.at + call.len - 1) \cap inst[call.id].own = {}
=============================================================================
