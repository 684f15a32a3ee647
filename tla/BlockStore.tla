----------------------------- MODULE BlockStore -----------------------------
(***************************************************************************)
(* Where blocks come from: the store that installs, updates and rolls back *)
(* block files (aios-store), the registry they are loaded into with the    *)
(* watcher that reloads changed files, and the dependency graph that       *)
(* orders loading (aios-block-mgr).                                        *)
(*                                                                         *)
(* A store call awaits its catalog and each download; the server may       *)
(* change in between. Everything after a download runs without an await    *)
(* and is one step, in which each file operation may fail. A version v     *)
(* stands for the string "1.v.0", and a binary for the version it was      *)
(* built from.                                                             *)
(***************************************************************************)
EXTENDS Integers, Sequences, FiniteSets, SequencesExt, FiniteSetsExt

CONSTANTS Names,      \* block names
          Versions,   \* a finite set of minor versions
          Sig,        \* Versions -> how the catalog's manifest is signed
          Remote,     \* TRUE for an HTTP or GitHub source, FALSE for a local directory
          EnvKeys,    \* whether AIOS_TRUSTED_PUBLIC_KEYS is set
          MaxCalls,   \* bound on store calls
          Paths,      \* files in the watched directory
          Contents,   \* what such a file may hold
          MaxTime,    \* bound on the file system's clock
          MaxIds,     \* bound on block ids given out
          Blocks,     \* vertices of the dependency graph
          None

Torn == 0             \* what a write that failed half-way left
Text == 1000          \* the JSON text of a sidecar

BlockStoreAssumption ==
    /\ IsFiniteSet(Names) /\ IsFiniteSet(Versions) /\ Versions \subseteq 1 .. 99
    /\ Sig \in [Versions -> {"unsigned", "trusted", "other", "broken"}]
    /\ Remote \in BOOLEAN /\ EnvKeys \in BOOLEAN
    /\ MaxCalls \in Nat /\ MaxTime \in Nat /\ MaxIds \in Nat

VARIABLES catalog,    \* Names -> versions the source lists
          served,     \* Names -> the version whose binary the source serves
          disk,       \* name, version, extension -> content of the file, or None
          op,         \* the store call under way
          trusted,    \* whether the source has trusted keys
          calls,      \* store calls made
          spoiled,    \* a file operation failed, a rollback was asked for, or
                      \* an uninstalled block left backups behind
          files,      \* Paths -> the watched file, or None
          tracked,    \* Paths -> what the watcher last loaded, or None
          registry,   \* block id -> the loaded block, or None
          nextId, clock, removed,
          deps        \* the dependency graph: block -> sequence of dependencies

storeVars == <<catalog, served, disk, op, trusted, calls, spoiled>>
reloadVars == <<files, tracked, registry, nextId, clock, removed>>
vars == <<storeVars, reloadVars, deps>>

Exts == {"wasm", "json", "wasm.bak", "json.bak"}
Idle == [kind |-> "idle", name |-> None, todo |-> <<>>]

-----------------------------------------------------------------------------
(* The store                                                               *)

\* The order of the file names of versions "1.v.0", compared as strings.
Lex(v) == IF v < 10 THEN 10 * v - 1 ELSE v

Put(d, f, c) == [d EXCEPT ![f] = c]

\* BlockInstaller::list_installed: binaries on disk, by their file names.
Installed(d, n) == {v \in Versions : d[<<n, v, "wasm">>] # None}

find_installed(d, n) == Max(Installed(d, n))

\* BlockInstaller::verify_manifest and StoreManager::verify_source_manifest.
Accepts(keys, sig) == IF keys THEN sig = "trusted"
                      ELSE sig # "broken"

InstallUnchecked(d, n, v, sha, bin, bad) ==
    [ok |-> TRUE,
     disk |-> [d EXCEPT ![<<n, v, "wasm">>] = bin, ![<<n, v, "json">>] = Text]]

\* install_verified: the hash, the binary, then the sidecar. A failed write
\* leaves what it had written; "bad" holds the operations that fail.
install_verified(d, n, v, sha, bin, bad) ==
    IF sha # bin
      THEN [ok |-> FALSE, disk |-> d]
    ELSE IF "write" \in bad
      THEN [ok |-> FALSE, disk |-> Put(d, <<n, v, "wasm">>, Torn)]
    ELSE IF "sidecar" \in bad
      THEN [ok |-> FALSE, disk |-> [d EXCEPT ![<<n, v, "wasm">>] = bin,
                                             ![<<n, v, "json">>] = Torn]]
    ELSE [ok |-> TRUE, disk |-> [d EXCEPT ![<<n, v, "wasm">>] = bin,
                                          ![<<n, v, "json">>] = Text]]

\* backup: copies of the newest binary and, if it has one, of its sidecar.
backup(d, n, bad) ==
    IF Installed(d, n) = {} THEN d
    ELSE LET v == find_installed(d, n)
             b == Put(d, <<n, v, "wasm.bak">>,
                      IF "copy" \in bad THEN Torn ELSE d[<<n, v, "wasm">>])
         IN IF "copy" \in bad \/ d[<<n, v, "json">>] = None THEN b
            ELSE Put(b, <<n, v, "json.bak">>, d[<<n, v, "json">>])

\* The .bak file that sorts last.
Backups(d, n) == {<<v, e>> \in Versions \X {"wasm.bak", "json.bak"} : d[<<n, v, e>>] # None}

LastBackup(d, n) ==
    CHOOSE b \in Backups(d, n) : \A o \in Backups(d, n) :
        \/ Lex(o[1]) < Lex(b[1])
        \/ o[1] = b[1] /\ (o[2] = "wasm.bak" => b[2] = "wasm.bak")

\* The newest binary and its sidecar are removed before the restore.
WithoutNewest(d, n) ==
    IF Installed(d, n) = {} THEN d
    ELSE [d EXCEPT ![<<n, find_installed(d, n), "wasm">>] = None,
                   ![<<n, find_installed(d, n), "json">>] = None]

RollbackRemovesLast(d, n, bad) ==
    IF Backups(d, n) = {} THEN [ok |-> FALSE, disk |-> d]
    ELSE LET b == LastBackup(d, n)
             bin == d[<<n, b[1], b[2]>>]
             r == install_verified(d, n, b[1], bin, bin, {x[2] : x \in bad})
         IN [r EXCEPT !.disk = WithoutNewest(@, n)]

\* rollback: the restored file counts as a binary whatever the backup held,
\* and its backup is removed once it is in place.
rollback(d, n, bad) ==
    IF Backups(d, n) = {} THEN [ok |-> FALSE, disk |-> d]
    ELSE LET b == LastBackup(d, n)
             bin == d[<<n, b[1], b[2]>>]
             r == install_verified(WithoutNewest(d, n), n, b[1], bin, bin,
                                   {x[2] : x \in bad})
         IN IF r.ok THEN [r EXCEPT !.disk[<<n, b[1], b[2]>>] = None] ELSE r

\* At most one file operation of the call fails, and then maybe one of the
\* rollback after it.
Faults == {{}} \cup {{f} : f \in {"write", "sidecar", "copy"}}
RollbackFaults == {{}} \cup {{<<"rollback", f>>} : f \in {"write", "sidecar"}}

\* The version whose bytes a download returns: what the server holds under
\* the block's name, or the local file that sorts last.
download_block(n) ==
    IF Remote THEN served[n]
    ELSE CHOOSE v \in catalog[n] : \A o \in catalog[n] : Lex(o) <= Lex(v)

\* The source: a version is listed, and its binary uploaded, separately.
Publish(n, v) ==
    /\ v \notin catalog[n]
    /\ catalog' = [catalog EXCEPT ![n] = @ \cup {v}]
    /\ UNCHANGED <<served, disk, op, trusted, calls, spoiled, reloadVars, deps>>

Upload(n, v) ==
    /\ Remote /\ served[n] # v
    /\ served' = [served EXCEPT ![n] = v]
    /\ UNCHANGED <<catalog, disk, op, trusted, calls, spoiled, reloadVars, deps>>

\* trust_source and clear_source_trust
SetTrust ==
    /\ op = Idle
    /\ trusted' = ~trusted
    /\ UNCHANGED <<catalog, served, disk, op, calls, spoiled, reloadVars, deps>>

Begin(kind, n, todo) ==
    /\ op = Idle /\ calls < MaxCalls
    /\ calls' = calls + 1
    /\ op' = [kind |-> kind, name |-> n, todo |-> todo]
    /\ UNCHANGED <<catalog, served, disk, trusted, spoiled, reloadVars, deps>>

\* StoreManager::install up to its download: the newest listed version, or
\* the one asked for.
install(n) ==
    \E v \in catalog[n] : Begin("install", n, <<v>>)

\* check_updates: one target for every installed version older than the
\* newest listed one, newest installation first.
check_updates(n) ==
    [i \in 1 .. Cardinality({v \in Installed(disk, n) : \E c \in catalog[n] : c > v})
        |-> Max(catalog[n])]

update(n) ==
    /\ check_updates(n) # <<>>
    /\ Begin("update", n, check_updates(n))

EndCall == op' = Idle

\* A download fails: the call ends with an error.
DownloadFails ==
    /\ op.kind # "idle" /\ EndCall
    /\ UNCHANGED <<catalog, served, disk, trusted, calls, spoiled, reloadVars, deps>>

\* The rest of install.
InstallBlock(bad) ==
    /\ op.kind = "install" /\ "copy" \notin bad
    /\ LET n == op.name
           v == Head(op.todo)
           r == install_verified(disk, n, v, v, download_block(n), bad)
           skip == \/ ~Accepts(trusted, Sig[v]) \/ ~Accepts(EnvKeys, Sig[v])
                   \/ Installed(disk, n) # {} /\ find_installed(disk, n) >= v
       IN disk' = IF skip THEN disk ELSE r.disk
    /\ EndCall /\ spoiled' = (spoiled \/ bad # {})
    /\ UNCHANGED <<catalog, served, trusted, calls, reloadVars, deps>>

\* One target of update: the trust check, the backup, the installation, and
\* the rollback that follows a failure and ends the call.
UpdateBlock(bad, rbad) ==
    /\ op.kind = "update"
    /\ LET n == op.name
           v == Head(op.todo)
           b == backup(disk, n, bad)
           r == IF Accepts(EnvKeys, Sig[v])
                  THEN install_verified(b, n, v, v, download_block(n), bad)
                  ELSE [ok |-> FALSE, disk |-> b]
       IN IF ~Accepts(trusted, Sig[v]) THEN disk' = disk /\ EndCall
          ELSE IF r.ok
            THEN /\ disk' = r.disk
                 /\ op' = IF Len(op.todo) = 1 THEN Idle ELSE [op EXCEPT !.todo = Tail(@)]
          ELSE disk' = rollback(r.disk, n, rbad).disk /\ EndCall
    /\ spoiled' = (spoiled \/ bad # {} \/ rbad # {})
    /\ UNCHANGED <<catalog, served, trusted, calls, reloadVars, deps>>

\* StoreManager::rollback and uninstall, asked for by the user.
AskRollback(n, rbad) ==
    /\ op = Idle /\ calls < MaxCalls /\ Backups(disk, n) # {}
    /\ disk' = rollback(disk, n, rbad).disk
    /\ calls' = calls + 1 /\ spoiled' = TRUE
    /\ UNCHANGED <<catalog, served, op, trusted, reloadVars, deps>>

uninstall(n) ==
    /\ op = Idle /\ Installed(disk, n) # {}
    /\ disk' = [f \in DOMAIN disk |->
                  IF f[1] = n /\ f[2] \in Installed(disk, n) /\ f[3] \in {"wasm", "json"}
                    THEN None ELSE disk[f]]
    /\ spoiled' = (spoiled \/ Backups(disk, n) # {})
    /\ UNCHANGED <<catalog, served, op, trusted, calls, reloadVars, deps>>

StoreNext ==
    \/ \E n \in Names, v \in Versions : Publish(n, v) \/ Upload(n, v)
    \/ SetTrust \/ DownloadFails
    \/ \E n \in Names : install(n) \/ update(n) \/ uninstall(n)
    \/ \E bad \in Faults : InstallBlock(bad)
    \/ \E bad \in Faults, rbad \in RollbackFaults : UpdateBlock(bad, rbad)
    \/ \E n \in Names, rbad \in RollbackFaults : AskRollback(n, rbad)

-----------------------------------------------------------------------------
(* The registry and the watcher                                            *)

Registered == {i \in DOMAIN registry : registry[i] # None}

\* BlockLoader::load_from_binary: register, validate, activate.
load_from_binary(r, id, p, c, via) ==
    [r EXCEPT ![id] = [path |-> p, content |-> c, via |-> via, state |-> "Active"]]

\* A file is written, at the same time as an earlier write or later; or removed.
SaveFile(p, c) ==
    \E t \in clock .. (clock + 1) :
        /\ t <= MaxTime
        /\ files' = [files EXCEPT ![p] = [modified |-> t, content |-> c]]
        /\ clock' = t
        /\ UNCHANGED <<tracked, registry, nextId, removed, storeVars, deps>>

RemoveFile(p) ==
    /\ files[p] # None
    /\ files' = [files EXCEPT ![p] = None]
    /\ removed' = removed \cup {p}
    /\ UNCHANGED <<tracked, registry, nextId, clock, storeVars, deps>>

\* Whether scan_and_reload reads the file and finds it new or changed.
Reloads(p) ==
    /\ files[p] # None
    /\ tracked[p] # None => /\ files[p].modified > tracked[p].modified
                            /\ files[p].content # tracked[p].sha256

UpdateKeepsOld(s, p) ==
    IF ~Reloads(p) THEN s
    ELSE [reg |-> load_from_binary(s.reg, s.next, p, files[p].content, "scan"),
          seen |-> [s.seen EXCEPT ![p] = [modified |-> files[p].modified,
                                          sha256 |-> files[p].content, loaded |-> s.next]],
          next |-> s.next + 1]

\* One file of scan_and_reload: the block loaded before is unloaded.
ReloadFile(s, p) ==
    IF ~Reloads(p) THEN s
    ELSE LET old == IF tracked[p] = None THEN {} ELSE {tracked[p].loaded}
             kept == [i \in DOMAIN s.reg |-> IF i \in old THEN None ELSE s.reg[i]]
         IN [reg |-> load_from_binary(kept, s.next, p, files[p].content, "scan"),
             seen |-> [s.seen EXCEPT ![p] = [modified |-> files[p].modified,
                                             sha256 |-> files[p].content, loaded |-> s.next]],
             next |-> s.next + 1]

\* A removed file is forgotten; its block stays registered.
scan_and_reload ==
    \E order \in SetToSeqs(Paths) :
        LET seen == [p \in Paths |-> IF files[p] = None THEN None ELSE tracked[p]]
            s == FoldLeft(ReloadFile, [reg |-> registry, seen |-> seen, next |-> nextId], order)
        IN /\ nextId + Cardinality(Paths) <= MaxIds + 1
           /\ registry' = s.reg /\ tracked' = s.seen /\ nextId' = s.next
           /\ UNCHANGED <<files, clock, removed, storeVars, deps>>

\* BlockLoader::load_from_directory loads every file once more.
load_from_directory(p) ==
    /\ files[p] # None /\ nextId <= MaxIds
    /\ registry' = load_from_binary(registry, nextId, p, files[p].content, "boot")
    /\ nextId' = nextId + 1
    /\ UNCHANGED <<files, tracked, clock, removed, storeVars, deps>>

\* BlockRegistry::boot_discover registers a file's block without activating it.
boot_discover(p) ==
    /\ files[p] # None /\ nextId <= MaxIds
    /\ registry' = [registry EXCEPT ![nextId] = [path |-> p, content |-> files[p].content,
                                                via |-> "boot", state |-> "Loaded"]]
    /\ nextId' = nextId + 1
    /\ UNCHANGED <<files, tracked, clock, removed, storeVars, deps>>

activate_block(i) ==
    /\ registry' = [registry EXCEPT ![i].state = "Active"]
    /\ UNCHANGED <<files, tracked, nextId, clock, removed, storeVars, deps>>

unload_block(i) ==
    /\ registry' = [registry EXCEPT ![i] = None]
    /\ UNCHANGED <<files, tracked, nextId, clock, removed, storeVars, deps>>

\* swap_binary keeps the id and changes the binary.
swap_binary(i, c) ==
    /\ registry' = [registry EXCEPT ![i].content = c, ![i].via = "swap",
                                       ![i].state = "Active"]
    /\ UNCHANGED <<files, tracked, nextId, clock, removed, storeVars, deps>>

ReloadNext ==
    \/ \E p \in Paths, c \in Contents : SaveFile(p, c)
    \/ \E p \in Paths : RemoveFile(p) \/ load_from_directory(p) \/ boot_discover(p)
    \/ scan_and_reload
    \/ \E i \in Registered : unload_block(i) \/ activate_block(i) \/ \E c \in Contents : swap_binary(i, c)

-----------------------------------------------------------------------------
(* The dependency graph                                                    *)

\* What can be reached from a set of blocks along their dependencies.
Reach(d, from) ==
    FoldLeft(LAMBDA r, i : r \cup UNION {ToSet(d[b]) : b \in r}, from,
             [i \in 1 .. Cardinality(DOMAIN d) |-> i])


would_create_cycle(d, block, on) == block \in Reach(d, {on})

add_dependency(block, on) ==
    LET d == [b \in (DOMAIN deps) \cup {block, on} |->
                 IF b \in DOMAIN deps THEN deps[b] ELSE <<>>]
    IN /\ deps' = IF would_create_cycle(d, block, on) \/ Contains(d[block], on) THEN d
                  ELSE [d EXCEPT ![block] = Append(@, on)]
       /\ UNCHANGED <<storeVars, reloadVars>>

remove_block(b) ==
    /\ b \in DOMAIN deps
    /\ deps' = [o \in DOMAIN deps \ {b} |-> SelectSeq(deps[o], LAMBDA x : x # b)]
    /\ UNCHANGED <<storeVars, reloadVars>>

\* load_order: blocks whose dependencies are all placed, in rounds; the order
\* inside a round is the map's. The result is the sequence of rounds.
load_order(d) ==
    FoldLeft(LAMBDA rounds, i :
               LET done == UNION ToSet(rounds)
                   next == {b \in DOMAIN d \ done : ToSet(d[b]) \subseteq done}
               IN IF next = {} THEN rounds ELSE Append(rounds, next),
             <<>>, [i \in 1 .. Cardinality(DOMAIN d) |-> i])

GraphNext == \/ \E a, b \in Blocks : add_dependency(a, b)
             \/ \E b \in Blocks : remove_block(b)

-----------------------------------------------------------------------------
Init ==
    /\ catalog = [n \in Names |-> {}] /\ served = [n \in Names |-> Min(Versions)]
    /\ disk = [f \in Names \X Versions \X Exts |-> None]
    /\ op = Idle /\ trusted = FALSE /\ calls = 0 /\ spoiled = FALSE
    /\ files = [p \in Paths |-> None] /\ tracked = [p \in Paths |-> None]
    /\ registry = [i \in 1 .. MaxIds |-> None] /\ nextId = 1 /\ clock = 0 /\ removed = {}
    /\ deps = <<>>

Next == StoreNext \/ ReloadNext \/ GraphNext
Spec == Init /\ [][Next]_vars

-----------------------------------------------------------------------------
(* Properties                                                              *)

\* As long as no file operation failed, nobody asked for a rollback and no
\* uninstalled block left backups behind (spoiled), and versions sort as strings
\* the way they sort as numbers (below 1.10.0), every installed file holds the binary of its own version, however the source
\* changed between the catalog and the download (the hash in install_verified).
\* And an update never leaves a block with no version, unless the write of its
\* rollback failed: the backup is put back after the newest file is removed.
StoreKeepsBlocks ==
    /\ [](~spoiled /\ (\A v \in Versions : v < 10) => \A n \in Names : \A v \in Installed(disk, n) : disk[<<n, v, "wasm">>] = v)
    /\ [][\A n \in Names :
            op.kind = "update" /\ Installed(disk, n) # {} => Installed(disk', n) # {}]_storeVars

\* A file that was never removed has at most one block that the watcher
\* loaded, the one it remembers, and that block runs the content it remembers.
OneBlockPerFile ==
    \A i \in Registered :
        registry[i].via = "scan" /\ registry[i].path \notin removed
            => /\ tracked[registry[i].path] # None
               /\ tracked[registry[i].path].loaded = i
               /\ tracked[registry[i].path].sha256 = registry[i].content

\* However dependencies are added and blocks removed, load_order places every
\* block, after all of its dependencies.
LoadsAfterDependencies ==
    LET rounds == load_order(deps)
    IN /\ UNION ToSet(rounds) = DOMAIN deps
       /\ \A i \in DOMAIN rounds : \A b \in rounds[i] :
             ToSet(deps[b]) \subseteq UNION {rounds[j] : j \in 1 .. (i - 1)}

\* "Update one or all installed blocks from a source, rolling back on failure":
\* with no failing file operation and no other call than installs and updates,
\* a failed update leaves the newest version as it was. Refuted: rollback takes
\* the backup whose name sorts last.
UpdateRollsBack ==
    [][\A n \in Names :
         ~spoiled' /\ op.kind = "update" /\ Installed(disk, n) # {}
            => /\ find_installed(disk', n) >= find_installed(disk, n)
               /\ disk'[<<n, find_installed(disk', n), "wasm">>] # Text]_storeVars
=============================================================================
