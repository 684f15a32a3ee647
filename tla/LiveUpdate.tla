----------------------------- MODULE LiveUpdate -----------------------------
(***************************************************************************)
(* aios-live-update, the two ways it replaces a running block:             *)
(*   files   cow_live_update.rs over aios-persistence: a hot swap that     *)
(*           logs its progress in recovery.log and saves the old state and *)
(*           the old binary through copy-on-write storage, with a crash    *)
(*           possible between any two file operations and in the middle of *)
(*           an append.  Disk state survives a crash; the engine, its      *)
(*           rollback entries and the log's next_id do not.                *)
(*   engine  wasm_engine.rs over engine.rs: deploying, swapping and        *)
(*           rolling back running WASM blocks.  A call holds the engine,   *)
(*           so it is one action; inside it several steps can fail one     *)
(*           after the other, and what each failure leaves behind is what  *)
(*           this part is about.                                           *)
(*                                                                         *)
(* The IPC queue is frozen and restored inside perform_swap and rollback   *)
(* with nothing in between that could touch it; IpcBus models that part.   *)
(***************************************************************************)
EXTENDS Naturals, Sequences

CONSTANTS Blocks,      \* block ids
          MaxEntries,  \* RecoveryLog::max_entries
          MaxSwaps,    \* bound: swaps attempted; a swap's number tags its data
          MaxCrashes,  \* bound: crashes of the process
          MaxLog,      \* bound: no rollback starts once the log has this many lines
          Versions,    \* versions a swap of the engine can bring, as numbers above 1
          MaxCalls     \* bound: calls of the engine in one behaviour

LiveUpdateAssumption ==
  /\ {MaxEntries, MaxSwaps, MaxCrashes, MaxLog, MaxCalls} \subseteq Nat
  /\ Versions \subseteq Nat \ {0, 1}

Kinds == {"state", "binary"}      \* block_<id>_state.bin, block_<id>_old.bin
Torn == [line |-> "garbage"]      \* a line nothing can be parsed from

VARIABLES log,       \* recovery.log: the lines that end in a newline
          tail,      \* bytes of an interrupted append follow the last newline
          nextId,    \* RecoveryLog::next_id, in memory
          rewrite,   \* entries cleanup() has still to append to the new log
          file,      \* primary files: which swap's data they hold, 0 if absent
          shadow,    \* the .shadow copies, "unsynced" until fsync
          entries,   \* rollback_entries of the running engine
          job,       \* the call in progress: its file operations still to do
          fate,      \* history: how each swap ended
          swaps, crashes,
          reported,  \* history: the swaps recover_from_crash last reported
          active,    \* active_blocks: the version of the running instance
          entry,     \* rollback_entries of the engine: old_version of each entry
          history,   \* swap_history
          calls,
          last,      \* history: outcome of the last call
          previous   \* history: what ran before the block's last swap

fileVars   == <<log, tail, nextId, rewrite, file, shadow, entries, job, fate, swaps, crashes,
                reported>>
engineVars == <<active, entry, history, calls, last, previous>>
vars       == <<fileVars, engineVars>>

Idle == [op |-> "none", todo |-> <<>>, block |-> 0, swap |-> 0]
logVars == <<log, tail, nextId, rewrite>>

----------------------------------------------------------------------------
(* recovery.log                                                            *)

\* One append: a line after an interrupted append is glued to it and lost.
Appended(l, t, line) == Append(l, IF t THEN Torn ELSE line)

\* get_pending_entries that takes the last whole line for a torn one.
PendingButLast(l) ==
  LET es == SelectSeq(l, LAMBDA e : e.line = "entry")
  IN IF es = <<>> THEN es ELSE SubSeq(es, 1, Len(es) - 1)

\* get_pending_entries: the entries no completion marker names.
Pending(l) ==
  LET done == {l[i].id : i \in {j \in DOMAIN l : l[j].line = "completed"}}
  IN SelectSeq(l, LAMBDA e : e.line = "entry" /\ e.id \notin done)

\* log_entry: append and count; once too many entries are pending, cleanup
\* removes the file and starts to append the survivors again.
LogEntry(op, b, n) ==
  LET l == Appended(log, tail, [line |-> "entry", id |-> nextId, op |-> op,
                                block |-> b, swap |-> n])
      p == Pending(l)
  IN /\ tail' = FALSE
     /\ IF nextId + 1 > MaxEntries /\ Len(p) > MaxEntries
        THEN /\ log' = <<>>
             /\ nextId' = 0
             /\ rewrite' = SubSeq(p, Len(p) - MaxEntries + 1, Len(p))
        ELSE /\ log' = l
             /\ nextId' = nextId + 1
             /\ UNCHANGED rewrite

\* One survivor: it keeps its old id while next_id counts from 0.
RewriteEntry ==
  /\ rewrite # <<>>
  /\ log' = Append(log, Head(rewrite))
  /\ rewrite' = Tail(rewrite)
  /\ nextId' = nextId + 1
  /\ UNCHANGED <<tail, file, shadow, entries, job, fate, swaps, crashes, reported>>

----------------------------------------------------------------------------
(* perform_swap: hotswap_start, the two atomic writes, the engine's swap,  *)
(* hotswap_complete or hotswap_failed.                                     *)


SwapSteps ==
  <<<<"shadow", "state">>, <<"sync", "state">>, <<"rename", "state">>,
    <<"shadow", "binary">>, <<"sync", "binary">>, <<"rename", "binary">>, <<"engine", "">>>>

BeginSwap(b) ==
  /\ job.op = "none" /\ rewrite = <<>> /\ swaps < MaxSwaps
  /\ swaps' = swaps + 1
  /\ job' = [op |-> "swap", block |-> b, swap |-> swaps + 1, todo |-> SwapSteps]
  /\ fate' = [fate EXCEPT ![swaps + 1] = "running"]
  /\ LogEntry("hotswap_start", b, swaps + 1)
  /\ UNCHANGED <<file, shadow, entries, crashes, reported>>

Doing(step) == rewrite = <<>> /\ job.todo # <<>> /\ Head(job.todo)[1] = step
Target == <<job.block, Head(job.todo)[2]>>
Done == job' = [job EXCEPT !.todo = Tail(@)]

\* atomic_write, step 1: fs::write truncates and fills the shadow; its bytes are
\* not durable yet.
WriteShadow ==
  /\ Doing("shadow")
  /\ shadow' = [shadow EXCEPT ![Target] = "unsynced"]
  /\ Done
  /\ UNCHANGED <<logVars, file, entries, fate, swaps, crashes, reported>>

\* The fsync forgotten: the rename may move bytes that are not on disk.
SyncShadowForgotten ==
  /\ Doing("sync")
  /\ Done
  /\ UNCHANGED <<logVars, file, shadow, entries, fate, swaps, crashes,
                 reported>>

\* Step 2: sync_all makes them durable.
SyncShadow ==
  /\ Doing("sync")
  /\ shadow' = [shadow EXCEPT ![Target] = "whole"]
  /\ Done
  /\ UNCHANGED <<logVars, file, entries, fate, swaps, crashes, reported>>

\* Step 3: the rename replaces the primary in one step.
RenameShadow ==
  /\ Doing("rename")
  /\ file' = [file EXCEPT ![Target] = [swap |-> job.swap, data |-> shadow[Target]]]
  /\ shadow' = [shadow EXCEPT ![Target] = "none"]
  /\ Done
  /\ UNCHANGED <<logVars, entries, fate, swaps, crashes, reported>>

\* A step of atomic_write fails: perform_swap returns before the engine's swap and
\* logs nothing more.
WriteFails ==
  /\ Doing("shadow") \/ Doing("sync") \/ Doing("rename")
  /\ shadow' = IF Doing("shadow") THEN [shadow EXCEPT ![Target] = "unsynced"] ELSE shadow
  /\ fate' = [fate EXCEPT ![job.swap] = "refused"]
  /\ job' = Idle
  /\ UNCHANGED <<logVars, file, entries, swaps, crashes, reported>>

\* LiveUpdateEngine::perform_swap and the log line for its outcome.  The
\* hotswap_start entry is never marked completed.
EngineSwap(ok) ==
  /\ Doing("engine")
  /\ entries' = IF ok THEN [entries EXCEPT ![job.block] = job.swap] ELSE entries
  /\ fate' = [fate EXCEPT ![job.swap] = IF ok THEN "done" ELSE "refused"]
  /\ job' = Idle
  /\ LogEntry(IF ok THEN "hotswap_complete" ELSE "hotswap_failed", job.block, 0)
  /\ UNCHANGED <<file, shadow, swaps, crashes, reported>>

----------------------------------------------------------------------------
\* rollback: with an entry in memory both saved files are removed; without one
\* the call only logs its failure.
RollbackSteps == <<<<"delete", "state">>, <<"delete", "binary">>, <<"logged", "">>>>

Rollback(b) ==
  /\ job.op = "none" /\ rewrite = <<>>
  /\ Len(log) < MaxLog
  /\ job' = [op |-> "rollback", block |-> b, swap |-> 0,
             todo |-> IF entries[b] = 0 THEN <<<<"logged", "">>>> ELSE RollbackSteps]
  /\ entries' = [entries EXCEPT ![b] = 0]
  /\ LogEntry("rollback_start", b, 0)
  /\ UNCHANGED <<file, shadow, fate, swaps, crashes, reported>>

\* A delete that fails leaves the file, and rollback goes on.
DeleteFile(ok) ==
  /\ Doing("delete")
  /\ file' = IF ok THEN [file EXCEPT ![Target] = [swap |-> 0, data |-> "none"]] ELSE file
  /\ Done
  /\ UNCHANGED <<logVars, shadow, entries, fate, swaps, crashes, reported>>

RollbackLogged ==
  /\ Doing("logged")
  /\ job' = Idle
  /\ LogEntry("rollback_ended", job.block, 0)
  /\ UNCHANGED <<file, shadow, entries, fate, swaps, crashes, reported>>

\* A crash: memory is lost; an append or a shadow write may be cut short.
Crash ==
  /\ crashes < MaxCrashes
  /\ crashes' = crashes + 1
  /\ tail' \in {tail, TRUE}
  /\ nextId' = 0 /\ rewrite' = <<>>
  /\ entries' = [b \in Blocks |-> 0]
  /\ fate' = [n \in DOMAIN fate |-> IF fate[n] = "running" THEN "interrupted" ELSE fate[n]]
  /\ job' = [Idle EXCEPT !.op = "down"]
  /\ UNCHANGED <<log, file, shadow, swaps, reported>>

\* The pending hotswap_start entries whose state file exists.
Interrupted ==
  SelectSeq(Pending(log), LAMBDA e : /\ e.op = "hotswap_start"
                                     /\ file[<<e.block, "state">>].swap # 0)

\* The completion markers of mark_completed; the first is lost with the bytes of
\* an interrupted append.
Markers(es) ==
  [i \in DOMAIN es |-> IF i = 1 /\ tail THEN Torn
                       ELSE [line |-> "completed", id |-> es[i].id]]

\* Restart: RecoveryLog::new starts again at 0, and recover_from_crash reports
\* those entries and appends a completion marker for each.
Recover ==
  /\ job.op = "down"
  /\ reported' = {Interrupted[i].swap : i \in DOMAIN Interrupted}
  /\ log' = log \o Markers(Interrupted)
  /\ tail' = (tail /\ Interrupted = <<>>)
  /\ fate' = [n \in DOMAIN fate |->
                IF n \in reported' /\ fate[n] = "interrupted" THEN "recovered"
                ELSE fate[n]]
  /\ job' = Idle
  /\ UNCHANGED <<nextId, rewrite, file, shadow, entries, swaps, crashes>>

----------------------------------------------------------------------------
FilesInit ==
  /\ log = <<>> /\ tail = FALSE /\ nextId = 0 /\ rewrite = <<>>
  /\ file = [f \in Blocks \X Kinds |-> [swap |-> 0, data |-> "none"]]
  /\ shadow = [f \in Blocks \X Kinds |-> "none"]
  /\ entries = [b \in Blocks |-> 0]
  /\ job = Idle
  /\ fate = [n \in 1..MaxSwaps |-> "none"]
  /\ swaps = 0 /\ crashes = 0 /\ reported = {}

FilesNext ==
  \/ \E b \in Blocks : BeginSwap(b) \/ Rollback(b)
  \/ WriteShadow \/ SyncShadow \/ RenameShadow
  \/ \E ok \in BOOLEAN : EngineSwap(ok) \/ DeleteFile(ok)
  \/ RewriteEntry \/ WriteFails \/ RollbackLogged \/ Crash \/ Recover

-----------------------------------------------------------------------------
(* The engine that swaps running WASM blocks                               *)

NoVersion == 0
Registered == 1       \* the version the registry holds; swap_block reads it and
                      \* never writes the registry

Record(b, new, rolledBack) == [block |-> b, new |-> new, rolledBack |-> rolledBack]

\* Each call counts; Err leaves through the ? operator.
Call(op, b, ok) ==
  /\ calls < MaxCalls
  /\ calls' = calls + 1
  /\ last' = [op |-> op, block |-> b, ok |-> ok]

----------------------------------------------------------------------------
\* deploy_block: compile and instantiate, then replace whatever ran.
DeployBlock(b, compiles) ==
  /\ Call("deploy", b, compiles)
  /\ active' = IF compiles THEN [active EXCEPT ![b] = Registered] ELSE active
  /\ UNCHANGED <<entry, history, previous>>

\* LiveUpdateEngine::perform_swap: a failed health check returns before the
\* rollback entry; the SHA-256 check cannot fail, as swap_block passes the hash
\* of the same bytes.
PerformSwap(b, v) ==
  /\ entry' = [entry EXCEPT ![b] = Registered]
  /\ history' = Append(history, Record(b, v, FALSE))

\* swap_block that checks the new binary's health after replacing the instance.
SwapBlockChecksLate(b, v, healthy, compiles) ==
  /\ Call("swap", b, healthy /\ compiles)
  /\ IF healthy THEN PerformSwap(b, v) ELSE UNCHANGED <<entry, history>>
  /\ IF compiles
     THEN /\ active' = [active EXCEPT ![b] = v]
          /\ previous' = [previous EXCEPT ![b] = active[b]]
     ELSE UNCHANGED <<active, previous>>

\* swap_block: the engine's swap first, then compile, instantiate and replace the
\* instance.  (Linear memory that does not fit is only logged.)
SwapBlock(b, v, healthy, compiles) ==
  /\ Call("swap", b, healthy /\ compiles)
  /\ IF healthy THEN PerformSwap(b, v) ELSE UNCHANGED <<entry, history>>
  /\ IF healthy /\ compiles
     THEN /\ active' = [active EXCEPT ![b] = v]
          /\ previous' = [previous EXCEPT ![b] = active[b]]
     ELSE UNCHANGED <<active, previous>>

\* rollback_block: the instance is dropped, then the engine looks for an entry.
RollbackBlock(b) ==
  /\ Call("rollback", b, entry[b] # NoVersion)
  /\ active' = [active EXCEPT ![b] = NoVersion]
  /\ IF entry[b] # NoVersion
     THEN /\ entry' = [entry EXCEPT ![b] = NoVersion]
          /\ history' = Append(history, Record(b, entry[b], TRUE))
     ELSE UNCHANGED <<entry, history>>
  /\ UNCHANGED previous

EngineInit ==
  /\ active = [b \in Blocks |-> NoVersion]
  /\ entry = [b \in Blocks |-> NoVersion]
  /\ history = <<>>
  /\ calls = 0
  /\ last = [op |-> "none", block |-> 0, ok |-> TRUE]
  /\ previous = [b \in Blocks |-> NoVersion]

EngineNext ==
  \E b \in Blocks :
    \/ \E compiles \in BOOLEAN : DeployBlock(b, compiles)
    \/ \E v \in Versions, healthy, compiles \in BOOLEAN :
         SwapBlock(b, v, healthy, compiles)
    \/ RollbackBlock(b)

Init == FilesInit /\ EngineInit
Next == \/ FilesNext /\ UNCHANGED engineVars
        \/ EngineNext /\ UNCHANGED fileVars
Spec == Init /\ [][Next]_vars

----------------------------------------------------------------------------
\* Copy-on-write storage: a primary file always holds the complete, durable data
\* of one swap, whatever step a crash cuts short (atomic_write).
FileWhole == \A f \in DOMAIN file : file[f].swap # 0 => file[f].data = "whole"

\* Whenever the engine would accept a rollback of a block, both files that the
\* rollback is to restore from were saved by that swap or a later one
\* (perform_swap saves before the engine swaps, rollback deletes after).
RollbackCopySaved ==
  \A b \in Blocks : entries[b] # 0 =>
    \A k \in Kinds : file[<<b, k>>].swap >= entries[b]

SavedState(n) == \E b \in Blocks : file[<<b, "state">>].swap = n
Recovering == job.op = "down" /\ job'.op = "none"

ReportsInterrupted ==
  \A n \in 1..MaxSwaps : fate[n] = "interrupted" /\ SavedState(n) => n \in reported'


\* recovery.rs, get_pending_entries: "incomplete operations".  A swap that ran to
\* its end, successful or refused, is not reported as interrupted.
\* Refuted: section 5 of the README.
OnlyIncompleteReported ==
  [][Recovering => \A n \in reported' : fate[n] = "interrupted"]_fileVars

\* What runs passed its check: an instance that is not the registered version
\* was brought by a swap the history records and no rollback has undone since
\* (perform_swap returns before the instance is replaced).
RunsOnlyAccepted ==
  \A b \in Blocks : active[b] \notin {NoVersion, Registered} =>
    \E i \in DOMAIN history :
      /\ history[i] = Record(b, active[b], FALSE)
      /\ \A j \in i+1..Len(history) : history[j].block = b => ~history[j].rolledBack

\* engine.rs: "Perform atomic hot-swap".  A call that answers an error leaves
\* the running instances and the rollback entries as they were.
\* Refuted: section 5 of the README.
FailedCallChangesNothing ==
  [][~last'.ok => UNCHANGED <<active, entry>>]_engineVars

\* engine.rs, rollback: "Rollback a block to its previous binary and state".  The
\* entry of a block that is still running its last swap names the version that
\* ran before that swap.
\* Refuted: section 5 of the README.
EntryIsPrevious ==
  \A b \in Blocks :
    active[b] # NoVersion /\ entry[b] # NoVersion /\ previous[b] # NoVersion
      => entry[b] = previous[b]
=============================================================================
