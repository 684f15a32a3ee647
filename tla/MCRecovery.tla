----------------------------- MODULE MCRecovery -----------------------------
(***************************************************************************)
(* What must survive crashes and failed steps, for TLC: the persisted swap *)
(* of live update with two sets of bounds and its WASM engine, and         *)
(* the cluster, once with a process that is migrated again and again and   *)
(* once with failovers of two processes.  A behaviour exercises the one    *)
(* `part` names; the others rest in their initial states.                  *)
(***************************************************************************)
EXTENDS Cluster

VARIABLES part,
          log, tail, nextId, rewrite, file, shadow,       \* LiveUpdate, files
          entries, job, fate, swaps, cuts, reported,
          active, entry, history, calls, last, previous   \* LiveUpdate, engine

persistedVars == <<log, tail, nextId, rewrite, file, shadow, entries, job, fate,
                   swaps, cuts, reported>>
wasmVars == <<active, entry, history, calls, last, previous>>

(* Two crashes, and a log so small that cleanup rewrites it; the engine    *)
Files == INSTANCE LiveUpdate WITH crashes <- cuts,
    Blocks <- {1, 2}, MaxEntries <- 2, MaxSwaps <- 2, MaxCrashes <- 2, MaxLog <- 3,
    Versions <- {2, 3}, MaxCalls <- 5
(* The first crash in the life of a log that is never rewritten            *)
First == INSTANCE LiveUpdate WITH crashes <- cuts,
    Blocks <- {1, 2}, MaxEntries <- 20, MaxSwaps <- 2, MaxCrashes <- 1, MaxLog <- 6,
    Versions <- {}, MaxCalls <- 0

(* A crash, a tick that finds it out, and replicated checkpoints; the      *)
(* constants of this module are for migrations: requests, and no failure   *)
(* but lost and late messages                                              *)
Failovers == INSTANCE Cluster WITH
    N <- 2, Specs <- {"a", "b"}, RoundRobin <- FALSE, MaxRequests <- 2, MaxTicks <- 1,
    Replicating <- TRUE, MaxCrashes <- 1

ASSUME Files!LiveUpdateAssumption /\ First!LiveUpdateAssumption

MCInit ==
    /\ part \in {"files", "first", "engine", "migrations", "failovers"}
    /\ Files!Init /\ Init

MCNext ==
    /\ UNCHANGED part
    /\ \/ part = "files" /\ Files!FilesNext /\ UNCHANGED <<wasmVars, vars>>
       \/ part = "first" /\ First!FilesNext /\ UNCHANGED <<wasmVars, vars>>
       \/ part = "engine" /\ Files!EngineNext /\ UNCHANGED <<persistedVars, vars>>
       \/ part = "migrations" /\ Next /\ UNCHANGED <<persistedVars, wasmVars>>
       \/ part = "failovers" /\ Failovers!Next /\ UNCHANGED <<persistedVars, wasmVars>>

MCSpec == MCInit /\ [][MCNext]_<<part, persistedVars, wasmVars, vars>>

-----------------------------------------------------------------------------
=============================================================================
