-------------------------- MODULE LiveUpdate_proof --------------------------
(***************************************************************************)
(* Proofs about LiveUpdate: what copy-on-write storage and the order of    *)
(* the calls keep true through crashes and failing file operations, and    *)
(* that the WASM engine runs only what it accepted.                        *)
(***************************************************************************)
EXTENDS LiveUpdate, TLAPS

SavedFiles == Blocks \X Kinds
Steps == {"shadow", "sync", "rename", "engine", "delete", "logged"} \X {"state", "binary", ""}
Jobs == [op : {"none", "down", "swap", "rollback"}, todo : Seq(Steps),
         block : Blocks \cup {0}, swap : Nat]

FilesType ==
  /\ swaps \in Nat
  /\ entries \in [Blocks -> Nat]
  /\ file \in [SavedFiles -> [swap : Nat, data : {"none", "unsynced", "whole"}]]
  /\ shadow \in [SavedFiles -> {"none", "unsynced", "whole"}]
  /\ job \in Jobs
  /\ \A b \in Blocks : entries[b] <= swaps

(* The call in progress still has the last steps of its plan to do         *)
Left == Len(job.todo)
Remaining(plan) ==
  /\ Left \in 1 .. Len(plan)
  /\ \A j \in 1 .. Left : job.todo[j] = plan[Len(plan) - Left + j]

(* A swap works for the newest number.  What is renamed has been synced,   *)
(* and what was renamed bears that number                                  *)
Swapping ==
  /\ job.block \in Blocks /\ job.swap = swaps
  /\ Remaining(SwapSteps)
  /\ Left = 5 => shadow[<<job.block, "state">>] = "whole"
  /\ Left = 2 => shadow[<<job.block, "binary">>] = "whole"
  /\ Left <= 4 => file[<<job.block, "state">>].swap = swaps
  /\ Left <= 1 => file[<<job.block, "binary">>].swap = swaps

(* A rollback deletes only what no entry refers to any more                *)
RollingBack ==
  /\ job.block \in Blocks /\ entries[job.block] = 0
  /\ Remaining(RollbackSteps)

JobInv ==
  /\ job.op \in {"none", "down"} => job.todo = <<>>
  /\ job.op = "swap" => Swapping
  /\ job.op = "rollback" => RollingBack

FilesInv == FilesType /\ JobInv /\ FileWhole /\ RollbackCopySaved

-----------------------------------------------------------------------------
(* Tuples of steps are sequences of steps                                  *)
LEMMA SevenSteps ==
  ASSUME NEW S, NEW a \in S, NEW b \in S, NEW c \in S, NEW d \in S, NEW e \in S, NEW f \in S,
         NEW g \in S
  PROVE  <<a, b, c, d, e, f, g>> \in Seq(S)
OBVIOUS

(* The same for the plan of a rollback                                     *)
LEMMA ThreeSteps ==
  ASSUME NEW S, NEW a \in S, NEW b \in S, NEW c \in S
  PROVE  <<a, b, c>> \in Seq(S) /\ <<a>> \in Seq(S)
OBVIOUS

(* What is left after a step                                               *)
LEMMA TailOf ==
  ASSUME NEW S, NEW s \in Seq(S), s # <<>>
  PROVE  /\ Len(s) \in Nat /\ Len(s) >= 1 /\ Head(s) = s[1]
         /\ Tail(s) \in Seq(S) /\ Len(Tail(s)) = Len(s) - 1
         /\ \A j \in 1 .. Len(s) - 1 : Tail(s)[j] = s[j + 1]
OBVIOUS

(* The steps of the two plans are steps                                    *)
LEMMA StepsAreSteps ==
  /\ <<"shadow", "state">> \in Steps /\ <<"sync", "state">> \in Steps
  /\ <<"rename", "state">> \in Steps /\ <<"shadow", "binary">> \in Steps
  /\ <<"sync", "binary">> \in Steps /\ <<"rename", "binary">> \in Steps
  /\ <<"engine", "">> \in Steps /\ <<"delete", "state">> \in Steps
  /\ <<"delete", "binary">> \in Steps /\ <<"logged", "">> \in Steps
BY Zenon DEF Steps

(* perform_swap has seven steps: two atomic writes and the engine's swap   *)
LEMMA SwapPlan ==
  /\ SwapSteps \in Seq(Steps) /\ Len(SwapSteps) = 7
  /\ SwapSteps[1] = <<"shadow", "state">> /\ SwapSteps[2] = <<"sync", "state">>
  /\ SwapSteps[3] = <<"rename", "state">> /\ SwapSteps[4] = <<"shadow", "binary">>
  /\ SwapSteps[5] = <<"sync", "binary">> /\ SwapSteps[6] = <<"rename", "binary">>
  /\ SwapSteps[7] = <<"engine", "">>
<1>1. SwapSteps \in Seq(Steps)
  BY Zenon, StepsAreSteps, SevenSteps DEF SwapSteps
<1> QED BY Zenon, <1>1 DEF SwapSteps

(* rollback deletes two files and logs its end, or only logs               *)
LEMMA RollbackPlan ==
  /\ RollbackSteps \in Seq(Steps) /\ Len(RollbackSteps) = 3
  /\ RollbackSteps[1] = <<"delete", "state">>
  /\ RollbackSteps[2] = <<"delete", "binary">>
  /\ RollbackSteps[3] = <<"logged", "">>
  /\ <<<<"logged", "">>>> \in Seq(Steps) /\ Len(<<<<"logged", "">>>>) = 1
  /\ <<<<"logged", "">>>>[1] = <<"logged", "">>
<1>1. RollbackSteps \in Seq(Steps) /\ <<<<"logged", "">>>> \in Seq(Steps)
  BY Zenon, StepsAreSteps, ThreeSteps DEF RollbackSteps
<1> QED BY Zenon, <1>1 DEF RollbackSteps

(* Which step it is by how many are left                                   *)
LEMMA SwapPlanAt ==
  ASSUME NEW left \in 1 .. 7
  PROVE  /\ left = 7 => SwapSteps[8 - left] = <<"shadow", "state">>
         /\ left = 6 => SwapSteps[8 - left] = <<"sync", "state">>
         /\ left = 5 => SwapSteps[8 - left] = <<"rename", "state">>
         /\ left = 4 => SwapSteps[8 - left] = <<"shadow", "binary">>
         /\ left = 3 => SwapSteps[8 - left] = <<"sync", "binary">>
         /\ left = 2 => SwapSteps[8 - left] = <<"rename", "binary">>
         /\ left = 1 => SwapSteps[8 - left] = <<"engine", "">>
<1>1. /\ left = 7 => 8 - left = 1
      /\ left = 6 => 8 - left = 2
      /\ left = 5 => 8 - left = 3
      /\ left = 4 => 8 - left = 4
      /\ left = 3 => 8 - left = 5
      /\ left = 2 => 8 - left = 6
      /\ left = 1 => 8 - left = 7
  OBVIOUS
<1> QED BY Zenon, <1>1, SwapPlan

(* The same for a rollback                                                 *)
LEMMA RollbackPlanAt ==
  ASSUME NEW left \in 1 .. 3
  PROVE  /\ left = 3 => RollbackSteps[4 - left] = <<"delete", "state">>
         /\ left = 2 => RollbackSteps[4 - left] = <<"delete", "binary">>
         /\ left = 1 => RollbackSteps[4 - left] = <<"logged", "">>
<1>1. /\ left = 3 => 4 - left = 1
      /\ left = 2 => 4 - left = 2
      /\ left = 1 => 4 - left = 3
  OBVIOUS
<1> QED BY Zenon, <1>1, RollbackPlan

(* The end of a call leaves nothing to do                                  *)
LEMMA IdleIsJob ==
  /\ Idle \in Jobs /\ Idle.op = "none" /\ Idle.todo = <<>>
  /\ [Idle EXCEPT !.op = "down"] \in Jobs
  /\ [Idle EXCEPT !.op = "down"].op = "down" /\ [Idle EXCEPT !.op = "down"].todo = <<>>
<1>1. <<>> \in Seq(Steps)
  OBVIOUS
<1>2. Idle \in Jobs /\ Idle.op = "none" /\ Idle.todo = <<>>
  BY <1>1 DEF Idle, Jobs
<1>3. [Idle EXCEPT !.op = "down"] = [op |-> "down", todo |-> <<>>, block |-> 0, swap |-> 0]
  BY DEF Idle
<1> QED BY <1>1, <1>2, <1>3 DEF Jobs

(* A step that is done shortens what is left and changes nothing else of   *)
(* the call                                                                *)
LEMMA DoneStep ==
  ASSUME FilesType, Done, job.todo # <<>>
  PROVE  /\ job' \in Jobs /\ job'.op = job.op /\ job'.block = job.block /\ job'.swap = job.swap
         /\ Left \in Nat /\ Left >= 1 /\ Left' = Left - 1
         /\ \A plan \in Seq(Steps) : Remaining(plan) /\ Left > 1 => Remaining(plan)'
<1>1. job \in Jobs /\ job.todo \in Seq(Steps) /\ job' = [job EXCEPT !.todo = Tail(@)]
  BY DEF FilesType, Jobs, Done
<1>2. /\ Left \in Nat /\ Left >= 1
      /\ Tail(job.todo) \in Seq(Steps) /\ Len(Tail(job.todo)) = Left - 1
      /\ \A j \in 1 .. Left - 1 : Tail(job.todo)[j] = job.todo[j + 1]
  BY <1>1, TailOf DEF Left
<1>3. /\ job' \in Jobs /\ job'.op = job.op /\ job'.block = job.block /\ job'.swap = job.swap
      /\ job'.todo = Tail(job.todo)
  BY Zenon, <1>1, <1>2 DEF Jobs
<1>4. Left' = Left - 1
  BY <1>2, <1>3 DEF Left
<1>5. ASSUME NEW plan \in Seq(Steps), Remaining(plan), Left > 1 PROVE Remaining(plan)'
  <2>1. Len(plan) \in Nat
    OBVIOUS
  <2>2. ASSUME NEW j \in 1 .. Left - 1 PROVE job'.todo[j] = plan[Len(plan) - (Left - 1) + j]
    <3>1. job'.todo[j] = job.todo[j + 1] /\ j + 1 \in 1 .. Left
      BY <1>2, <1>3, <2>2
    <3>2. job.todo[j + 1] = plan[Len(plan) - Left + (j + 1)]
      BY <1>5, <3>1 DEF Remaining
    <3> QED BY <1>2, <2>1, <3>1, <3>2
  <2> QED BY <1>2, <1>4, <1>5, <2>1, <2>2 DEF Remaining
<1> QED BY <1>2, <1>3, <1>4, <1>5

(* The step a call does next is the one its plan has there                 *)
LEMMA NextStep ==
  ASSUME FilesInv, NEW step, Doing(step)
  PROVE  /\ job.todo # <<>> /\ job.block \in Blocks /\ job.op \in {"swap", "rollback"}
         /\ job.op = "swap" =>
              /\ Swapping
              /\ Left = 7 => step = "shadow" /\ Target = <<job.block, "state">>
              /\ Left = 6 => step = "sync" /\ Target = <<job.block, "state">>
              /\ Left = 5 => step = "rename" /\ Target = <<job.block, "state">>
              /\ Left = 4 => step = "shadow" /\ Target = <<job.block, "binary">>
              /\ Left = 3 => step = "sync" /\ Target = <<job.block, "binary">>
              /\ Left = 2 => step = "rename" /\ Target = <<job.block, "binary">>
              /\ Left = 1 => step = "engine"
              /\ Left \in 1 .. 7
         /\ job.op = "rollback" =>
              /\ RollingBack
              /\ Left = 3 => step = "delete" /\ Target = <<job.block, "state">>
              /\ Left = 2 => step = "delete" /\ Target = <<job.block, "binary">>
              /\ Left = 1 => step = "logged"
              /\ Left \in 1 .. 3
<1>1. job \in Jobs /\ job.todo \in Seq(Steps) /\ job.todo # <<>> /\ Head(job.todo)[1] = step
  BY DEF FilesInv, FilesType, Jobs, Doing
<1>2. Head(job.todo) = job.todo[1] /\ Left \in Nat /\ Left >= 1
  BY <1>1, TailOf DEF Left
<1>3. job.op \in {"swap", "rollback"}
  BY <1>1 DEF FilesInv, JobInv, Jobs
<1>4. CASE job.op = "swap"
  <2>1. Swapping
    BY <1>4 DEF FilesInv, JobInv
  <2>2. Left \in 1 .. 7 /\ job.todo[1] = SwapSteps[8 - Left]
    <3>1. Len(SwapSteps) = 7
      BY Zenon, SwapPlan
    <3>2. /\ Left \in 1 .. Len(SwapSteps)
          /\ \A j \in 1 .. Left : job.todo[j] = SwapSteps[Len(SwapSteps) - Left + j]
      BY <2>1 DEF Swapping, Remaining
    <3>3. job.todo[1] = SwapSteps[7 - Left + 1]
      BY <1>2, <3>1, <3>2
    <3>4. 7 - Left + 1 = 8 - Left
      BY <1>2
    <3> QED BY <3>1, <3>2, <3>3, <3>4
  <2>3. job.block \in Blocks
    BY <2>1 DEF Swapping
  <2>4. \A f, k : SwapSteps[8 - Left] = <<f, k>> => step = f /\ Target = <<job.block, k>>
    BY <1>1, <1>2, <2>2 DEF Target
  <2>5. /\ Left = 7 => step = "shadow" /\ Target = <<job.block, "state">>
        /\ Left = 6 => step = "sync" /\ Target = <<job.block, "state">>
        /\ Left = 5 => step = "rename" /\ Target = <<job.block, "state">>
    BY Zenon, <2>2, <2>4, SwapPlanAt
  <2>6. /\ Left = 4 => step = "shadow" /\ Target = <<job.block, "binary">>
        /\ Left = 3 => step = "sync" /\ Target = <<job.block, "binary">>
        /\ Left = 2 => step = "rename" /\ Target = <<job.block, "binary">>
        /\ Left = 1 => step = "engine"
    BY Zenon, <2>2, <2>4, SwapPlanAt
  <2> QED BY <1>1, <1>4, <2>1, <2>2, <2>3, <2>5, <2>6
<1>5. CASE job.op = "rollback"
  <2>1. RollingBack
    BY <1>5 DEF FilesInv, JobInv
  <2>2. Left \in 1 .. 3 /\ job.todo[1] = RollbackSteps[4 - Left]
    <3>1. Len(RollbackSteps) = 3
      BY Zenon, RollbackPlan
    <3>2. /\ Left \in 1 .. Len(RollbackSteps)
          /\ \A j \in 1 .. Left : job.todo[j] = RollbackSteps[Len(RollbackSteps) - Left + j]
      BY <2>1 DEF RollingBack, Remaining
    <3>3. job.todo[1] = RollbackSteps[3 - Left + 1]
      BY <1>2, <3>1, <3>2
    <3>4. 3 - Left + 1 = 4 - Left
      BY <1>2
    <3> QED BY <3>1, <3>2, <3>3, <3>4
  <2>3. job.block \in Blocks
    BY <2>1 DEF RollingBack
  <2>4. \A f, k : RollbackSteps[4 - Left] = <<f, k>> => step = f /\ Target = <<job.block, k>>
    BY <1>1, <1>2, <2>2 DEF Target
  <2>5. /\ Left = 3 => step = "delete" /\ Target = <<job.block, "state">>
        /\ Left = 2 => step = "delete" /\ Target = <<job.block, "binary">>
        /\ Left = 1 => step = "logged"
    BY Zenon, <2>2, <2>4, RollbackPlanAt
  <2> QED BY <1>1, <1>5, <2>1, <2>2, <2>3, <2>5
<1> QED BY <1>3, <1>4, <1>5

-----------------------------------------------------------------------------
(* One file is replaced, the others stay                                   *)
LEMMA FileUpdate ==
  ASSUME FilesType, NEW f \in SavedFiles,
         NEW new \in [swap : Nat, data : {"none", "unsynced", "whole"}],
         file' = [file EXCEPT ![f] = new]
  PROVE  /\ file' \in [SavedFiles -> [swap : Nat, data : {"none", "unsynced", "whole"}]]
         /\ file'[f] = new
         /\ \A g \in SavedFiles : g # f => file'[g] = file[g]
BY DEF FilesType

(* The same for its shadow copy                                            *)
LEMMA ShadowUpdate ==
  ASSUME FilesType, NEW f \in SavedFiles, NEW new \in {"none", "unsynced", "whole"},
         shadow' = [shadow EXCEPT ![f] = new]
  PROVE  /\ shadow' \in [SavedFiles -> {"none", "unsynced", "whole"}]
         /\ shadow'[f] = new
         /\ \A g \in SavedFiles : g # f => shadow'[g] = shadow[g]
BY DEF FilesType

(* The files of a block are its two kinds                                  *)
LEMMA Pairs ==
  ASSUME NEW b \in Blocks
  PROVE  /\ <<b, "state">> \in SavedFiles /\ <<b, "binary">> \in SavedFiles
         /\ <<b, "state">> # <<b, "binary">>
BY DEF SavedFiles, Kinds

(* What the properties say depends on the files and the entries only       *)
LEMMA SameFiles ==
  ASSUME FilesInv, file' = file, entries' = entries
  PROVE  FileWhole' /\ RollbackCopySaved'
BY DEF FilesInv, FileWhole, RollbackCopySaved

(* A call that ends leaves the invariant to the files                      *)
LEMMA CallEnds ==
  ASSUME FilesInv, job' = Idle \/ job' = [Idle EXCEPT !.op = "down"], swaps' = swaps
  PROVE  job' \in Jobs /\ JobInv'
<1>1. job' \in Jobs /\ job'.op \in {"none", "down"} /\ job'.todo = <<>>
  BY Zenon, IdleIsJob
<1> QED BY <1>1 DEF JobInv

(* perform_swap begins: a new number, nothing written yet                  *)
LEMMA BeginSwapKeeps ==
  ASSUME FilesInv, NEW b \in Blocks, BeginSwap(b)
  PROVE  FilesInv'
<1>1. /\ swaps' = swaps + 1 /\ file' = file /\ shadow' = shadow /\ entries' = entries
      /\ job' = [op |-> "swap", block |-> b, swap |-> swaps + 1, todo |-> SwapSteps]
  BY DEF BeginSwap
<1>2. swaps \in Nat /\ swaps + 1 \in Nat /\ swaps <= swaps + 1
  BY DEF FilesInv, FilesType
<1>3. /\ job' \in Jobs /\ job'.op = "swap" /\ job'.block = b /\ job'.swap = swaps'
      /\ job'.todo = SwapSteps
  BY Zenon, <1>1, <1>2, SwapPlan DEF Jobs
<1>4. Left' = 7
  BY Zenon, <1>3, SwapPlan DEF Left
<1>5. Remaining(SwapSteps)'
  <2>1. Len(SwapSteps) = 7
    BY Zenon, SwapPlan
  <2>2. ASSUME NEW j \in 1 .. Left' PROVE job'.todo[j] = SwapSteps[Len(SwapSteps) - Left' + j]
    <3>1. Len(SwapSteps) - Left' + j = j
      BY <1>4, <2>1
    <3> QED BY <1>3, <3>1
  <2>3. Left' \in 1 .. Len(SwapSteps)
    BY <1>4, <2>1
  <2> QED BY <2>2, <2>3 DEF Remaining
<1>6. JobInv'
  BY <1>3, <1>4, <1>5 DEF JobInv, Swapping
<1>7. FilesType'
  BY <1>1, <1>2, <1>3 DEF FilesInv, FilesType
<1> QED BY <1>1, <1>6, <1>7, SameFiles DEF FilesInv

(* A file operation of an atomic write: the number of steps left names it  *)
LEMMA WriteStep ==
  ASSUME FilesInv, Doing("shadow") \/ Doing("sync") \/ Doing("rename")
  PROVE  /\ job.op = "swap" /\ Swapping /\ Left \in 2 .. 7 /\ Target \in SavedFiles
         /\ Doing("shadow") => Left \in {7, 4}
         /\ Doing("sync") => Left \in {6, 3}
         /\ Doing("rename") => Left \in {5, 2}
         /\ Left >= 5 => Target = <<job.block, "state">>
         /\ Left <= 4 => Target = <<job.block, "binary">>
<1>1. PICK step \in {"shadow", "sync", "rename"} : Doing(step)
  OBVIOUS
<1>2. ASSUME NEW s \in {"shadow", "sync", "rename"}, Doing(s)
      PROVE  /\ job.op = "swap" /\ Swapping /\ Left \in 2 .. 7 /\ job.block \in Blocks
             /\ s = "shadow" => Left \in {7, 4}
             /\ s = "sync" => Left \in {6, 3}
             /\ s = "rename" => Left \in {5, 2}
             /\ Left >= 5 => Target = <<job.block, "state">>
             /\ Left <= 4 => Target = <<job.block, "binary">>
  <2>1. job.op \in {"swap", "rollback"} /\ job.block \in Blocks
    BY <1>2, NextStep
  <2>2. job.op # "rollback"
    <3> SUFFICES ASSUME job.op = "rollback" PROVE FALSE
      OBVIOUS
    <3>1. /\ Left \in 1 .. 3
          /\ Left = 3 => s = "delete"
          /\ Left = 2 => s = "delete"
          /\ Left = 1 => s = "logged"
      BY <1>2, NextStep
    <3> QED BY <3>1
  <2>3. /\ Swapping /\ Left \in 1 .. 7
        /\ Left = 7 => s = "shadow" /\ Target = <<job.block, "state">>
        /\ Left = 6 => s = "sync" /\ Target = <<job.block, "state">>
        /\ Left = 5 => s = "rename" /\ Target = <<job.block, "state">>
        /\ Left = 4 => s = "shadow" /\ Target = <<job.block, "binary">>
        /\ Left = 3 => s = "sync" /\ Target = <<job.block, "binary">>
        /\ Left = 2 => s = "rename" /\ Target = <<job.block, "binary">>
        /\ Left = 1 => s = "engine"
    BY <1>2, <2>1, <2>2, NextStep
  <2> QED BY <2>1, <2>2, <2>3
<1>3. Target \in SavedFiles
  <2>1. job.block \in Blocks /\ (Target = <<job.block, "state">> \/ Target = <<job.block, "binary">>)
    <3>1. /\ Left \in 2 .. 7 /\ job.block \in Blocks
          /\ Left >= 5 => Target = <<job.block, "state">>
          /\ Left <= 4 => Target = <<job.block, "binary">>
      BY <1>1, <1>2
    <3> QED BY <3>1
  <2> QED BY Zenon, <2>1, Pairs
<1> QED BY <1>1, <1>2, <1>3

(* atomic_write, step 1: the shadow copy is written and not yet durable    *)
LEMMA WriteShadowKeeps ==
  ASSUME FilesInv, WriteShadow
  PROVE  FilesInv'
<1>1. /\ job.op = "swap" /\ Swapping /\ Left \in {7, 4} /\ Target \in SavedFiles
      /\ Left >= 5 => Target = <<job.block, "state">>
      /\ Left <= 4 => Target = <<job.block, "binary">>
  BY WriteStep DEF WriteShadow
<1>2. /\ shadow' = [shadow EXCEPT ![Target] = "unsynced"] /\ Done /\ job.todo # <<>>
      /\ file' = file /\ entries' = entries /\ swaps' = swaps /\ FilesType
  BY DEF WriteShadow, Doing, FilesInv
<1>3. shadow' \in [SavedFiles -> {"none", "unsynced", "whole"}]
  BY Zenon, <1>1, <1>2, ShadowUpdate
<1>4. /\ job' \in Jobs /\ job'.op = "swap" /\ job'.block = job.block /\ job'.swap = job.swap
      /\ Left' \in {6, 3}
  BY <1>1, <1>2, DoneStep
<1>5. Remaining(SwapSteps)'
  <2>1. Remaining(SwapSteps) /\ Left > 1
    BY <1>1 DEF Swapping
  <2> QED BY Zenon, <1>2, <2>1, DoneStep, SwapPlan
<1>6. Swapping'
  <2>1. job.block \in Blocks /\ job.swap = swaps /\ (Left <= 4 => file[<<job.block, "state">>].swap = swaps)
    BY <1>1 DEF Swapping
  <2>2. Left' <= 4 => Left <= 4
    <3>1. Left' = Left - 1
      BY <1>2, DoneStep
    <3> QED BY <1>1, <1>4, <3>1
  <2> QED BY <1>1, <1>2, <1>4, <1>5, <2>1, <2>2 DEF Swapping
<1>7. FilesType'
  BY <1>2, <1>3, <1>4 DEF FilesType
<1>8. JobInv'
  BY <1>4, <1>6 DEF JobInv
<1> QED BY <1>2, <1>7, <1>8, SameFiles DEF FilesInv

(* Step 2: the copy is whole                                               *)
LEMMA SyncShadowKeeps ==
  ASSUME FilesInv, SyncShadow
  PROVE  FilesInv'
<1>1. /\ job.op = "swap" /\ Swapping /\ Left \in {6, 3} /\ Target \in SavedFiles
      /\ Left >= 5 => Target = <<job.block, "state">>
      /\ Left <= 4 => Target = <<job.block, "binary">>
  BY WriteStep DEF SyncShadow
<1>2. /\ shadow' = [shadow EXCEPT ![Target] = "whole"] /\ Done /\ job.todo # <<>>
      /\ file' = file /\ entries' = entries /\ swaps' = swaps /\ FilesType
  BY DEF SyncShadow, Doing, FilesInv
<1>3. shadow' \in [SavedFiles -> {"none", "unsynced", "whole"}] /\ shadow'[Target] = "whole"
  BY Zenon, <1>1, <1>2, ShadowUpdate
<1>4. /\ job' \in Jobs /\ job'.op = "swap" /\ job'.block = job.block /\ job'.swap = job.swap
      /\ Left' = Left - 1
  BY <1>1, <1>2, DoneStep
<1>5. Remaining(SwapSteps)'
  <2>1. Remaining(SwapSteps) /\ Left > 1
    BY <1>1 DEF Swapping
  <2> QED BY Zenon, <1>2, <2>1, DoneStep, SwapPlan
<1>6. Swapping'
  <2>1. job.block \in Blocks /\ job.swap = swaps /\ (Left <= 4 => file[<<job.block, "state">>].swap = swaps)
    BY <1>1 DEF Swapping
  <2>2. CASE Left = 6
    <3>1. Left' = 5 /\ shadow'[<<job.block, "state">>] = "whole"
      BY <1>1, <1>3, <1>4, <2>2
    <3> QED BY <1>2, <1>4, <1>5, <2>1, <3>1 DEF Swapping
  <2>3. CASE Left = 3
    <3>1. /\ Left' = 2 /\ shadow'[<<job.block, "binary">>] = "whole"
          /\ file[<<job.block, "state">>].swap = swaps
      BY <1>1, <1>3, <1>4, <2>1, <2>3
    <3> QED BY <1>2, <1>4, <1>5, <2>1, <3>1 DEF Swapping
  <2> QED BY <1>1, <2>2, <2>3
<1>7. FilesType'
  BY <1>2, <1>3, <1>4 DEF FilesType
<1>8. JobInv'
  BY <1>4, <1>6 DEF JobInv
<1> QED BY <1>2, <1>7, <1>8, SameFiles DEF FilesInv

(* Step 3: a whole copy with the newest number becomes the file            *)
LEMMA RenameShadowKeeps ==
  ASSUME FilesInv, RenameShadow
  PROVE  FilesInv'
<1> DEFINE new == [swap |-> swaps, data |-> "whole"]
<1>1. /\ job.op = "swap" /\ Swapping /\ Left \in {5, 2} /\ Target \in SavedFiles
      /\ Left >= 5 => Target = <<job.block, "state">>
      /\ Left <= 4 => Target = <<job.block, "binary">>
  BY WriteStep DEF RenameShadow
<1>2. /\ shadow' = [shadow EXCEPT ![Target] = "none"] /\ Done /\ job.todo # <<>>
      /\ file' = [file EXCEPT ![Target] = [swap |-> job.swap, data |-> shadow[Target]]]
      /\ entries' = entries /\ swaps' = swaps /\ FilesType /\ FileWhole /\ RollbackCopySaved
  BY DEF RenameShadow, Doing, FilesInv
<1>3. shadow[Target] = "whole" /\ job.swap = swaps /\ job.block \in Blocks /\ swaps \in Nat
  <2>1. /\ Left = 5 => shadow[<<job.block, "state">>] = "whole"
        /\ Left = 2 => shadow[<<job.block, "binary">>] = "whole"
        /\ job.swap = swaps /\ job.block \in Blocks
    BY <1>1 DEF Swapping
  <2>2. swaps \in Nat
    BY <1>2 DEF FilesType
  <2>3. /\ Left = 5 => Target = <<job.block, "state">>
        /\ Left = 2 => Target = <<job.block, "binary">>
    BY <1>1
  <2> QED BY <1>1, <2>1, <2>2, <2>3
<1>4. /\ file' \in [SavedFiles -> [swap : Nat, data : {"none", "unsynced", "whole"}]]
      /\ file'[Target] = new /\ \A g \in SavedFiles : g # Target => file'[g] = file[g]
  <2>1. file' = [file EXCEPT ![Target] = new] /\ new \in [swap : Nat, data : {"none", "unsynced", "whole"}]
    BY <1>2, <1>3
  <2> HIDE DEF new
  <2> QED BY Zenon, <1>1, <1>2, <2>1, FileUpdate
<1>5. shadow' \in [SavedFiles -> {"none", "unsynced", "whole"}]
  BY Zenon, <1>1, <1>2, ShadowUpdate
<1>6. /\ job' \in Jobs /\ job'.op = "swap" /\ job'.block = job.block /\ job'.swap = job.swap
      /\ Left' = Left - 1
  BY <1>1, <1>2, DoneStep
<1>7. Remaining(SwapSteps)'
  <2>1. Remaining(SwapSteps) /\ Left > 1
    BY <1>1 DEF Swapping
  <2> QED BY Zenon, <1>2, <2>1, DoneStep, SwapPlan
<1>8. file'[Target].swap = swaps /\ file'[Target].data = "whole"
  BY <1>4
<1>9. Swapping'
  <2>1. /\ <<job.block, "state">> \in SavedFiles /\ <<job.block, "binary">> \in SavedFiles
        /\ <<job.block, "state">> # <<job.block, "binary">>
    BY <1>3, Pairs
  <2>2. CASE Left = 5
    <3>1. Left' = 4 /\ file'[<<job.block, "state">>].swap = swaps
      BY <1>1, <1>6, <1>8, <2>2
    <3> QED BY <1>2, <1>3, <1>6, <1>7, <3>1 DEF Swapping
  <2>3. CASE Left = 2
    <3>1. Left' = 1 /\ Target = <<job.block, "binary">> /\ file[<<job.block, "state">>].swap = swaps
      BY <1>1, <1>6, <2>3 DEF Swapping
    <3>2. file'[<<job.block, "binary">>].swap = swaps /\ file'[<<job.block, "state">>].swap = swaps
      BY <1>4, <1>8, <2>1, <3>1
    <3> QED BY <1>2, <1>3, <1>6, <1>7, <3>1, <3>2 DEF Swapping
  <2> QED BY <1>1, <2>2, <2>3
<1>10. FilesType' /\ JobInv'
  BY <1>2, <1>4, <1>5, <1>6, <1>9 DEF FilesType, JobInv
<1>11. FileWhole'
  <2>1. DOMAIN file = SavedFiles /\ DOMAIN file' = SavedFiles
    BY <1>2, <1>4 DEF FilesType
  <2>2. ASSUME NEW f \in SavedFiles, file'[f].swap # 0 PROVE file'[f].data = "whole"
    BY <1>2, <1>4, <1>8, <2>1, <2>2 DEF FileWhole
  <2> QED BY <2>1, <2>2 DEF FileWhole
<1>12. RollbackCopySaved'
  <2>1. ASSUME NEW b \in Blocks, entries[b] # 0, NEW k \in Kinds PROVE file'[<<b, k>>].swap >= entries[b]
    <3>1. <<b, k>> \in SavedFiles /\ file[<<b, k>>].swap >= entries[b]
      BY <1>2, <2>1 DEF SavedFiles, RollbackCopySaved
    <3>2. entries[b] \in Nat /\ entries[b] <= swaps
      BY <1>2 DEF FilesType
    <3> QED BY <1>3, <1>4, <1>8, <3>1, <3>2
  <2> QED BY <1>2, <2>1 DEF RollbackCopySaved
<1> QED BY <1>10, <1>11, <1>12 DEF FilesInv

(* An atomic write that fails leaves the file as it was                    *)
LEMMA WriteFailsKeeps ==
  ASSUME FilesInv, WriteFails
  PROVE  FilesInv'
<1>1. job' = Idle /\ file' = file /\ entries' = entries /\ swaps' = swaps /\ FilesType
  BY DEF WriteFails, FilesInv
<1>2. Target \in SavedFiles
  BY WriteStep DEF WriteFails
<1>3. shadow' \in [SavedFiles -> {"none", "unsynced", "whole"}]
  <2>1. shadow' = shadow \/ shadow' = [shadow EXCEPT ![Target] = "unsynced"]
    BY DEF WriteFails
  <2>2. CASE shadow' = shadow
    BY <1>1, <2>2 DEF FilesType
  <2>3. CASE shadow' = [shadow EXCEPT ![Target] = "unsynced"]
    BY Zenon, <1>1, <1>2, <2>3, ShadowUpdate
  <2> QED BY <2>1, <2>2, <2>3
<1>4. job' \in Jobs /\ JobInv'
  BY <1>1, CallEnds
<1>5. FilesType'
  BY <1>1, <1>3, <1>4 DEF FilesType
<1> QED BY <1>1, <1>4, <1>5, SameFiles DEF FilesInv

(* The engine's swap comes when both files bear its number                 *)
LEMMA EngineSwapKeeps ==
  ASSUME FilesInv, NEW ok \in BOOLEAN, EngineSwap(ok)
  PROVE  FilesInv'
<1>1. /\ job' = Idle /\ file' = file /\ shadow' = shadow /\ swaps' = swaps /\ Doing("engine")
      /\ entries' = entries \/ entries' = [entries EXCEPT ![job.block] = job.swap]
      /\ FilesType /\ FileWhole /\ RollbackCopySaved
  BY DEF EngineSwap, FilesInv
<1>2. job' \in Jobs /\ JobInv'
  BY <1>1, CallEnds
<1>3. CASE entries' = entries
  <2>1. FilesType'
    BY <1>1, <1>2, <1>3 DEF FilesType
  <2> QED BY <1>1, <1>2, <1>3, <2>1, SameFiles DEF FilesInv
<1>4. CASE entries' = [entries EXCEPT ![job.block] = job.swap]
  <2>1. job.op = "swap" /\ Swapping /\ Left = 1
    <3>1. job.op \in {"swap", "rollback"}
      BY <1>1, NextStep
    <3>2. job.op = "rollback" => FALSE
      <4>1. job.op = "rollback" => /\ Left = 3 => "engine" = "delete"
                                   /\ Left = 2 => "engine" = "delete"
                                   /\ Left = 1 => "engine" = "logged"
                                   /\ Left \in 1 .. 3
        BY <1>1, NextStep
      <4> QED BY <4>1
    <3>3. job.op = "swap" => /\ Swapping /\ Left \in 1 .. 7
                             /\ Left = 7 => "engine" = "shadow"
                             /\ Left = 6 => "engine" = "sync"
                             /\ Left = 5 => "engine" = "rename"
                             /\ Left = 4 => "engine" = "shadow"
                             /\ Left = 3 => "engine" = "sync"
                             /\ Left = 2 => "engine" = "rename"
      BY <1>1, NextStep
    <3> QED BY <3>1, <3>2, <3>3
  <2>2. /\ job.block \in Blocks /\ job.swap = swaps /\ swaps \in Nat
        /\ file[<<job.block, "state">>].swap = swaps /\ file[<<job.block, "binary">>].swap = swaps
    BY <1>1, <2>1 DEF Swapping, FilesType
  <2>3. /\ entries' \in [Blocks -> Nat] /\ entries'[job.block] = swaps
        /\ \A b \in Blocks : b # job.block => entries'[b] = entries[b]
    BY <1>1, <1>4, <2>2 DEF FilesType
  <2>4. FilesType'
    BY <1>1, <1>2, <2>2, <2>3 DEF FilesType
  <2>5. RollbackCopySaved'
    <3>1. ASSUME NEW b \in Blocks, entries'[b] # 0, NEW k \in Kinds PROVE file[<<b, k>>].swap >= entries'[b]
      <4>1. CASE b = job.block
        BY <2>2, <2>3, <3>1, <4>1 DEF Kinds
      <4>2. CASE b # job.block
        BY <1>1, <2>3, <3>1, <4>2 DEF RollbackCopySaved
      <4> QED BY <4>1, <4>2
    <3> QED BY <1>1, <3>1 DEF RollbackCopySaved
  <2>6. FileWhole'
    BY <1>1 DEF FileWhole
  <2> QED BY <1>2, <2>4, <2>5, <2>6 DEF FilesInv
<1> QED BY <1>1, <1>3, <1>4

(* rollback begins by taking the entry                                     *)
LEMMA RollbackKeeps ==
  ASSUME FilesInv, NEW b \in Blocks, Rollback(b)
  PROVE  FilesInv'
<1> DEFINE plan == IF entries[b] = 0 THEN <<<<"logged", "">>>> ELSE RollbackSteps
<1>1. /\ job' = [op |-> "rollback", block |-> b, swap |-> 0, todo |-> plan]
      /\ entries' = [entries EXCEPT ![b] = 0]
      /\ file' = file /\ shadow' = shadow /\ swaps' = swaps
      /\ FilesType /\ FileWhole /\ RollbackCopySaved
  BY Zenon DEF Rollback, FilesInv
<1>2. plan \in Seq(Steps) /\ (plan = <<<<"logged", "">>>> \/ plan = RollbackSteps)
  BY Zenon, RollbackPlan
<1> HIDE DEF plan
<1>3. job' \in Jobs /\ job'.op = "rollback" /\ job'.block = b /\ job'.todo = plan
  BY Zenon, <1>1, <1>2 DEF Jobs
<1>4. /\ entries' \in [Blocks -> Nat] /\ entries'[b] = 0
      /\ \A c \in Blocks : c # b => entries'[c] = entries[c]
  BY <1>1 DEF FilesType
<1>5. Remaining(RollbackSteps)'
  <2>1. Len(RollbackSteps) = 3
    BY Zenon, RollbackPlan
  <2>2. CASE plan = RollbackSteps
    <3>1. Left' = 3
      BY <1>3, <2>1, <2>2 DEF Left
    <3>2. ASSUME NEW j \in 1 .. Left' PROVE job'.todo[j] = RollbackSteps[Len(RollbackSteps) - Left' + j]
      <4>1. Len(RollbackSteps) - Left' + j = j
        BY <2>1, <3>1
      <4> QED BY <1>3, <2>2, <4>1
    <3>3. Left' \in 1 .. Len(RollbackSteps)
      BY <2>1, <3>1
    <3> QED BY <3>2, <3>3 DEF Remaining
  <2>3. CASE plan = <<<<"logged", "">>>>
    <3>1. Left' = 1
      BY Zenon, <1>3, <2>3, RollbackPlan DEF Left
    <3>2. ASSUME NEW j \in 1 .. Left' PROVE job'.todo[j] = RollbackSteps[Len(RollbackSteps) - Left' + j]
      <4>1. Len(RollbackSteps) - Left' + j = 3 /\ j = 1
        BY <2>1, <3>1
      <4>2. RollbackSteps[3] = <<"logged", "">> /\ job'.todo[1] = <<"logged", "">>
        BY Zenon, <1>3, <2>3, RollbackPlan
      <4> QED BY Zenon, <4>1, <4>2
    <3>3. Left' \in 1 .. Len(RollbackSteps)
      BY <2>1, <3>1
    <3> QED BY <3>2, <3>3 DEF Remaining
  <2> QED BY Zenon, <1>2, <2>2, <2>3
<1>6. JobInv'
  BY <1>3, <1>4, <1>5 DEF JobInv, RollingBack
<1>7. FilesType'
  BY <1>1, <1>3, <1>4 DEF FilesType
<1>8. FileWhole' /\ RollbackCopySaved'
  BY <1>1, <1>4 DEF FileWhole, RollbackCopySaved
<1> QED BY <1>6, <1>7, <1>8 DEF FilesInv

(* The step of a rollback that is in progress                              *)
LEMMA RollbackStep ==
  ASSUME FilesInv, NEW step \in {"delete", "logged"}, Doing(step)
  PROVE  /\ job.op = "rollback" /\ RollingBack
         /\ step = "delete" => /\ Left \in {3, 2}
                               /\ Target \in {<<job.block, "state">>, <<job.block, "binary">>}
<1>1. job.op \in {"swap", "rollback"}
  BY NextStep
<1>2. job.op # "swap"
  <2>1. job.op = "swap" => /\ Left \in 1 .. 7
                           /\ Left = 7 => step = "shadow"
                           /\ Left = 6 => step = "sync"
                           /\ Left = 5 => step = "rename"
                           /\ Left = 4 => step = "shadow"
                           /\ Left = 3 => step = "sync"
                           /\ Left = 2 => step = "rename"
                           /\ Left = 1 => step = "engine"
    BY NextStep
  <2> QED BY <2>1
<1>3. /\ RollingBack /\ Left \in 1 .. 3
      /\ Left = 3 => Target = <<job.block, "state">>
      /\ Left = 2 => Target = <<job.block, "binary">>
      /\ Left = 1 => step = "logged"
  BY <1>1, <1>2, NextStep
<1> QED BY <1>1, <1>2, <1>3

(* A file is deleted when no entry of its block is left                    *)
LEMMA DeleteFileKeeps ==
  ASSUME FilesInv, NEW ok \in BOOLEAN, DeleteFile(ok)
  PROVE  FilesInv'
<1> DEFINE none == [swap |-> 0, data |-> "none"]
<1>1. /\ file' = file \/ file' = [file EXCEPT ![Target] = none]
      /\ Done /\ job.todo # <<>> /\ Doing("delete")
      /\ shadow' = shadow /\ entries' = entries /\ swaps' = swaps
      /\ FilesType /\ FileWhole /\ RollbackCopySaved
  BY DEF DeleteFile, Doing, FilesInv
<1>2. /\ job.op = "rollback" /\ RollingBack /\ Left \in {3, 2}
      /\ Target \in {<<job.block, "state">>, <<job.block, "binary">>}
  BY <1>1, RollbackStep
<1>3. job.block \in Blocks /\ entries[job.block] = 0 /\ Remaining(RollbackSteps)
  BY <1>2 DEF RollingBack
<1>4. Target \in SavedFiles
  BY Zenon, <1>2, <1>3, Pairs
<1>5. job' \in Jobs /\ job'.op = "rollback" /\ job'.block = job.block /\ Remaining(RollbackSteps)'
  <2>1. Left \in {3, 2}
    BY <1>2
  <2>2. Left > 1
    BY <2>1
  <2>3. RollbackSteps \in Seq(Steps)
    BY Zenon, RollbackPlan
  <2> QED BY <1>1, <1>2, <1>3, <2>2, <2>3, DoneStep
<1>6. JobInv'
  BY <1>1, <1>3, <1>5 DEF JobInv, RollingBack
<1>7. CASE file' = file
  <2>1. FilesType'
    BY <1>1, <1>5, <1>7 DEF FilesType
  <2> QED BY <1>1, <1>6, <1>7, <2>1, SameFiles DEF FilesInv
<1>8. CASE file' = [file EXCEPT ![Target] = none]
  <2>1. none \in [swap : Nat, data : {"none", "unsynced", "whole"}] /\ none.swap = 0
    OBVIOUS
  <2> HIDE DEF none
  <2>2. /\ file' \in [SavedFiles -> [swap : Nat, data : {"none", "unsynced", "whole"}]]
        /\ file'[Target] = none /\ \A g \in SavedFiles : g # Target => file'[g] = file[g]
    BY Zenon, <1>1, <1>4, <1>8, <2>1, FileUpdate
  <2>3. FilesType'
    BY <1>1, <1>5, <2>2 DEF FilesType
  <2>4. FileWhole'
    <3>1. DOMAIN file = SavedFiles /\ DOMAIN file' = SavedFiles
      BY <1>1, <2>2 DEF FilesType
    <3> QED BY <1>1, <2>1, <2>2, <3>1 DEF FileWhole
  <2>5. RollbackCopySaved'
    <3>1. ASSUME NEW b \in Blocks, entries[b] # 0, NEW k \in Kinds PROVE file'[<<b, k>>].swap >= entries[b]
      <4>1. <<b, k>> \in SavedFiles /\ <<b, k>> # Target
        BY <1>2, <1>3, <3>1 DEF SavedFiles
      <4> QED BY <1>1, <2>2, <3>1, <4>1 DEF RollbackCopySaved
    <3> QED BY <1>1, <3>1 DEF RollbackCopySaved
  <2> QED BY <1>6, <2>3, <2>4, <2>5 DEF FilesInv
<1> QED BY <1>1, <1>7, <1>8

(* Nothing exists before the first swap                                    *)
LEMMA FilesInitially == FilesInit => FilesInv
<1> SUFFICES ASSUME FilesInit PROVE FilesInv
  OBVIOUS
<1>1. /\ file = [f \in SavedFiles |-> [swap |-> 0, data |-> "none"]]
      /\ shadow = [f \in SavedFiles |-> "none"]
      /\ entries = [b \in Blocks |-> 0] /\ job = Idle /\ swaps = 0
  BY DEF FilesInit, SavedFiles
<1>2. job \in Jobs /\ JobInv
  <2>1. job \in Jobs /\ job.op = "none" /\ job.todo = <<>>
    BY <1>1, IdleIsJob
  <2> QED BY <2>1 DEF JobInv
<1>3. FilesType
  BY <1>1, <1>2 DEF FilesType
<1>4. FileWhole /\ RollbackCopySaved
  BY <1>1 DEF FileWhole, RollbackCopySaved
<1> QED BY <1>2, <1>3, <1>4 DEF FilesInv

(* Every file operation, failure, crash and recovery keeps the invariant   *)
LEMMA FilesStep ==
  ASSUME FilesInv, FilesNext \/ UNCHANGED fileVars
  PROVE  FilesInv'
<1>1. CASE \E b \in Blocks : BeginSwap(b)
  BY <1>1, BeginSwapKeeps
<1>2. CASE \E b \in Blocks : Rollback(b)
  BY <1>2, RollbackKeeps
<1>3. CASE WriteShadow
  BY <1>3, WriteShadowKeeps
<1>4. CASE SyncShadow
  BY <1>4, SyncShadowKeeps
<1>5. CASE RenameShadow
  BY <1>5, RenameShadowKeeps
<1>6. CASE \E ok \in BOOLEAN : EngineSwap(ok)
  BY <1>6, EngineSwapKeeps
<1>7. CASE \E ok \in BOOLEAN : DeleteFile(ok)
  BY <1>7, DeleteFileKeeps
<1>8. CASE WriteFails
  BY <1>8, WriteFailsKeeps
<1>9. CASE RollbackLogged \/ Recover
  <2>1. /\ job' = Idle /\ file' = file /\ shadow' = shadow /\ entries' = entries /\ swaps' = swaps
        /\ FilesType
    BY <1>9 DEF RollbackLogged, Recover, FilesInv
  <2>2. job' \in Jobs /\ JobInv'
    BY <2>1, CallEnds
  <2>3. FilesType'
    BY <2>1, <2>2 DEF FilesType
  <2> QED BY <2>1, <2>2, <2>3, SameFiles DEF FilesInv
<1>10. CASE Crash
  <2>1. /\ job' = [Idle EXCEPT !.op = "down"] /\ file' = file /\ shadow' = shadow /\ swaps' = swaps
        /\ entries' = [b \in Blocks |-> 0] /\ FilesType /\ FileWhole
    BY <1>10 DEF Crash, FilesInv
  <2>2. job' \in Jobs /\ JobInv'
    BY <2>1, CallEnds
  <2>3. FilesType'
    BY <2>1, <2>2 DEF FilesType
  <2>4. FileWhole' /\ RollbackCopySaved'
    BY <2>1 DEF FileWhole, RollbackCopySaved
  <2> QED BY <2>2, <2>3, <2>4 DEF FilesInv
<1>11. CASE RewriteEntry \/ UNCHANGED fileVars
  <2>1. UNCHANGED <<file, shadow, entries, job, swaps>>
    BY <1>11 DEF RewriteEntry, fileVars
  <2> QED
    BY Zenon, <2>1 DEF FilesInv, FilesType, JobInv, FileWhole, RollbackCopySaved, Swapping, RollingBack,
       Remaining, Left
<1> QED
  BY <1>1, <1>2, <1>3, <1>4, <1>5, <1>6, <1>7, <1>8, <1>9, <1>10, <1>11 DEF FilesNext

-----------------------------------------------------------------------------
(* The engine.  A swap is in the history before the instance is replaced,  *)
(* and a rollback drops the instance with the entry                        *)
Known == Versions \cup {NoVersion, Registered}
Records == [block : Blocks, new : Known, rolledBack : BOOLEAN]

EngineInv ==
  /\ active \in [Blocks -> Known]
  /\ entry \in [Blocks -> Known]
  /\ history \in Seq(Records)
  /\ RunsOnlyAccepted

(* Appending keeps what is there                                           *)
LEMMA AppendOf ==
  ASSUME NEW S, NEW s \in Seq(S), NEW e \in S
  PROVE  /\ Append(s, e) \in Seq(S) /\ Len(s) \in Nat /\ Len(Append(s, e)) = Len(s) + 1
         /\ Append(s, e)[Len(s) + 1] = e
         /\ \A i \in 1 .. Len(s) : Append(s, e)[i] = s[i]
         /\ DOMAIN s = 1 .. Len(s) /\ DOMAIN Append(s, e) = 1 .. Len(s) + 1
OBVIOUS

(* The swap that brought what block b runs                                 *)
Accepted(h, b, version) ==
  \E i \in DOMAIN h :
    /\ h[i] = Record(b, version, FALSE)
    /\ \A j \in i + 1 .. Len(h) : h[j].block = b => ~h[j].rolledBack

(* A record of another block, or of a swap, leaves it accepted             *)
LEMMA StaysAccepted ==
  ASSUME NEW h \in Seq(Records),
         NEW r \in Records,
         NEW b, NEW version, Accepted(h, b, version), r.block = b => ~r.rolledBack
  PROVE  Accepted(Append(h, r), b, version)
<1> DEFINE g == Append(h, r)
<1>1. /\ Len(h) \in Nat /\ Len(g) = Len(h) + 1 /\ g[Len(h) + 1] = r
      /\ \A i \in 1 .. Len(h) : g[i] = h[i]
      /\ DOMAIN h = 1 .. Len(h) /\ DOMAIN g = 1 .. Len(h) + 1
  BY AppendOf
<1> HIDE DEF g
<1>2. PICK i \in 1 .. Len(h) : /\ h[i] = Record(b, version, FALSE)
                               /\ \A j \in i + 1 .. Len(h) : h[j].block = b => ~h[j].rolledBack
  BY Zenon, <1>1 DEF Accepted
<1>3. i \in DOMAIN g /\ g[i] = Record(b, version, FALSE)
  <2>1. g[i] = h[i]
    BY <1>1
  <2>2. i \in DOMAIN g
    BY <1>1
  <2> QED BY <1>2, <2>1, <2>2
<1>4. ASSUME NEW j \in i + 1 .. Len(g), g[j].block = b PROVE ~g[j].rolledBack
  <2>1. j \in i + 1 .. Len(h) \/ j = Len(h) + 1
    BY <1>1
  <2>2. CASE j \in i + 1 .. Len(h)
    <3>1. g[j] = h[j]
      BY <1>1, <2>2
    <3> QED BY <1>2, <1>4, <2>2, <3>1
  <2>3. CASE j = Len(h) + 1
    BY <1>1, <1>4, <2>3
  <2> QED BY <2>1, <2>2, <2>3
<1>5. Accepted(g, b, version)
  BY Zenon, <1>3, <1>4 DEF Accepted
<1> QED BY <1>5 DEF g

(* The record of a swap accepts its version                                *)
LEMMA NowAccepted ==
  ASSUME NEW h \in Seq(Records),
         NEW b \in Blocks, NEW version \in Known
  PROVE  Accepted(Append(h, Record(b, version, FALSE)), b, version)
<1> DEFINE r == Record(b, version, FALSE)
           g == Append(h, r)
<1>1. r \in Records
  BY DEF Record, Records
<1> HIDE DEF r
<1>2. Len(h) \in Nat /\ Len(g) = Len(h) + 1 /\ g[Len(h) + 1] = r /\ DOMAIN g = 1 .. Len(h) + 1
  BY <1>1, AppendOf
<1> HIDE DEF g
<1>3. Len(g) \in DOMAIN g /\ g[Len(g)] = Record(b, version, FALSE)
  BY <1>2 DEF r
<1>4. \A j \in Len(g) + 1 .. Len(g) : g[j].block = b => ~g[j].rolledBack
  BY <1>2
<1>5. Accepted(g, b, version)
  BY Zenon, <1>3, <1>4 DEF Accepted
<1> QED BY Zenon, <1>5 DEF g, r

(* Between two calls what runs is registered or accepted                   *)
LEMMA AcceptedIs ==
  RunsOnlyAccepted <=>
    \A b \in Blocks : active[b] \notin {NoVersion, Registered} => Accepted(history, b, active[b])
BY DEF RunsOnlyAccepted, Accepted

(* No instance and no entry before the first deployment                    *)
LEMMA EngineInitially == EngineInit => EngineInv
<1> SUFFICES ASSUME EngineInit PROVE EngineInv
  OBVIOUS
<1>1. <<>> \in Seq(Records)
  OBVIOUS
<1> QED BY <1>1 DEF EngineInit, EngineInv, Known, RunsOnlyAccepted

(* deploy_block runs the registered version                                *)
LEMMA DeployKeeps ==
  ASSUME EngineInv, NEW b \in Blocks, NEW compiles \in BOOLEAN, DeployBlock(b, compiles)
  PROVE  EngineInv'
<1>1. /\ active' = active \/ active' = [active EXCEPT ![b] = Registered]
      /\ entry' = entry /\ history' = history
  BY DEF DeployBlock
<1>2. active' \in [Blocks -> Known] /\ \A c \in Blocks : active'[c] = active[c] \/ active'[c] = Registered
  BY <1>1 DEF EngineInv, Known
<1>3. ASSUME NEW c \in Blocks, active'[c] \notin {NoVersion, Registered}
      PROVE  Accepted(history', c, active'[c])
  BY <1>1, <1>2, <1>3, AcceptedIs DEF EngineInv
<1>4. RunsOnlyAccepted'
  BY Zenon, <1>3 DEF RunsOnlyAccepted, Accepted
<1> QED BY <1>1, <1>2, <1>4 DEF EngineInv

(* swap_block records the swap before it replaces the instance             *)
LEMMA SwapKeeps ==
  ASSUME EngineInv, NEW b \in Blocks, NEW v \in Versions, NEW healthy \in BOOLEAN,
         NEW compiles \in BOOLEAN, SwapBlock(b, v, healthy, compiles)
  PROVE  EngineInv'
<1> DEFINE r == Record(b, v, FALSE)
<1>1. /\ active \in [Blocks -> Known] /\ entry \in [Blocks -> Known] /\ history \in Seq(Records)
      /\ \A c \in Blocks : active[c] \notin {NoVersion, Registered} => Accepted(history, c, active[c])
  BY AcceptedIs DEF EngineInv
<1>2. CASE ~healthy
  <2>1. active' = active /\ entry' = entry /\ history' = history
    BY <1>2 DEF SwapBlock
  <2> QED BY Zenon, <2>1 DEF EngineInv, RunsOnlyAccepted
<1>3. CASE healthy
  <2>1. /\ entry' = [entry EXCEPT ![b] = Registered] /\ history' = Append(history, r)
        /\ active' = active \/ active' = [active EXCEPT ![b] = v]
    BY Zenon, <1>3 DEF SwapBlock, PerformSwap
  <2>2. r \in Records /\ r.block = b /\ ~r.rolledBack /\ v \in Known
    BY DEF Record, Records, Known
  <2>3. Accepted(history', b, v)
    BY Zenon, <1>1, <2>1, <2>2, NowAccepted
  <2> HIDE DEF r
  <2>4. history' \in Seq(Records)
    BY <1>1, <2>1, <2>2, AppendOf
  <2>5. active' \in [Blocks -> Known] /\ entry' \in [Blocks -> Known]
    BY <1>1, <2>1, <2>2 DEF Known
  <2>6. ASSUME NEW c \in Blocks, active'[c] \notin {NoVersion, Registered}
        PROVE  Accepted(history', c, active'[c])
    <3>1. active'[c] = active[c] \/ (c = b /\ active'[c] = v)
      BY <1>1, <2>1
    <3>2. CASE active'[c] = active[c]
      <4>1. Accepted(history, c, active[c])
        BY <1>1, <2>6, <3>2
      <4>2. Accepted(Append(history, r), c, active[c])
        BY <1>1, <2>2, <4>1, StaysAccepted
      <4> QED BY <2>1, <3>2, <4>2
    <3>3. CASE c = b /\ active'[c] = v
      BY <2>3, <3>3
    <3> QED BY <3>1, <3>2, <3>3
  <2>7. RunsOnlyAccepted'
    BY Zenon, <2>6 DEF RunsOnlyAccepted, Accepted
  <2> QED BY <2>4, <2>5, <2>7 DEF EngineInv
<1> QED BY <1>2, <1>3

(* rollback_block drops the instance, whether or not there is an entry     *)
LEMMA RollbackBlockKeeps ==
  ASSUME EngineInv, NEW b \in Blocks, RollbackBlock(b)
  PROVE  EngineInv'
<1> DEFINE r == Record(b, entry[b], TRUE)
<1>1. /\ active \in [Blocks -> Known] /\ entry \in [Blocks -> Known] /\ history \in Seq(Records)
      /\ \A c \in Blocks : active[c] \notin {NoVersion, Registered} => Accepted(history, c, active[c])
  BY AcceptedIs DEF EngineInv
<1>2. /\ active' = [active EXCEPT ![b] = NoVersion]
      /\ \/ entry' = entry /\ history' = history
         \/ entry' = [entry EXCEPT ![b] = NoVersion] /\ history' = Append(history, r)
  BY Zenon DEF RollbackBlock
<1>3. r \in Records /\ r.block = b
  BY <1>1 DEF Record, Records
<1> HIDE DEF r
<1>4. /\ active' \in [Blocks -> Known] /\ active'[b] = NoVersion
      /\ \A c \in Blocks : c # b => active'[c] = active[c]
  BY <1>1, <1>2 DEF Known
<1>5. entry' \in [Blocks -> Known] /\ history' \in Seq(Records)
  <2>1. CASE entry' = entry /\ history' = history
    BY <1>1, <2>1
  <2>2. CASE entry' = [entry EXCEPT ![b] = NoVersion] /\ history' = Append(history, r)
    <3>1. history' \in Seq(Records)
      BY <1>1, <1>3, <2>2, AppendOf
    <3>2. entry' \in [Blocks -> Known]
      BY <1>1, <2>2 DEF Known
    <3> QED BY <3>1, <3>2
  <2> QED BY <1>2, <2>1, <2>2
<1>6. ASSUME NEW c \in Blocks, active'[c] \notin {NoVersion, Registered}
      PROVE  Accepted(history', c, active'[c])
  <2>1. c # b /\ active'[c] = active[c] /\ Accepted(history, c, active[c])
    BY <1>1, <1>4, <1>6
  <2>2. CASE history' = history
    BY <2>1, <2>2
  <2>3. CASE history' = Append(history, r)
    <3>1. Accepted(Append(history, r), c, active[c])
      BY <1>1, <1>3, <2>1, StaysAccepted
    <3> QED BY <2>1, <2>3, <3>1
  <2> QED BY <1>2, <2>2, <2>3
<1>7. RunsOnlyAccepted'
  BY Zenon, <1>6 DEF RunsOnlyAccepted, Accepted
<1> QED BY <1>4, <1>5, <1>7 DEF EngineInv

(* Every call of the engine keeps its invariant                            *)
LEMMA EngineStep ==
  ASSUME EngineInv, EngineNext \/ UNCHANGED engineVars
  PROVE  EngineInv'
<1>1. CASE EngineNext
  BY <1>1, DeployKeeps, SwapKeeps, RollbackBlockKeeps DEF EngineNext
<1>2. CASE UNCHANGED engineVars
  BY Zenon, <1>2 DEF engineVars, EngineInv, RunsOnlyAccepted
<1> QED BY <1>1, <1>2

-----------------------------------------------------------------------------
(* Whatever step a crash or a failing file operation cuts short, for any   *)
(* blocks, log size and number of swaps and crashes: a saved file is the   *)
(* whole, durable data of one swap, and as long as the engine accepts a    *)
(* rollback both files are of its swap or a later one (atomic_write,       *)
(* perform_swap, rollback); what runs is registered or was accepted by a   *)
(* swap that no rollback has undone since (swap_block, rollback_block)     *)
THEOREM SwapsAreSafe == Spec => [](FileWhole /\ RollbackCopySaved /\ RunsOnlyAccepted)
<1>1. Init => FilesInv /\ EngineInv
  BY FilesInitially, EngineInitially DEF Init
<1>2. FilesInv /\ EngineInv /\ [Next]_vars => (FilesInv /\ EngineInv)'
  <2> SUFFICES ASSUME FilesInv, EngineInv, [Next]_vars PROVE FilesInv' /\ EngineInv'
    OBVIOUS
  <2>1. /\ FilesNext \/ UNCHANGED fileVars
        /\ EngineNext \/ UNCHANGED engineVars
    BY DEF Next, vars
  <2> QED BY <2>1, FilesStep, EngineStep
<1>3. FilesInv /\ EngineInv => FileWhole /\ RollbackCopySaved /\ RunsOnlyAccepted
  BY DEF FilesInv, EngineInv
<1> QED BY <1>1, <1>2, <1>3, PTL DEF Spec
=============================================================================
