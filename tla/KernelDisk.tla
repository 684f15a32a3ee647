----------------------------- MODULE KernelDisk -----------------------------
(***************************************************************************)
(* The polled disk drivers, aios-kernel/src/nvme.rs and ahci.rs, and the   *)
(* controllers they drive (external).                                      *)
(*                                                                         *)
(* A command is its number and what it asks for; a data frame holds what   *)
(* some command moved there.  A controller takes as long as it likes, so a *)
(* wait may time out and the answer still come.  Strings, sizes and the    *)
(* byte layout of commands are left out.                                   *)
(***************************************************************************)
EXTENDS Integers, Sequences

CONSTANTS
    Depth,        \* QUEUE_DEPTH
    Blocks,       \* blocks of the namespace, sectors of a drive
    Ports,        \* implemented ports of the HBA, numbered from 0
    MaxDrives,    \* MAX_DRIVES
    MaxLate,      \* bound on waits that time out
    MaxReads      \* bound on reads

VARIABLES
    stage,        \* NVMe: admin commands of init that have succeeded, or -1
    queue,        \* tail, head and phase of the driver, for "admin" and "io"
    sq, cq,       \* the rings in memory
    ctrl,         \* the controller's side of the rings, and the doorbells
    frame,        \* the data frame
    job,          \* the call at work
    late,         \* waits on each queue that timed out
    probing,      \* AHCI: the port that init is at
    hba,          \* ports: the command table, CI, error, the command at work
    aframe, ajob, alate,
    drives,       \* drives found: port, and the identity that was read
    link,         \* what is attached to each port
    reads

nvmeVars == <<stage, queue, sq, cq, ctrl, frame, job, late>>
ahciVars == <<probing, hba, aframe, ajob, alate, drives, link>>
vars == <<nvmeVars, ahciVars, reads>>

DiskAssumption == Depth > MaxLate + 1 /\ Blocks > 0 /\ Ports > 0 /\ MaxDrives > 0

Cell == 0 .. Depth - 1
PortIds == 0 .. Ports - 1
NoCommand == [id |-> 0, asks |-> <<"none", 0, 0>>]
NoJob == [state |-> "idle", on |-> 0, lba |-> 0, left |-> 0, out |-> <<>>, id |-> 0]

Init ==
    /\ stage \in {0, -1}                  \* -1: no controller
    /\ queue = [k \in {"admin", "io"} |-> [tail |-> 0, head |-> 0, phase |-> TRUE, sent |-> 0]]
    /\ sq = [k \in {"admin", "io"} |-> [c \in Cell |-> NoCommand]]
    /\ cq = [k \in {"admin", "io"} |-> [c \in Cell |-> [id |-> 0, phase |-> FALSE, ok |-> TRUE]]]
    /\ ctrl = [k \in {"admin", "io"} |->
                 [bell |-> 0, room |-> 0, head |-> 0, tail |-> 0, phase |-> TRUE, moved |-> FALSE]]
    /\ frame = NoCommand.asks /\ job = NoJob /\ late = [k \in {"admin", "io"} |-> 0]
    /\ probing = 0
    /\ hba = [p \in PortIds |-> [table |-> NoCommand, ci |-> FALSE, error |-> FALSE, run |-> NoCommand]]
    /\ aframe = NoCommand.asks /\ ajob = NoJob /\ alate = 0 /\ drives = <<>>
    /\ link \in [PortIds -> {"disk", "other", "none"}]
    /\ stage = -1 \/ \A p \in PortIds : link[p] = "none"
    /\ reads = 0

-----------------------------------------------------------------------------
(* NVMe.  init brings the controller up and issues four admin commands.    *)
Setup == <<"controller", "createcq", "createsq", "namespace">>
Ready == stage = Len(Setup)
Lane == IF Ready THEN "io" ELSE "admin"
Asks == IF Ready THEN <<"block", 0, job.lba + Len(job.out)>> ELSE <<Setup[stage + 1], 0, 0>>

NvmeInit ==
    /\ stage \in 0 .. Len(Setup) - 1 /\ job.state = "idle"
    /\ job' = [NoJob EXCEPT !.state = "next"]
    /\ UNCHANGED <<stage, queue, sq, cq, ctrl, frame, late, ahciVars, reads>>

read_blocks(lba, count) ==
    /\ Ready /\ job.state = "idle" /\ reads < MaxReads
    /\ lba + count <= Blocks
    /\ job' = [NoJob EXCEPT !.state = "next", !.lba = lba, !.left = count]
    /\ reads' = reads + 1
    /\ UNCHANGED <<stage, queue, sq, cq, ctrl, frame, late, ahciVars>>

(* submit, up to the doorbell *)
submit ==
    /\ job.state = "next"
    /\ LET k == Lane
           n == queue[k].sent + 1
           t == (queue[k].tail + 1) % Depth
       IN  /\ sq' = [sq EXCEPT ![k][queue[k].tail] = [id |-> n, asks |-> Asks]]
           /\ queue' = [queue EXCEPT ![k].tail = t, ![k].sent = n]
           /\ ctrl' = [ctrl EXCEPT ![k].bell = t]
           /\ job' = [job EXCEPT !.state = "wait", !.id = n]
    /\ UNCHANGED <<stage, cq, frame, late, ahciVars, reads>>

(* The entry at the head has the phase that is expected there; the number  *)
(* of its command is not looked at.                                        *)
AtHead(k) == cq[k][queue[k].head]
Answered(k) == AtHead(k).phase = queue[k].phase

SamePhase(q) == [q EXCEPT !.head = (@ + 1) % Depth]
Taken(q) ==
    LET h == (q.head + 1) % Depth
    IN  [q EXCEPT !.head = h, !.phase = IF h = 0 THEN ~ @ ELSE @]

(* submit, from the answer on; a read copies what the frame holds then *)
Completed ==
    /\ job.state = "wait" /\ Answered(Lane)
    /\ LET k == Lane
           ok == AtHead(k).ok
           read == [job EXCEPT !.out = Append(@, frame), !.left = @ - 1,
                               !.state = IF job.left = 1 THEN "idle" ELSE "next"]
       IN  /\ queue' = [queue EXCEPT ![k] = Taken(@)]
           /\ ctrl' = [ctrl EXCEPT ![k].room = Taken(queue[k]).head]
           /\ stage' = IF Ready THEN stage ELSE IF ok THEN stage + 1 ELSE -1
           /\ job' = IF Ready /\ ok THEN read ELSE NoJob
    /\ UNCHANGED <<sq, cq, frame, late, ahciVars, reads>>

TimedOut ==
    /\ job.state = "wait" /\ ~ Answered(Lane)
    /\ late["admin"] + late["io"] < MaxLate
    /\ late' = [late EXCEPT ![Lane] = @ + 1]
    /\ stage' = IF Ready THEN stage ELSE -1
    /\ job' = NoJob
    /\ UNCHANGED <<queue, sq, cq, ctrl, frame, ahciVars, reads>>

(* The controller: moves the data of its next command, then completes it *)
Moves(k) ==
    /\ ctrl[k].head # ctrl[k].bell /\ ~ ctrl[k].moved
    /\ ctrl' = [ctrl EXCEPT ![k].moved = TRUE]
    /\ frame' = IF sq[k][ctrl[k].head].asks[1] \in {"createcq", "createsq"} THEN frame
                ELSE sq[k][ctrl[k].head].asks
    /\ UNCHANGED <<stage, queue, sq, cq, job, late, ahciVars, reads>>

Posts(k, ok) ==
    /\ ctrl[k].moved /\ (ctrl[k].tail + 1) % Depth # ctrl[k].room
    /\ cq' = [cq EXCEPT ![k][ctrl[k].tail] = [id |-> sq[k][ctrl[k].head].id, phase |-> ctrl[k].phase, ok |-> ok]]
    /\ LET t == (ctrl[k].tail + 1) % Depth
       IN  ctrl' = [ctrl EXCEPT ![k].moved = FALSE, ![k].head = (@ + 1) % Depth, ![k].tail = t,
                                ![k].phase = IF t = 0 THEN ~ @ ELSE @]
    /\ UNCHANGED <<stage, queue, sq, frame, job, late, ahciVars, reads>>

-----------------------------------------------------------------------------
(* AHCI.  init probes one port after the other, up to MaxDrives drives.    *)
Probed == probing = Ports \/ Len(drives) = MaxDrives

probe_port ==
    /\ ~ Probed /\ ajob.state = "idle"
    /\ IF link[probing] = "disk"
       THEN ajob' = [NoJob EXCEPT !.state = "next", !.on = probing, !.left = 1] /\ UNCHANGED probing
       ELSE probing' = probing + 1 /\ UNCHANGED ajob
    /\ UNCHANGED <<nvmeVars, hba, aframe, alate, drives, link, reads>>

read_sectors(d, lba, count) ==
    /\ Probed /\ ajob.state = "idle" /\ reads < MaxReads
    /\ d <= Len(drives) /\ lba + count <= Blocks
    /\ ajob' = [NoJob EXCEPT !.state = "next", !.on = drives[d].port, !.lba = lba, !.left = count]
    /\ reads' = reads + 1
    /\ UNCHANGED <<nvmeVars, probing, hba, aframe, alate, drives, link>>

(* issue, up to CI: the one command slot of the port is written over *)
issue ==
    /\ ajob.state = "next"
    /\ LET p == ajob.on
           asks == IF Probed THEN <<"sector", p, ajob.lba + Len(ajob.out)>> ELSE <<"identity", p, 0>>
       IN  hba' = [hba EXCEPT ![p].table = [id |-> 0, asks |-> asks], ![p].error = FALSE, ![p].ci = TRUE]
    /\ ajob' = [ajob EXCEPT !.state = "wait"]
    /\ UNCHANGED <<nvmeVars, probing, aframe, alate, drives, link, reads>>

(* issue, from CI clear on *)
Issued ==
    /\ ajob.state = "wait" /\ ~ hba[ajob.on].ci
    /\ LET ok == ~ hba[ajob.on].error
           read == [ajob EXCEPT !.out = Append(@, aframe), !.left = @ - 1,
                                !.state = IF ajob.left = 1 THEN "idle" ELSE "next"]
       IN  /\ ajob' = IF ok /\ Probed THEN read ELSE NoJob
           /\ probing' = IF Probed THEN probing ELSE probing + 1
           /\ drives' = IF ok /\ ~ Probed THEN Append(drives, [port |-> ajob.on, identity |-> aframe]) ELSE drives
    /\ UNCHANGED <<nvmeVars, hba, aframe, alate, link, reads>>

IssueTimedOut ==
    /\ ajob.state = "wait" /\ hba[ajob.on].ci /\ alate < MaxLate
    /\ alate' = alate + 1
    /\ ajob' = NoJob
    /\ probing' = IF Probed THEN probing ELSE probing + 1
    /\ UNCHANGED <<nvmeVars, hba, aframe, drives, link, reads>>

(* The HBA fetches the table, then moves the data and clears CI *)
Fetches(p) ==
    /\ hba[p].ci /\ hba[p].run = NoCommand
    /\ hba' = [hba EXCEPT ![p].run = hba[p].table]
    /\ UNCHANGED <<nvmeVars, probing, aframe, ajob, alate, drives, link, reads>>

Finishes(p, ok) ==
    /\ hba[p].run # NoCommand
    /\ hba' = [hba EXCEPT ![p].run = NoCommand, ![p].ci = FALSE, ![p].error = ~ ok]
    /\ aframe' = IF ok THEN hba[p].run.asks ELSE aframe
    /\ UNCHANGED <<nvmeVars, probing, ajob, alate, drives, link, reads>>

Next ==
    \/ NvmeInit \/ submit \/ Completed \/ TimedOut
    \/ \E lba \in 0 .. Blocks - 1, n \in 1 .. 2 : read_blocks(lba, n)
    \/ \E k \in {"admin", "io"} : Moves(k) \/ \E ok \in BOOLEAN : Posts(k, ok)
    \/ probe_port \/ issue \/ Issued \/ IssueTimedOut
    \/ \E d \in 1 .. MaxDrives, lba \in 0 .. Blocks - 1, n \in 1 .. 2 : read_sectors(d, lba, n)
    \/ \E p \in PortIds : Fetches(p) \/ \E ok \in BOOLEAN : Finishes(p, ok)

Spec == Init /\ [][Next]_vars

-----------------------------------------------------------------------------
(* A call takes the answer of its own command, however often the rings     *)
(* have wrapped: what lies at the head with the right phase is the command *)
(* waited for, less one for every wait that timed out before, because      *)
(* answers to those are still taken in turn.  While no wait has timed out, *)
(* "Reads `count` logical blocks starting at `lba` into `out`" holds of    *)
(* both drivers, and a drive has the identity of its own port although all *)
(* ports share one frame.                                                  *)
OwnAnswers ==
    /\ job.state = "wait" /\ Answered(Lane) => AtHead(Lane).id = job.id - late[Lane]
    /\ late["io"] = 0 => \A i \in DOMAIN job.out : job.out[i] = <<"block", 0, job.lba + i - 1>>
    /\ alate = 0 =>
         /\ \A i \in DOMAIN ajob.out : ajob.out[i] = <<"sector", ajob.on, ajob.lba + i - 1>>
         /\ \A i \in DOMAIN drives : drives[i].identity = <<"identity", drives[i].port, 0>>

(* Without the exception for waits that timed out: refuted, the late       *)
(* answer is taken for that of the next command.                           *)
ReadsWhatWasAsked ==
    \A i \in DOMAIN job.out : job.out[i] = <<"block", 0, job.lba + i - 1>>
=============================================================================
