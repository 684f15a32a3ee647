---------------------------- MODULE Cluster_proof ----------------------------
(***************************************************************************)
(* For any number of workers, specs, requests, ticks and crashes:          *)
(*   - what the coordinator tracks is what was started, and undisturbed    *)
(*     nothing leaks (TrackingSound);                                      *)
(*   - no migration costs the last copy (SurvivesMigration).               *)
(***************************************************************************)
EXTENDS Cluster, TLAPS

Kinds   == {"spawn", "kill", "state", "prio"}
State   == Specs \cup {NoState}
Rid     == [node : Worker, pid : Nat]
AnyNode == {0} \cup Worker
AnyRid  == [node : AnyNode, pid : Nat]

Requests == [type : Kinds, id : Nat, to : Worker, pid : Nat, spec : State, state : State]
Answers  == [type : {"Ack"}, kind : Kinds, id : Nat, ok : BOOLEAN, pid : Nat, state : State]
Replicas == [type : {"Checkpoint"}, rid : Rid, state : State]
Calls    == [op : Kinds \cup {"idle"}, sent : BOOLEAN, rid : AnyRid, spec : State,
             target : AnyNode, state : State,
             outer : {"user", "migrate", "abort", "failover"}, src : AnyRid]
Returned == [st : {"ok"}, node : AnyNode, pid : Nat, state : State]

(* The requests and answers in flight; checkpoints are no part of a call.  *)
Mail == {m \in msgs : m.type # "Checkpoint"}

RidOf(p) == [node |-> p.node, pid |-> p.pid]
Ids      == {RidOf(p) : p \in procs}

(* Answers to the request that is waited for                               *)
Accepted == {m \in Mail : m.type = "Ack" /\ m.id = pending.id /\ m.ok}

(* Processes that were started for the current call and are not tracked    *)
(* yet: a migration may still decide to kill them.                         *)
Copies ==
  IF call.op # "spawn" THEN {}
  ELSE {[node |-> pending.node, pid |-> m.pid] : m \in Accepted}
       \cup {[node |-> x.node, pid |-> x.pid] : x \in {result} \cap Returned}

(* The call is a migration that has not started its copy yet.              *)
Migrating == call.op = "state" \/ (call.op = "spawn" /\ call.outer = "migrate")

(* Processes that a kill is on its way to                                  *)
Targets ==
  {[node |-> m.to, pid |-> m.pid] : m \in {x \in Mail : x.type = "kill"}}
  \cup (IF call.op = "kill" /\ ~call.sent THEN {call.rid} ELSE {})

(* The process that the current call has killed and still tracks           *)
Gone ==
  IF call.op = "kill" /\ (Accepted # {} \/ result \in Returned) THEN {call.rid} ELSE {}

Kept(s) == \E p \in procs : p.spec = s /\ RidOf(p) \notin Targets \cup Copies

TypeInv ==
  /\ call \in Calls
  /\ call.op \in {"kill", "state", "prio"} => call.rid \in Rid
  /\ Migrating => call.src \in Rid
  /\ pending \in [id : Nat, kind : Kinds \cup {"none"}, node : AnyNode]
  /\ result \in {NoRes, Err} \cup Returned
  /\ nextReq \in Nat /\ crashes \in Nat
  /\ nextPid \in [Worker -> Nat]
  /\ procs \in SUBSET [node : Worker, pid : Nat, spec : State]
  /\ msgs \in SUBSET (Requests \cup Answers \cup Replicas)
  /\ ran \in SUBSET (Rid \X State)
  /\ victims \in SUBSET (Rid \X State)
  /\ \A r \in DOMAIN ckpt : ckpt[r] \in State

(* A message that bears the id of the pending request belongs to the call  *)
(* that waits; a failed send leaves an id behind that no message bears.    *)
MailInv ==
  /\ pending.id < nextReq
  /\ ~call.sent => result = NoRes
  /\ \A m \in Mail : m.id > 0 /\ m.id < nextReq
  /\ \A m \in Mail : m.id = pending.id =>
       /\ Waiting /\ call.op = pending.kind
       /\ m.type = "Ack" => m.kind = call.op
       /\ m.type # "Ack" =>
            /\ m.type = call.op /\ m.to = pending.node
            /\ m.spec = call.spec /\ m.pid = call.rid.pid
            /\ call.op # "spawn" => m.to = call.rid.node

StartInv ==
  /\ TrackedWasStarted
  /\ \A r \in Copies : <<r, call.spec>> \in ran

(* Without a crash pids are unique, a kill on its way concerns an old      *)
(* process, the copy of a migration runs and is not being killed, its      *)
(* source is tracked meanwhile, and whatever is tracked has a process that *)
(* nobody is about to kill.                                                *)
CrashFree ==
  crashes = 0 =>
    /\ \A e \in ran : e[1].pid < nextPid[e[1].node]
    /\ \A e, f \in ran : e[1] = f[1] => e[2] = f[2]
    /\ \A p \in procs : <<RidOf(p), p.spec>> \in ran
    /\ \A r \in Targets : r.pid < nextPid[r.node]
    /\ Copies \cap Targets = {} /\ Copies \subseteq Ids
    /\ Migrating => call.src \in DOMAIN specs /\ specs[call.src] = call.spec
    /\ \A r \in DOMAIN specs : specs[r] \in killed \/ Kept(specs[r])

(* Undisturbed there is one message at a time, and what runs is what is    *)
(* tracked but for the effect of the call that waits.                      *)
Undisturbed ==
  ~disturbed =>
    /\ failing = {} /\ victims = {}
    /\ \A m \in Mail : m.id = pending.id
    /\ \A m, n \in Mail : m = n
    /\ Ids = (DOMAIN specs \ Gone) \cup Copies

IInv == TypeInv /\ MailInv /\ StartInv /\ CrashFree /\ Undisturbed

-----------------------------------------------------------------------------
(* What a message in flight is                                             *)
LEMMA MailShape ==
  ASSUME TypeInv
  PROVE  /\ \A m \in Mail : m \in Requests \cup Answers
         /\ \A m \in msgs : m.type = "Ack" => m \in Answers /\ m \in Mail
         /\ \A m \in msgs : m.type \in Kinds => m \in Requests /\ m \in Mail
         /\ \A m \in Mail : m.type # "Ack" => m.type \in Kinds
<1> USE DEF Mail, Kinds
<1>1. \A m \in msgs : m \in Requests \cup Answers \cup Replicas
  BY DEF TypeInv
<1>2. \A m \in Requests : m.type \in Kinds
  BY DEF Requests
<1>3. \A m \in Answers : m.type = "Ack"
  BY DEF Answers
<1>4. \A m \in Replicas : m.type = "Checkpoint"
  BY DEF Replicas
<1> QED
  BY <1>1, <1>2, <1>3, <1>4

(* Ids and pids only grow.                                                 *)
LEMMA LessTrans == \A a, b, c \in Nat : a < b /\ b <= c => a < c
  OBVIOUS

(* A counter is less than its successor and not less than itself.          *)
LEMMA LessNext == \A a \in Nat : a < a + 1 /\ ~(a < a)
  OBVIOUS

(* A kill in flight is addressed to a worker.                              *)
LEMMA TargetShape ==
  ASSUME TypeInv
  PROVE  \A t \in Targets : t \in Rid
<1> SUFFICES ASSUME NEW t \in Targets PROVE t \in Rid
  OBVIOUS
<1>1. CASE \E m \in Mail : m.type = "kill" /\ t = [node |-> m.to, pid |-> m.pid]
  <2>1. PICK m \in Mail : m.type = "kill" /\ t = [node |-> m.to, pid |-> m.pid]
    BY <1>1
  <2>2. m \in Requests
    BY <2>1, MailShape DEF Kinds, Mail
  <2> QED
    BY <2>1, <2>2 DEF Requests, Rid
<1>2. CASE call.op = "kill" /\ t = call.rid
  BY <1>2 DEF TypeInv
<1> QED
  BY <1>1, <1>2 DEF Targets

(* The call of a coordinator that is in none                               *)
LEMMA IdleCall == /\ Idle \in Calls /\ Idle.op = "idle" /\ ~Idle.sent /\ Idle.outer = "user"
BY ClusterAssumption DEF Calls, Idle, Call, NoRid, NoState, State, AnyRid, AnyNode, Worker, Kinds

(* Who does not wait has no message of the pending id in flight.           *)
LEMMA NobodyAnswers ==
  ASSUME MailInv, ~Waiting
  PROVE  Accepted = {} /\ \A m \in Mail : m.id # pending.id
BY DEF MailInv, Accepted

(* A step that touches none of what the invariant speaks of preserves it.  *)
LEMMA Frame ==
  ASSUME IInv, TypeInv', Mail' = Mail,
         UNCHANGED <<specs, pending, result, call, nextReq, procs, nextPid, killed, ran, crashes>>,
         ~disturbed' => ~disturbed /\ failing' = {} /\ victims' = {}
  PROVE  IInv'
<1>1. Accepted' = Accepted /\ Ids' = Ids
  BY DEF Accepted, Ids
<1>2. Copies' = Copies /\ Targets' = Targets /\ Gone' = Gone
  BY <1>1 DEF Copies, Targets, Gone
<1>3. MailInv'
  BY DEF IInv, MailInv, Waiting
<1>4. StartInv'
  BY <1>2 DEF IInv, StartInv, TrackedWasStarted
<1>5. CrashFree'
  BY <1>1, <1>2 DEF IInv, CrashFree, Kept, Migrating
<1>6. Undisturbed'
  BY <1>1, <1>2 DEF IInv, Undisturbed
<1> QED
  BY <1>3, <1>4, <1>5, <1>6 DEF IInv

-----------------------------------------------------------------------------
(* The invariant holds before the first call.                              *)
LEMMA InitIInv == Init => IInv
<1> SUFFICES ASSUME Init PROVE IInv
  OBVIOUS
<1> USE ClusterAssumption DEF Init
<1>1. Mail = {} /\ Accepted = {} /\ Ids = {}
  BY DEF Mail, Accepted, Ids
<1>2. TypeInv
  <2>1. call \in Calls /\ call.op = "idle" /\ ~Migrating
    BY IdleCall DEF Migrating
  <2>2. pending \in [id : Nat, kind : Kinds \cup {"none"}, node : AnyNode]
    BY DEF NoReq, AnyNode
  <2>3. DOMAIN ckpt = {}
    OBVIOUS
  <2>4. nextPid \in [Worker -> Nat]
    OBVIOUS
  <2> QED
    BY <2>1, <2>2, <2>3, <2>4 DEF TypeInv
<1>3. result \notin Returned
  BY DEF NoRes, Returned
<1>4. Copies = {} /\ Targets = {} /\ Gone = {}
  BY <1>1, <1>3 DEF Copies, Targets, Gone, Idle, Call
<1>5. MailInv
  BY <1>1 DEF MailInv, NoReq
<1>6. StartInv
  BY <1>4 DEF StartInv, TrackedWasStarted
<1>7. CrashFree
  <2>1. ~Migrating /\ DOMAIN specs = {}
    BY IdleCall DEF Migrating
  <2> QED
    BY <1>4, <2>1 DEF CrashFree
<1>8. Undisturbed
  BY <1>1, <1>4 DEF Undisturbed
<1> QED
  BY <1>2, <1>5, <1>6, <1>7, <1>8 DEF IInv

-----------------------------------------------------------------------------
(* A call that begins, or goes on with its next request: nothing is waited *)
(* for before or after.                                                    *)
LEMMA Turn ==
  ASSUME IInv, ~Waiting, Mail' = Mail, UNCHANGED <<pending, nextReq>>,
         result' = NoRes, ~call'.sent
  PROVE  /\ MailInv'
         /\ Accepted = {} /\ Copies' = {} /\ Gone' = {}
         /\ \A m \in Mail : m.id # pending.id
         /\ Targets' \subseteq Targets \cup (IF call'.op = "kill" THEN {call'.rid} ELSE {})
         /\ ~disturbed => Mail = {}
<1>1. Accepted = {} /\ \A m \in Mail : m.id # pending.id
  BY NobodyAnswers DEF IInv
<1>2. Accepted' = {}
  BY <1>1 DEF Accepted
<1>3. result' \notin Returned
  BY DEF NoRes, Returned
<1>4. MailInv'
  BY <1>1 DEF IInv, MailInv, Waiting
<1>5. Copies' = {} /\ Gone' = {}
  BY <1>2, <1>3 DEF Copies, Gone
<1>6. Targets' \subseteq Targets \cup (IF call'.op = "kill" THEN {call'.rid} ELSE {})
  BY DEF Targets
<1>7. ~disturbed => Mail = {}
  BY <1>1 DEF IInv, Undisturbed
<1> QED
  BY <1>1, <1>4, <1>5, <1>6, <1>7

(* The user enters spawn, kill, set_priority or migrate: no request has    *)
(* been sent and no process is given up yet.                               *)
LEMMA EnterStep ==
  ASSUME IInv, NEW c \in Calls, Enter(c), ~c.sent,
         c.op \in {"kill", "state", "prio"} => c.rid \in DOMAIN specs,
         c.op = "kill" => specs[c.rid] \in killed',
         (c.op = "state" \/ (c.op = "spawn" /\ c.outer = "migrate")) =>
            c.src \in DOMAIN specs /\ specs[c.src] = c.spec,
         killed \subseteq killed', UNCHANGED <<ran, crashes, disturbed>>
  PROVE  IInv'
<1>1. ~Waiting /\ call.op = "idle" /\ result = NoRes
  BY DEF Enter, Free, Idle, Call, Waiting, IInv, MailInv
<1>2. call' = c /\ result' = NoRes /\ failing = {} /\ victims = {}
      /\ UNCHANGED <<specs, ckpt, pending, nextReq, failing, victims, procs, nextPid, msgs>>
  BY DEF Enter, Free, workers
<1>3. Mail' = Mail /\ Ids' = Ids
  BY <1>2 DEF Mail, Ids
<1>4. /\ MailInv' /\ Copies' = {} /\ Gone' = {} /\ Accepted = {}
      /\ Targets' \subseteq Targets \cup (IF c.op = "kill" THEN {c.rid} ELSE {})
  BY <1>1, <1>2, <1>3, Turn
<1>5. Copies = {} /\ Gone = {}
  BY <1>1 DEF Copies, Gone
<1>6. \A r \in DOMAIN specs : r \in Rid /\ <<r, specs[r]>> \in ran
  BY DEF IInv, StartInv, TrackedWasStarted, TypeInv
<1>7. TypeInv'
  BY Zenon, <1>2, <1>6 DEF IInv, TypeInv, Migrating
<1>8. StartInv'
  BY <1>2, <1>4 DEF IInv, StartInv, TrackedWasStarted
<1>9. CrashFree'
  <2> SUFFICES ASSUME crashes = 0 PROVE CrashFree'
    BY DEF CrashFree
  <2>1. \A r \in DOMAIN specs : specs[r] \in killed' \/ Kept(specs[r])'
    <3> SUFFICES ASSUME NEW r \in DOMAIN specs, specs[r] \notin killed' PROVE Kept(specs[r])'
      OBVIOUS
    <3>1. PICK p \in procs : p.spec = specs[r] /\ RidOf(p) \notin Targets
      BY DEF IInv, CrashFree, Kept, Migrating
    <3>2. c.op = "kill" => RidOf(p) # c.rid
      BY Zenon, <3>1, <1>6 DEF IInv, CrashFree, Migrating
    <3> QED
      BY <1>2, <1>4, <3>1, <3>2 DEF Kept, RidOf
  <2>2. \A r \in Targets' : r.pid < nextPid[r.node]
    BY Zenon, <1>4, <1>6 DEF IInv, CrashFree, Migrating
  <2> QED
    BY <1>2, <1>4, <2>1, <2>2 DEF IInv, CrashFree, Migrating
<1>10. Undisturbed'
  BY <1>2, <1>3, <1>4, <1>5 DEF IInv, Undisturbed
<1> QED
  BY <1>4, <1>7, <1>8, <1>9, <1>10 DEF IInv

(* A call that fails without an answer: nothing in flight bears the id     *)
(* that is pending afterwards.                                             *)
LEMMA FailStep ==
  ASSUME IInv, TypeInv', Mail' = Mail, result' = Err,
         call'.sent, call'.op = call.op, call'.rid = call.rid, call'.spec = call.spec,
         call'.outer = call.outer, call'.src = call.src,
         pending'.id < nextReq', nextReq <= nextReq', nextReq' \in Nat,
         \A m \in Mail : m.id # pending'.id,
         IF Waiting THEN disturbed' ELSE ~call.sent,
         disturbed => disturbed',
         UNCHANGED <<specs, failing, victims, procs, nextPid, killed, ran, crashes>>
  PROVE  IInv'
<1>1. Accepted' = {} /\ Ids' = Ids
  BY DEF Accepted, Ids
<1>2. result' \notin Returned
  BY DEF Err, Returned
<1>3. Copies' = {} /\ Gone' = {}
  BY <1>1, <1>2 DEF Copies, Gone
<1>4. Targets' \subseteq Targets
  BY DEF Targets
<1>5. MailInv'
  <2>1. \A m \in Mail : m.id > 0 /\ m.id < nextReq /\ m.id \in Nat
    BY MailShape DEF IInv, MailInv, Requests, Answers
  <2>2. nextReq \in Nat
    BY DEF IInv, TypeInv, Migrating
  <2> QED
    BY <2>1, <2>2 DEF MailInv
<1>6. StartInv'
  BY <1>3 DEF IInv, StartInv, TrackedWasStarted
<1>7. CrashFree'
  BY <1>3, <1>4 DEF IInv, CrashFree, Kept, RidOf, Migrating
<1>8. Undisturbed'
  <2> SUFFICES ASSUME ~disturbed' PROVE Undisturbed'
    BY DEF Undisturbed
  <2>1. Mail = {} /\ Accepted = {}
    BY NobodyAnswers DEF IInv, Undisturbed
  <2>2. result \notin Returned
    <3>1. ~Waiting /\ ~call.sent
      OBVIOUS
    <3>2. result = NoRes
      BY <3>1 DEF IInv, MailInv
    <3> QED
      BY <3>2 DEF NoRes, Returned
  <2>3. Copies = {} /\ Gone = {}
    BY <2>1, <2>2 DEF Copies, Gone
  <2> QED
    BY <1>1, <1>3, <2>1, <2>3 DEF IInv, Undisturbed
<1> QED
  BY <1>5, <1>6, <1>7, <1>8 DEF IInv

-----------------------------------------------------------------------------
(* Sending a request                                                       *)
LEMMA SendStep ==
  ASSUME IInv, call.op \in Kinds, ~call.sent, NEW n \in Worker, SendTo(n),
         call.op # "spawn" => n = call.rid.node,
         call' = [call EXCEPT !.sent = TRUE],
         UNCHANGED <<specs, ckpt, failing, victims, workers, ghosts>>
  PROVE  IInv'
<1>1. /\ UNCHANGED <<specs, ckpt, failing, victims, procs, nextPid, killed, ran, crashes, disturbed>>
  BY DEF workers, ghosts
<1>2. /\ call \in Calls /\ call' \in Calls /\ call'.sent
      /\ call'.op = call.op /\ call'.rid = call.rid /\ call'.spec = call.spec
      /\ call'.outer = call.outer /\ call'.src = call.src
  BY Zenon DEF IInv, TypeInv, Calls
<1>3. ~Waiting /\ result = NoRes /\ nextReq \in Nat /\ pending.id < nextReq
  BY DEF Waiting, IInv, MailInv, TypeInv
<1>4. Accepted = {} /\ \A m \in Mail : m.id # pending.id
  BY <1>3, NobodyAnswers DEF IInv
<1>5. \A m \in Mail : m.id \in Nat /\ m.id > 0 /\ m.id < nextReq
  BY MailShape DEF IInv, MailInv, Requests, Answers
<1>6. Message(n) \in Requests
  BY <1>2, <1>3 DEF Message, Requests, Calls, Kinds, AnyRid
<1>7. TypeInv'
  <2>1. pending' \in [id : Nat, kind : Kinds \cup {"none"}, node : AnyNode] /\ nextReq' \in Nat
    BY <1>3 DEF SendTo, IInv, TypeInv, AnyNode
  <2>2. msgs' \in SUBSET (Requests \cup Answers \cup Replicas)
    BY <1>6 DEF SendTo, IInv, TypeInv
  <2>3. result' \in {NoRes, Err}
    BY DEF SendTo
  <2> QED
    BY <1>1, <1>2, <2>1, <2>2, <2>3 DEF IInv, TypeInv, Migrating
<1>8. CASE result' = Err /\ msgs' = msgs
  <2>1. Mail' = Mail
    BY <1>8 DEF Mail
  <2>2. /\ pending'.id < nextReq' /\ nextReq <= nextReq' /\ nextReq' \in Nat
        /\ \A m \in Mail : m.id # pending'.id
    BY <1>3, <1>4, <1>5 DEF SendTo
  <2> QED
    BY <1>1, <1>2, <1>3, <1>7, <1>8, <2>1, <2>2, FailStep
<1>9. CASE /\ result' = NoRes /\ msgs' = msgs \cup {Message(n)} /\ nextReq' = nextReq + 1
           /\ pending' = [id |-> nextReq, kind |-> call.op, node |-> n]
  <2>1. /\ Mail' = Mail \cup {Message(n)}
        /\ Message(n).type = call.op /\ Message(n).id = nextReq /\ Message(n).to = n
        /\ Message(n).pid = call.rid.pid /\ Message(n).spec = call.spec
    BY <1>9 DEF Mail, Message, Kinds
  <2>2. Accepted' = {} /\ Ids' = Ids
    BY <1>1, <1>5, <1>9, <2>1 DEF Accepted, Ids, Kinds
  <2>3. result' \notin Returned /\ result \notin Returned
    BY <1>3, <1>9 DEF NoRes, Returned
  <2>4. Copies = {} /\ Gone = {} /\ Copies' = {} /\ Gone' = {}
    BY <1>4, <2>2, <2>3 DEF Copies, Gone
  <2>5. Targets' \subseteq Targets
    <3> SUFFICES ASSUME NEW r \in Targets' PROVE r \in Targets
      OBVIOUS
    <3>1. PICK m \in Mail' : m.type = "kill" /\ r = [node |-> m.to, pid |-> m.pid]
      BY <1>2 DEF Targets
    <3>2. CASE m \in Mail
      BY <3>1, <3>2 DEF Targets
    <3>3. CASE m = Message(n)
      <4>1. call.op = "kill" /\ r = [node |-> call.rid.node, pid |-> call.rid.pid]
        BY <2>1, <3>1, <3>3
      <4>2. call.rid \in AnyRid
        BY <1>2 DEF Calls
      <4>3. r = call.rid
        BY <4>1, <4>2 DEF AnyRid
      <4> QED
        BY <4>1, <4>3 DEF Targets
    <3> QED
      BY <2>1, <3>2, <3>3
  <2>6. MailInv'
    <3>1. pending'.id < nextReq' /\ call'.sent /\ result' = NoRes /\ pending'.id = nextReq
          /\ pending'.kind = call.op /\ pending'.node = n
      BY <1>2, <1>3, <1>9
    <3>2. \A m \in Mail' : m.id > 0 /\ m.id < nextReq'
      BY <1>3, <1>5, <1>9, <2>1 DEF IInv, TypeInv
    <3>3. \A m \in Mail' : m.id = pending'.id => m = Message(n)
      BY <1>3, <1>5, <2>1, <3>1
    <3>4. Message(n).type # "Ack"
      BY <2>1 DEF Kinds
    <3> QED
      BY <1>2, <2>1, <3>1, <3>2, <3>3, <3>4 DEF MailInv, Waiting
  <2>7. StartInv'
    BY <1>1, <2>4 DEF IInv, StartInv, TrackedWasStarted
  <2>8. CrashFree'
    BY <1>1, <1>2, <2>4, <2>5 DEF IInv, CrashFree, Kept, RidOf, Migrating
  <2>9. Undisturbed'
    <3> SUFFICES ASSUME ~disturbed PROVE Undisturbed'
      BY <1>1 DEF Undisturbed
    <3>1. Mail = {}
      BY <1>4 DEF IInv, Undisturbed
    <3> QED
      BY <1>1, <1>9, <2>1, <2>2, <2>4, <3>1 DEF IInv, Undisturbed
  <2> QED
    BY <1>7, <2>6, <2>7, <2>8, <2>9 DEF IInv
<1> QED
  BY <1>8, <1>9 DEF SendTo

(* The first half of a call: the request is sent, or the call fails        *)
(* because there is no node to send it to.                                 *)
LEMMA RequestStep ==
  ASSUME IInv, RequestSpawn \/ RequestControl
  PROVE  IInv'
<1>1. call \in Calls /\ call.rid \in AnyRid
  BY DEF IInv, TypeInv, Calls
<1>2. CASE RequestControl
  <2>1. call.rid.node \in Worker
    BY <1>2 DEF RequestControl, IInv, TypeInv, Rid
  <2> QED
    BY <1>2, <2>1, SendStep DEF RequestControl, Kinds
<1>3. CASE RequestSpawn
  <2>1. CASE Placement = {} /\ result' = Err /\ UNCHANGED <<pending, nextReq, msgs>>
    <3>1. /\ call' \in Calls /\ call'.sent
          /\ call'.op = call.op /\ call'.rid = call.rid /\ call'.spec = call.spec
          /\ call'.outer = call.outer /\ call'.src = call.src
      BY Zenon, <1>1, <1>3 DEF RequestSpawn, Calls
    <3>2. UNCHANGED <<specs, ckpt, failing, victims, procs, nextPid, killed, ran, crashes, disturbed>>
      BY <1>3 DEF RequestSpawn, workers, ghosts
    <3>3. Mail' = Mail /\ ~Waiting /\ ~call.sent
      BY <1>3, <2>1 DEF Mail, RequestSpawn, Waiting
    <3>4. TypeInv'
      BY <2>1, <3>1, <3>2 DEF IInv, TypeInv, Migrating
    <3>5. \A m \in Mail : m.id # pending.id
      BY <3>3, NobodyAnswers DEF IInv
    <3>6. pending.id < nextReq /\ nextReq \in Nat
      BY DEF IInv, MailInv, TypeInv
    <3> QED
      BY <2>1, <3>1, <3>2, <3>3, <3>4, <3>5, <3>6, FailStep
  <2>2. CASE \E n \in Placement : SendTo(n)
    <3>1. Placement \subseteq Worker
      BY <1>1 DEF Placement, Selected, Candidates, Calls, AnyNode
    <3> QED
      BY <1>3, <2>2, <3>1, SendStep DEF RequestSpawn, Kinds
  <2> QED
    BY <1>3, <2>1, <2>2 DEF RequestSpawn
<1> QED
  BY <1>2, <1>3

(* recv_timeout gives up: the request stays in flight with an id that is   *)
(* no longer waited for.                                                   *)
LEMMA TimeoutStep ==
  ASSUME IInv, Timeout
  PROVE  IInv'
<1>1. /\ Waiting /\ result' = Err /\ pending' = NoReq /\ disturbed'
      /\ UNCHANGED <<specs, ckpt, call, nextReq, failing, victims, procs, nextPid, msgs, killed,
                     ran, crashes>>
  BY DEF Timeout, workers
<1>2. TypeInv'
  <2>1. pending' \in [id : Nat, kind : Kinds \cup {"none"}, node : AnyNode]
    BY <1>1 DEF NoReq, AnyNode
  <2> QED
    BY <1>1, <2>1 DEF IInv, TypeInv, Migrating
<1>3. Mail' = Mail /\ call.sent
  BY <1>1 DEF Mail, Waiting
<1>4. nextReq \in Nat /\ nextReq > 0 /\ \A m \in Mail : m.id # 0
  <2>1. nextReq \in Nat /\ pending.id \in Nat
    BY DEF IInv, TypeInv
  <2>2. pending.id < nextReq /\ \A m \in Mail : m.id > 0
    BY DEF IInv, MailInv
  <2>3. nextReq > 0
    BY <2>1, <2>2
  <2> QED
    BY <2>1, <2>2, <2>3
<1> QED
  BY <1>1, <1>2, <1>3, <1>4, FailStep DEF NoReq

-----------------------------------------------------------------------------
(* The return of a call                                                    *)
LEMMA FinishSpawnStep ==
  ASSUME IInv, FinishSpawn
  PROVE  IInv'
<1> DEFINE new == [node |-> result.node, pid |-> result.pid]
<1>1. /\ call.op = "spawn" /\ result # NoRes /\ result' = NoRes
      /\ UNCHANGED <<ckpt, pending, nextReq, failing, victims, procs, nextPid, msgs, killed,
                     ran, crashes, disturbed>>
  BY DEF FinishSpawn, workers, ghosts
<1>2. ~Waiting /\ Mail' = Mail /\ Ids' = Ids
  BY <1>1 DEF Waiting, Mail, Ids
<1>3. call \in Calls /\ Idle \in Calls
  BY ClusterAssumption DEF IInv, TypeInv, Calls, Idle, Call, NoRid, NoState, State, AnyRid, AnyNode, Worker,
     Kinds
<1>4. \A r \in DOMAIN specs : r \in Rid /\ <<r, specs[r]>> \in ran
  BY DEF IInv, StartInv, TrackedWasStarted, TypeInv
<1>5. Accepted = {} /\ Gone = {}
  BY <1>1, <1>2, NobodyAnswers DEF IInv, Gone
<1>6. CASE result = Err
  <2>1. specs' = specs /\ call' = Idle
    BY <1>6 DEF FinishSpawn
  <2>2. call'.op = "idle" /\ ~call'.sent /\ call'.outer = "user"
    BY <2>1 DEF Idle, Call
  <2>3. MailInv' /\ Copies' = {} /\ Gone' = {} /\ Targets' \subseteq Targets
    BY <1>1, <1>2, <2>2, Turn
  <2>4. Copies = {}
    BY <1>5, <1>6 DEF Copies, Err, Returned
  <2>5. TypeInv'
    BY <1>1, <1>3, <2>1, <2>2 DEF IInv, TypeInv, Migrating
  <2>6. StartInv'
    BY <1>1, <2>1, <2>3 DEF IInv, StartInv, TrackedWasStarted
  <2>7. CrashFree'
    BY <1>1, <2>1, <2>2, <2>3 DEF IInv, CrashFree, Kept, RidOf, Migrating
  <2>8. Undisturbed'
    BY <1>1, <1>2, <1>5, <2>1, <2>3, <2>4 DEF IInv, Undisturbed
  <2> QED
    BY <2>3, <2>5, <2>6, <2>7, <2>8 DEF IInv
<1>7. CASE result # Err
  <2>1. result \in Returned
    BY <1>1, <1>7 DEF IInv, TypeInv, Migrating
  <2>2. Copies = {new}
    BY <1>1, <1>5, <2>1 DEF Copies
  <2>3. <<new, call.spec>> \in ran /\ new \in Rid
    BY <2>2 DEF IInv, StartInv, TypeInv
  <2>4. /\ specs' = [r \in DOMAIN specs \cup {new} |-> IF r = new THEN call.spec ELSE specs[r]]
        /\ call' = IF call.outer # "migrate" THEN Idle
                   ELSE IF new.node = call.src.node
                   THEN Call("kill", new, NoState, 0, NoState, "abort", call.src)
                   ELSE Call("kill", call.src, NoState, 0, NoState, "migrate", new)
    BY <1>7 DEF FinishSpawn
  <2> HIDE DEF new
  <2>5. /\ DOMAIN specs' = DOMAIN specs \cup {new} /\ specs'[new] = call.spec
        /\ \A r \in DOMAIN specs : r # new => specs'[r] = specs[r]
    BY <2>4
  <2>6. ~call'.sent /\ call'.op \in {"idle", "kill"}
    BY <2>4 DEF Idle, Call
  <2>7. /\ MailInv' /\ Copies' = {} /\ Gone' = {}
        /\ Targets' \subseteq Targets \cup (IF call'.op = "kill" THEN {call'.rid} ELSE {})
    BY <1>1, <1>2, <2>6, Turn
  <2>9. StartInv'
    BY <1>1, <1>4, <2>3, <2>5, <2>7 DEF StartInv, TrackedWasStarted
  <2>10. CrashFree'
    <3> SUFFICES ASSUME crashes = 0 PROVE CrashFree'
      BY <1>1 DEF CrashFree
    <3>1. PICK q \in procs : RidOf(q) = new /\ new \notin Targets
      BY <2>2 DEF IInv, CrashFree, Ids
    <3>2. <<RidOf(q), q.spec>> \in ran /\ q.spec = call.spec
      BY <2>3, <3>1 DEF IInv, CrashFree, Migrating
    <3>3. \A r \in Targets' : r.pid < nextPid[r.node]
      <4>1. \A r \in Targets : r.pid < nextPid[r.node]
        BY DEF IInv, CrashFree
      <4>2. new.pid < nextPid[new.node]
        BY <2>3 DEF IInv, CrashFree
      <4>3. call.outer = "migrate" => call.src.pid < nextPid[call.src.node]
        BY Zenon, <1>1, <1>4 DEF IInv, CrashFree, Migrating
      <4>4. call'.op = "kill" => call'.rid = new \/ (call.outer = "migrate" /\ call'.rid = call.src)
        BY <2>4 DEF Idle, Call
      <4> QED
        BY <2>7, <4>1, <4>2, <4>3, <4>4
    <3>4. \A r \in DOMAIN specs' : specs'[r] \in killed \/ Kept(specs[r])'
      <4> SUFFICES ASSUME NEW r \in DOMAIN specs', specs'[r] \notin killed
                   PROVE  Kept(specs[r])'
        OBVIOUS
      <4>1. ASSUME NEW p \in procs, p.spec = specs'[r], RidOf(p) \notin Targets,
                   call'.op = "kill" => RidOf(p) # call'.rid
            PROVE  Kept(specs[r])'
        BY <1>1, <2>7, <4>1 DEF Kept, RidOf
      <4>2. CASE call.outer # "migrate"
        <5>1. call'.op = "idle"
          BY <2>4, <4>2 DEF Idle, Call
        <5>2. CASE r = new
          BY <2>5, <3>1, <3>2, <4>1, <5>1, <5>2
        <5>3. CASE r # new
          <6>1. PICK p \in procs : p.spec = specs[r] /\ RidOf(p) \notin Targets
            BY <2>5, <5>3 DEF IInv, CrashFree, Kept, Migrating
          <6> QED
            BY <2>5, <4>1, <5>1, <5>3, <6>1
        <5> QED
          BY <5>2, <5>3
      <4>3. CASE call.outer = "migrate" /\ new.node = call.src.node
        <5>1. call'.op = "kill" /\ call'.rid = new
          BY <2>4, <4>3 DEF Call
        <5>2. \E o \in DOMAIN specs : specs[o] = specs'[r]
          BY <1>1, <2>5, <4>3 DEF IInv, CrashFree, Migrating
        <5>3. PICK p \in procs : p.spec = specs'[r] /\ RidOf(p) \notin Targets /\ RidOf(p) # new
          <6>1. PICK o \in DOMAIN specs : specs[o] = specs'[r]
            BY <5>2
          <6>2. Kept(specs[o])
            BY <6>1 DEF IInv, CrashFree
          <6> QED
            BY <2>2, <6>1, <6>2 DEF Kept
        <5> QED
          BY <4>1, <5>1, <5>3
      <4>4. CASE call.outer = "migrate" /\ new.node # call.src.node
        <5>1. call'.op = "kill" /\ call'.rid = call.src /\ new # call.src
          BY <2>4, <4>4 DEF Call
        <5>2. CASE specs'[r] = call.spec
          BY <3>1, <3>2, <4>1, <5>1, <5>2
        <5>3. CASE specs'[r] # call.spec
          <6>1. r \in DOMAIN specs /\ specs'[r] = specs[r]
            BY <2>5, <5>3
          <6>2. PICK p \in procs : p.spec = specs[r] /\ RidOf(p) \notin Targets
            BY <6>1 DEF IInv, CrashFree, Kept, Migrating
          <6>3. <<RidOf(p), p.spec>> \in ran
            BY DEF IInv, CrashFree, Migrating
          <6>4. <<call.src, call.spec>> \in ran
            BY <1>1, <1>4, <4>4 DEF IInv, CrashFree, Migrating
          <6>5. RidOf(p) # call.src
            BY <5>3, <6>1, <6>2, <6>3, <6>4 DEF IInv, CrashFree, Migrating
          <6> QED
            BY <4>1, <5>1, <6>1, <6>2, <6>5
        <5> QED
          BY <5>2, <5>3
      <4> QED
        BY <4>2, <4>3, <4>4
    <3> QED
      BY <1>1, <2>6, <2>7, <3>3, <3>4 DEF IInv, CrashFree, Migrating
  <2>11. Undisturbed'
    BY Zenon, <1>1, <1>2, <1>5, <2>2, <2>5, <2>7 DEF IInv, Undisturbed
  <2>12. TypeInv'
    <3>1. call' \in Calls
      BY <1>3, <2>3, <2>4, ClusterAssumption
         DEF Call, Calls, Rid, AnyRid, AnyNode, State, Kinds
    <3>2. call'.op = "kill" => call'.rid \in Rid
      <4>1. call.outer = "migrate" => call.src \in Rid
        BY <1>1 DEF IInv, TypeInv, Migrating
      <4> QED
        BY <2>3, <2>4, <4>1 DEF Idle, Call
    <3> QED
      BY <1>1, <2>6, <3>1, <3>2 DEF IInv, TypeInv, Migrating
  <2> QED
    BY <2>7, <2>9, <2>10, <2>11, <2>12 DEF IInv
<1> QED
  BY <1>6, <1>7

(* kill returns: only a confirmed kill forgets the process.                *)
LEMMA FinishKillStep ==
  ASSUME IInv, FinishKill
  PROVE  IInv'
<1>1. /\ call.op = "kill" /\ result # NoRes /\ result' = NoRes /\ call' = Idle
      /\ UNCHANGED <<pending, nextReq, failing, victims, procs, nextPid, msgs, killed,
                     ran, crashes, disturbed>>
  BY DEF FinishKill, workers, ghosts
<1>2. ~Waiting /\ Mail' = Mail /\ Ids' = Ids
  BY <1>1 DEF Waiting, Mail, Ids
<1>3. Idle \in Calls /\ Idle.op = "idle" /\ ~Idle.sent /\ Idle.outer = "user"
  BY IdleCall
<1>4. Accepted = {} /\ Copies = {}
  BY <1>1, <1>2, NobodyAnswers DEF IInv, Copies
<1>5. MailInv' /\ Copies' = {} /\ Gone' = {} /\ Targets' \subseteq Targets
  BY <1>1, <1>2, <1>3, Turn
<1>6. /\ DOMAIN specs' = DOMAIN specs \ Gone
      /\ \A r \in DOMAIN specs' : specs'[r] = specs[r]
      /\ \A r \in DOMAIN ckpt' : r \in DOMAIN ckpt /\ ckpt'[r] = ckpt[r]
  <2>1. CASE result = Err
    <3>1. Gone = {} /\ specs' = specs /\ ckpt' = ckpt
      BY <1>4, <2>1 DEF FinishKill, Gone, Err, Returned
    <3> QED
      BY <3>1
  <2>2. CASE result # Err
    <3>1. result \in Returned
      BY <1>1, <2>2 DEF IInv, TypeInv, Migrating
    <3>2. Gone = {call.rid}
      BY <1>1, <3>1 DEF Gone
    <3> QED
      BY <2>2, <3>2 DEF FinishKill, Restrict
  <2> QED
    BY <2>1, <2>2
<1>7. TypeInv'
  BY <1>1, <1>3, <1>6 DEF IInv, TypeInv, Migrating
<1>8. StartInv'
  BY <1>1, <1>5, <1>6 DEF IInv, StartInv, TrackedWasStarted
<1>9. CrashFree'
  <2>1. \A s : crashes = 0 /\ Kept(s) => Kept(s)'
    BY <1>1, <1>5 DEF Kept, RidOf
  <2>2. ~Migrating'
    BY <1>1, <1>3 DEF Migrating
  <2> QED
    BY <1>1, <1>5, <1>6, <2>1, <2>2 DEF IInv, CrashFree, RidOf
<1>10. Undisturbed'
  BY Zenon, <1>1, <1>2, <1>4, <1>5, <1>6 DEF IInv, Undisturbed
<1> QED
  BY <1>5, <1>7, <1>8, <1>9, <1>10 DEF IInv

(* extract_state returns: the migration goes on to spawn its copy or ends. *)
LEMMA FinishStateStep ==
  ASSUME IInv, FinishState
  PROVE  IInv'
<1>1. /\ call.op \in {"state", "prio"} /\ result # NoRes /\ result' = NoRes
      /\ UNCHANGED <<specs, ckpt, pending, nextReq, failing, victims, procs, nextPid, msgs, killed,
                     ran, crashes, disturbed>>
  BY DEF FinishState, workers, ghosts
<1>2. ~Waiting /\ Mail' = Mail /\ Ids' = Ids
  BY <1>1 DEF Waiting, Mail, Ids
<1>3. Idle \in Calls /\ Idle.op = "idle" /\ ~Idle.sent /\ Idle.outer = "user"
  BY IdleCall
<1>4. Accepted = {} /\ Copies = {} /\ Gone = {}
  BY <1>1, <1>2, NobodyAnswers DEF IInv, Copies, Gone
<1>5. /\ call' \in Calls /\ ~call'.sent /\ call'.op \in {"idle", "spawn"}
      /\ Migrating' => call.op = "state" /\ call'.src = call.src /\ call'.spec = call.spec
  <2>1. CASE result = Err \/ call.op = "prio"
    BY <1>3, <2>1 DEF FinishState, Migrating
  <2>2. CASE ~(result = Err \/ call.op = "prio")
    <3>1. result.state \in State /\ call \in Calls
      BY <1>1, <2>2 DEF IInv, TypeInv, Returned
    <3>2. call' = Call("spawn", NoRid, call.spec, call.target, result.state, "migrate", call.src)
      BY <2>2 DEF FinishState
    <3>3. NoRid \in AnyRid
      BY DEF NoRid, AnyRid, AnyNode
    <3>4. call'.op = "spawn" /\ call'.sent = FALSE /\ call'.src = call.src /\ call'.spec = call.spec
      BY <3>2 DEF Call
    <3>5. call' \in Calls
      BY <3>1, <3>2, <3>3 DEF Call, Calls, Kinds
    <3> QED
      BY <1>1, <2>2, <3>4, <3>5
  <2> QED
    BY <2>1, <2>2
<1>6. MailInv' /\ Copies' = {} /\ Gone' = {} /\ Targets' \subseteq Targets
  BY <1>1, <1>2, <1>5, Turn
<1>7. TypeInv'
  BY <1>1, <1>5 DEF IInv, TypeInv, Migrating
<1>8. StartInv'
  BY <1>1, <1>6 DEF IInv, StartInv, TrackedWasStarted
<1>9. CrashFree'
  BY Zenon, <1>1, <1>5, <1>6 DEF IInv, CrashFree, Kept, RidOf, Migrating
<1>10. Undisturbed'
  BY Zenon, <1>1, <1>2, <1>4, <1>6 DEF IInv, Undisturbed
<1> QED
  BY <1>6, <1>7, <1>8, <1>9, <1>10 DEF IInv

(* A failover gives one process up and asks for it anew.                   *)
LEMMA RespawnStep ==
  ASSUME IInv, NEW v \in victims, Respawn(v)
  PROVE  IInv'
<1> DEFINE st == IF v[1] \in DOMAIN ckpt THEN ckpt[v[1]] ELSE NoState
<1>1. /\ call = Idle /\ result' = NoRes /\ victims' = victims \ {v}
      /\ call' = Call("spawn", NoRid, v[2], 0, st, "failover", v[1])
      /\ UNCHANGED <<pending, nextReq, failing, procs, nextPid, msgs, killed,
                     ran, crashes, disturbed>>
  BY DEF Respawn, workers, ghosts
<1>2. ~Waiting /\ Mail' = Mail /\ Ids' = Ids
  BY <1>1 DEF Waiting, Mail, Ids, Idle, Call
<1>3. v \in Rid \X State /\ st \in State
  BY DEF IInv, TypeInv, State
<1> HIDE DEF st
<1>4. /\ DOMAIN specs' \subseteq DOMAIN specs
      /\ \A r \in DOMAIN specs' : specs'[r] = specs[r]
      /\ \A r \in DOMAIN ckpt' : r \in DOMAIN ckpt /\ ckpt'[r] = ckpt[r]
  BY DEF Respawn, Restrict
<1>5. call' \in Calls /\ ~call'.sent /\ call'.op = "spawn" /\ call'.outer = "failover"
  <2>1. NoRid \in AnyRid /\ v[1] \in AnyRid /\ v[2] \in State
    BY <1>3 DEF NoRid, AnyRid, AnyNode, Rid
  <2> QED
    BY <1>1, <1>3, <2>1 DEF Call, Calls, Kinds, AnyNode
<1>6. MailInv' /\ Copies' = {} /\ Targets' \subseteq Targets
  BY Zenon, <1>1, <1>2, <1>5, Turn
<1>7. TypeInv'
  BY <1>1, <1>4, <1>5 DEF IInv, TypeInv, Migrating
<1>8. StartInv'
  BY <1>1, <1>4, <1>6 DEF IInv, StartInv, TrackedWasStarted
<1>9. CrashFree'
  <2>1. \A s : Kept(s) => Kept(s)'
    BY Zenon, <1>1, <1>2, <1>6 DEF Kept, RidOf, Copies, Idle, Call
  <2>2. ~Migrating'
    BY <1>5 DEF Migrating
  <2> QED
    BY <1>1, <1>4, <1>6, <2>1, <2>2 DEF IInv, CrashFree, RidOf
<1>10. Undisturbed'
  BY <1>1 DEF IInv, Undisturbed
<1> QED
  BY <1>6, <1>7, <1>8, <1>9, <1>10 DEF IInv

-----------------------------------------------------------------------------
(* Answers                                                                 *)
LEMMA CompleteStep ==
  ASSUME IInv, NEW m \in msgs, Complete(m)
  PROVE  IInv'
<1>1. /\ m.type = "Ack" /\ msgs' = msgs \ {m}
      /\ UNCHANGED <<specs, ckpt, call, nextReq, failing, victims, procs, nextPid, killed,
                     ran, crashes, disturbed>>
  BY DEF Complete, workers, ghosts
<1>2. m \in Answers /\ m \in Mail
  BY <1>1, MailShape DEF IInv
<1>3. Mail' = Mail \ {m} /\ Ids' = Ids
  BY <1>1 DEF Mail, Ids
<1>4. Targets' = Targets
  BY <1>1, <1>3 DEF Targets
<1>5. m.id = pending.id => Waiting /\ m.kind = call.op /\ call.op = pending.kind
  BY Zenon, <1>1, <1>2 DEF IInv, MailInv
<1>6. CASE ~Matches(m)
  <2>1. m.id # pending.id /\ UNCHANGED <<result, pending>>
    BY <1>5, <1>6 DEF Matches, Complete
  <2>2. Accepted' = Accepted
    BY <1>3, <2>1 DEF Accepted
  <2>3. Copies' = Copies /\ Gone' = Gone
    BY <1>1, <2>1, <2>2 DEF Copies, Gone
  <2>4. TypeInv'
    BY <1>1, <2>1 DEF IInv, TypeInv, Migrating
  <2>5. MailInv'
    BY <1>1, <1>3, <2>1 DEF IInv, MailInv, Waiting
  <2>6. StartInv'
    BY <1>1, <2>3 DEF IInv, StartInv, TrackedWasStarted
  <2>7. CrashFree'
    BY <1>1, <1>3, <1>4, <2>3 DEF IInv, CrashFree, Kept, RidOf, Migrating
  <2>8. Undisturbed'
    BY <1>1, <1>2, <2>1 DEF IInv, Undisturbed
  <2> QED
    BY <2>4, <2>5, <2>6, <2>7, <2>8 DEF IInv
<1>7. CASE Matches(m)
  <2>1. m.id = pending.id /\ Waiting /\ m.kind = call.op
    BY <1>5, <1>7 DEF Matches
  <2>2. /\ pending' = NoReq
        /\ result' = IF m.ok THEN [st |-> "ok", node |-> pending.node, pid |-> m.pid, state |-> m.state]
                     ELSE Err
    BY <1>7 DEF Complete
  <2>3. Accepted' = {}
    <3>1. \A x \in Mail : x.id > 0
      BY DEF IInv, MailInv
    <3>2. \A x \in Mail : x.id # 0
      BY <3>1
    <3>3. pending'.id = 0
      BY <2>2 DEF NoReq
    <3> QED
      BY <1>3, <3>2, <3>3 DEF Accepted
  <2>4. result \notin Returned /\ call.sent
    BY <2>1 DEF Waiting, NoRes, Returned
  <2>5. m.ok => /\ result' \in Returned /\ result'.node = pending.node /\ result'.pid = m.pid
                /\ m \in Accepted
    BY Zenon, <1>1, <1>2, <2>1, <2>2 DEF IInv, TypeInv, Returned, Answers, Accepted
  <2>6. ~m.ok => result' = Err /\ result' \notin Returned
    BY <2>2 DEF Err, Returned
  <2>7. Copies' \subseteq Copies
    BY <1>1, <2>3, <2>5, <2>6 DEF Copies
  <2>8. TypeInv'
    <3>1. result' \in {NoRes, Err} \cup Returned
      BY <2>5, <2>6
    <3>2. pending' \in [id : Nat, kind : Kinds \cup {"none"}, node : AnyNode]
      BY <2>2 DEF NoReq, AnyNode
    <3> QED
      BY <1>1, <3>1, <3>2 DEF IInv, TypeInv, Migrating
  <2>9. MailInv'
    <3>1. \A x \in Mail : x.id > 0 /\ x.id < nextReq
      BY DEF IInv, MailInv
    <3>2. pending'.id = 0
      BY <2>2 DEF NoReq
    <3>3. m.id \in Nat /\ nextReq \in Nat /\ m.id > 0 /\ m.id < nextReq
      <4>1. m.id \in Nat
        BY <1>2 DEF Answers
      <4>2. nextReq \in Nat
        BY DEF IInv, TypeInv
      <4> QED
        BY <1>2, <3>1, <4>1, <4>2
    <3>4. nextReq > 0
      BY <3>3
    <3>5. \A x \in Mail : x.id # pending'.id
      <4> SUFFICES ASSUME NEW x \in Mail PROVE x.id # 0
        BY <3>2
      <4> QED
        BY <3>1
    <3> QED
      BY <1>1, <1>3, <2>4, <3>1, <3>2, <3>4, <3>5 DEF MailInv
  <2>10. StartInv'
    BY <1>1, <2>7 DEF IInv, StartInv, TrackedWasStarted
  <2>11. CrashFree'
    BY <1>1, <1>3, <1>4, <2>7 DEF IInv, CrashFree, Kept, RidOf, Migrating
  <2>12. Undisturbed'
    <3> SUFFICES ASSUME ~disturbed PROVE Undisturbed'
      BY <1>1 DEF Undisturbed
    <3>1. Mail = {m}
      BY <1>2 DEF IInv, Undisturbed
    <3>2. Accepted = IF m.ok THEN {m} ELSE {}
      BY <1>1, <2>1, <3>1 DEF Accepted
    <3>3. Copies' = Copies /\ Gone' = Gone
      <4>1. CASE m.ok
        <5>1. Accepted = {m} /\ result' \in Returned
          BY <2>5, <3>2, <4>1
        <5>2. Gone' = Gone
          BY <1>1, <5>1 DEF Gone
        <5>3. Copies' = Copies
          BY <1>1, <2>3, <2>4, <2>5, <4>1, <5>1 DEF Copies
        <5> QED
          BY <5>2, <5>3
      <4>2. CASE ~m.ok
        BY <1>1, <2>3, <2>4, <2>6, <3>2, <4>2 DEF Copies, Gone
      <4> QED
        BY <4>1, <4>2
    <3> QED
      BY <1>1, <1>3, <3>1, <3>3 DEF IInv, Undisturbed
  <2> QED
    BY <2>8, <2>9, <2>10, <2>11, <2>12 DEF IInv
<1> QED
  BY <1>6, <1>7

(* A worker's answer takes the place of the request.                       *)
LEMMA Reply ==
  ASSUME IInv, NEW m \in msgs, m.type \in Kinds, NEW a \in Answers,
         a.id = m.id, a.kind = m.type, msgs' = (msgs \ {m}) \cup {a}, UNCHANGED coord
  PROVE  /\ m \in Mail /\ m \in Requests /\ Mail' = (Mail \ {m}) \cup {a}
         /\ MailInv' /\ Targets' \subseteq Targets
         /\ msgs' \in SUBSET (Requests \cup Answers \cup Replicas)
         /\ Accepted' = Accepted \cup (IF a.ok /\ a.id = pending.id THEN {a} ELSE {})
         /\ ~disturbed => Mail = {m} /\ Accepted = {} /\ Gone = {} /\ Copies = {}
                          /\ m.id = pending.id
<1>1. UNCHANGED <<call, pending, result, nextReq>>
  BY DEF coord
<1>2. m \in Mail /\ m \in Requests /\ m.type # "Ack"
  BY MailShape DEF IInv, Kinds
<1>3. a.type = "Ack"
  BY DEF Answers
<1>4. Mail' = (Mail \ {m}) \cup {a}
  BY <1>3 DEF Mail
<1>5. MailInv'
  BY <1>1, <1>2, <1>3, <1>4 DEF IInv, MailInv, Waiting
<1>6. Targets' \subseteq Targets
  BY <1>1, <1>3, <1>4 DEF Targets
<1>7. Accepted' = Accepted \cup (IF a.ok /\ a.id = pending.id THEN {a} ELSE {})
  BY <1>1, <1>2, <1>3, <1>4 DEF Accepted
<1>8. msgs' \in SUBSET (Requests \cup Answers \cup Replicas)
  BY Zenon DEF IInv, TypeInv
<1>9. ~disturbed => Mail = {m} /\ Accepted = {} /\ Gone = {} /\ Copies = {} /\ m.id = pending.id
  <2> SUFFICES ASSUME ~disturbed
               PROVE  Mail = {m} /\ Accepted = {} /\ Gone = {} /\ Copies = {} /\ m.id = pending.id
    OBVIOUS
  <2>1. Mail = {m} /\ m.id = pending.id
    BY <1>2 DEF IInv, Undisturbed
  <2>2. Accepted = {}
    BY <1>2, <2>1 DEF Accepted
  <2>3. result \notin Returned
    <3>1. Waiting
      BY <1>2, <2>1 DEF IInv, MailInv
    <3> QED
      BY <3>1 DEF Waiting, NoRes, Returned
  <2> QED
    BY <2>1, <2>2, <2>3 DEF Gone, Copies
<1> QED
  BY <1>2, <1>4, <1>5, <1>6, <1>7, <1>8, <1>9

(* A worker that starts nothing and kills nothing: a refused spawn, a      *)
(* failed restore, a state or a priority.                                  *)
LEMMA QuietReply ==
  ASSUME IInv, NEW m \in msgs, m.type \in Kinds, NEW a \in Answers,
         a.id = m.id, a.kind = m.type, msgs' = (msgs \ {m}) \cup {a},
         m.type \in {"spawn", "kill"} => ~a.ok,
         nextPid' \in [Worker -> Nat], \A n \in Worker : nextPid[n] <= nextPid'[n],
         UNCHANGED <<coord, procs, ghosts>>
  PROVE  IInv'
<1>1. UNCHANGED <<specs, ckpt, pending, result, call, nextReq, failing, victims, procs, killed,
                  ran, crashes, disturbed>>
  BY DEF coord, ghosts
<1>2. /\ m \in Mail /\ m \in Requests /\ Mail' = (Mail \ {m}) \cup {a}
      /\ MailInv' /\ Targets' \subseteq Targets
      /\ msgs' \in SUBSET (Requests \cup Answers \cup Replicas)
      /\ Accepted' = Accepted \cup (IF a.ok /\ a.id = pending.id THEN {a} ELSE {})
      /\ ~disturbed => Mail = {m} /\ Accepted = {} /\ Gone = {} /\ Copies = {}
                       /\ m.id = pending.id
  BY Reply
<1>3. m.id = pending.id => call.op = m.type
  BY <1>2 DEF IInv, MailInv, Kinds
<1>4. call.op \in {"spawn", "kill"} => Accepted' = Accepted
  BY Zenon, <1>2, <1>3
<1>5. Copies' = Copies /\ Gone' = Gone /\ Ids' = Ids
  BY Zenon, <1>1, <1>4 DEF Copies, Gone, Ids
<1>6. TypeInv'
  BY Zenon, <1>1, <1>2 DEF IInv, TypeInv, Migrating
<1>7. StartInv'
  BY <1>1, <1>5 DEF IInv, StartInv, TrackedWasStarted
<1>8. CrashFree'
  <2> SUFFICES ASSUME crashes = 0 PROVE CrashFree'
    BY Zenon, <1>1 DEF CrashFree
  <2>1. \A n \in Worker : nextPid[n] \in Nat /\ nextPid'[n] \in Nat
    BY DEF IInv, TypeInv
  <2>2. \A e \in ran : e[1].pid \in Nat /\ e[1].node \in Worker
    BY DEF IInv, TypeInv, Rid
  <2>3. \A e \in ran : e[1].pid < nextPid'[e[1].node]
    <3> SUFFICES ASSUME NEW e \in ran PROVE e[1].pid < nextPid'[e[1].node]
      OBVIOUS
    <3>1. e[1].pid \in Nat /\ e[1].node \in Worker
      BY <2>2
    <3>2. e[1].pid < nextPid[e[1].node]
      BY DEF IInv, CrashFree
    <3>3. /\ nextPid[e[1].node] \in Nat /\ nextPid'[e[1].node] \in Nat
          /\ nextPid[e[1].node] <= nextPid'[e[1].node]
      BY <2>1, <3>1
    <3> QED
      BY <3>1, <3>2, <3>3, LessTrans
  <2>4. \A r \in Targets : r.pid \in Nat /\ r.node \in Worker
    BY TargetShape DEF IInv, Rid
  <2>5. \A r \in Targets' : r.pid < nextPid'[r.node]
    <3> SUFFICES ASSUME NEW r \in Targets PROVE r.pid < nextPid'[r.node]
      BY Zenon, <1>2
    <3>1. r.pid \in Nat /\ r.node \in Worker
      BY <2>4
    <3>2. r.pid < nextPid[r.node]
      BY DEF IInv, CrashFree
    <3>3. /\ nextPid[r.node] \in Nat /\ nextPid'[r.node] \in Nat
          /\ nextPid[r.node] <= nextPid'[r.node]
      BY <2>1, <3>1
    <3> QED
      BY <3>1, <3>2, <3>3, LessTrans
  <2> QED
    BY Zenon, <1>1, <1>2, <1>5, <2>3, <2>5 DEF IInv, CrashFree, Kept, RidOf, Migrating
<1>9. Undisturbed'
  BY Zenon, <1>1, <1>2, <1>5 DEF IInv, Undisturbed
<1> QED
  BY Zenon, <1>2, <1>6, <1>7, <1>8, <1>9 DEF IInv

(* A worker answers a request for a state or a priority.                   *)
LEMMA HandleStateStep ==
  ASSUME IInv, NEW m \in msgs, HandleState(m)
  PROVE  IInv'
<1>1. m.type \in Kinds /\ m \in Requests
  BY MailShape DEF HandleState, Kinds, IInv
<1>2. PICK a \in Answers : a.id = m.id /\ a.kind = m.type /\ msgs' = (msgs \ {m}) \cup {a}
  <2>1. NoState \in State /\ \A p \in procs : p.spec \in State
    BY DEF State, IInv, TypeInv
  <2>2. ASSUME NEW ok \in BOOLEAN, NEW st \in State
        PROVE  /\ Ack(m, ok, 0, st) \in Answers /\ Ack(m, ok, 0, st).id = m.id
               /\ Ack(m, ok, 0, st).kind = m.type
    BY <1>1 DEF Ack, Answers, Requests
  <2>3. CASE At(m.to, m.pid) = {}
    BY Zenon, <2>1, <2>2, <2>3 DEF HandleState
  <2>4. CASE At(m.to, m.pid) # {}
    <3>1. (CHOOSE p \in At(m.to, m.pid) : TRUE) \in At(m.to, m.pid)
      BY <2>4
    <3>2. (CHOOSE p \in At(m.to, m.pid) : TRUE).spec \in State
      BY <2>1, <3>1 DEF At
    <3> QED
      BY Zenon, <2>2, <2>4, <3>2 DEF HandleState
  <2> QED
    BY <2>3, <2>4
<1>3. nextPid' = nextPid /\ UNCHANGED <<coord, procs, ghosts>> /\ m.type \notin {"spawn", "kill"}
  BY Zenon DEF HandleState, workers
<1>4. nextPid \in [Worker -> Nat]
  BY DEF IInv, TypeInv
<1> QED
  BY <1>1, <1>2, <1>3, <1>4, QuietReply

(* A worker kills a process, or answers that it has none with that pid.    *)
LEMMA HandleKillStep ==
  ASSUME IInv, NEW m \in msgs, HandleKill(m)
  PROVE  IInv'
<1> DEFINE a == Ack(m, At(m.to, m.pid) # {}, 0, NoState)
           r == [node |-> m.to, pid |-> m.pid]
<1>1. /\ m.type = "kill" /\ msgs' = (msgs \ {m}) \cup {a}
      /\ procs' = {p \in procs : RidOf(p) # r}
      /\ UNCHANGED <<coord, nextPid, ghosts>>
  BY Zenon DEF HandleKill, At, RidOf
<1>2. UNCHANGED <<specs, ckpt, pending, result, call, nextReq, failing, victims, killed,
                  ran, crashes, disturbed>>
  BY <1>1 DEF coord, ghosts
<1>3. m \in Requests /\ m \in Mail
  BY <1>1, MailShape DEF IInv, Kinds
<1>4. a \in Answers /\ a.id = m.id /\ a.kind = m.type /\ (a.ok <=> At(m.to, m.pid) # {})
  BY Zenon, <1>3 DEF Ack, Answers, Requests, State
<1> HIDE DEF a
<1>5. /\ Mail' = (Mail \ {m}) \cup {a}
      /\ MailInv' /\ Targets' \subseteq Targets
      /\ msgs' \in SUBSET (Requests \cup Answers \cup Replicas)
      /\ Accepted' = Accepted \cup (IF a.ok /\ a.id = pending.id THEN {a} ELSE {})
      /\ ~disturbed => Mail = {m} /\ Accepted = {} /\ Gone = {} /\ Copies = {}
                       /\ m.id = pending.id
  BY Zenon, <1>1, <1>4, Reply DEF Kinds
<1>6. m.id = pending.id => call.op = "kill" /\ m.to = call.rid.node /\ m.pid = call.rid.pid
  BY Zenon, <1>1, <1>3 DEF IInv, MailInv
<1>7. Copies' = Copies
  BY Zenon, <1>2, <1>4, <1>5, <1>6 DEF Copies
<1>8. r \in Targets
  BY <1>1, <1>3 DEF Targets
<1>9. Ids' = Ids \ {r}
  BY Zenon, <1>1 DEF Ids, RidOf
<1>10. TypeInv'
  BY Zenon, <1>1, <1>2, <1>5 DEF IInv, TypeInv, Migrating
<1>11. StartInv'
  BY <1>2, <1>7 DEF IInv, StartInv, TrackedWasStarted
<1> HIDE DEF r
<1>12. CrashFree'
  <2> SUFFICES ASSUME crashes = 0 PROVE CrashFree'
    BY Zenon, <1>2 DEF CrashFree
  <2>1. \A s : Kept(s) => Kept(s)'
    BY Zenon, <1>1, <1>5, <1>7, <1>8 DEF Kept, RidOf
  <2>2. Copies' \cap Targets' = {} /\ Copies' \subseteq Ids'
    BY Zenon, <1>5, <1>7, <1>8, <1>9 DEF IInv, CrashFree
  <2>3. \A p \in procs' : <<RidOf(p), p.spec>> \in ran
    BY <1>1 DEF IInv, CrashFree
  <2> QED
    BY Zenon, <1>1, <1>2, <1>5, <2>1, <2>2, <2>3 DEF IInv, CrashFree, Migrating, RidOf
<1>13. Undisturbed'
  <2> SUFFICES ASSUME ~disturbed PROVE Undisturbed'
    BY Zenon, <1>2 DEF Undisturbed
  <2>1. Mail' = {a} /\ a.id = pending.id /\ call.op = "kill" /\ Gone = {} /\ Copies = {}
    BY Zenon, <1>4, <1>5, <1>6
  <2>2. r = call.rid
    <3>1. call.rid \in AnyRid
      BY DEF IInv, TypeInv, Calls
    <3> QED
      BY <1>5, <1>6, <3>1 DEF r, AnyRid
  <2>3. CASE At(m.to, m.pid) # {}
    <3>1. Gone' = {r}
      BY <1>2, <1>4, <1>5, <2>1, <2>2, <2>3 DEF Gone
    <3> QED
      BY <1>2, <1>7, <1>9, <2>1, <3>1 DEF IInv, Undisturbed
  <2>4. CASE At(m.to, m.pid) = {}
    <3>1. Accepted' = {} /\ result \notin Returned
      <4>1. ~a.ok /\ Accepted = {} /\ m.id = pending.id
        BY <1>4, <1>5, <2>4
      <4>2. result = NoRes
        BY <1>3, <4>1 DEF IInv, MailInv, Waiting
      <4> QED
        BY <1>5, <4>1, <4>2 DEF NoRes, Returned
    <3>2. Gone' = {}
      BY <1>2, <3>1 DEF Gone
    <3>3. r \notin Ids
      <4>1. \A p \in procs : ~(p.node = m.to /\ p.pid = m.pid)
        BY <2>4 DEF At
      <4>2. \A p \in procs : RidOf(p).node = p.node /\ RidOf(p).pid = p.pid
        BY DEF RidOf
      <4>3. r.node = m.to /\ r.pid = m.pid
        BY DEF r
      <4> QED
        BY <4>1, <4>2, <4>3 DEF Ids
    <3> QED
      BY Zenon, <1>2, <1>7, <1>9, <2>1, <3>2, <3>3 DEF IInv, Undisturbed
  <2> QED
    BY <2>3, <2>4
<1> QED
  BY <1>5, <1>10, <1>11, <1>12, <1>13 DEF IInv

(* A worker starts a process under a pid that it never gave before.        *)
LEMMA HandleSpawnStep ==
  ASSUME IInv, NEW m \in msgs, HandleSpawn(m)
  PROVE  IInv'
<1> DEFINE r   == [node |-> m.to, pid |-> nextPid[m.to]]
           new == [node |-> m.to, pid |-> nextPid[m.to], spec |-> m.spec]
           a   == Ack(m, TRUE, nextPid[m.to], NoState)
<1>1. m.type = "spawn" /\ m \in Requests /\ m \in Mail /\ m.type \in Kinds
  BY Zenon, MailShape DEF HandleSpawn, Kinds, IInv
<1>2. nextPid \in [Worker -> Nat] /\ m.to \in Worker /\ nextPid[m.to] \in Nat
  BY Zenon, <1>1 DEF IInv, TypeInv, Requests
<1>3. UNCHANGED <<coord, asked, killed, crashes, ticks, disturbed>>
  BY DEF HandleSpawn
<1>4. CASE /\ msgs' = (msgs \ {m}) \cup {Ack(m, FALSE, 0, NoState)}
           /\ procs' = procs /\ ran' = ran
           /\ nextPid' = nextPid \/ nextPid' = [nextPid EXCEPT ![m.to] = @ + 1]
  <2>1. /\ Ack(m, FALSE, 0, NoState) \in Answers /\ Ack(m, FALSE, 0, NoState).id = m.id
        /\ Ack(m, FALSE, 0, NoState).kind = m.type /\ ~Ack(m, FALSE, 0, NoState).ok
    BY <1>1 DEF Ack, Answers, Requests, State
  <2>2. nextPid' \in [Worker -> Nat] /\ \A n \in Worker : nextPid[n] <= nextPid'[n]
    BY <1>2, <1>4
  <2>3. UNCHANGED <<coord, procs, ghosts>>
    BY <1>3, <1>4 DEF ghosts
  <2> QED
    BY Zenon, <1>1, <1>4, <2>1, <2>2, <2>3, QuietReply
<1>5. CASE /\ msgs' = (msgs \ {m}) \cup {a} /\ procs' = procs \cup {new}
           /\ nextPid' = [nextPid EXCEPT ![m.to] = @ + 1] /\ ran' = ran \cup {<<r, m.spec>>}
  <2>1. UNCHANGED <<specs, ckpt, pending, result, call, nextReq, failing, victims, killed,
                    crashes, disturbed>>
    BY <1>3 DEF coord
  <2>2. /\ a \in Answers /\ a.id = m.id /\ a.kind = m.type /\ a.ok /\ a.pid = nextPid[m.to]
    BY <1>1, <1>2 DEF Ack, Answers, Requests, State
  <2>3. RidOf(new) = r /\ new.spec = m.spec /\ r \in Rid /\ r.node = m.to /\ r.pid = nextPid[m.to]
        /\ m.spec \in State
    BY <1>1, <1>2 DEF RidOf, Rid, Requests
  <2>4. new \in [node : Worker, pid : Nat, spec : State]
    BY <1>2, <2>3
  <2> HIDE DEF a
  <2>5. /\ Mail' = (Mail \ {m}) \cup {a}
        /\ MailInv' /\ Targets' \subseteq Targets
        /\ msgs' \in SUBSET (Requests \cup Answers \cup Replicas)
        /\ Accepted' = Accepted \cup (IF a.ok /\ a.id = pending.id THEN {a} ELSE {})
        /\ ~disturbed => Mail = {m} /\ Accepted = {} /\ Gone = {} /\ Copies = {}
                         /\ m.id = pending.id
    BY Zenon, <1>1, <1>3, <1>5, <2>2, Reply
  <2>6. m.id = pending.id => call.op = "spawn" /\ m.to = pending.node /\ m.spec = call.spec
    BY Zenon, <1>1 DEF IInv, MailInv
  <2>7. Copies' = Copies \cup (IF m.id = pending.id THEN {r} ELSE {})
    <3>1. CASE m.id = pending.id
      <4>1. Accepted' = Accepted \cup {a} /\ [node |-> pending.node, pid |-> a.pid] = r
        BY <2>2, <2>5, <2>6, <3>1
      <4> HIDE DEF r
      <4> QED
        BY <2>1, <2>6, <3>1, <4>1 DEF Copies
    <3>2. CASE m.id # pending.id
      BY <2>1, <2>2, <2>5, <3>2 DEF Copies
    <3> QED
      BY <3>1, <3>2
  <2> HIDE DEF r, new
  <2>8. Ids' = Ids \cup {r}
    BY <1>5, <2>3 DEF Ids, RidOf
  <2>9. TypeInv'
    <3>1. nextPid' \in [Worker -> Nat]
      BY <1>2, <1>5
    <3>2. ran' \in SUBSET (Rid \X State)
      <4>1. <<r, m.spec>> \in Rid \X State
        BY <2>3
      <4> QED
        BY <1>5, <4>1 DEF IInv, TypeInv
    <3>3. procs' \in SUBSET [node : Worker, pid : Nat, spec : State]
      BY <1>5, <2>4 DEF IInv, TypeInv
    <3> QED
      BY Zenon, <2>1, <2>5, <3>1, <3>2, <3>3 DEF IInv, TypeInv, Migrating
  <2>10. StartInv'
    BY Zenon, <1>5, <2>1, <2>6, <2>7 DEF IInv, StartInv, TrackedWasStarted
  <2>11. CrashFree'
    <3> SUFFICES ASSUME crashes = 0 PROVE CrashFree'
      BY Zenon, <2>1 DEF CrashFree
    <3>1. \A e \in ran : /\ e[1].pid \in Nat /\ e[1].node \in Worker
                         /\ e[1].pid < nextPid[e[1].node] /\ e[1] # r
      <4> SUFFICES ASSUME NEW e \in ran
                   PROVE  /\ e[1].pid \in Nat /\ e[1].node \in Worker
                          /\ e[1].pid < nextPid[e[1].node] /\ e[1] # r
        OBVIOUS
      <4>1. e[1].pid \in Nat /\ e[1].node \in Worker
        BY DEF IInv, TypeInv, Rid
      <4>2. e[1].pid < nextPid[e[1].node]
        BY DEF IInv, CrashFree
      <4>3. nextPid[r.node] = r.pid /\ r.pid \in Nat
        BY <1>2, <2>3
      <4> QED
        BY <4>1, <4>2, <4>3, LessNext
    <3>2. \A n \in Worker : nextPid[n] \in Nat /\ nextPid[n] <= nextPid'[n] /\ nextPid'[n] \in Nat
      BY <1>2, <1>5
    <3>3. r.pid < nextPid'[r.node]
      <4>1. nextPid'[m.to] = nextPid[m.to] + 1
        BY <1>2, <1>5
      <4>2. nextPid[m.to] < nextPid'[m.to]
        BY <1>2, <4>1, LessNext
      <4> QED
        BY <2>3, <4>2
    <3>4. \A e \in ran' : e[1].pid < nextPid'[e[1].node]
      <4>1. ASSUME NEW e \in ran PROVE e[1].pid < nextPid'[e[1].node]
        <5>1. e[1].pid \in Nat /\ e[1].node \in Worker /\ e[1].pid < nextPid[e[1].node]
          BY <3>1
        <5>2. /\ nextPid[e[1].node] \in Nat /\ nextPid'[e[1].node] \in Nat
              /\ nextPid[e[1].node] <= nextPid'[e[1].node]
          BY <3>2, <5>1
        <5> QED
          BY <5>1, <5>2, LessTrans
      <4>2. ASSUME NEW e \in ran', e \notin ran PROVE e[1] = r
        BY <1>5, <4>2
      <4> QED
        BY <3>3, <4>1, <4>2
    <3>5. \A e, f \in ran' : e[1] = f[1] => e[2] = f[2]
      <4> SUFFICES ASSUME NEW e \in ran', NEW f \in ran', e[1] = f[1] PROVE e[2] = f[2]
        OBVIOUS
      <4>1. \A x \in ran' : x \in ran \/ (x = <<r, m.spec>> /\ x[1] = r)
        BY <1>5
      <4>2. CASE e \in ran /\ f \in ran
        BY <4>2 DEF IInv, CrashFree
      <4>3. CASE e = <<r, m.spec>> /\ f = <<r, m.spec>>
        BY <4>3
      <4> QED
        BY <3>1, <4>1, <4>2, <4>3
    <3>6. \A p \in procs' : <<RidOf(p), p.spec>> \in ran'
      BY Zenon, <1>5, <2>3 DEF IInv, CrashFree
    <3>7. \A t \in Targets : t.pid \in Nat /\ t.node \in Worker
      BY TargetShape DEF IInv, Rid
    <3>8. r \notin Targets /\ \A t \in Targets' : t.pid < nextPid'[t.node]
      <4>1. \A t \in Targets : t.pid < nextPid[t.node]
        BY Zenon DEF IInv, CrashFree
      <4>2. r.node \in Worker /\ r.pid \in Nat /\ nextPid[r.node] = r.pid
        BY <1>2, <2>3
      <4>3. r \notin Targets
        BY <4>1, <4>2, LessNext
      <4>4. ASSUME NEW t \in Targets PROVE t.pid < nextPid'[t.node]
        <5>1. t.pid \in Nat /\ t.node \in Worker /\ t.pid < nextPid[t.node]
          BY <3>7, <4>1
        <5>2. nextPid[t.node] \in Nat /\ nextPid'[t.node] \in Nat /\ nextPid[t.node] <= nextPid'[t.node]
          BY <3>2, <5>1
        <5> QED
          BY <5>1, <5>2, LessTrans
      <4> QED
        BY <2>5, <4>3, <4>4
    <3>9. Copies' \cap Targets' = {} /\ Copies' \subseteq Ids'
      BY <2>5, <2>7, <2>8, <3>8 DEF IInv, CrashFree
    <3>10. \A s : Kept(s) => Kept(s)'
      <4> SUFFICES ASSUME NEW s, NEW p \in procs, p.spec = s, RidOf(p) \notin Targets \cup Copies
                   PROVE  Kept(s)'
        BY DEF Kept
      <4>1. RidOf(p) # r
        BY Zenon, <3>1 DEF IInv, CrashFree
      <4> QED
        BY Zenon, <1>5, <2>5, <2>7, <4>1 DEF Kept, RidOf
    <3> QED
      BY Zenon, <2>1, <3>4, <3>5, <3>6, <3>8, <3>9, <3>10 DEF IInv, CrashFree, Migrating, RidOf
  <2>12. Undisturbed'
    <3> SUFFICES ASSUME ~disturbed PROVE Undisturbed'
      BY <2>1 DEF Undisturbed
    <3>1. /\ Mail' = {a} /\ a.id = pending.id /\ Copies' = {r} /\ Gone = {} /\ Copies = {}
          /\ call.op = "spawn"
      BY <2>2, <2>5, <2>6, <2>7
    <3>2. Gone' = {}
      BY <2>1, <3>1 DEF Gone
    <3> QED
      BY Zenon, <2>1, <2>8, <3>1, <3>2 DEF IInv, Undisturbed
  <2> QED
    BY <2>5, <2>9, <2>10, <2>11, <2>12 DEF IInv
<1> QED
  BY Zenon, <1>4, <1>5 DEF HandleSpawn

-----------------------------------------------------------------------------
(* After a crash only what was started and what is tracked still matters.  *)
LEMMA CrashStep ==
  ASSUME IInv, NEW n \in Worker, Crash(n)
  PROVE  IInv'
<1>1. /\ procs' = {p \in procs : p.node # n} /\ nextPid' = [nextPid EXCEPT ![n] = 1]
      /\ msgs' \subseteq msgs /\ crashes' = crashes + 1 /\ disturbed'
      /\ UNCHANGED <<specs, ckpt, pending, result, call, nextReq, victims, ran>>
  BY Zenon DEF Crash, coord
<1>2. Mail' \subseteq Mail
  BY <1>1 DEF Mail
<1>3. Copies' \subseteq Copies
  BY Zenon, <1>1, <1>2 DEF Copies, Accepted
<1>4. TypeInv'
  <2>1. nextPid' \in [Worker -> Nat]
    BY Zenon, <1>1 DEF IInv, TypeInv
  <2>2. crashes \in Nat
    BY DEF IInv, TypeInv
  <2>3. crashes' \in Nat
    BY <1>1, <2>2
  <2> QED
    BY Zenon, <1>1, <2>1, <2>3 DEF IInv, TypeInv, Migrating
<1>5. MailInv'
  BY <1>1, <1>2 DEF IInv, MailInv, Waiting
<1>6. StartInv'
  BY <1>1, <1>3 DEF IInv, StartInv, TrackedWasStarted
<1>7. CrashFree'
  <2>1. crashes \in Nat
    BY DEF IInv, TypeInv
  <2>2. crashes' # 0
    BY <1>1, <2>1
  <2> QED
    BY <2>2 DEF CrashFree
<1>8. Undisturbed'
  BY <1>1 DEF Undisturbed
<1> QED
  BY <1>4, <1>5, <1>6, <1>7, <1>8 DEF IInv

(* A heartbeat tick marks silent nodes as failed.                          *)
LEMMA TickStep ==
  ASSUME IInv, NEW silent, NEW expired, Tick(silent, expired)
  PROVE  IInv'
<1>1. /\ failing' = silent /\ victims = {} /\ disturbed' = (disturbed \/ silent # {})
      /\ UNCHANGED <<specs, pending, result, call, nextReq, victims, procs, nextPid, msgs,
                     killed, ran, crashes>>
  BY DEF Tick, Free, workers
<1>2. \A r \in DOMAIN ckpt' : r \in DOMAIN ckpt /\ ckpt'[r] = ckpt[r]
  BY DEF Tick, Restrict
<1>3. TypeInv'
  BY <1>1, <1>2 DEF IInv, TypeInv, Migrating
<1>4. Mail' = Mail
  BY <1>1 DEF Mail
<1> QED
  BY Zenon, <1>1, <1>3, <1>4, Frame

(* The failover takes the tracked processes of one failed node as its      *)
(* victims.                                                                *)
LEMMA FailoverNodeStep ==
  ASSUME IInv, NEW n \in Worker, FailoverNode(n)
  PROVE  IInv'
<1>1. /\ n \in failing /\ victims' = {<<r, specs[r]>> : r \in {q \in DOMAIN specs : q.node = n}}
      /\ UNCHANGED <<specs, ckpt, pending, result, call, nextReq, procs, nextPid, msgs,
                     killed, ran, crashes, disturbed>>
  BY DEF FailoverNode, workers, ghosts
<1>2. \A r \in DOMAIN specs : <<r, specs[r]>> \in Rid \X State
  BY DEF IInv, StartInv, TrackedWasStarted, TypeInv
<1>3. victims' \in SUBSET (Rid \X State)
  BY <1>1, <1>2
<1>4. TypeInv'
  BY Zenon, <1>1, <1>3 DEF IInv, TypeInv, Migrating
<1>5. Mail' = Mail /\ disturbed
  BY <1>1 DEF Mail, IInv, Undisturbed
<1> QED
  BY <1>1, <1>4, <1>5, Frame

(* Checkpoints and their loss, heartbeats, and lost or late messages       *)
(* change nothing that the invariant speaks of except the mail.            *)
LEMMA PlainStep ==
  ASSUME IInv,
         \/ \E n \in Worker : Hello(n) \/ Metrics(n) \/ Restart(n)
         \/ \E p \in procs : Replicate(p)
         \/ \E m \in msgs : Checkpoint(m)
  PROVE  IInv'
<1>1. UNCHANGED <<specs, pending, result, call, nextReq, failing, victims, procs, nextPid,
                  killed, ran, crashes, disturbed>>
  BY Zenon DEF Hello, Metrics, Restart, Replicate, Checkpoint, coord, workers, ghosts
<1>2. TypeInv' /\ Mail' = Mail
  <2>1. CASE \E n \in Worker : Hello(n) \/ Metrics(n) \/ Restart(n)
    <3>1. ckpt' = ckpt /\ msgs' = msgs
      BY <2>1 DEF Hello, Metrics, Restart, coord
    <3> QED
      BY Zenon, <1>1, <3>1 DEF IInv, TypeInv, Migrating, Mail
  <2>2. CASE \E p \in procs : Replicate(p)
    <3>1. PICK p \in procs : Replicate(p)
      BY <2>2
    <3> DEFINE c == [type |-> "Checkpoint", rid |-> [node |-> p.node, pid |-> p.pid], state |-> p.spec]
    <3>2. c \in Replicas /\ c.type = "Checkpoint"
      BY Zenon DEF IInv, TypeInv, Replicas, Rid
    <3>3. msgs' = msgs \cup {c} /\ ckpt' = ckpt
      BY Zenon, <3>1 DEF Replicate, coord
    <3> HIDE DEF c
    <3>4. Mail' = Mail
      BY <3>2, <3>3 DEF Mail
    <3>5. msgs' \in SUBSET (Requests \cup Answers \cup Replicas)
      BY Zenon, <3>2, <3>3 DEF IInv, TypeInv
    <3> QED
      BY Zenon, <1>1, <3>3, <3>4, <3>5 DEF IInv, TypeInv, Migrating
  <2>3. CASE \E m \in msgs : Checkpoint(m)
    <3>1. PICK m \in msgs : Checkpoint(m)
      BY <2>3
    <3>2. /\ m.type = "Checkpoint" /\ msgs' = msgs \ {m}
          /\ ckpt' = [r \in DOMAIN ckpt \cup {m.rid} |-> IF r = m.rid THEN m.state ELSE ckpt[r]]
      BY Zenon, <3>1 DEF Checkpoint
    <3>3. m.state \in State
      <4>1. m \notin Requests /\ m \notin Answers
        BY <3>2 DEF Requests, Answers, Kinds
      <4> QED
        BY Zenon, <4>1 DEF IInv, TypeInv, Replicas
    <3>4. \A r \in DOMAIN ckpt' : ckpt'[r] \in State
      BY <3>2, <3>3 DEF IInv, TypeInv
    <3>5. Mail' = Mail
      BY <3>2 DEF Mail
    <3>6. msgs' \in SUBSET (Requests \cup Answers \cup Replicas)
      BY Zenon, <3>2 DEF IInv, TypeInv
    <3> QED
      BY Zenon, <1>1, <3>4, <3>5, <3>6 DEF IInv, TypeInv, Migrating
  <2> QED
    BY <2>1, <2>2, <2>3
<1>3. ~disturbed' => ~disturbed /\ failing' = {} /\ victims' = {}
  BY <1>1 DEF IInv, Undisturbed
<1> QED
  BY <1>1, <1>2, <1>3, Frame

(* The user's calls                                                        *)
LEMMA UserStep ==
  ASSUME IInv,
         \/ \E s \in Specs, t \in {0} \cup Worker : Spawn(s, t)
         \/ \E r \in DOMAIN specs : Kill(r) \/ SetPriority(r)
         \/ \E r \in DOMAIN specs, t \in {0} \cup Worker : Migrate(r, t)
  PROVE  IInv'
<1>1. \A r \in DOMAIN specs : r \in Rid /\ r \in AnyRid /\ specs[r] \in State
  <2>1. \A r \in DOMAIN specs : r \in Rid /\ specs[r] \in State
    BY Zenon DEF IInv, StartInv, TrackedWasStarted, TypeInv
  <2> QED
    BY <2>1 DEF Rid, AnyRid, AnyNode
<1>2. NoRid \in AnyRid /\ NoState \in State /\ \A s \in Specs : s \in State
  BY DEF NoRid, AnyRid, AnyNode, State
<1>3. 0 \in AnyNode /\ {"spawn", "kill", "state", "prio"} \subseteq Kinds
      /\ \A t \in {0} \cup Worker : t \in AnyNode
  BY DEF AnyNode, Kinds
<1>4. ASSUME NEW s \in Specs, NEW t \in {0} \cup Worker, Spawn(s, t) PROVE IInv'
  <2> DEFINE c == Call("spawn", NoRid, s, t, NoState, "user", NoRid)
  <2>1. Enter(c) /\ UNCHANGED <<killed, ran, crashes, disturbed>>
    BY <1>4 DEF Spawn
  <2>2. c \in Calls /\ ~c.sent /\ c.op = "spawn" /\ c.outer = "user"
    BY <1>2, <1>3 DEF Call, Calls
  <2> HIDE DEF c
  <2> QED
    BY Zenon, <2>1, <2>2, EnterStep
<1>5. ASSUME NEW r \in DOMAIN specs, Kill(r) PROVE IInv'
  <2> DEFINE c == Call("kill", r, NoState, 0, NoState, "user", NoRid)
  <2>1. Enter(c) /\ killed' = killed \cup {specs[r]} /\ UNCHANGED <<ran, crashes, disturbed>>
    BY <1>5 DEF Kill
  <2>2. c \in Calls /\ ~c.sent /\ c.op = "kill" /\ c.rid = r
    BY <1>1, <1>2, <1>3 DEF Call, Calls
  <2> HIDE DEF c
  <2> QED
    BY <2>1, <2>2, EnterStep
<1>6. ASSUME NEW r \in DOMAIN specs, SetPriority(r) PROVE IInv'
  <2> DEFINE c == Call("prio", r, NoState, 0, NoState, "user", NoRid)
  <2>1. Enter(c) /\ UNCHANGED <<killed, ran, crashes, disturbed>>
    BY <1>6 DEF SetPriority, ghosts
  <2>2. c \in Calls /\ ~c.sent /\ c.op = "prio" /\ c.rid = r
    BY <1>1, <1>2, <1>3 DEF Call, Calls
  <2> HIDE DEF c
  <2> QED
    BY Zenon, <2>1, <2>2, EnterStep
<1>7. ASSUME NEW r \in DOMAIN specs, NEW t \in {0} \cup Worker, Migrate(r, t) PROVE IInv'
  <2> DEFINE c == Call("state", r, specs[r], t, NoState, "migrate", r)
  <2>1. Enter(c) /\ UNCHANGED <<killed, ran, crashes, disturbed>>
    BY Zenon, <1>7 DEF Migrate, ghosts
  <2>2. c \in Calls /\ ~c.sent /\ c.op = "state" /\ c.rid = r /\ c.src = r /\ c.spec = specs[r]
    <3>1. r \in AnyRid /\ specs[r] \in State /\ t \in AnyNode
      BY <1>1, <1>3
    <3> QED
      BY <1>2, <1>3, <3>1 DEF Call, Calls
  <2> HIDE DEF c
  <2> QED
    BY <2>1, <2>2, EnterStep
<1> QED
  BY <1>4, <1>5, <1>6, <1>7

-----------------------------------------------------------------------------
(* Every step preserves the invariant.                                     *)
LEMMA NextIInv == IInv /\ [Next]_vars => IInv'
<1> SUFFICES ASSUME IInv, [Next]_vars PROVE IInv'
  OBVIOUS
<1>1. CASE UNCHANGED vars
  <2>1. /\ UNCHANGED <<specs, ckpt, pending, result, call, nextReq, failing, victims, procs,
                       nextPid, msgs, killed, ran, crashes, disturbed>>
    BY <1>1 DEF vars, coord, workers, ghosts
  <2>2. TypeInv' /\ Mail' = Mail
    BY Zenon, <2>1 DEF IInv, TypeInv, Migrating, Mail
  <2>3. ~disturbed' => ~disturbed /\ failing' = {} /\ victims' = {}
    BY <2>1 DEF IInv, Undisturbed
  <2> QED
    BY <2>1, <2>2, <2>3, Frame
<1>2. CASE Next
  BY Zenon, <1>2, UserStep, RequestStep, TimeoutStep, FinishSpawnStep, FinishKillStep, FinishStateStep,
     TickStep, FailoverNodeStep, RespawnStep, PlainStep, CompleteStep, HandleSpawnStep,
     HandleKillStep, HandleStateStep, CrashStep DEF Next
<1> QED
  BY <1>1, <1>2

(* The invariant implies both properties.                                  *)
LEMMA IInvSound == IInv => TrackingSound /\ SurvivesMigration
<1> SUFFICES ASSUME IInv PROVE TrackingSound /\ SurvivesMigration
  OBVIOUS
<1>1. TrackedWasStarted
  BY DEF IInv, StartInv
<1>2. NoLeak
  <2> SUFFICES ASSUME call = Idle, ~disturbed PROVE Ids = DOMAIN specs
    BY DEF NoLeak, Ids, RidOf
  <2>1. Copies = {} /\ Gone = {}
    BY Zenon DEF Copies, Gone, Idle, Call
  <2> QED
    BY <2>1 DEF IInv, Undisturbed
<1>3. SurvivesMigration
  BY DEF IInv, CrashFree, Kept, SurvivesMigration
<1> QED
  BY <1>1, <1>2, <1>3 DEF TrackingSound

(* What the coordinator tracks is what the workers started, no less and no *)
(* more: no late, repeated or refused answer ends up in spawned_specs, and *)
(* without timeouts, suspicions and crashes nothing leaks (complete_spawn, *)
(* spawn_with_state, kill, migrate), for any number of workers and specs.  *)
THEOREM TrackingAlwaysSound == Spec => []TrackingSound
<1>1. Spec => []IInv
  BY InitIInv, NextIInv, PTL DEF Spec
<1> QED
  BY <1>1, IInvSound, PTL

(* As long as no worker crashes, no migration, however it fails, costs the *)
(* last copy of a process that the user has not killed (migrate), for any  *)
(* number of workers, specs, calls, timeouts and failovers.                *)
THEOREM MigrationKeepsACopy == Spec => []SurvivesMigration
<1>1. Spec => []IInv
  BY InitIInv, NextIInv, PTL DEF Spec
<1> QED
  BY <1>1, IInvSound, PTL
=============================================================================
