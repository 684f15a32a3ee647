---------------------------- MODULE HostServices ----------------------------
(***************************************************************************)
(* Services AIOS runs on a host: the encrypted vault of secrets             *)
(* (aios-sys-control keyring), the network settings file with its two       *)
(* writers and the DHCP client behind a connection (aios-net-config,        *)
(* net_manager, dhcp, the settings tab of the GUI), and the two programs    *)
(* that start and signal other processes: PID 1 (aios-init) and the shell   *)
(* with its background jobs (aios-shell).                                   *)
(*                                                                         *)
(* The three parts share no state.  A key is the policy it was derived from *)
(* with the salt; a sealed value opens under the key that sealed it and no  *)
(* other.  A transaction of the database is atomic.  Files are inodes with  *)
(* names, so that two writers of one temporary file meet as they do on      *)
(* disk.  A process is a pid with a serial number the code never sees.      *)
(***************************************************************************)
EXTENDS Integers, Sequences, FiniteSets

CONSTANTS Policies,   \* unlock policies: [tag, secret]
          Names,        \* names of secrets
          Values,       \* values of secrets
          MaxSalts,     \* bound on salts drawn
          Savers,       \* who writes network.json: "block", "gui"
          Updates,      \* partial updates: [host, port, dns], None for absent
          PortMod,      \* 2^16, the width of listen_port
          Servers,      \* DHCP servers
          Ips,          \* addresses
          MaxAsks,      \* bound on DHCPREQUESTs
          Pids,         \* process ids besides those of init and the shell
          MaxForks,     \* bound on processes started
          MaxTries,     \* polls before SIGKILL (50)
          MaxAttempts,  \* starts of one emergency shell (20)
          Shells,       \* emergency shells in order
          None

VARIABLES db, vault, kept, salts,                  \* keyring
          node, path, saver, conf, told,           \* network settings
          dora, ether, granted, link, asks,        \* DHCP and the link
          procs, forks, init, term, event, jobs, hit  \* processes

vaultVars == <<db, vault, kept, salts>>
fileVars == <<node, path, saver, conf, told>>
dhcpVars == <<dora, ether, granted, link, asks>>
procVars == <<procs, forks, init, term, event, jobs, hit>>
vars == <<db, vault, kept, salts, node, path, saver, conf, told,
          dora, ether, granted, link, asks, procs, forks, init, term, event, jobs, hit>>

ASSUME HostServicesAssumption ==
  /\ \A p \in Policies : p.tag # None
  /\ MaxSalts \in Nat /\ MaxForks \in Nat /\ MaxTries \in Nat /\ MaxAttempts \in Nat
  /\ Pids \subseteq Nat \ (0 .. 2) /\ PortMod \in Nat \ {0} /\ Savers \subseteq {"block", "gui"}

----------------------------------------------------------------------------
(* The vault.                                                               *)

\* The master key: the policy stretched or hashed with the salt of the file.
derive_key(p, salt) == [policy |-> p, salt |-> salt]

seal(key, plain) == [key |-> key, plain |-> plain]

Keys   == [policy : Policies, salt : Nat]
Sealed == [key : Keys, plain : Values]

NoVault == [salt |-> None, tag |-> None, canary |-> None, table |-> FALSE,
            secrets |-> [n \in Names |-> None]]

\* init_meta: salt, policy tag and canary in one transaction.
init_meta(p) ==
  /\ salts < MaxSalts
  /\ LET key == derive_key(p, salts)
     IN /\ db' = [db EXCEPT !.salt = salts, !.tag = p.tag, !.canary = key]
        /\ vault' = key
  /\ salts' = salts + 1

\* verify_existing: the policy's kind, then the canary under the derived key.
verify_existing(p) == db.tag = p.tag /\ db.canary = derive_key(p, db.salt)

\* KeyringVault::open; the database admits one handle at a time.
open(p) ==
  /\ vault = None
  /\ IF db.salt = None THEN init_meta(p)
     ELSE /\ vault' = IF verify_existing(p) THEN derive_key(p, db.salt) ELSE None
          /\ UNCHANGED <<db, salts>>
  /\ UNCHANGED kept

set_secret(n, v) ==
  /\ vault # None
  /\ db' = [db EXCEPT !.table = TRUE, !.secrets[n] = seal(vault, v)]
  /\ kept' = [kept EXCEPT ![n] = v]
  /\ UNCHANGED <<vault, salts>>

delete_secret(n) ==
  /\ vault # None
  /\ db' = [db EXCEPT !.table = TRUE, !.secrets[n] = None]
  /\ kept' = [kept EXCEPT ![n] = None]
  /\ UNCHANGED <<vault, salts>>

\* Every entry unsealed with the handle's key and sealed with the new one.
Resealed(key) ==
  [n \in Names |-> IF db.secrets[n] = None THEN None ELSE seal(key, db.secrets[n].plain)]

\* Mutant: the handle keeps the key it was opened with.
RekeyKeepsHandle(p) ==
  /\ vault # None /\ p.tag = "pw" /\ salts < MaxSalts
  /\ IF db.table /\ \A n \in Names : db.secrets[n] # None => db.secrets[n].key = vault
     THEN /\ db' = [db EXCEPT !.salt = salts, !.tag = p.tag, !.canary = derive_key(p, salts),
                              !.secrets = Resealed(derive_key(p, salts))]
          /\ salts' = salts + 1
     ELSE UNCHANGED <<db, salts>>
  /\ UNCHANGED <<kept, vault>>

\* change_master_password: fails without a table of secrets and on an entry
\* the handle cannot open; otherwise new salt, tag, canary and entries are one
\* transaction, and the handle switches.
change_master_password(p) ==
  /\ vault # None /\ p.tag = "pw" /\ salts < MaxSalts
  /\ IF db.table /\ \A n \in Names : db.secrets[n] # None => db.secrets[n].key = vault
     THEN LET key == derive_key(p, salts)
          IN /\ db' = [db EXCEPT !.salt = salts, !.tag = p.tag, !.canary = key,
                                 !.secrets = Resealed(key)]
             /\ vault' = key /\ salts' = salts + 1
     ELSE UNCHANGED <<db, vault, salts>>
  /\ UNCHANGED kept

\* The handle is dropped, or the process dies: what was committed stays.
DropVault == vault # None /\ vault' = None /\ UNCHANGED <<db, kept, salts>>

VaultInit == db = NoVault /\ vault = None /\ kept = [n \in Names |-> None] /\ salts = 0

VaultNext ==
  /\ \/ \E p \in Policies : open(p) \/ change_master_password(p)
     \/ \E n \in Names : delete_secret(n) \/ \E v \in Values : set_secret(n, v)
     \/ DropVault
  /\ UNCHANGED fileVars /\ UNCHANGED dhcpVars /\ UNCHANGED procVars

----------------------------------------------------------------------------
(* Network settings.                                                        *)

Default == [host |-> "aios-host", port |-> 1, dns |-> None, version |-> 1]
Torn == [host |-> "torn"]

Configs == [host : {"aios-host", "gui"} \cup {u.host : u \in Updates}, port : Nat,
            dns : {None} \cup {u.dns : u \in Updates}, version : {1, 2}]

\* apply_updates works on the configuration in place and stops at the first
\* bad key: what it changed before stays changed.  listen_port is cut to its
\* width before it is validated.
apply_updates(c, u) ==
  LET h == IF u.host = None THEN c ELSE [c EXCEPT !.host = u.host]
      port == u.port % PortMod
      p == IF u.port = None THEN h ELSE [h EXCEPT !.port = port]
      d == IF u.dns = None THEN p ELSE [p EXCEPT !.dns = u.dns]
  IN CASE u.host = "" -> [config |-> c, ok |-> FALSE]
       [] u.host # "" /\ u.port # None /\ port = 0 -> [config |-> h, ok |-> FALSE]
       [] u.host # "" /\ ~(u.port # None /\ port = 0) /\ u.dns = "bad" -> [config |-> p, ok |-> FALSE]
       [] OTHER -> [config |-> [d EXCEPT !.version = 2], ok |-> TRUE]

\* NetworkConfigStore::load of the file as it is.
load ==
  IF path.file = None THEN Default
  ELSE IF node[path.file] \in {None, Torn} THEN Default ELSE node[path.file]

Resting(w) == saver[w].pc = "rest"

\* net_set, net_reset and net_persist of the block, net_save and net_reset of
\* the GUI, up to the first system call of save.
Change(w, c) ==
  /\ conf[w] # None /\ Resting(w)
  /\ conf' = [conf EXCEPT ![w] = c]
  /\ saver' = [saver EXCEPT ![w] = [pc |-> "open", fd |-> 0]]
  /\ UNCHANGED <<node, path, told>>

net_set(u) ==
  /\ conf["block"] # None /\ Resting("block")
  /\ LET r == apply_updates(conf["block"], u)
     IN \/ r.ok /\ Change("block", r.config)
        \/ ~r.ok /\ conf' = [conf EXCEPT !["block"] = r.config] /\ UNCHANGED <<node, path, saver, told>>

net_reset(w) == Change(w, Default)
net_persist(w) == Change(w, conf[w])

Inodes == 1 .. 3

\* Mutant: the file itself is opened and written.
OpenInPlace(w) ==
  /\ saver[w].pc = "open"
  /\ \E i \in Inodes :
       /\ IF path.file # None THEN i = path.file
          ELSE \A v \in Savers : saver[v].fd # i
       /\ node' = [node EXCEPT ![i] = None]
       /\ path' = [tmp |-> i, file |-> i]
       /\ saver' = [saver EXCEPT ![w] = [pc |-> "write", fd |-> i]]
  /\ UNCHANGED <<conf, told>>

\* save: std::fs::write creates or truncates the temporary file ...
OpenTmp(w) ==
  /\ saver[w].pc = "open"
  /\ \E i \in Inodes :
       /\ IF path.tmp # None THEN i = path.tmp
          ELSE path.file # i /\ \A v \in Savers : saver[v].fd # i
       /\ node' = [node EXCEPT ![i] = None]
       /\ path' = [path EXCEPT !.tmp = i]
       /\ saver' = [saver EXCEPT ![w] = [pc |-> "write", fd |-> i]]
  /\ UNCHANGED <<conf, told>>

\* ... and writes the text from its start: over a text of another writer the
\* longer of the two leaves its tail.
WriteTmp(w) ==
  /\ saver[w].pc = "write"
  /\ \E text \in IF node[saver[w].fd] = None THEN {conf[w]} ELSE {conf[w], Torn} :
       node' = [node EXCEPT ![saver[w].fd] = text]
  /\ saver' = [saver EXCEPT ![w].pc = "rename"]
  /\ UNCHANGED <<path, conf, told>>

\* ... then renames it; the answer tells the configuration.
Rename(w) ==
  /\ saver[w].pc = "rename"
  /\ IF path.tmp = None THEN UNCHANGED <<path, told>>
     ELSE path' = [tmp |-> None, file |-> path.tmp] /\ told' = [told EXCEPT ![w] = conf[w]]
  /\ saver' = [saver EXCEPT ![w] = [pc |-> "rest", fd |-> 0]]
  /\ UNCHANGED <<node, conf>>

\* A system call of save fails: an error is answered, memory keeps the change.
SaveFails(w) ==
  /\ ~Resting(w)
  /\ saver' = [saver EXCEPT ![w] = [pc |-> "rest", fd |-> 0]]
  /\ UNCHANGED <<node, path, conf, told>>

\* The process of a writer stops, in the middle of a save or between two.
Stop(w) ==
  /\ conf[w] # None
  /\ conf' = [conf EXCEPT ![w] = None]
  /\ saver' = [saver EXCEPT ![w] = [pc |-> "rest", fd |-> 0]]
  /\ UNCHANGED <<node, path, told>>

\* NetSettingsBlock::new, net_load_persisted.
Load(w) ==
  /\ conf[w] = None
  /\ conf' = [conf EXCEPT ![w] = load]
  /\ UNCHANGED <<node, path, saver, told>>

FileInit ==
  /\ node = [i \in Inodes |-> None] /\ path = [tmp |-> None, file |-> None]
  /\ saver = [w \in Savers |-> [pc |-> "rest", fd |-> 0]]
  /\ conf = [w \in Savers |-> None] /\ told = [w \in Savers |-> None]

FileNext ==
  /\ \/ \E w \in Savers :
          \/ Load(w) \/ Stop(w) \/ OpenTmp(w) \/ WriteTmp(w) \/ Rename(w) \/ SaveFails(w)
          \/ conf[w] # None /\ (net_reset(w) \/ net_persist(w))
     \/ "block" \in Savers /\ \E u \in Updates : net_set(u)
     \/ "gui" \in Savers /\ conf["gui"] # None /\ Change("gui", [conf["gui"] EXCEPT !.host = "gui"])
  /\ UNCHANGED vaultVars /\ UNCHANGED dhcpVars /\ UNCHANGED procVars

----------------------------------------------------------------------------
(* A connection: association, then DHCP on the host back end.               *)

Down == [state |-> "Disconnected", ip |-> None]

\* NetManager::connect up to the DISCOVER; a failing association fails it.
connect ==
  /\ dora.pc = "off"
  /\ \/ dora' = [pc |-> "offer", want |-> None] /\ ether' = {} /\ UNCHANGED link
     \/ link' = [state |-> "Failed", ip |-> None] /\ UNCHANGED <<dora, ether>>
  /\ UNCHANGED <<granted, asks>>

disconnect ==
  /\ dora.pc = "off" /\ link' = Down
  /\ UNCHANGED <<dora, ether, granted, asks>>

\* External: a server offers, acknowledges the request addressed to it,
\* refuses, or talks to another client; nothing in a reply is compared with
\* the request, so a reply to someone else is received like an own one.
Offer(s, ip) ==
  /\ dora.pc # "off"
  /\ ether' = ether \cup {[type |-> "offer", server |-> s, ip |-> ip]}
  /\ UNCHANGED <<dora, granted, link, asks>>

Answer(s) ==
  /\ dora.want # None /\ dora.want.server = s
  /\ \/ /\ ether' = ether \cup {[type |-> "ack", server |-> s, ip |-> dora.want.ip]}
        /\ granted' = granted \cup {dora.want.ip}
     \/ ether' = ether \cup {[type |-> "nak", server |-> s, ip |-> dora.want.ip]} /\ UNCHANGED granted
  /\ UNCHANGED <<dora, link, asks>>

OthersAck(s, ip) ==
  /\ dora.pc # "off"
  /\ ether' = ether \cup {[type |-> "ack", server |-> s, ip |-> ip]}
  /\ granted' = granted \cup {ip}
  /\ UNCHANGED <<dora, link, asks>>

\* The loop of acquire waiting for an offer: what is no offer is skipped.
TakeOffer(m) ==
  /\ dora.pc = "offer" /\ asks < MaxAsks
  /\ ether' = ether \ {m}
  /\ IF m.type = "offer"
     THEN dora' = [pc |-> "ack", want |-> [server |-> m.server, ip |-> m.ip]] /\ asks' = asks + 1
     ELSE UNCHANGED <<dora, asks>>
  /\ UNCHANGED <<granted, link>>

\* Mutant: any reply to the request is taken for its acknowledgement.
TakeAnyReply(m) ==
  /\ dora.pc = "ack"
  /\ ether' = ether \ {m}
  /\ dora' = [pc |-> "off", want |-> None] /\ link' = [state |-> "Connected", ip |-> m.ip]
  /\ UNCHANGED <<granted, asks>>

\* One packet is read after the request.  An acknowledgement ends it; any
\* other packet sends the client back to waiting for an offer.
TakeAck(m) ==
  /\ dora.pc = "ack"
  /\ ether' = ether \ {m}
  /\ IF m.type = "ack"
     THEN dora' = [pc |-> "off", want |-> None] /\ link' = [state |-> "Connected", ip |-> m.ip]
     ELSE dora' = [dora EXCEPT !.pc = "offer"] /\ UNCHANGED link
  /\ UNCHANGED <<granted, asks>>

\* The deadline: Timeout, whatever is still on its way.
Deadline ==
  /\ dora.pc # "off"
  /\ dora' = [pc |-> "off", want |-> None] /\ link' = [state |-> "Failed", ip |-> None]
  /\ UNCHANGED <<ether, granted, asks>>

DhcpInit ==
  /\ dora = [pc |-> "off", want |-> None] /\ ether = {} /\ granted = {} /\ link = Down /\ asks = 0

DhcpNext ==
  /\ \/ connect \/ disconnect \/ Deadline
     \/ \E s \in Servers : Answer(s) \/ \E ip \in Ips : Offer(s, ip) \/ OthersAck(s, ip)
     \/ \E m \in ether : TakeOffer(m) \/ TakeAck(m)
  /\ UNCHANGED vaultVars /\ UNCHANGED fileVars /\ UNCHANGED procVars

----------------------------------------------------------------------------
(* Processes.  External: the kernel's table.  A pid is free again once its  *)
(* process was waited for; children of a dead process go to PID 1.          *)

InitPid == 1
ShellPid == 2
Unwaited == 0     \* a child of the shell that it never waits for

Processes == [owner : Nat, alive : BOOLEAN, serial : Nat]

\* None is no value of what it marks as absent, and listen_port is a number.
ASSUME NoneAssumption ==
  /\ None \notin Nat /\ None \notin Values /\ None # "other"
  /\ None \notin Keys /\ None \notin Sealed /\ None \notin Configs /\ None \notin Processes
  /\ \A u \in Updates : u.port \in Nat \cup {None}

FreePids == {p \in Pids : procs[p] = None}
Running(p) == procs[p] # None /\ procs[p].alive

\* fork and execve for `owner`.
Spawned(owner, pid) ==
  /\ forks < MaxForks /\ pid \in FreePids
  /\ procs' = [procs EXCEPT ![pid] = [owner |-> owner, alive |-> TRUE, serial |-> forks]]
  /\ forks' = forks + 1

\* A process starts one of its own.
ChildForks(p, pid) ==
  /\ Running(p) /\ Spawned(p, pid)
  /\ UNCHANGED <<init, term, event, jobs, hit>>

Exits(p) ==
  /\ Running(p)
  /\ procs' = [q \in Pids |->
       CASE q = p -> [procs[q] EXCEPT !.alive = FALSE]
         [] q # p /\ procs[q] # None /\ procs[q].owner = p -> [procs[q] EXCEPT !.owner = InitPid]
         [] OTHER -> procs[q]]
  /\ event' = (event \/ procs[p].owner = InitPid \/ \E q \in Pids : procs[q] # None /\ procs[q].owner = p)
  /\ UNCHANGED <<forks, init, term, jobs, hit>>

\* A dead process nobody else waits for is collected by its running parent.
ParentWaits(p) ==
  /\ procs[p] # None /\ ~procs[p].alive /\ procs[p].owner \in Pids
  /\ procs' = [procs EXCEPT ![p] = None]
  /\ UNCHANGED <<forks, init, term, event, jobs, hit>>

\* A signal reaches the process now behind the pid.
Signals(child) ==
  hit' = IF procs[child.pid] # None /\ procs[child.pid].serial = child.serial THEN "own" ELSE "other"

Zombies == {p \in Pids : procs[p] # None /\ ~procs[p].alive /\ procs[p].owner = InitPid}

handle_term == ~term /\ term' = TRUE /\ UNCHANGED <<procs, forks, init, event, jobs, hit>>

\* bring_userspace, and one start of an emergency shell.
InitSpawns ==
  /\ init.pc \in {"bringup", "shell"}
  /\ \/ \E pid \in Pids :
          /\ Spawned(InitPid, pid)
          /\ init' = [init EXCEPT !.pc = "check", !.back = init.pc,
                                  !.child = [pid |-> pid, serial |-> forks]]
     \/ /\ init' = IF init.pc = "bringup" THEN [init EXCEPT !.pc = "exec"]
                   ELSE [init EXCEPT !.shell = @ + 1, !.tries = 0,
                                     !.pc = IF init.shell = Len(Shells) THEN "idle" ELSE "shell"]
        /\ UNCHANGED <<procs, forks>>
  /\ UNCHANGED <<term, event, jobs, hit>>

\* What follows supervise: the programs that replace init, or the next start.
AfterChild ==
  IF init.back = "bringup" THEN [init EXCEPT !.pc = "exec", !.child = None, !.tries = 0]
  ELSE IF term THEN [init EXCEPT !.pc = "idle", !.child = None]
  ELSE IF init.tries + 1 < MaxAttempts THEN [init EXCEPT !.pc = "shell", !.child = None, !.tries = @ + 1]
  ELSE [init EXCEPT !.pc = IF init.shell = Len(Shells) THEN "idle" ELSE "shell",
                    !.child = None, !.shell = @ + 1, !.tries = 0]

\* Mutant: the drain goes on after the supervised child was collected.
DrainOn ==
  /\ init.pc = "drain"
  /\ \/ \E p \in Zombies : procs' = [procs EXCEPT ![p] = None] /\ UNCHANGED init
     \/ Zombies = {} /\ init' = [init EXCEPT !.pc = "check"] /\ UNCHANGED procs
  /\ UNCHANGED <<forks, term, event, jobs, hit>>

\* supervise: a requested shutdown is forwarded first; then the pending
\* children are collected until the supervised one is among them.
SuperviseCheck ==
  /\ init.pc = "check"
  /\ IF term THEN init' = [init EXCEPT !.pc = "term", !.polls = 0] /\ Signals(init.child) /\ UNCHANGED event
     ELSE init' = [init EXCEPT !.pc = "drain"] /\ event' = FALSE /\ UNCHANGED hit
  /\ UNCHANGED <<procs, forks, term, jobs>>

SuperviseDrain ==
  /\ init.pc = "drain"
  /\ \/ \E p \in Zombies :
          /\ procs' = [procs EXCEPT ![p] = None]
          /\ init' = IF p = init.child.pid THEN AfterChild ELSE init
     \/ Zombies = {} /\ init' = [init EXCEPT !.pc = "check"] /\ UNCHANGED procs
  /\ UNCHANGED <<forks, term, event, jobs, hit>>

\* shutdown_child after SIGTERM: MaxTries polls, SIGKILL, then until it is
\* collected.
ShutdownChild ==
  /\ init.pc \in {"term", "kill"}
  /\ \/ \E p \in Zombies :
          /\ procs' = [procs EXCEPT ![p] = None]
          /\ init' = IF p = init.child.pid THEN AfterChild ELSE init
          /\ UNCHANGED hit
     \/ /\ Zombies = {} /\ UNCHANGED procs
        /\ IF init.pc = "term" /\ init.polls + 1 >= MaxTries
           THEN init' = [init EXCEPT !.pc = "kill"] /\ Signals(init.child)
           ELSE init' = [init EXCEPT !.polls = IF init.pc = "term" THEN @ + 1 ELSE @] /\ UNCHANGED hit
  /\ UNCHANGED <<forks, term, event, jobs>>

\* The three execve calls: init is replaced, or none of the programs exists.
Exec ==
  /\ init.pc = "exec"
  /\ init' \in {[init EXCEPT !.pc = "replaced"], [init EXCEPT !.pc = "shell", !.tries = 0]}
  /\ UNCHANGED <<procs, forks, term, event, jobs, hit>>

ReapAny ==
  /\ init.pc = "idle"
  /\ \E p \in Zombies : procs' = [procs EXCEPT ![p] = None]
  /\ UNCHANGED <<forks, init, term, event, jobs, hit>>

\* aios-shell run_command drops the jobs whose pid answers signal 0 no more; the
\* vector of jobs is in the order they were started in ...
Retained == {j \in jobs : procs[j.pid] # None}
LastJob == CHOOSE j \in Retained : \A k \in Retained : k.serial <= j.serial

\* ... then starts a job in the background (nobody waits for it), or ...
Background(pid) ==
  /\ Spawned(Unwaited, pid)
  /\ jobs' = Retained \cup {[pid |-> pid, serial |-> forks]}
  /\ UNCHANGED <<init, term, event, hit>>

\* ... runs a command in the foreground (or leaves a GUI program running
\* without a job), and waits for that one, or ...
StartForeground(pid) ==
  /\ \E owner \in {ShellPid, Unwaited} : Spawned(owner, pid)
  /\ jobs' = Retained
  /\ UNCHANGED <<init, term, event, hit>>

Foreground(p) ==
  /\ procs[p] # None /\ ~procs[p].alive /\ procs[p].owner = ShellPid
  /\ procs' = [procs EXCEPT ![p] = None]
  /\ UNCHANGED <<forks, init, term, event, jobs, hit>>

\* ... resumes the last job: fg forgets every job, bg none.
Resume(fg) ==
  /\ Retained # {}
  /\ Signals(LastJob)
  /\ jobs' = IF fg THEN {} ELSE Retained
  /\ UNCHANGED <<procs, forks, init, term, event>>

ProcInit ==
  /\ procs = [p \in Pids |-> None] /\ forks = 0 /\ term = FALSE /\ event = FALSE
  /\ init = [pc |-> "bringup", back |-> "bringup", child |-> None, tries |-> 0, polls |-> 0, shell |-> 1]
  /\ jobs = {} /\ hit = None

ProcNext ==
  /\ \/ \E p \in Pids : Exits(p) \/ ParentWaits(p) \/ Background(p) \/ Foreground(p)
                        \/ StartForeground(p) \/ \E q \in Pids : ChildForks(p, q)
     \/ handle_term \/ InitSpawns \/ SuperviseCheck \/ SuperviseDrain \/ ShutdownChild
     \/ Exec \/ ReapAny \/ \E fg \in BOOLEAN : Resume(fg)
  /\ UNCHANGED vaultVars /\ UNCHANGED fileVars /\ UNCHANGED dhcpVars

Init == VaultInit /\ FileInit /\ DhcpInit /\ ProcInit
Next == VaultNext \/ FileNext \/ DhcpNext \/ ProcNext
Spec == Init /\ [][Next]_vars

----------------------------------------------------------------------------
(* Properties.                                                              *)

\* Whatever sequence of openings, changes of the master password, writes and
\* restarts: canary and entries of the file are sealed with one key, of the
\* file's salt and policy, an open handle holds that key, and every secret
\* stored and not deleted reads back as it was stored (keyring.rs).
VaultReadable ==
  /\ db.salt # None =>
       /\ db.canary = derive_key(db.canary.policy, db.salt) /\ db.canary.policy.tag = db.tag
       /\ vault # None => vault = db.canary
  /\ \A n \in Names :
       /\ kept[n] = None <=> db.secrets[n] = None
       /\ kept[n] # None => db.secrets[n] = seal(db.canary, kept[n])

\* What the only writer of the settings last reported as saved is what it would
\* start with after a crash at any point, until a later save gets through: the
\* file is never torn or missing then (store.rs save and load).
SettingsKept ==
  \A w \in Savers :
    (Savers = {w} /\ told[w] # None) => path.file # None /\ load = told[w]

\* A link reported as connected has an address that a server acknowledged,
\* whatever offers, refusals and answers to others arrive in between
\* (dhcp.rs acquire, net_manager.rs connect).
LeaseAcknowledged == link.state = "Connected" => link.ip \in granted

\* Every signal of PID 1 and of the shell's fg and bg goes to the very process
\* that was started, never to one that took over its pid (aios-init supervise
\* and shutdown_child, aios-shell run_command).
SignalsOwnChild == hit # "other"

\* The four services of a host together.
HostSound == VaultReadable /\ SettingsKept /\ LeaseAcknowledged /\ SignalsOwnChild
=============================================================================
