------------------------- MODULE HostServices_proof -------------------------
(***************************************************************************)
(* The four services of a host, for any sets of policies, secrets, updates,*)
(* servers, addresses and pids: nothing sealed becomes unreadable, what    *)
(* the only writer of the settings reported is what is loaded, a connected *)
(* link has an acknowledged address, and no signal goes astray.            *)
(***************************************************************************)
EXTENDS HostServices, TLAPS

-----------------------------------------------------------------------------
(* The vault                                                               *)

Tags == {p.tag : p \in Policies} \cup {None}

(* Before the file has a salt there is neither a handle nor a secret.      *)
VaultInv ==
  /\ salts \in Nat
  /\ vault \in Keys \cup {None}
  /\ db \in [salt : Nat \cup {None}, tag : Tags, canary : Keys \cup {None}, table : BOOLEAN,
             secrets : [Names -> Sealed \cup {None}]]
  /\ kept \in [Names -> Values \cup {None}]
  /\ db.salt = None => vault = None /\ \A n \in Names : db.secrets[n] = None
  /\ db.salt # None => db.canary \in Keys
  /\ VaultReadable

(* A key that is derived is a key, of its policy and salt.                 *)
LEMMA Derived ==
  ASSUME NEW p \in Policies, NEW s \in Nat
  PROVE  /\ derive_key(p, s) \in Keys /\ derive_key(p, s) # None
         /\ derive_key(p, s).policy = p /\ derive_key(p, s).salt = s
BY NoneAssumption DEF derive_key, Keys

(* A sealed value is not nothing, and what was sealed is its content.      *)
LEMMA SealedValue ==
  ASSUME NEW k \in Keys, NEW v \in Values
  PROVE  /\ seal(k, v) \in Sealed /\ seal(k, v) # None
         /\ seal(k, v).key = k /\ seal(k, v).plain = v
BY NoneAssumption DEF seal, Sealed

(* Opening seals a canary in a new file, and otherwise yields the key that *)
(* opens the canary or none.                                               *)
LEMMA OpenStep ==
  ASSUME VaultInv, NEW p \in Policies, open(p)
  PROVE  VaultInv'
<1> DEFINE key == derive_key(p, salts)
<1>1. CASE db.salt = None
  <2>1. key \in Keys /\ key # None /\ key = derive_key(key.policy, salts) /\ key.policy = p
    BY Derived DEF VaultInv
  <2>2. /\ db' = [db EXCEPT !.salt = salts, !.tag = p.tag, !.canary = key]
        /\ vault' = key /\ salts' = salts + 1 /\ kept' = kept
    BY <1>1 DEF open, init_meta
  <2>3. salts # None /\ p.tag \in Tags
    BY NoneAssumption DEF VaultInv, Tags
  <2> HIDE DEF key
  <2>4. /\ db'.salt = salts /\ db'.tag = p.tag /\ db'.canary = key /\ db'.secrets = db.secrets
        /\ db' \in [salt : Nat \cup {None}, tag : Tags, canary : Keys \cup {None}, table : BOOLEAN,
                    secrets : [Names -> Sealed \cup {None}]]
    BY <2>1, <2>2, <2>3 DEF VaultInv
  <2>5. VaultReadable'
    BY <1>1, <2>1, <2>2, <2>4 DEF VaultInv, VaultReadable
  <2> QED
    BY <2>1, <2>2, <2>3, <2>4, <2>5 DEF VaultInv
<1>2. CASE db.salt # None
  <2>1. /\ db' = db /\ kept' = kept /\ salts' = salts
        /\ vault' = IF verify_existing(p) THEN derive_key(p, db.salt) ELSE None
    BY <1>2 DEF open
  <2>2. vault' # None => vault' = db.canary
    BY <2>1 DEF verify_existing
  <2> QED
    BY <1>2, <2>1, <2>2 DEF VaultInv, VaultReadable
<1> QED
  BY <1>1, <1>2

(* A secret is stored or deleted under the key of the file.                *)
LEMMA SecretStep ==
  ASSUME VaultInv, NEW n \in Names, delete_secret(n) \/ \E v \in Values : set_secret(n, v)
  PROVE  VaultInv'
<1> DEFINE T == [salt : Nat \cup {None}, tag : Tags, canary : Keys \cup {None}, table : BOOLEAN,
                 secrets : [Names -> Sealed \cup {None}]]
<1>1. vault # None /\ db.salt # None /\ vault = db.canary /\ vault \in Keys
  BY DEF VaultInv, VaultReadable, delete_secret, set_secret
<1>2. ASSUME NEW e \in Sealed \cup {None}, NEW k \in Values \cup {None},
             e = None <=> k = None, k # None => e = seal(db.canary, k),
             db' = [db EXCEPT !.table = TRUE, !.secrets[n] = e],
             kept' = [kept EXCEPT ![n] = k], UNCHANGED <<vault, salts>>
      PROVE  VaultInv'
  <2>1. /\ db'.salt = db.salt /\ db'.tag = db.tag /\ db'.canary = db.canary
        /\ db'.secrets = [db.secrets EXCEPT ![n] = e] /\ db' \in T
    BY <1>2 DEF VaultInv
  <2>2. /\ db'.secrets[n] = e /\ kept'[n] = k
        /\ \A m \in Names : m # n => db'.secrets[m] = db.secrets[m] /\ kept'[m] = kept[m]
    BY <1>2, <2>1 DEF VaultInv
  <2>3. kept' \in [Names -> Values \cup {None}]
    BY <1>2 DEF VaultInv
  <2>4. VaultReadable'
    BY <1>1, <1>2, <2>1, <2>2 DEF VaultInv, VaultReadable
  <2> QED
    BY <1>1, <1>2, <2>1, <2>3, <2>4 DEF VaultInv
<1>3. CASE delete_secret(n)
  BY <1>2, <1>3 DEF delete_secret
<1>4. ASSUME NEW v \in Values, set_secret(n, v) PROVE VaultInv'
  <2>1. seal(vault, v) \in Sealed /\ seal(vault, v) # None /\ v # None
    BY <1>1, SealedValue, NoneAssumption
  <2> QED
    BY <1>1, <1>2, <1>4, <2>1 DEF set_secret
<1> QED
  BY <1>3, <1>4

(* Re-keying opens every entry and seals it with the key of the new canary.*)
LEMMA RekeyStep ==
  ASSUME VaultInv, NEW p \in Policies, change_master_password(p)
  PROVE  VaultInv'
<1> DEFINE key == derive_key(p, salts)
<1> DEFINE Opens == db.table /\ \A n \in Names : db.secrets[n] # None => db.secrets[n].key = vault
<1>1. CASE ~Opens
  BY <1>1 DEF change_master_password, VaultInv, VaultReadable
<1>2. CASE Opens
  <2>1. key \in Keys /\ key # None /\ key = derive_key(key.policy, salts) /\ key.policy = p
    BY Derived DEF VaultInv
  <2>2. /\ db' = [db EXCEPT !.salt = salts, !.tag = p.tag, !.canary = key,
                            !.secrets = Resealed(key)]
        /\ vault' = key /\ salts' = salts + 1 /\ kept' = kept
    BY <1>2 DEF change_master_password
  <2>3. salts # None /\ p.tag \in Tags
    BY NoneAssumption DEF VaultInv, Tags
  <2> HIDE DEF key
  <2>4. ASSUME NEW n \in Names
        PROVE  /\ Resealed(key)[n] \in Sealed \cup {None}
               /\ kept[n] = None <=> Resealed(key)[n] = None
               /\ kept[n] # None => Resealed(key)[n] = seal(key, kept[n])
    <3>1. CASE db.secrets[n] = None
      BY <3>1 DEF Resealed, VaultInv, VaultReadable
    <3>2. CASE db.secrets[n] # None
      <4>1. kept[n] \in Values /\ kept[n] # None /\ db.secrets[n] = seal(db.canary, kept[n])
        BY <3>2 DEF VaultInv, VaultReadable
      <4>2. db.secrets[n].plain = kept[n]
        BY <4>1 DEF seal
      <4>3. seal(key, kept[n]) \in Sealed /\ seal(key, kept[n]) # None
        BY <2>1, <4>1, SealedValue
      <4> QED
        BY <3>2, <4>1, <4>2, <4>3 DEF Resealed
    <3> QED
      BY <3>1, <3>2
  <2>5. Resealed(key) \in [Names -> Sealed \cup {None}]
    BY <2>4 DEF Resealed
  <2>6. /\ db'.salt = salts /\ db'.tag = p.tag /\ db'.canary = key /\ db'.secrets = Resealed(key)
        /\ db' \in [salt : Nat \cup {None}, tag : Tags, canary : Keys \cup {None}, table : BOOLEAN,
                    secrets : [Names -> Sealed \cup {None}]]
    BY <2>1, <2>2, <2>3, <2>5 DEF VaultInv
  <2>7. VaultReadable'
    BY <2>1, <2>2, <2>4, <2>6 DEF VaultReadable
  <2> QED
    BY <2>1, <2>2, <2>3, <2>6, <2>7 DEF VaultInv
<1> QED
  BY <1>1, <1>2

(* What any use of the vault leaves behind                                 *)
LEMMA VaultKept == VaultInv /\ (VaultNext \/ UNCHANGED vaultVars) => VaultInv'
<1> SUFFICES ASSUME VaultInv, VaultNext \/ UNCHANGED vaultVars PROVE VaultInv'
  OBVIOUS
<1>1. CASE UNCHANGED vaultVars
  BY <1>1 DEF VaultInv, VaultReadable, vaultVars
<1>2. CASE DropVault
  BY <1>2 DEF DropVault, VaultInv, VaultReadable
<1> QED
  BY <1>1, <1>2, OpenStep, SecretStep, RekeyStep DEF VaultNext

-----------------------------------------------------------------------------
(* The settings file                                                       *)

Pcs   == {"rest", "open", "write", "rename"}
Saver == [pc : Pcs, fd : Nat]
Paths == [tmp : Inodes \cup {None}, file : Inodes \cup {None}]

(* A lone writer's temporary file is another file than the settings, is    *)
(* empty before it is written and holds the whole configuration before it  *)
(* is renamed.                                                             *)
Alone(w) ==
  /\ told[w] # None => path.file # None /\ node[path.file] = told[w]
  /\ path.tmp # None => path.tmp # path.file
  /\ saver[w].pc \in {"write", "rename"} => path.tmp # None /\ saver[w].fd = path.tmp
  /\ saver[w].pc = "write" => node[saver[w].fd] = None
  /\ saver[w].pc = "rename" => node[saver[w].fd] = conf[w]
  /\ saver[w].pc # "rest" => conf[w] # None

FileInv ==
  /\ node \in [Inodes -> Configs \cup {None, Torn}]
  /\ path \in Paths
  /\ saver \in [Savers -> Saver]
  /\ conf \in [Savers -> Configs \cup {None}]
  /\ told \in [Savers -> Configs \cup {None}]
  /\ \A w \in Savers : saver[w].pc \in {"write", "rename"} => saver[w].fd \in Inodes
  /\ \A w \in Savers : Savers = {w} => Alone(w)

(* None is no inode, and a torn text is no configuration.                  *)
LEMMA Texts ==
  /\ None \notin Inodes /\ Inodes \subseteq Nat
  /\ Torn \notin Configs /\ None \notin Configs /\ Default \in Configs
<1>1. DOMAIN Torn = {"host"}
  BY DEF Torn
<1>2. \A c \in Configs : "port" \in DOMAIN c
  BY DEF Configs
<1> QED
  BY <1>1, <1>2, NoneAssumption DEF Inodes, Configs, Default

(* apply_updates makes a configuration of a configuration, refused or not. *)
LEMMA Applied ==
  ASSUME NEW c \in Configs, NEW u \in Updates
  PROVE  apply_updates(c, u).config \in Configs
<1> DEFINE h == IF u.host = None THEN c ELSE [c EXCEPT !.host = u.host]
           port == u.port % PortMod
           p == IF u.port = None THEN h ELSE [h EXCEPT !.port = port]
           d == IF u.dns = None THEN p ELSE [p EXCEPT !.dns = u.dns]
<1>1. h \in Configs
  BY DEF Configs
<1>2. u.port # None => port \in Nat
  BY NoneAssumption, HostServicesAssumption
<1> HIDE DEF port
<1>3. p \in Configs
  <2> HIDE DEF h
  <2> QED
    BY <1>1, <1>2 DEF Configs
<1>4. d \in Configs
  <2> HIDE DEF p
  <2> QED
    BY <1>3 DEF Configs
<1>5. [d EXCEPT !.version = 2] \in Configs
  <2> HIDE DEF d
  <2> QED
    BY <1>4 DEF Configs
<1>6. apply_updates(c, u).config \in {c, h, p, [d EXCEPT !.version = 2]}
  <2> HIDE DEF h, p, d
  <2> QED
    BY DEF apply_updates, h, p, d, port
<1> QED
  BY <1>1, <1>3, <1>5, <1>6

(* What load yields is a configuration.                                    *)
LEMMA Loaded == FileInv => load \in Configs
BY Texts DEF FileInv, load, Paths

(* A writer that changes only what it holds in memory while it rests       *)
LEMMA RestStep ==
  ASSUME FileInv, NEW w \in Savers, saver[w].pc = "rest",
         NEW c \in Configs \cup {None}, conf' = [conf EXCEPT ![w] = c],
         UNCHANGED <<node, path, saver, told>>
  PROVE  FileInv'
BY DEF FileInv, Alone

(* A save begins.                                                          *)
LEMMA ChangeStep ==
  ASSUME FileInv, NEW w \in Savers, NEW c \in Configs, Change(w, c)
  PROVE  FileInv'
<1>1. /\ conf' = [conf EXCEPT ![w] = c] /\ UNCHANGED <<node, path, told>>
      /\ saver' = [saver EXCEPT ![w] = [pc |-> "open", fd |-> 0]]
  BY DEF Change
<1>2. [pc |-> "open", fd |-> 0] \in Saver
  BY DEF Saver, Pcs
<1>3. /\ saver' \in [Savers -> Saver] /\ saver'[w].pc = "open"
      /\ \A v \in Savers : v # w => saver'[v] = saver[v]
  BY <1>1, <1>2 DEF FileInv
<1>4. conf' \in [Savers -> Configs \cup {None}] /\ conf'[w] # None
  BY <1>1, Texts DEF FileInv
<1>5. \A v \in Savers : Savers = {v} => Alone(v)'
  BY <1>1, <1>3, <1>4 DEF FileInv, Alone
<1> QED
  BY <1>1, <1>3, <1>4, <1>5 DEF FileInv

(* A save ends without effect, or its process does.                        *)
LEMMA GiveUpStep ==
  ASSUME FileInv, NEW w \in Savers, SaveFails(w) \/ Stop(w)
  PROVE  FileInv'
<1>1. /\ saver' = [saver EXCEPT ![w] = [pc |-> "rest", fd |-> 0]]
      /\ conf' \in {conf, [conf EXCEPT ![w] = None]} /\ UNCHANGED <<node, path, told>>
  BY DEF SaveFails, Stop
<1>2. [pc |-> "rest", fd |-> 0] \in Saver
  BY DEF Saver, Pcs
<1>3. /\ saver' \in [Savers -> Saver] /\ saver'[w].pc = "rest"
      /\ \A v \in Savers : v # w => saver'[v] = saver[v]
  BY <1>1, <1>2 DEF FileInv
<1>4. conf' \in [Savers -> Configs \cup {None}]
  BY <1>1 DEF FileInv
<1>5. \A v \in Savers : Savers = {v} => Alone(v)'
  BY <1>1, <1>3 DEF FileInv, Alone
<1> QED
  BY <1>1, <1>3, <1>4, <1>5 DEF FileInv

(* The temporary file is created or truncated; a lone writer's is not the  *)
(* settings file.                                                          *)
LEMMA OpenTmpStep ==
  ASSUME FileInv, NEW w \in Savers, OpenTmp(w)
  PROVE  FileInv'
<1>1. PICK i \in Inodes :
        /\ IF path.tmp # None THEN i = path.tmp
           ELSE path.file # i /\ \A v \in Savers : saver[v].fd # i
        /\ node' = [node EXCEPT ![i] = None]
        /\ path' = [path EXCEPT !.tmp = i]
        /\ saver' = [saver EXCEPT ![w] = [pc |-> "write", fd |-> i]]
  BY DEF OpenTmp
<1>2. saver[w].pc = "open" /\ UNCHANGED <<conf, told>>
  BY DEF OpenTmp
<1>3. i # None /\ i \in Nat
  BY Texts
<1>4. path' \in Paths /\ path'.tmp = i /\ path'.file = path.file
  BY <1>1 DEF FileInv, Paths
<1>5. [pc |-> "write", fd |-> i] \in Saver
  BY <1>3 DEF Saver, Pcs
<1>6. /\ saver' \in [Savers -> Saver] /\ saver'[w].pc = "write" /\ saver'[w].fd = i
      /\ \A v \in Savers : v # w => saver'[v] = saver[v]
  BY <1>1, <1>5 DEF FileInv
<1>7. /\ node' \in [Inodes -> Configs \cup {None, Torn}] /\ node'[i] = None
      /\ \A j \in Inodes : j # i => node'[j] = node[j]
  BY <1>1 DEF FileInv
<1>8. ASSUME Savers = {w} PROVE Alone(w)'
  <2>1. Alone(w)
    BY <1>8 DEF FileInv
  <2>2. i # path.file
    BY <1>1, <2>1 DEF Alone
  <2>3. path.file # None => path.file \in Inodes
    BY DEF FileInv, Paths
  <2>4. told'[w] # None => path'.file # None /\ node'[path'.file] = told'[w]
    BY <1>2, <1>4, <1>7, <2>1, <2>2, <2>3 DEF Alone
  <2>5. conf'[w] # None
    BY <1>2, <2>1 DEF Alone
  <2> QED
    BY <1>3, <1>4, <1>6, <1>7, <2>2, <2>4, <2>5 DEF Alone
<1>9. \A v \in Savers : saver'[v].pc \in {"write", "rename"} => saver'[v].fd \in Inodes
  BY <1>6 DEF FileInv
<1> QED
  BY <1>2, <1>4, <1>6, <1>7, <1>8, <1>9 DEF FileInv

(* The text is written: whole into an empty file.                          *)
LEMMA WriteTmpStep ==
  ASSUME FileInv, NEW w \in Savers, WriteTmp(w)
  PROVE  FileInv'
<1>1. PICK text \in IF node[saver[w].fd] = None THEN {conf[w]} ELSE {conf[w], Torn} :
        node' = [node EXCEPT ![saver[w].fd] = text]
  BY DEF WriteTmp
<1>2. /\ saver[w].pc = "write" /\ saver' = [saver EXCEPT ![w].pc = "rename"]
      /\ UNCHANGED <<path, conf, told>>
  BY DEF WriteTmp
<1>3. saver[w].fd \in Inodes
  BY <1>2 DEF FileInv
<1>4. text \in Configs \cup {None, Torn}
  BY <1>1 DEF FileInv
<1>5. /\ saver' \in [Savers -> Saver] /\ saver'[w].pc = "rename" /\ saver'[w].fd = saver[w].fd
      /\ \A v \in Savers : v # w => saver'[v] = saver[v]
  BY <1>2 DEF FileInv, Saver, Pcs
<1>6. /\ node' \in [Inodes -> Configs \cup {None, Torn}] /\ node'[saver[w].fd] = text
      /\ \A j \in Inodes : j # saver[w].fd => node'[j] = node[j]
  BY <1>1, <1>3, <1>4 DEF FileInv
<1>7. ASSUME Savers = {w} PROVE Alone(w)'
  <2>1. Alone(w) /\ text = conf[w]
    BY <1>1, <1>2, <1>7 DEF FileInv, Alone
  <2>2. path.file # None => path.file \in Inodes
    BY DEF FileInv, Paths
  <2>3. saver[w].fd = path.tmp /\ path.tmp # None /\ path.tmp # path.file /\ conf[w] # None
    BY <1>2, <2>1 DEF Alone
  <2>4. told'[w] # None => path'.file # None /\ node'[path'.file] = told'[w]
    BY <1>2, <1>6, <2>1, <2>2, <2>3 DEF Alone
  <2> QED
    BY <1>2, <1>5, <1>6, <2>1, <2>3, <2>4 DEF Alone
<1>8. \A v \in Savers : saver'[v].pc \in {"write", "rename"} => saver'[v].fd \in Inodes
  BY <1>3, <1>5 DEF FileInv
<1> QED
  BY <1>2, <1>5, <1>6, <1>7, <1>8 DEF FileInv

(* The rename publishes what was written.                                  *)
LEMMA RenameStep ==
  ASSUME FileInv, NEW w \in Savers, Rename(w)
  PROVE  FileInv'
<1>1. /\ saver[w].pc = "rename" /\ UNCHANGED <<node, conf>>
      /\ saver' = [saver EXCEPT ![w] = [pc |-> "rest", fd |-> 0]]
  BY DEF Rename
<1>2. [pc |-> "rest", fd |-> 0] \in Saver
  BY DEF Saver, Pcs
<1>3. /\ saver' \in [Savers -> Saver] /\ saver'[w].pc = "rest"
      /\ \A v \in Savers : v # w => saver'[v] = saver[v]
  BY <1>1, <1>2 DEF FileInv
<1>4. path.tmp # None => /\ path' = [tmp |-> None, file |-> path.tmp]
                         /\ told' = [told EXCEPT ![w] = conf[w]]
  BY DEF Rename
<1>5. path.tmp = None => path' = path /\ told' = told
  BY DEF Rename
<1>6. path' \in Paths /\ told' \in [Savers -> Configs \cup {None}]
  BY <1>4, <1>5 DEF FileInv, Paths
<1>7. ASSUME Savers = {w} PROVE Alone(w)'
  <2>1. Alone(w)
    BY <1>7 DEF FileInv
  <2>2. path.tmp # None /\ node[path.tmp] = conf[w]
    BY <1>1, <2>1 DEF Alone
  <2>3. path'.tmp = None /\ path'.file = path.tmp /\ told'[w] = conf[w]
    BY <1>4, <2>2 DEF FileInv
  <2> QED
    BY <1>1, <1>3, <2>2, <2>3 DEF Alone
<1> QED
  BY <1>1, <1>3, <1>6, <1>7 DEF FileInv

(* What any step of the writers leaves behind                              *)
LEMMA FileKept == FileInv /\ (FileNext \/ UNCHANGED fileVars) => FileInv'
<1> SUFFICES ASSUME FileInv, FileNext \/ UNCHANGED fileVars PROVE FileInv'
  OBVIOUS
<1>1. CASE UNCHANGED fileVars
  BY <1>1 DEF FileInv, Alone, fileVars
<1>2. ASSUME NEW w \in Savers, Load(w) PROVE FileInv'
  <2>1. conf' = [conf EXCEPT ![w] = load] /\ UNCHANGED <<node, path, saver, told>> /\ conf[w] = None
    BY <1>2 DEF Load
  <2>2. load \in Configs
    BY Loaded
  <2> HIDE DEF load
  <2>3. conf' \in [Savers -> Configs \cup {None}] /\ conf'[w] # None
    BY <2>1, <2>2, Texts DEF FileInv
  <2>4. Savers = {w} => Alone(w)'
    BY <2>1, <2>3 DEF FileInv, Alone
  <2> QED
    BY <2>1, <2>3, <2>4 DEF FileInv
<1>3. ASSUME NEW w \in Savers, conf[w] # None, net_reset(w) \/ net_persist(w) PROVE FileInv'
  BY <1>3, ChangeStep, Texts DEF net_reset, net_persist, FileInv
<1>4. ASSUME "block" \in Savers, NEW u \in Updates, net_set(u) PROVE FileInv'
  <2> DEFINE c == apply_updates(conf["block"], u).config
  <2>1. conf["block"] \in Configs /\ saver["block"].pc = "rest"
    BY <1>4 DEF net_set, Resting, FileInv
  <2>2. c \in Configs
    BY <2>1, Applied
  <2>3. \/ Change("block", c)
        \/ conf' = [conf EXCEPT !["block"] = c] /\ UNCHANGED <<node, path, saver, told>>
    BY <1>4 DEF net_set
  <2> HIDE DEF c
  <2> QED
    BY <1>4, <2>1, <2>2, <2>3, ChangeStep, RestStep
<1>5. ASSUME "gui" \in Savers, conf["gui"] # None,
             Change("gui", [conf["gui"] EXCEPT !.host = "gui"])
      PROVE  FileInv'
  <2>1. [conf["gui"] EXCEPT !.host = "gui"] \in Configs
    BY <1>5 DEF FileInv, Configs
  <2> QED
    BY <1>5, <2>1, ChangeStep
<1> QED
  BY <1>1, <1>2, <1>3, <1>4, <1>5, GiveUpStep, OpenTmpStep, WriteTmpStep, RenameStep DEF FileNext

-----------------------------------------------------------------------------
(* DHCP                                                                    *)

DhcpInv ==
  /\ \A m \in ether : m.type = "ack" => m.ip \in granted
  /\ LeaseAcknowledged

(* Every acknowledgement on its way is a server's, and an address is taken *)
(* from an acknowledgement only.                                           *)
LEMMA DhcpKept == DhcpInv /\ (DhcpNext \/ UNCHANGED dhcpVars) => DhcpInv'
<1> SUFFICES ASSUME DhcpInv, DhcpNext \/ UNCHANGED dhcpVars PROVE DhcpInv'
  OBVIOUS
<1> USE DEF DhcpInv, LeaseAcknowledged
<1>1. CASE UNCHANGED dhcpVars
  BY <1>1 DEF dhcpVars
<1>2. CASE connect \/ disconnect \/ Deadline
  BY <1>2 DEF connect, disconnect, Deadline, Down
<1>3. ASSUME NEW s \in Servers, Answer(s) PROVE DhcpInv'
  BY <1>3 DEF Answer
<1>4. ASSUME NEW s \in Servers, NEW ip \in Ips, Offer(s, ip) \/ OthersAck(s, ip) PROVE DhcpInv'
  BY <1>4 DEF Offer, OthersAck
<1>5. ASSUME NEW m \in ether, TakeOffer(m) \/ TakeAck(m) PROVE DhcpInv'
  <2>1. ether' = ether \ {m} /\ granted' = granted
    BY <1>5 DEF TakeOffer, TakeAck
  <2>2. link' = link \/ (m.type = "ack" /\ link'.ip = m.ip)
    BY <1>5 DEF TakeOffer, TakeAck
  <2> QED
    BY <2>1, <2>2
<1> QED
  BY <1>1, <1>2, <1>3, <1>4, <1>5 DEF DhcpNext

-----------------------------------------------------------------------------
(* Processes                                                               *)

Children    == [pid : Pids, serial : Nat]
Tables      == [Pids -> Processes \cup {None}]
Supervising == {"check", "drain", "term", "kill"}
Inits       == [pc : Supervising \cup {"bringup", "shell", "exec", "replaced", "idle"},
                back : {"bringup", "shell"}, child : Children \cup {None},
                tries : Nat, polls : Nat, shell : Nat]

(* In table t the pid of c is held by the process it was given to, alive   *)
(* or not, and o is to collect it.                                         *)
Holds(t, c, o) == t[c.pid] # None /\ t[c.pid].serial = c.serial /\ t[c.pid].owner = o

(* The supervised child and the jobs of the shell keep their pids, as only *)
(* PID 1 collects the one and nobody the others; the job started last is   *)
(* the one with the greatest serial number.                                *)
ProcInv ==
  /\ forks \in Nat
  /\ procs \in Tables
  /\ init \in Inits
  /\ jobs \subseteq Children
  /\ init.pc \in Supervising => init.child \in Children /\ Holds(procs, init.child, InitPid)
  /\ \A j \in jobs : Holds(procs, j, Unwaited) /\ j.serial < forks
  /\ jobs # {} => \E j \in jobs : \A k \in jobs : k.serial <= j.serial
  /\ SignalsOwnChild

(* A new process takes a free pid only.                                    *)
LEMMA ForkHolds ==
  ASSUME NEW t \in Tables, NEW pid \in Pids, t[pid] = None, NEW e \in Processes
  PROVE  /\ [t EXCEPT ![pid] = e] \in Tables
         /\ \A c \in Children : \A o : Holds(t, c, o) => Holds([t EXCEPT ![pid] = e], c, o)
BY DEF Tables, Children, Holds

(* Collecting a process concerns nobody but its own parent's children.     *)
LEMMA ReapHolds ==
  ASSUME NEW t \in Tables, NEW pid \in Pids
  PROVE  /\ [t EXCEPT ![pid] = None] \in Tables
         /\ \A c \in Children : \A o :
              Holds(t, c, o) /\ (t[pid].owner # o \/ pid # c.pid)
                => Holds([t EXCEPT ![pid] = None], c, o)
BY DEF Tables, Children, Holds

(* What a fork does to the table                                           *)
LEMMA SpawnedHolds ==
  ASSUME ProcInv, NEW owner \in Nat, NEW pid \in Pids, Spawned(owner, pid)
  PROVE  /\ procs' \in Tables /\ forks' \in Nat /\ forks' = forks + 1
         /\ Holds(procs', [pid |-> pid, serial |-> forks], owner)
         /\ [pid |-> pid, serial |-> forks] \in Children
         /\ \A c \in Children : \A o : Holds(procs, c, o) => Holds(procs', c, o)
<1> DEFINE e == [owner |-> owner, alive |-> TRUE, serial |-> forks]
<1>1. e \in Processes /\ e # None /\ e.serial = forks /\ e.owner = owner
  <2>1. forks \in Nat
    BY DEF ProcInv
  <2>2. e \in Processes
    BY <2>1 DEF Processes
  <2> QED
    BY <2>2, NoneAssumption
<1>2. procs[pid] = None /\ procs' = [procs EXCEPT ![pid] = e] /\ forks' = forks + 1
  BY DEF Spawned, FreePids
<1> HIDE DEF e
<1>3. procs'[pid] = e
  BY <1>2 DEF ProcInv, Tables
<1>4. /\ procs' \in Tables
      /\ \A c \in Children : \A o : Holds(procs, c, o) => Holds(procs', c, o)
  BY <1>1, <1>2, ForkHolds DEF ProcInv
<1> QED
  BY <1>1, <1>2, <1>3, <1>4 DEF Holds, Children, ProcInv

(* A step that neither signals nor starts anything of init or the shell    *)
(* keeps the invariant if it keeps the pids of their children.             *)
LEMMA TableStep ==
  ASSUME ProcInv, procs' \in Tables, forks' \in Nat, forks' >= forks,
         UNCHANGED <<init, jobs, hit>>,
         init.pc \in Supervising => Holds(procs', init.child, InitPid),
         \A j \in jobs : Holds(procs', j, Unwaited)
  PROVE  ProcInv'
BY DEF ProcInv, SignalsOwnChild, Children

(* The pids init and the shell know, and those that others collect          *)
LEMMA PidFacts ==
  /\ Pids \subseteq Nat /\ InitPid \notin Pids /\ ShellPid \notin Pids /\ Unwaited \notin Pids
  /\ InitPid # Unwaited /\ ShellPid # InitPid /\ ShellPid # Unwaited
  /\ InitPid \in Nat /\ ShellPid \in Nat /\ Unwaited \in Nat
BY HostServicesAssumption DEF InitPid, ShellPid, Unwaited

(* A process exits: its children go to PID 1, and it stays in the table.   *)
LEMMA ExitStep ==
  ASSUME ProcInv, NEW p \in Pids, Exits(p)
  PROVE  ProcInv'
<1>1. /\ procs' = [q \in Pids |->
           CASE q = p -> [procs[q] EXCEPT !.alive = FALSE]
             [] q # p /\ procs[q] # None /\ procs[q].owner = p -> [procs[q] EXCEPT !.owner = InitPid]
             [] OTHER -> procs[q]]
      /\ procs[p] # None /\ UNCHANGED <<forks, init, jobs, hit>>
  BY DEF Exits, Running
<1>2. ASSUME NEW q \in Pids, procs[q] # None
      PROVE  /\ procs'[q] \in Processes /\ procs'[q].serial = procs[q].serial
             /\ procs[q].owner # p => procs'[q].owner = procs[q].owner
  <2>1. procs[q] \in Processes
    BY <1>2 DEF ProcInv, Tables
  <2>2. CASE q = p
    <3>1. procs'[q] = [procs[q] EXCEPT !.alive = FALSE]
      BY <1>1, <2>2
    <3> QED
      BY <2>1, <3>1 DEF Processes
  <2>3. CASE q # p /\ procs[q].owner = p
    <3>1. procs'[q] = [procs[q] EXCEPT !.owner = InitPid]
      BY <1>1, <1>2, <2>3
    <3> QED
      BY <2>1, <2>3, <3>1, PidFacts DEF Processes
  <2>4. CASE q # p /\ procs[q].owner # p
    <3>1. procs'[q] = procs[q]
      BY <1>1, <1>2, <2>4
    <3> QED
      BY <2>1, <3>1
  <2> QED
    BY <2>2, <2>3, <2>4
<1>3. \A q \in Pids : procs[q] = None => procs'[q] = None
  BY <1>1
<1>4. procs' \in Tables
  BY <1>1, <1>2, <1>3 DEF Tables
<1>5. \A c \in Children : \A o : o # p /\ Holds(procs, c, o) => Holds(procs', c, o)
  <2>1. \A c \in Children : c.pid \in Pids
    BY DEF Children
  <2>2. \A q \in Processes : q # None
    BY NoneAssumption
  <2> QED
    BY <1>2, <2>1, <2>2 DEF Holds
<1>6. p # InitPid /\ p # Unwaited
  BY PidFacts
<1>7. /\ init.pc \in Supervising => Holds(procs', init.child, InitPid)
      /\ \A j \in jobs : Holds(procs', j, Unwaited)
  BY <1>5, <1>6 DEF ProcInv
<1> QED
  BY <1>1, <1>4, <1>7, TableStep DEF ProcInv

(* A process is collected that is neither the supervised child nor a job.  *)
LEMMA ReapStep ==
  ASSUME ProcInv, NEW p \in Pids, procs[p] # None, procs[p].owner # Unwaited,
         init.pc \in Supervising => procs[p].owner # InitPid \/ p # init.child.pid,
         procs' = [procs EXCEPT ![p] = None], UNCHANGED <<forks, init, jobs, hit>>
  PROVE  ProcInv'
<1>1. /\ procs' \in Tables
      /\ \A c \in Children : \A o :
           Holds(procs, c, o) /\ (procs[p].owner # o \/ p # c.pid) => Holds(procs', c, o)
  BY ReapHolds DEF ProcInv
<1>2. /\ init.pc \in Supervising => Holds(procs', init.child, InitPid)
      /\ \A j \in jobs : Holds(procs', j, Unwaited)
  BY <1>1 DEF ProcInv
<1>3. forks' \in Nat /\ forks' >= forks
  BY DEF ProcInv
<1> QED
  BY <1>1, <1>2, <1>3, TableStep

(* init moves on to a state without a supervised child.                    *)
LEMMA UnattendedStep ==
  ASSUME ProcInv, procs' \in Tables, init' \in Inits, init'.pc \notin Supervising,
         \A j \in jobs : Holds(procs', j, Unwaited), UNCHANGED <<forks, jobs, hit>>
  PROVE  ProcInv'
BY DEF ProcInv, SignalsOwnChild

(* init moves on with the child that it supervises; a signal it sends on   *)
(* the way reaches that child.                                             *)
LEMMA AttendedStep ==
  ASSUME ProcInv, init.pc \in Supervising, init' \in Inits, init'.child = init.child,
         init'.pc \in Supervising, hit' = hit \/ Signals(init.child),
         UNCHANGED <<procs, forks, jobs>>
  PROVE  ProcInv'
<1>1. SignalsOwnChild'
  BY DEF ProcInv, Holds, Signals, SignalsOwnChild
<1> QED
  BY <1>1 DEF ProcInv

(* What follows a collected child is a state without one.                  *)
LEMMA AfterChildInit ==
  ASSUME ProcInv
  PROVE  AfterChild \in Inits /\ AfterChild.pc \notin Supervising
<1>1. init \in Inits
  BY DEF ProcInv
<1>2. /\ [init EXCEPT !.pc = "exec", !.child = None, !.tries = 0] \in Inits
      /\ [init EXCEPT !.pc = "idle", !.child = None] \in Inits
  BY <1>1 DEF Inits
<1>3. [init EXCEPT !.pc = "shell", !.child = None, !.tries = init.tries + 1] \in Inits
  <2>1. init.tries + 1 \in Nat
    BY <1>1 DEF Inits
  <2>2. ASSUME NEW t \in Nat
        PROVE  [init EXCEPT !.pc = "shell", !.child = None, !.tries = t] \in Inits
    BY <1>1 DEF Inits
  <2> QED
    BY <2>1, <2>2
<1>4. ASSUME NEW x \in {"idle", "shell"}
      PROVE  [init EXCEPT !.pc = x, !.child = None, !.shell = init.shell + 1, !.tries = 0] \in Inits
  <2>1. init.shell + 1 \in Nat
    BY <1>1 DEF Inits
  <2>2. ASSUME NEW t \in Nat
        PROVE  [init EXCEPT !.pc = x, !.child = None, !.shell = t, !.tries = 0] \in Inits
    BY <1>1 DEF Inits
  <2> QED
    BY <2>1, <2>2
<1>5. AfterChild \in Inits
  BY <1>2, <1>3, <1>4 DEF AfterChild
<1>6. AfterChild.pc \in {"exec", "idle", "shell"}
  BY <1>1 DEF AfterChild, Inits
<1> QED
  BY <1>5, <1>6 DEF Supervising

(* Collecting while a child is supervised                                  *)
LEMMA CollectStep ==
  ASSUME ProcInv, init.pc \in Supervising, NEW p \in Zombies,
         procs' = [procs EXCEPT ![p] = None],
         init' = IF p = init.child.pid THEN AfterChild ELSE init,
         UNCHANGED <<forks, jobs, hit>>
  PROVE  ProcInv'
<1>1. p \in Pids /\ procs[p] # None /\ procs[p].owner = InitPid
  BY DEF Zombies
<1>2. CASE p # init.child.pid
  BY <1>1, <1>2, PidFacts, ReapStep
<1>3. CASE p = init.child.pid
  <2>1. init' \in Inits /\ init'.pc \notin Supervising
    BY <1>3, AfterChildInit
  <2>2. /\ procs' \in Tables
        /\ \A c \in Children : \A o :
             Holds(procs, c, o) /\ (procs[p].owner # o \/ p # c.pid) => Holds(procs', c, o)
    BY <1>1, ReapHolds DEF ProcInv
  <2>3. \A j \in jobs : Holds(procs', j, Unwaited)
    BY <1>1, <2>2, PidFacts DEF ProcInv
  <2> QED
    BY <2>1, <2>2, <2>3, UnattendedStep
<1> QED
  BY <1>2, <1>3

(* PID 1: bring-up, supervision, shutdown and the emergency shells         *)
LEMMA InitStep ==
  ASSUME ProcInv, InitSpawns \/ SuperviseCheck \/ SuperviseDrain \/ ShutdownChild \/ Exec
  PROVE  ProcInv'
<1>1. init \in Inits
  BY DEF ProcInv
<1>2. CASE InitSpawns
  <2>1. ASSUME NEW pid \in Pids, Spawned(InitPid, pid),
               init' = [init EXCEPT !.pc = "check", !.back = init.pc,
                                    !.child = [pid |-> pid, serial |-> forks]]
        PROVE  ProcInv'
    <3> DEFINE c == [pid |-> pid, serial |-> forks]
    <3>1. /\ procs' \in Tables /\ forks' \in Nat /\ forks' = forks + 1
          /\ Holds(procs', c, InitPid) /\ c \in Children
          /\ \A d \in Children : \A o : Holds(procs, d, o) => Holds(procs', d, o)
      BY <2>1, SpawnedHolds, PidFacts
    <3> HIDE DEF c
    <3>2. init.pc \in {"bringup", "shell"} /\ UNCHANGED <<jobs, hit>>
      BY <1>2 DEF InitSpawns
    <3>3. init' = [init EXCEPT !.pc = "check", !.back = init.pc, !.child = c]
      BY <2>1 DEF c
    <3>4. init' \in Inits /\ init'.child = c
      BY <1>1, <3>1, <3>2, <3>3 DEF Inits, Supervising
    <3>5. \A j \in jobs : Holds(procs', j, Unwaited) /\ j.serial < forks'
      BY <3>1 DEF ProcInv, Children
    <3> QED
      BY <3>1, <3>2, <3>4, <3>5 DEF ProcInv, SignalsOwnChild
  <2>2. ASSUME UNCHANGED <<procs, forks>>,
               init' = IF init.pc = "bringup" THEN [init EXCEPT !.pc = "exec"]
                       ELSE [init EXCEPT !.shell = @ + 1, !.tries = 0,
                                         !.pc = IF init.shell = Len(Shells) THEN "idle" ELSE "shell"]
        PROVE  ProcInv'
    <3>1. ASSUME NEW x \in {"idle", "shell"}
          PROVE  /\ [init EXCEPT !.shell = init.shell + 1, !.tries = 0, !.pc = x] \in Inits
                 /\ [init EXCEPT !.shell = init.shell + 1, !.tries = 0, !.pc = x].pc = x
      <4>1. init.shell + 1 \in Nat
        BY <1>1 DEF Inits
      <4>2. ASSUME NEW t \in Nat
            PROVE  /\ [init EXCEPT !.shell = t, !.tries = 0, !.pc = x] \in Inits
                   /\ [init EXCEPT !.shell = t, !.tries = 0, !.pc = x].pc = x
        BY <1>1 DEF Inits
      <4> QED
        BY <4>1, <4>2
    <3>2. [init EXCEPT !.pc = "exec"] \in Inits /\ [init EXCEPT !.pc = "exec"].pc = "exec"
      BY <1>1 DEF Inits
    <3>3. init' \in Inits /\ init'.pc \notin Supervising
      BY <2>2, <3>1, <3>2 DEF Supervising
    <3> QED
      BY <1>2, <2>2, <3>3, UnattendedStep DEF InitSpawns, ProcInv
  <2> QED
    BY <1>2, <2>1, <2>2 DEF InitSpawns
<1>3. CASE SuperviseCheck
  <2>1. init.pc \in Supervising /\ UNCHANGED <<procs, forks, jobs>>
    BY <1>3 DEF SuperviseCheck, Supervising
  <2>2. /\ init' \in {[init EXCEPT !.pc = "term", !.polls = 0], [init EXCEPT !.pc = "drain"]}
        /\ hit' = hit \/ Signals(init.child)
    BY <1>3 DEF SuperviseCheck
  <2>3. init' \in Inits /\ init'.child = init.child /\ init'.pc \in Supervising
    <3>1. CASE init' = [init EXCEPT !.pc = "term", !.polls = 0]
      BY <1>1, <3>1 DEF Inits, Supervising
    <3>2. CASE init' = [init EXCEPT !.pc = "drain"]
      BY <1>1, <3>2 DEF Inits, Supervising
    <3> QED
      BY <2>2, <3>1, <3>2
  <2> QED
    BY <2>1, <2>2, <2>3, AttendedStep
<1>4. CASE SuperviseDrain
  <2>1. init.pc \in Supervising /\ UNCHANGED <<forks, jobs, hit>>
    BY <1>4 DEF SuperviseDrain, Supervising
  <2>2. CASE init' = [init EXCEPT !.pc = "check"] /\ UNCHANGED procs
    <3>1. init' \in Inits /\ init'.child = init.child /\ init'.pc \in Supervising
      BY <1>1, <2>2 DEF Inits, Supervising
    <3> QED
      BY <2>1, <2>2, <3>1, AttendedStep
  <2> QED
    BY <1>4, <2>1, <2>2, CollectStep DEF SuperviseDrain
<1>5. CASE ShutdownChild
  <2>1. init.pc \in Supervising /\ UNCHANGED <<forks, jobs>>
    BY <1>5 DEF ShutdownChild, Supervising
  <2>2. CASE /\ hit' = hit \/ Signals(init.child)
             /\ UNCHANGED procs
             /\ init' \in {[init EXCEPT !.pc = "kill"], [init EXCEPT !.polls = init.polls + 1],
                           [init EXCEPT !.polls = init.polls]}
    <3>1. init' \in Inits /\ init'.child = init.child /\ init'.pc \in Supervising
      BY <1>1, <2>1, <2>2 DEF Inits, Supervising
    <3> QED
      BY <2>1, <2>2, <3>1, AttendedStep
  <2>3. ASSUME NEW p \in Zombies, procs' = [procs EXCEPT ![p] = None],
               init' = IF p = init.child.pid THEN AfterChild ELSE init, UNCHANGED hit
        PROVE  ProcInv'
    BY <2>1, <2>3, CollectStep
  <2> QED
    BY <1>5, <2>2, <2>3 DEF ShutdownChild
<1>6. CASE Exec
  <2>1. /\ init' \in {[init EXCEPT !.pc = "replaced"], [init EXCEPT !.pc = "shell", !.tries = 0]}
        /\ UNCHANGED <<procs, forks, jobs, hit>>
    BY <1>6 DEF Exec
  <2>2. init' \in Inits /\ init'.pc \notin Supervising
    <3>1. CASE init' = [init EXCEPT !.pc = "replaced"]
      BY <1>1, <3>1 DEF Inits, Supervising
    <3>2. CASE init' = [init EXCEPT !.pc = "shell", !.tries = 0]
      BY <1>1, <3>2 DEF Inits, Supervising
    <3> QED
      BY <2>1, <3>1, <3>2
  <2> QED
    BY <2>1, <2>2, UnattendedStep DEF ProcInv
<1> QED
  BY <1>2, <1>3, <1>4, <1>5, <1>6

(* No job has lost its pid, so none is dropped.                            *)
LEMMA AllRetained == ProcInv => Retained = jobs
BY DEF ProcInv, Retained, Holds

(* The shell: jobs, commands in the foreground, fg and bg                  *)
LEMMA ShellStep ==
  ASSUME ProcInv,
         \/ \E p \in Pids : Background(p) \/ StartForeground(p)
         \/ \E fg \in BOOLEAN : Resume(fg)
  PROVE  ProcInv'
<1>1. Retained = jobs
  BY AllRetained
<1>2. ASSUME NEW p \in Pids, Background(p) PROVE ProcInv'
  <2> DEFINE c == [pid |-> p, serial |-> forks]
  <2>1. jobs' = jobs \cup {c} /\ UNCHANGED <<init, hit>>
    BY <1>1, <1>2 DEF Background
  <2>2. /\ procs' \in Tables /\ forks' \in Nat /\ forks' = forks + 1
        /\ Holds(procs', c, Unwaited) /\ c \in Children
        /\ \A d \in Children : \A o : Holds(procs, d, o) => Holds(procs', d, o)
    BY <1>2, SpawnedHolds, PidFacts DEF Background
  <2>3. c.serial = forks
    BY SMTT(30)
  <2> HIDE DEF c
  <2>4. \A j \in jobs' : j \in Children /\ Holds(procs', j, Unwaited) /\ j.serial < forks'
                         /\ j.serial <= c.serial
    BY SMTT(30), <2>1, <2>2, <2>3 DEF ProcInv, Children
  <2>5. init'.pc \in Supervising => init'.child \in Children /\ Holds(procs', init'.child, InitPid)
    BY <2>1, <2>2 DEF ProcInv
  <2> QED
    BY <2>1, <2>2, <2>4, <2>5 DEF ProcInv, SignalsOwnChild
<1>3. ASSUME NEW p \in Pids, StartForeground(p) PROVE ProcInv'
  <2>1. PICK owner \in {ShellPid, Unwaited} : Spawned(owner, p)
    BY <1>3 DEF StartForeground
  <2>2. UNCHANGED <<init, jobs, hit>>
    BY <1>1, <1>3 DEF StartForeground
  <2>3. /\ procs' \in Tables /\ forks' \in Nat /\ forks' = forks + 1
        /\ \A d \in Children : \A o : Holds(procs, d, o) => Holds(procs', d, o)
    BY <2>1, SpawnedHolds, PidFacts
  <2>4. /\ init.pc \in Supervising => Holds(procs', init.child, InitPid)
        /\ \A j \in jobs : Holds(procs', j, Unwaited)
    BY <2>3 DEF ProcInv
  <2>5. forks' >= forks
    BY <2>3 DEF ProcInv
  <2> QED
    BY <2>2, <2>3, <2>4, <2>5, TableStep
<1>4. ASSUME NEW fg \in BOOLEAN, Resume(fg) PROVE ProcInv'
  <2>1. LastJob \in jobs
    BY <1>1, <1>4 DEF Resume, LastJob, ProcInv
  <2>2. Signals(LastJob) /\ jobs' \in {{}, jobs} /\ UNCHANGED <<procs, forks, init>>
    BY <1>1, <1>4 DEF Resume
  <2> HIDE DEF LastJob
  <2>3. SignalsOwnChild'
    BY <2>1, <2>2 DEF Signals, ProcInv, Holds, SignalsOwnChild
  <2> QED
    BY <2>2, <2>3 DEF ProcInv
<1> QED
  BY <1>2, <1>3, <1>4

(* What any step of any process leaves behind                              *)
LEMMA ProcKept == ProcInv /\ (ProcNext \/ UNCHANGED procVars) => ProcInv'
<1> SUFFICES ASSUME ProcInv, ProcNext \/ UNCHANGED procVars PROVE ProcInv'
  OBVIOUS
<1>1. CASE UNCHANGED procVars \/ handle_term
  BY <1>1 DEF ProcInv, SignalsOwnChild, procVars, handle_term
<1>2. ASSUME NEW p \in Pids, NEW q \in Pids, ChildForks(p, q) PROVE ProcInv'
  <2>1. Spawned(p, q) /\ UNCHANGED <<init, jobs, hit>>
    BY <1>2 DEF ChildForks
  <2>2. /\ procs' \in Tables /\ forks' \in Nat /\ forks' = forks + 1
        /\ \A d \in Children : \A o : Holds(procs, d, o) => Holds(procs', d, o)
    BY <2>1, SpawnedHolds, PidFacts
  <2>3. /\ init.pc \in Supervising => Holds(procs', init.child, InitPid)
        /\ \A j \in jobs : Holds(procs', j, Unwaited)
    BY <2>2 DEF ProcInv
  <2>4. forks' >= forks
    BY <2>2 DEF ProcInv
  <2> QED
    BY <2>1, <2>2, <2>3, <2>4, TableStep
<1>3. ASSUME NEW p \in Pids, ParentWaits(p) \/ Foreground(p) PROVE ProcInv'
  <2>1. /\ procs[p] # None /\ procs[p].owner # Unwaited /\ procs[p].owner # InitPid
        /\ procs' = [procs EXCEPT ![p] = None] /\ UNCHANGED <<forks, init, jobs, hit>>
    BY <1>3, PidFacts DEF ParentWaits, Foreground
  <2> QED
    BY <2>1, ReapStep
<1>4. CASE ReapAny
  <2>1. PICK p \in Zombies : procs' = [procs EXCEPT ![p] = None]
    BY <1>4 DEF ReapAny
  <2>2. p \in Pids /\ procs[p] # None /\ procs[p].owner = InitPid
    BY DEF Zombies
  <2>3. init.pc \notin Supervising /\ UNCHANGED <<forks, init, jobs, hit>>
    BY <1>4 DEF ReapAny, Supervising
  <2> QED
    BY <2>1, <2>2, <2>3, ReapStep, PidFacts
<1> QED
  BY <1>1, <1>2, <1>3, <1>4, ExitStep, InitStep, ShellStep DEF ProcNext

-----------------------------------------------------------------------------
HostInv == VaultInv /\ FileInv /\ DhcpInv /\ ProcInv

(* Nothing is stored, saved, connected or started at first.                *)
LEMMA InitHost == Init => HostInv
<1> SUFFICES ASSUME Init PROVE HostInv
  OBVIOUS
<1>1. VaultInv
  BY DEF Init, VaultInit, NoVault, VaultInv, VaultReadable, Tags
<1>2. FileInv
  BY Texts DEF Init, FileInit, FileInv, Alone, Paths, Saver, Pcs
<1>3. DhcpInv
  BY DEF Init, DhcpInit, DhcpInv, LeaseAcknowledged, Down
<1>4. ProcInv
  <2>1. init \in Inits /\ init.pc = "bringup"
    BY DEF Init, ProcInit, Inits
  <2> QED
    BY <2>1, NoneAssumption DEF Init, ProcInit, ProcInv, Supervising, Tables, SignalsOwnChild
<1> QED
  BY <1>1, <1>2, <1>3, <1>4 DEF HostInv

(* The services share no state: each keeps its own part of the invariant.  *)
LEMMA NextHost == HostInv /\ [Next]_vars => HostInv'
<1> SUFFICES ASSUME HostInv, [Next]_vars PROVE HostInv'
  OBVIOUS
<1>1. VaultNext \/ UNCHANGED vaultVars
  BY DEF Next, FileNext, DhcpNext, ProcNext, vars, vaultVars
<1>2. FileNext \/ UNCHANGED fileVars
  BY DEF Next, VaultNext, DhcpNext, ProcNext, vars, fileVars
<1>3. DhcpNext \/ UNCHANGED dhcpVars
  BY DEF Next, VaultNext, FileNext, ProcNext, vars, dhcpVars
<1>4. ProcNext \/ UNCHANGED procVars
  BY DEF Next, VaultNext, FileNext, DhcpNext, vars, procVars
<1> QED
  BY <1>1, <1>2, <1>3, <1>4, VaultKept, FileKept, DhcpKept, ProcKept DEF HostInv

(* The invariant implies the four properties.                              *)
LEMMA HostInvSound == HostInv => HostSound
<1> SUFFICES ASSUME HostInv PROVE HostSound
  OBVIOUS
<1>1. SettingsKept
  <2> SUFFICES ASSUME NEW w \in Savers, Savers = {w}, told[w] # None
               PROVE  path.file # None /\ load = told[w]
    BY DEF SettingsKept
  <2>1. path.file # None /\ node[path.file] = told[w] /\ told[w] \in Configs
    BY DEF HostInv, FileInv, Alone
  <2> QED
    BY <2>1, Texts DEF load
<1> QED
  BY <1>1 DEF HostInv, VaultInv, DhcpInv, ProcInv, HostSound

(* For any policies, secrets and number of re-keyings every stored secret  *)
(* reads back (keyring.rs); a lone writer finds after any crash what it    *)
(* last reported as saved (store.rs); a connected link has an acknowledged *)
(* address (dhcp.rs); and no signal of PID 1 or the shell reaches a        *)
(* process that took over a pid (aios-init, aios-shell).                   *)
THEOREM HostIsSound == Spec => []HostSound
<1>1. Spec => []HostInv
  BY InitHost, NextHost, PTL DEF Spec
<1> QED
  BY <1>1, HostInvSound, PTL
=============================================================================
