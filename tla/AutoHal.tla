------------------------------ MODULE AutoHal ------------------------------
(***************************************************************************)
(* Hardware detection and driver provisioning: what aios-hal's hardware.rs     *)
(* and aios's hw_probe.rs find on a host, the hot-plug monitor thread of        *)
(* aios-autohal (hotplug.rs) with its native listener (native.rs), and the      *)
(* engine (engine.rs, registry.rs, fetcher.rs, adapter.rs) that the front       *)
(* ends drive: provision, fall back to the generic driver, count failures,      *)
(* roll back, uninstall, and keep the fingerprint index on disk.                *)
(*                                                                            *)
(* The engine lives on the UI thread and every call of it blocks, so one call   *)
(* is one step; the monitor thread, the listener and the disk move between      *)
(* the calls.  Driver code is its id; a cached file is good, bad or absent.     *)
(***************************************************************************)
EXTENDS Integers, Sequences, FiniteSets, SequencesExt

CONSTANTS
    Devices,    \* fingerprints
    Bus,        \* fingerprint -> "usb", "hub", "pci", "nvme", "sata" or "thunderbolt"
    Key,        \* fingerprint -> lookup key; NVMe drives share one, whatever their model
    Seen,       \* devices the host's tools list in the form the parsers read
    Builtin,    \* fingerprint -> driver of the built-in catalog, or None
    Remote,     \* fingerprint -> drivers a mirror may offer
    Caps,       \* capabilities a manifest may ask for
    MaxFail,    \* max_consecutive_failures
    Hosts,      \* machines: [os, smi, smiLine, rocm, wmic, lspci, npu, avx2, avx512, ram, meminfo]
    Faults,     \* what may go wrong: "start", "generic", "save"
    MaxEvents, MaxStrikes, \* bounds: events in flight, failures counted
    Generic,    \* GENERIC_FALLBACK_ID
    None

VARIABLES
    host,     \* the machine the program runs on
    tier,     \* hw_profile.ai_tier on the console
    attached, \* devices on the buses
    profile,  \* AiosApp.hardware: the snapshot taken at start
    mon,      \* [ready, prev, pushed, moved, due] of the monitor thread
    events,   \* the channel from the monitor to the front end
    eng,      \* [devices, inst, entries, failures, over, disk] of the engine
    saved,    \* index.json
    drift,    \* devices that the monitor and the engine were told of differently
    pump      \* [pc, stop, hwnd, msgs, drop] of the native listener

engineVars == <<host, tier, attached, profile, mon, events, eng, saved, drift>>
vars == <<host, tier, attached, profile, mon, events, eng, saved, drift, pump>>

Drivers == (UNION {Remote[f] : f \in Devices} \cup {Builtin[f] : f \in Devices}) \ {None}
Keys == {Key[f] : f \in Devices}

AutoHalAssumption ==
    /\ IsFiniteSet(Devices) /\ Seen \subseteq Devices
    /\ \A f \in Devices : Remote[f] \subseteq Drivers
    /\ Generic \notin Drivers /\ None \notin Drivers
    /\ MaxFail \in Nat \ {0} /\ MaxEvents \in Nat /\ MaxStrikes \in Nat
    /\ Faults \subseteq {"start", "generic", "save"}

-----------------------------------------------------------------------------
(* What a host is found to have.  A tool is missing, answers, or answers with   *)
(* a line the parser rejects.                                                   *)
detect_gpu_nvidia(h) == h.smi /\ h.smiLine = 4
detect_gpu_amd(h) == h.rocm
detect_gpu_wmic(h) == h.os = "windows" /\ h.wmic
detect_gpu(h) == detect_gpu_nvidia(h) \/ detect_gpu_amd(h) \/ detect_gpu_wmic(h)

\* hw_probe.rs: the HAL's answer, else nvidia-smi asked for two fields, else
\* lspci; a tool that cannot be started ends the search.
probe_gpu(h) == detect_gpu(h) \/ (h.smi /\ (h.smiLine = 2 \/ h.lspci))

\* The processor's name admits the search, a device of that maker ends it.
detect_npu_intel(h) == h.npu = "intel"
detect_npu_qualcomm(h) == h.npu = "qualcomm"
detect_npu_windows_pnp(h) == h.os = "windows" /\ h.npu # "none"
detect_npu(h) == detect_npu_intel(h) \/ detect_npu_qualcomm(h) \/ detect_npu_windows_pnp(h)

\* No size when the tool or file that tells it is missing.
detect_memory(h) == IF h.meminfo THEN h.ram ELSE 0

\* AiTier::from_profile of the HAL.
from_profile(h) ==
    IF detect_npu(h) /\ detect_gpu(h) /\ h.avx512 /\ detect_memory(h) >= 16 THEN 1
    ELSE IF h.avx2 /\ detect_memory(h) >= 4 THEN 2 ELSE 3

\* hw_probe.rs: determine_ai_tier.
determine_ai_tier(h) ==
    IF (h.avx512 \/ (h.avx2 /\ h.ram >= 16)) /\ probe_gpu(h) /\ h.ram >= 8 THEN 1
    ELSE IF h.avx2 /\ h.ram >= 4 THEN 2 ELSE 3

\* The devices of each bus that the scans list: a USB entry without vendor and
\* product is an artifact, and PCI is scanned on Windows only.
detect_usb == {f \in attached \cap Seen : Bus[f] \in {"usb", "hub"}}
detect_storage == {f \in attached : Bus[f] \in {"nvme", "sata"}}
detect_thunderbolt == {f \in attached : Bus[f] = "thunderbolt"}
scan_pci == {f \in attached \cap Seen : host.os = "windows" /\ Bus[f] = "pci"}

\* Hubs, SATA disks and Thunderbolt devices have no fingerprint.
extract_fingerprints(found) == {f \in found : Bus[f] \in {"usb", "pci", "nvme"}}

\* HardwareProfile::detect, its devices as fingerprints.
detect == extract_fingerprints(detect_usb \cup detect_storage \cup detect_thunderbolt \cup scan_pci)

-----------------------------------------------------------------------------
(* The engine.  Its operators take and return engine records; a call that may  *)
(* end in several ways returns the set of the results.                          *)
Tracked(e) == {e.devices[i].fp : i \in DOMAIN e.devices}

upsert_device(e, f, d, state, caps) ==
    IF f \in Tracked(e)
    THEN [e EXCEPT !.devices = [i \in DOMAIN @ |->
             IF @[i].fp = f THEN [@[i] EXCEPT !.driver = d, !.state = state, !.caps = caps] ELSE @[i]]]
    ELSE [e EXCEPT !.devices = Append(@, [fp |-> f, driver |-> d, state |-> state, caps |-> caps])]

granted_capabilities(e, d) == IF e.over[d] # None THEN e.over[d] ELSE Caps

\* activate_generic: the built-in module starts, or the device is Failed.
activate_generic(e, f) ==
    {upsert_device([e EXCEPT !.inst = @ \cup {<<Generic, Key[f]>>}], f, Generic, "generic", {})}
    \cup {upsert_device(e, f, Generic, "failed", {}) : x \in Faults \cap {"generic"}}

\* activate: the module is instantiated and started, or the device falls back.
activate(e, f, d) ==
    {upsert_device([e EXCEPT !.inst = @ \cup {<<d, Key[f]>>}], f, d, "active", granted_capabilities(e, d))}
    \cup (IF "start" \in Faults THEN activate_generic(e, f) ELSE {})

remove_driver(e, d) ==
    [e EXCEPT !.entries = [k \in Keys |-> IF @[k] = d THEN None ELSE @[k]],
              !.failures[d] = 0, !.over[d] = None, !.disk[d] = "absent"]

\* save_driver: files, then the mapping and a fresh failure count, then index.json.
save_driver(e, f, d) ==
    [e EXCEPT !.disk[d] = "good", !.entries[Key[f]] = d, !.failures[d] = 0]

\* A driver published as source is rewritten and compiled, if a toolchain is there.
compile(d) == {d, None}

\* find_driver: the built-in catalog first, then the mirrors; None when every
\* one of them fails, the hash differs, or the source does not compile.
find_driver(f) == IF Builtin[f] # None THEN {Builtin[f]} ELSE UNION {compile(d) : d \in Remote[f]} \cup {None}

\* Steps 2 to 5 of provision_dedicated; a failed save leaves half-written files.
FetchAndActivate(e, f) ==
    UNION {IF d = None THEN activate_generic(e, f)
           ELSE activate(save_driver(e, f, d), f, d)
                \cup (IF "save" \in Faults THEN activate_generic([e EXCEPT !.disk[d] = "bad"], f) ELSE {})
           : d \in find_driver(f)}

\* provision: the cached driver if it is on disk and its hash matches.
provision(e, f) ==
    LET d == e.entries[Key[f]]
    IN IF d = None \/ (d # None /\ e.disk[d] = "absent") THEN FetchAndActivate(e, f)
       ELSE IF e.disk[d] = "good" THEN activate(e, f, d)
       ELSE FetchAndActivate(remove_driver(e, d), f)

remove_device(e, f) ==
    IF f \notin Tracked(e) THEN e
    ELSE LET i == CHOOSE i \in DOMAIN e.devices : e.devices[i].fp = f
         IN [e EXCEPT !.inst = @ \ {<<e.devices[i].driver, Key[f]>>},
                      !.devices = RemoveAt(@, i),
                      !.entries[Key[f]] = None]

\* rescan: every device found and not tracked yet, in turn.
rescan(e, found) ==
    FoldLeft(LAMBDA es, f : UNION {provision(x, f) : x \in es}, {e}, SetToSeq(found \ Tracked(e)))

RollsBackFirst(e, d) ==
    LET n == e.failures[d] + 1
        hit == IF n >= MaxFail THEN {f \in Tracked(e) : \E i \in DOMAIN e.devices :
                                        e.devices[i].fp = f /\ e.devices[i].driver = d} ELSE {}
        off == [e EXCEPT !.failures[d] = n, !.inst = @ \ {<<d, Key[f]>> : f \in hit},
                         !.entries = [k \in Keys |-> IF k \in {Key[f] : f \in hit} THEN None ELSE @[k]]]
    IN IF hit = {} THEN {off} ELSE activate_generic(off, CHOOSE f \in hit : TRUE)
\* record_failure: from MaxFail failures on, every device on d goes generic.
record_failure(e, d) ==
    LET n == e.failures[d] + 1
        hit == IF n >= MaxFail THEN {f \in Tracked(e) : \E i \in DOMAIN e.devices :
                                        e.devices[i].fp = f /\ e.devices[i].driver = d} ELSE {}
        off == [e EXCEPT !.failures[d] = n, !.inst = @ \ {<<d, Key[f]>> : f \in hit},
                         !.entries = [k \in Keys |-> IF k \in {Key[f] : f \in hit} THEN None ELSE @[k]]]
    IN FoldLeft(LAMBDA es, f : UNION {activate_generic(x, f) : x \in es}, {off}, SetToSeq(hit))

\* rollback_to_generic: the mapping goes in memory; index.json is not written.
rollback_to_generic(e, f) ==
    LET i == CHOOSE i \in DOMAIN e.devices : e.devices[i].fp = f
    IN activate_generic([e EXCEPT !.inst = @ \ {<<e.devices[i].driver, Key[f]>>},
                                  !.entries[Key[f]] = None], f)

uninstall_driver(e, d) ==
    LET mine(r) == r.driver # d
    IN remove_driver([e EXCEPT
           !.inst = @ \ {<<d, Key[e.devices[i].fp]>> : i \in {j \in DOMAIN e.devices : e.devices[j].driver = d}},
           !.devices = SelectSeq(@, mine)], d)

\* set_cap_override: the first device on the driver shows the new grant.
set_cap_override(e, d, caps) ==
    LET mine == {i \in DOMAIN e.devices : e.devices[i].driver = d}
        o == [e EXCEPT !.over[d] = caps]
    IN IF mine = {} THEN o
       ELSE [o EXCEPT !.devices[CHOOSE i \in mine : \A j \in mine : i <= j].caps = caps]

Index(e) == [entries |-> e.entries, failures |-> e.failures, over |-> e.over]

-----------------------------------------------------------------------------
(* The front ends' calls.                                                      *)
Saves == saved' = Index(eng')

\* hw_poll_hotplug: the events in order, one engine call each.
hw_poll_hotplug ==
    /\ events # <<>>
    /\ LET ev == Head(events)
       IN eng' \in (IF ev.add THEN provision(eng, ev.fp) ELSE {remove_device(eng, ev.fp)})
    /\ events' = Tail(events) /\ Saves
    /\ UNCHANGED <<host, tier, attached, profile, mon, drift, pump>>

\* The Rescan button of the GUI (the start-up snapshot) and refresh_hw of the
\* console (a fresh one, with the tier probed again).
Rescan(found) ==
    /\ eng' \in rescan(eng, found) /\ Saves
    /\ drift' = drift \cup ((found \ Tracked(eng)) \ mon.prev)
    /\ UNCHANGED <<host, attached, profile, mon, events, pump>>

apply_rescan == Rescan(profile) /\ UNCHANGED tier
refresh_hw == Rescan(detect) /\ tier' = determine_ai_tier(host)

\* Update Driver, Rollback to Generic, Uninstall and the security matrix.
Update(f) ==
    /\ f \in Tracked(eng) /\ eng' \in provision(eng, f) /\ Saves
    /\ UNCHANGED <<host, tier, attached, profile, mon, events, drift, pump>>

Rollback(f) ==
    /\ f \in Tracked(eng) /\ eng' \in rollback_to_generic(eng, f)
    /\ UNCHANGED <<host, tier, attached, profile, mon, events, saved, drift, pump>>

Uninstall(f) ==
    /\ \E i \in DOMAIN eng.devices :
         /\ eng.devices[i].fp = f /\ eng.devices[i].driver # Generic
         /\ eng' = uninstall_driver(eng, eng.devices[i].driver)
    /\ drift' = drift \cup (Tracked(eng) \ Tracked(eng'))
    /\ Saves
    /\ UNCHANGED <<host, tier, attached, profile, mon, events, pump>>

SetCapabilities(f) ==
    /\ \E i \in DOMAIN eng.devices, caps \in SUBSET Caps :
         /\ eng.devices[i].fp = f /\ eng.devices[i].driver # Generic
         /\ eng' = set_cap_override(eng, eng.devices[i].driver, caps)
    /\ Saves
    /\ UNCHANGED <<host, tier, attached, profile, mon, events, drift, pump>>

\* A driver call fails and is reported.
Failure ==
    /\ \E d \in Drivers : eng.failures[d] < MaxStrikes /\ eng' \in record_failure(eng, d)
    /\ Saves
    /\ UNCHANGED <<host, tier, attached, profile, mon, events, drift, pump>>

\* The program ends and starts again: the index comes back from its file and
\* everything on the buses is provisioned before the monitor takes its baseline.
\* The only element of its set, which TLC thus holds as tables.
EmptyEngine ==
    CHOOSE e \in [devices : {<<>>}, inst : {{}}, entries : [Keys -> {None}],
                  failures : [Drivers -> {0}], over : [Drivers -> {None}],
                  disk : [Drivers -> {"absent"}]] : TRUE

init_hw_engine ==
    /\ eng' \in rescan([EmptyEngine EXCEPT !.entries = saved.entries, !.failures = saved.failures,
                                           !.over = saved.over, !.disk = eng.disk], detect)
    /\ profile' = detect /\ Saves /\ drift' = {}
    /\ mon' = [ready |-> FALSE, prev |-> {}, pushed |-> FALSE, moved |-> FALSE, due |-> FALSE]
    /\ events' = <<>> /\ tier' = determine_ai_tier(host)
    /\ UNCHANGED <<host, attached, pump>>

-----------------------------------------------------------------------------
(* The monitor thread.                                                         *)
DiffAddsOnly(prev, now) == [i \in 1..Cardinality(now \ prev) |->
                                [add |-> TRUE, fp |-> SetToSeq(now \ prev)[i]]]
\* diff_fingerprints: arrivals, then removals.
diff_fingerprints(prev, now) ==
    LET adds == SetToSeq(now \ prev)
        gone == SetToSeq(prev \ now)
    IN [i \in 1..Len(adds) |-> [add |-> TRUE, fp |-> adds[i]]]
       \o [i \in 1..Len(gone) |-> [add |-> FALSE, fp |-> gone[i]]]

\* The first scan of the thread only records.
Baseline ==
    /\ ~mon.ready
    /\ mon' = [mon EXCEPT !.ready = TRUE, !.prev = detect, !.moved = FALSE]
    /\ drift' = drift \cup ((detect \ Tracked(eng)) \cup (Tracked(eng) \ detect))
    /\ UNCHANGED <<host, tier, attached, profile, events, eng, saved, pump>>

\* One turn of the loop: native pushes are drained; a push asks for the poll
\* interval, the change signal of the device directories does not.
run_scan == IF mon.pushed THEN mon.due ELSE mon.moved \/ mon.due

\* scan_and_emit: nothing is sent while the previous scan found nothing.
scan_and_emit ==
    /\ mon.ready /\ run_scan
    /\ LET out == IF mon.prev = {} THEN <<>> ELSE diff_fingerprints(mon.prev, detect)
       IN /\ Len(events) + Len(out) <= MaxEvents
          /\ events' = events \o out
    /\ drift' = IF mon.prev = {} THEN drift \cup detect
                ELSE drift \ ((mon.prev \cup detect) \ (mon.prev \cap detect))
    /\ mon' = [mon EXCEPT !.prev = detect, !.pushed = FALSE, !.due = FALSE,
                          !.moved = @ /\ mon.pushed]
    /\ UNCHANGED <<host, tier, attached, profile, eng, saved, pump>>

SkipTurn ==
    /\ mon.ready /\ ~run_scan /\ (mon.pushed \/ mon.moved)
    /\ mon' = [mon EXCEPT !.pushed = FALSE, !.moved = @ /\ mon.pushed]
    /\ UNCHANGED <<host, tier, attached, profile, events, eng, saved, drift, pump>>

PollDue ==
    /\ mon.ready /\ ~mon.due
    /\ mon' = [mon EXCEPT !.due = TRUE]
    /\ UNCHANGED <<host, tier, attached, profile, events, eng, saved, drift, pump>>

\* A device is plugged or pulled; the kernel may push a notice of it.
Plug(told) ==
    /\ \E f \in Devices : attached' = IF f \in attached THEN attached \ {f} ELSE attached \cup {f}
    /\ mon' = [mon EXCEPT !.pushed = @ \/ told, !.moved = mon.ready]
    /\ UNCHANGED <<host, tier, profile, events, eng, saved, drift, pump>>

-----------------------------------------------------------------------------
(* The native listener on Windows: a thread with a hidden window, and the drop  *)
(* that stops it.  msgs are the messages in the thread's queue.                  *)
PumpCreates ==
    /\ pump.pc = "create"
    /\ pump' = [pump EXCEPT !.pc = IF pump.stop THEN "done" ELSE "register"]

PumpRegisters ==
    /\ pump.pc = "register"
    /\ pump' = [pump EXCEPT !.pc = "loop", !.hwnd = TRUE]

\* GetMessageW returns a message; WM_QUIT ends the loop.
PumpTakes ==
    /\ pump.pc = "loop" /\ pump.msgs # <<>>
    /\ LET m == Head(pump.msgs)
           rest == [pump EXCEPT !.msgs = Tail(@)]
       IN pump' = CASE m = "quit"  -> [rest EXCEPT !.pc = "done"]
                    [] m # "quit" /\ pump.stop -> [rest EXCEPT !.msgs = Append(@, "close")]
                    [] m = "close" /\ ~pump.stop -> [rest EXCEPT !.msgs = Append(@, "quit")]
                    [] OTHER       -> rest

\* drop: the flag, a wait of three seconds for the window, WM_CLOSE, a wait of five.
DropBegins ==
    /\ pump.drop = "no"
    /\ pump' = [pump EXCEPT !.stop = TRUE, !.drop = "window"]
DropCloses ==
    /\ pump.drop = "window"
    /\ \/ pump.hwnd /\ pump' = [pump EXCEPT !.msgs = Append(@, "close"), !.drop = "join"]
       \/ ~pump.hwnd /\ pump' = [pump EXCEPT !.drop = "join"]
DropEnds ==
    /\ pump.drop = "join"
    /\ pump' = [pump EXCEPT !.drop = IF pump.pc = "done" THEN "joined" ELSE "detached"]

PumpNext ==
    /\ PumpCreates \/ PumpRegisters \/ PumpTakes \/ DropBegins \/ DropCloses \/ DropEnds
    /\ UNCHANGED engineVars

-----------------------------------------------------------------------------
Init ==
    /\ host \in Hosts /\ tier = determine_ai_tier(host)
    /\ attached \in SUBSET Devices
    /\ profile = detect
    /\ eng \in rescan(EmptyEngine, detect)
    /\ saved = Index(eng)
    /\ mon = [ready |-> FALSE, prev |-> {}, pushed |-> FALSE, moved |-> FALSE, due |-> FALSE]
    /\ events = <<>> /\ drift = {}
    /\ pump = [pc |-> "create", stop |-> FALSE, hwnd |-> FALSE, msgs |-> <<>>, drop |-> "no"]

HotplugNext ==
    \/ hw_poll_hotplug \/ apply_rescan \/ Baseline \/ scan_and_emit \/ SkipTurn \/ PollDue
    \/ Plug(TRUE) \/ Plug(FALSE)
    \/ \E f \in Devices : Uninstall(f)

DriverNext ==
    \/ refresh_hw \/ Failure \/ init_hw_engine \/ Plug(FALSE)
    \/ \E f \in Devices : Update(f) \/ Rollback(f) \/ Uninstall(f) \/ SetCapabilities(f)

Next == HotplugNext \/ DriverNext \/ PumpNext

Spec == Init /\ [][Next]_vars

PumpFair == WF_pump(PumpCreates) /\ WF_pump(PumpRegisters) /\ WF_pump(PumpTakes)
            /\ WF_pump(DropCloses) /\ WF_pump(DropEnds)

-----------------------------------------------------------------------------
(* Between two calls of the engine every tracked device is settled, and one     *)
(* whose key no other device shares runs the driver its row names - on its       *)
(* own driver or on the generic one - whatever failed, was rolled back,          *)
(* uninstalled or unplugged before.                                              *)
DeviceHasItsInstance ==
    \A i \in DOMAIN eng.devices :
        LET r == eng.devices[i]
        IN /\ r.state \in {"active", "generic", "failed"}
           /\ (r.state # "failed" /\ \A g \in Devices \ {r.fp} : Key[g] # Key[r.fp])
                 => <<r.driver, Key[r.fp]>> \in eng.inst

(* When the front end has drained the channel, it tracks exactly the devices    *)
(* of the monitor's last scan, but for those a user uninstalled or rescanned     *)
(* and those that came or went between the engine's scan and the monitor's.      *)
TrackedFollowsMonitor ==
    (mon.ready /\ events = <<>>) =>
        \A f \in Devices \ drift : (f \in mon.prev) = (f \in Tracked(eng))

(* The console never ranks the machine below the HAL's own tier.                *)
TierNotBelowHal == tier <= from_profile(host)

(* hotplug.rs on start: a device report of the system triggers a full             *)
(* re-detection at once rather than on the next tick.                              *)
\* Refuted: section 5 of the README.
PushScansAtOnce == [][(mon.pushed /\ ~mon'.pushed) => mon'.prev = detect]_vars

(* engine.rs on remove_device: while the driver of a device is cached, a replug  *)
(* needs no fetch, so that no mirror that is down puts it on the generic driver.   *)
\* Refuted: section 5 of the README.
ReplugFromCache ==
    [][\A f \in Devices :
        (f \in Tracked(eng') \ Tracked(eng) /\ \E d \in Remote[f] : eng.disk[d] = "good")
            => \A i \in DOMAIN eng'.devices :
                   eng'.devices[i].fp = f => eng'.devices[i].driver # Generic]_vars

(* engine.rs: a driver that failed max_consecutive_failures times is disabled   *)
(* for every device using it and removed from the index.                        *)
\* Refuted: section 5 of the README.
FailedDriverOff ==
    \A d \in Drivers : eng.failures[d] >= MaxFail =>
        \A i \in DOMAIN eng.devices : eng.devices[i].driver # d

(* native.rs: dropping the monitor stops the listener thread.                    *)
\* Refuted: section 5 of the README.
PumpStops == [](pump.stop => <>(pump.pc = "done"))
=============================================================================
