----------------------------- MODULE KernelBoot -----------------------------
(***************************************************************************)
(* How the bare-metal kernel comes up: _start of aios-kernel/src/main.rs,    *)
(* with the interrupt controllers and timers it programs (interrupts.rs,      *)
(* lapic.rs), the table walk and sensors it probes (acpi.rs, ec.rs, lid.rs,   *)
(* thermal.rs), the PCI scan and the controllers it starts (pci.rs), and the  *)
(* hand-off of the boot context to the idle loop (sched.rs).                  *)
(*                                                                            *)
(* The machine is one of Machines: what its firmware, timers and buses are.   *)
(* Time passes in periods of one timer tick.  From sti on a timer interrupt   *)
(* may fall between any two steps, also inside sched::init and                *)
(* boot_finished, whose stores are separate steps here.                       *)
(***************************************************************************)
EXTENDS Integers, Sequences, FiniteSets

CONSTANTS
    Machines,    \* [rsdp, pic, lapic, dts, ec, aux, pci] of a machine
    MaxPci,      \* MAX_PCI_DEVICES
    MaxPeriods,  \* timer periods observed in the idle loop
    Cells,       \* the EC RAM cells of one scan window
    PitDiv,      \* reload value of PIT channel 0
    MaxClocks,   \* PIT clocks observed in a busy-wait
    None

VARIABLES
    machine, \* the hardware
    pc,      \* index in Order of the next step of _start; past it: handed off
    up,      \* the parts that are set up
    early,   \* history: parts that were used before they were set up
    irq,     \* [on, pit, lapic, seen]: interrupt flag, live tick sources, IRQ32_SEEN
    devices, \* what pci::enumerate recorded
    ctl,     \* G_AHCI, G_NVME, G_XHCI, G_NET
    sched,   \* [current, bootActive, slot0, frame0]
    running, \* whose code runs: "boot", "idle", or "lost" on a frame never filled in
    time,    \* [periods, ticks] since the idle loop runs
    heat,    \* [dts, simulated, temp, probe] of thermal.rs
    aux,     \* [out, id]: bytes the PS/2 pointer left in the i8042, MOUSE_ID
    ram,     \* EC RAM cells and, per cell, whether it changed since boot
    lid,     \* [active, known, cell, baseline] of lid.rs
    pit      \* [count, last, elapsed, real, reloads] of a busy-wait on the countdown

vars == <<machine, pc, up, early, irq, devices, ctl, sched, running, time, heat, aux, ram, lid, pit>>

LidFirst == <<"serial", "console", "psf", "pci", "memory", "verify", "selftest", "heap",
              "idt", "gdt", "pic", "pit", "lapic", "mask", "sti", "lid", "thermal", "ps2",
              "acpi", "ahci", "nvme", "xhci", "net", "table", "current", "worker", "user",
              "anchor", "deregister", "release", "yield">>
\* The steps of _start in their order.
Order == <<"serial", "console", "psf", "pci", "memory", "verify", "selftest", "heap",
           "idt", "gdt", "pic", "pit", "lapic", "mask", "sti", "acpi", "thermal", "ps2",
           "lid", "ahci", "nvme", "xhci", "net", "table", "current", "worker", "user",
           "anchor", "deregister", "release", "yield">>

\* What each step works on.
Uses == [s \in {Order[i] : i \in 1..Len(Order)} |->
    CASE s = "psf"                                   -> {"console"}
      [] s \in {"verify", "selftest", "heap", "acpi"} -> {"memory"}
      [] s = "lapic"                                 -> {"memory", "pit"}
      [] s = "mask"                                  -> {"pic"}
      [] s = "sti"                                   -> {"idt", "gdt", "pic"}
      [] s = "thermal"                               -> {"idt"}
      [] s = "lid"                                   -> {"acpi"}
      [] s \in {"ahci", "nvme", "xhci"}              -> {"pci", "memory"}
      [] s = "net"                                   -> {"pci"}
      [] s = "current"                               -> {"table"}
      [] s = "worker"                                -> {"current"}
      [] s = "user"                                  -> {"memory", "gdt", "current"}
      [] s = "yield"                                 -> {"idt", "release"}
      [] OTHER                                       -> {}]

Rows(m) == DOMAIN m.pci

KernelBootAssumption ==
    /\ MaxPci \in Nat \ {0} /\ MaxPeriods \in Nat /\ IsFiniteSet(Cells)
    /\ PitDiv \in 2..65535 /\ MaxClocks \in Nat
    /\ \A m \in Machines :
         /\ m.pic \in BOOLEAN /\ m.ec \in BOOLEAN
         /\ m.rsdp \in {"none", "bad", "nofadt", "ok"} /\ m.dts \in {"none", "faults", "reads"}
         /\ m.aux \in {None, 0, 3, 4}
         /\ m.lapic \in {"absent", "unmapped", "uncalibrated", "works"}
         /\ m.pci \in Seq([slot : Nat, fn : 0..7, multi : BOOLEAN,
                           class : {"ahci", "nvme", "xhci", "nic", "wifi", "other"}])

\* _start runs its step s, which makes part s available.
At(s) == pc \in DOMAIN Order /\ Order[pc] = s /\ running = "boot"

Step(s) ==
    /\ At(s)
    /\ pc' = pc + 1
    /\ up' = up \cup {s}
    /\ early' = early \cup (Uses[s] \ up)
    /\ UNCHANGED machine

-----------------------------------------------------------------------------
(* Steps with no outcome the rest depends on.                                  *)
Plain(s) ==
    /\ Step(s)
    /\ UNCHANGED <<irq, devices, ctl, sched, running, time, heat, aux, ram, lid, pit>>

serial_init == Plain("serial")
\* console::init and clear, check_f8, and the direct colour test of the framebuffer.
console_init == Plain("console")
psf_check == Plain("psf")
\* The usable regions of the memory map go to memory::init.
memory_init == Plain("memory")
verify_region == Plain("verify")
init_heap == Plain("heap")
idt_init == Plain("idt")
gdt_init == Plain("gdt")
spawn_worker == Plain("worker")
user_init == Plain("user")

\* The paging self-test either passes or ends the boot in fatal_with.
Selftest ==
    /\ Step("selftest")
    /\ running' \in {"boot", "halted"}
    /\ UNCHANGED <<irq, devices, ctl, sched, time, heat, aux, ram, lid, pit>>

\* pci::enumerate: function 0 of every slot, the others where it is multifunction.
enumerate(m) ==
    LET Present(r) == r.fn = 0 \/ \E i \in Rows(m) : /\ m.pci[i].slot = r.slot
                                                     /\ m.pci[i].fn = 0 /\ m.pci[i].multi
        found == SelectSeq(m.pci, Present)
    IN SubSeq(found, 1, IF Len(found) < MaxPci THEN Len(found) ELSE MaxPci)

PciScan ==
    /\ Step("pci")
    /\ devices' = enumerate(machine)
    /\ UNCHANGED <<irq, ctl, sched, running, time, heat, aux, ram, lid, pit>>

\* init_pic unmasks IRQ0; init_pit starts the countdown at 100 Hz.
init_pic ==
    /\ Step("pic")
    /\ irq' = [irq EXCEPT !.pit = machine.pic]
    /\ UNCHANGED <<devices, ctl, sched, running, time, heat, aux, ram, lid, pit>>

init_pit ==
    /\ Step("pit")
    /\ UNCHANGED <<irq, devices, ctl, sched, running, time, heat, aux, ram, lid, pit>>

\* lapic::init arms its periodic tick unless the unit is absent, cannot be mapped
\* or cannot be calibrated against the PIT.
calibrate == machine.lapic # "uncalibrated"

lapic_init ==
    /\ Step("lapic")
    /\ irq' = [irq EXCEPT !.lapic = machine.lapic \notin {"absent", "unmapped"} /\ calibrate]
    /\ UNCHANGED <<devices, ctl, sched, running, time, heat, aux, ram, lid, pit>>

MaskNothing == irq
\* set_pit_masked(lapic_active): the new interrupt state.
set_pit_masked == [irq EXCEPT !.pit = @ /\ ~irq.lapic]

MaskPit ==
    /\ Step("mask")
    /\ irq' = set_pit_masked
    /\ UNCHANGED <<devices, ctl, sched, running, time, heat, aux, ram, lid, pit>>

Sti ==
    /\ Step("sti")
    /\ irq' = [irq EXCEPT !.on = TRUE]
    /\ UNCHANGED <<devices, ctl, sched, running, time, heat, aux, ram, lid, pit>>

\* acpi::init walks RSDP, XSDT/RSDT and FADT; a bad signature ends the walk.
acpi_init ==
    /\ Step("acpi")
    /\ UNCHANGED <<irq, devices, ctl, sched, running, time, heat, aux, ram, lid, pit>>

\* The root table lists a FADT.
find_entry == machine.rsdp = "ok"

acpi_found == "acpi" \in up /\ find_entry

-----------------------------------------------------------------------------
(* thermal.rs: the digital sensor is read through a guarded RDMSR.  A CPU      *)
(* that advertises it and faults raises #GP inside the guard; the dispatcher   *)
(* sends that one fault to the probe, any other ring-0 #GP to fatal().          *)
Readings == {"cool", "hot", None}

\* The answer of the sensor: the reading, or the simulated wave.
Taken(r) ==
    [heat EXCEPT !.probe = "no", !.dts = r # None, !.simulated = r = None,
                 !.temp = IF r = None THEN "cool" ELSE r]

\* What read_dts may return: None when the MSR faults or the word is invalid.
read_dts == IF machine.dts = "reads" /\ heat.probe # "faulted" THEN Readings ELSE {None}

ProbeUnguarded == "unguarded"
\* try_rdmsr: the guard is set before the read.
try_rdmsr == "guarded"

thermal_init ==
    /\ At("thermal") /\ heat.probe = "no"
    /\ IF machine.dts = "none"
       THEN /\ Step("thermal") /\ UNCHANGED heat
       ELSE /\ heat' = [heat EXCEPT !.probe = try_rdmsr]
            /\ UNCHANGED <<machine, pc, up, early>>
    /\ UNCHANGED <<irq, devices, ctl, sched, running, time, aux, ram, lid, pit>>

\* The vector-13 arm of aios_handle_interrupt, for the fault of the sensor's MSR.
GeneralProtection ==
    /\ machine.dts = "faults" /\ heat.probe \in {"guarded", "unguarded"} /\ running = "boot"
    /\ IF heat.probe = "guarded"
       THEN heat' = [heat EXCEPT !.probe = "faulted"] /\ UNCHANGED running
       ELSE running' = "halted" /\ UNCHANGED heat
    /\ UNCHANGED <<machine, pc, up, early, irq, devices, ctl, sched, time, aux, ram, lid, pit>>

thermal_read ==
    /\ At("thermal")
    /\ heat.probe = "faulted" \/ (heat.probe = "guarded" /\ machine.dts = "reads")
    /\ Step("thermal")
    /\ \E r \in read_dts : heat' = Taken(r)
    /\ UNCHANGED <<irq, devices, ctl, sched, running, time, aux, ram, lid, pit>>

-----------------------------------------------------------------------------
(* ps2::init: the AUX port is enabled and put into report mode, then asked for *)
(* its identity.  Every wait is bounded, so a silent port yields MOUSE_ID 0.   *)
\* aux_cmd(GET_ID) takes the ACK; read_aux_id then waits for two more bytes.
read_aux_id(out) == IF Len(out) < 3 THEN 0 ELSE out[3]

\* Once in report mode the pointer may add motion bytes to the ACK and the identity.
ps2_init ==
    /\ Step("ps2")
    /\ IF machine.aux = None THEN UNCHANGED aux
       ELSE \E motion \in {<<>>, <<8>>} :
              LET out == <<250, machine.aux>> \o motion
              IN aux' = [out |-> out, id |-> read_aux_id(out)]
    /\ UNCHANGED <<irq, devices, ctl, sched, running, time, heat, ram, lid, pit>>

-----------------------------------------------------------------------------
(* lid.rs over ec.rs.  init sweeps the EC RAM through ec::probe, whose buffer  *)
(* is its own: BASELINE keeps its zeroes.                                      *)
lid_init ==
    /\ Step("lid")
    /\ lid' = [lid EXCEPT !.active = acpi_found /\ machine.ec]
    /\ UNCHANGED <<irq, devices, ctl, sched, running, time, heat, aux, ram, pit>>

\* lid::poll: refresh the pinned cell, or pin the last differing cell of the window.
lid_poll ==
    IF ~lid.active \/ lid.known THEN lid
    ELSE LET flips == {c \in Cells : ram[c].value # lid.baseline[c]}
         IN IF flips = {} THEN lid
            ELSE LET last == CHOOSE c \in flips : \A d \in flips : d <= c
                 IN [lid EXCEPT !.known = TRUE, !.cell = last,
                                !.baseline = [c \in Cells |-> IF c \in flips THEN ram[c].value
                                                              ELSE @[c]]]

-----------------------------------------------------------------------------
(* Steps 8 to 10 and the network: each controller is started when it is among  *)
(* the recorded devices, and a failure is noted and survived.                   *)
Has(class) == \E i \in DOMAIN devices : devices[i].class = class

\* The value left in G_AHCI / G_NVME / G_XHCI: -1 none, 0 error, 1 ready, 2 ready+rw.
Outcomes(class) ==
    IF ~Has(class) THEN {-1} ELSE IF class = "xhci" THEN {0, 1} ELSE {0, 1, 2}

Controller(class) ==
    /\ Step(class)
    /\ \E v \in Outcomes(class) : ctl' = [ctl EXCEPT ![class] = v]
    /\ UNCHANGED <<irq, devices, sched, running, time, heat, aux, ram, lid, pit>>

NetInit ==
    /\ Step("net")
    /\ \E v \in {0, IF Has("nic") THEN 1 ELSE -1} : ctl' = [ctl EXCEPT !["net"] = v]
    /\ UNCHANGED <<irq, devices, sched, running, time, heat, aux, ram, lid, pit>>

-----------------------------------------------------------------------------
(* sched::init and boot_finished, store by store: interrupts are on.           *)
SchedInitTable ==
    /\ Step("table")
    /\ sched' = [sched EXCEPT !.slot0 = TRUE]
    /\ UNCHANGED <<irq, devices, ctl, running, time, heat, aux, ram, lid, pit>>

SchedInitCurrent ==
    /\ Step("current")
    /\ sched' = [sched EXCEPT !.current = 0]
    /\ UNCHANGED <<irq, devices, ctl, running, time, heat, aux, ram, lid, pit>>

Anchor ==
    /\ Step("anchor")
    /\ sched' = [sched EXCEPT !.frame0 = "idle"]
    /\ UNCHANGED <<irq, devices, ctl, running, time, heat, aux, ram, lid, pit>>

Deregister ==
    /\ Step("deregister")
    /\ sched' = [sched EXCEPT !.current = -1]
    /\ UNCHANGED <<irq, devices, ctl, running, time, heat, aux, ram, lid, pit>>

Release ==
    /\ Step("release")
    /\ sched' = [sched EXCEPT !.bootActive = FALSE]
    /\ UNCHANGED <<irq, devices, ctl, running, time, heat, aux, ram, lid, pit>>

\* schedule() of sched.rs for the boot context: what runs afterwards.
schedule(hw) ==
    IF \/ sched.current = 0 /\ sched.bootActive
       \/ hw /\ sched.current # -1
       \/ ~sched.slot0 \/ sched.current = 0
    THEN UNCHANGED <<sched, running>>
    ELSE /\ sched' = [sched EXCEPT !.current = 0]
         /\ running' = IF sched.frame0 = "idle" THEN "idle" ELSE "lost"

Yield ==
    /\ Step("yield")
    /\ schedule(FALSE)
    /\ UNCHANGED <<irq, devices, ctl, time, heat, aux, ram, lid, pit>>

-----------------------------------------------------------------------------
(* Time.  Vector 32 (PIT) and vector 0x90 (LAPIC) count a tick, set IRQ32_SEEN *)
(* and call sched::tick, which reaches schedule() every few ticks.              *)
Sources == (IF irq.pit THEN {"pit"} ELSE {}) \cup (IF irq.lapic THEN {"lapic"} ELSE {})

BootTick ==
    /\ irq.on /\ Sources # {} /\ running = "boot"
    /\ early' = early \cup ({"idt"} \ up)
    /\ irq' = [irq EXCEPT !.seen = TRUE]
    /\ \/ UNCHANGED <<sched, running>>
       \/ schedule(TRUE)
    /\ UNCHANGED <<machine, pc, up, devices, ctl, time, heat, aux, ram, lid, pit>>

\* The sensors the idle loop polls every five ticks.
Sensors ==
    /\ lid' = lid_poll
    /\ IF heat.dts THEN \E r \in read_dts : heat' = Taken(r) ELSE UNCHANGED heat

\* idle_loop over one period: woken from hlt by the sources that are live, or, while
\* no interrupt was ever seen, polling the countdown and counting the tick itself.
IdlePeriod ==
    /\ running = "idle" /\ time.periods < MaxPeriods
    /\ irq.seen => Sources # {}
    /\ irq' = [irq EXCEPT !.seen = @ \/ Sources # {}]
    /\ time' = [periods |-> time.periods + 1,
                ticks |-> time.ticks + (IF Sources = {} THEN 1 ELSE Cardinality(Sources))]
    /\ Sensors
    /\ UNCHANGED <<machine, pc, up, early, devices, ctl, sched, running, aux, ram, pit>>

\* The embedded controller changes a byte of its RAM, as it does for the lid switch.
CellChanges ==
    /\ machine.ec
    /\ \E c \in Cells : ram' = [ram EXCEPT ![c] = [value |-> 1 - @.value, changed |-> TRUE]]
    /\ UNCHANGED <<machine, pc, up, early, irq, devices, ctl, sched, running, time, heat, aux, lid, pit>>

-----------------------------------------------------------------------------
pit_elapsed(last, now) == (last + PitDiv + 1 - now) % (PitDiv + 1)

PitClock ==
    /\ pit.real < MaxClocks
    /\ pit' = [pit EXCEPT !.count = IF @ = 1 THEN PitDiv ELSE @ - 1, !.real = @ + 1,
                          !.reloads = IF pit.count = 1 THEN @ + 1 ELSE @]

delay_ms ==
    /\ pit.count # pit.last
    /\ pit' = [pit EXCEPT !.last = pit.count, !.elapsed = @ + pit_elapsed(pit.last, pit.count)]

PitNext ==
    /\ PitClock \/ delay_ms
    /\ UNCHANGED <<machine, pc, up, early, irq, devices, ctl, sched, running, time, heat, aux,
                   ram, lid>>

-----------------------------------------------------------------------------
Init ==
    /\ machine \in Machines
    /\ pc = 1 /\ up = {} /\ early = {}
    /\ irq = [on |-> FALSE, pit |-> FALSE, lapic |-> FALSE, seen |-> FALSE]
    /\ devices = <<>>
    /\ ctl = [ahci |-> -1, nvme |-> -1, xhci |-> -1, net |-> -1]
    /\ sched = [current |-> -1, bootActive |-> TRUE, slot0 |-> FALSE, frame0 |-> None]
    /\ running = "boot"
    /\ time = [periods |-> 0, ticks |-> 0]
    /\ heat = [dts |-> FALSE, simulated |-> TRUE, temp |-> "cool", probe |-> "no"]
    /\ aux = [out |-> <<>>, id |-> 0]
    /\ ram \in [Cells -> [value : {0, 1}, changed : {FALSE}]]
    /\ lid = [active |-> FALSE, known |-> FALSE, cell |-> None, baseline |-> [c \in Cells |-> 0]]
    /\ pit \in [count : 1..PitDiv, last : 1..PitDiv, elapsed : {0}, real : {0}, reloads : {0}]
    /\ pit.last = pit.count

BootNext ==
    \/ serial_init \/ console_init \/ psf_check \/ memory_init \/ verify_region \/ init_heap
    \/ idt_init \/ gdt_init \/ spawn_worker \/ user_init
    \/ Selftest \/ PciScan \/ init_pic \/ init_pit \/ lapic_init \/ MaskPit \/ Sti
    \/ acpi_init \/ thermal_init \/ GeneralProtection \/ thermal_read \/ ps2_init \/ lid_init
    \/ \E class \in {"ahci", "nvme", "xhci"} : Controller(class)
    \/ NetInit
    \/ SchedInitTable \/ SchedInitCurrent \/ Anchor \/ Deregister \/ Release \/ Yield
    \/ BootTick \/ IdlePeriod \/ CellChanges

Spec == Init /\ [][BootNext \/ PitNext]_vars

-----------------------------------------------------------------------------

(* The idle loop counts one tick per timer period whatever the machine: with   *)
(* a live 8259, with the LAPIC timer, with both (the PIT line is then masked)   *)
(* and with neither, where the loop counts the period itself.                   *)
OneTickPerPeriod == time.ticks = time.periods

(* A busy-wait on the countdown is never short: what it counted exceeds the    *)
(* clocks that passed by at most one per reload, however late it samples.       *)
DelayNotShort == pit.elapsed <= pit.real + pit.reloads

(* While BOOT_ACTIVE is set the boot context is not switched away: sched.rs     *)
(* says schedule() refuses to.                                                   *)
\* Refuted: section 5 of the README.
BootContextKept == [][sched.bootActive => running' \in {running, "halted"}]_vars

(* MOUSE_ID is the identity of the pointer, as ps2.rs says of mouse_id.        *)
\* Refuted: section 5 of the README.
IdentifiesPointer == "ps2" \in up /\ machine.aux # None => aux.id = machine.aux

(* A pinned lid candidate is a byte that changed since boot, as lid.rs says.    *)
\* Refuted: section 5 of the README.
CandidateFlipped == lid.known => ram[lid.cell].changed
=============================================================================
