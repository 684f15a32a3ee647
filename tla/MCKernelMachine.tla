--------------------------- MODULE MCKernelMachine ---------------------------
(***************************************************************************)
(* The kernel's memory and its polled device drivers for TLC: the cut of   *)
(* the heap into blocks and the linked list that it is, the page tables,   *)
(* the disk controllers, the USB host controller, and the boot of five     *)
(* machines with the busy waits on the PIT.  A behaviour exercises the one *)
(* `part` names; the others rest in an initial state.                      *)
(***************************************************************************)
EXTENDS HeapBlocks, Sequences

CONSTANTS
    Device,
    QueueDepth, DiskBlocks, AhciPorts, MaxDrives, MaxLate, MaxReads,
    Trbs, EvTrbs, IntTrbs, UsbPorts, Usages, MappedUsages, MaxReports, MaxFails,
    None

VARIABLES
    part,
    head, size, next, handed,
    mem, region, nextFrame, taken, mmio, want, tested,
    stage, queue, sq, cq, ctrl, diskFrame, job, late, probing, hba, aframe, ajob, alate, drives, link, reads,
    attached, limit, rings, at, events, deq, XB_EV, ERDP, enq, hc, in_ctx, pc, usbFrame, XB, XM,
    buffer, LAST_REPORT, KEY_SEQ, MOUSE_SEQ, sent, fails,
    machine, step, up, early, irq, devices, ctl, sched, running, time, heat, aux, ram, lid, pit

listVars == <<head, size, next, handed>>
pageVars == <<mem, region, nextFrame, taken, mmio, want, tested>>
diskVars == <<stage, queue, sq, cq, ctrl, diskFrame, job, late, probing, hba, aframe, ajob, alate, drives, link, reads>>
usbVars == <<attached, limit, rings, at, events, deq, XB_EV, ERDP, enq, hc, in_ctx, pc, usbFrame, XB, XM,
             buffer, LAST_REPORT, KEY_SEQ, MOUSE_SEQ, sent, fails>>
bootVars == <<machine, step, up, early, irq, devices, ctl, sched, running, time, heat, aux, ram, lid, pit>>

(* Two regions of free frames, pages under shared and under separate       *)
(* tables, the self-test's page and the MMIO window.                       *)
Test == <<0, 0, 0, 0>>
Window == <<<<0, 0, 0, 1>>, <<0, 0, 1, 0>>>>
Covered == {Test, Window[1], Window[2], <<0, 1, 0, 0>>, <<0, 1, 0, 1>>, <<1, 0, 0, 0>>, <<1, 1, 0, 0>>, <<1, 1, 1, 0>>}
FrameRegions == <<<<1, 4>>, <<6, 9>>>>

(* A modern machine, one without PIC whose sensor faults, one whose RSDP   *)
(* and LAPIC are unusable, one with nothing, and a laptop without FADT.    *)
On(slot, fn, multi, class) == [slot |-> slot, fn |-> fn, multi |-> multi, class |-> class]
Hardware(rsdp, pic, lapic, dts, ec, pci) ==
    [rsdp |-> rsdp, pic |-> pic, lapic |-> lapic, dts |-> dts, ec |-> ec, pci |-> pci,
     aux |-> IF ec THEN 3 ELSE None]
BootMachines ==
    {Hardware("ok", TRUE, "works", "reads", TRUE,
              <<On(0, 0, FALSE, "nic"), On(0, 1, FALSE, "xhci"), On(1, 0, TRUE, "ahci"),
                On(1, 1, FALSE, "nvme"), On(1, 2, FALSE, "xhci")>>),
     Hardware("ok", FALSE, "works", "faults", FALSE, <<On(0, 0, FALSE, "nvme"), On(1, 0, FALSE, "xhci")>>),
     Hardware("bad", TRUE, "uncalibrated", "none", TRUE, <<On(0, 0, FALSE, "ahci"), On(1, 0, FALSE, "nic")>>),
     Hardware("none", FALSE, "absent", "none", FALSE, <<>>),
     Hardware("nofadt", TRUE, "unmapped", "reads", TRUE, <<On(0, 0, FALSE, "wifi")>>)}

Memory == INSTANCE KernelMemory WITH Regions <- FrameRegions, Pages <- Covered, TestPage <- Test,
                                     MmioPages <- Window
Disk == INSTANCE KernelDisk WITH Depth <- QueueDepth, Blocks <- DiskBlocks, Ports <- AhciPorts, frame <- diskFrame
Usb == INSTANCE KernelUsb WITH Ports <- UsbPorts, Mapped <- MappedUsages, frame <- usbFrame
Boot == INSTANCE KernelBoot WITH Machines <- BootMachines, MaxPci <- 3, MaxPeriods <- 2, Cells <- {1},
                                 PitDiv <- 5, MaxClocks <- 14, pc <- step

ASSUME Memory!PagingAssumption /\ Disk!DiskAssumption /\ Usb!UsbAssumption /\ Boot!KernelBootAssumption

Rest ==
    /\ part # "disk" => stage = 0
    /\ part # "usb" => limit = 1 /\ \A p \in 1 .. UsbPorts : attached[p] = "none"
    /\ part # "boot" => machine.rsdp = "none" /\ ram[1].value = 0
    /\ part # "delay" => pit.count = 1

MCInit ==
    /\ part \in {"cut", "list", "pages", "disk", "usb", "boot", "delay"}
    /\ Init /\ Memory!ListInit /\ Memory!PagesInit /\ Disk!Init /\ Usb!Init /\ Boot!Init
    /\ Rest

allVars == <<part, vars, listVars, pageVars, diskVars, usbVars, bootVars>>

MCNext ==
    /\ UNCHANGED part
    /\ \/ part = "cut" /\ Next /\ UNCHANGED <<listVars, pageVars, diskVars, usbVars, bootVars>>
       \/ part = "list" /\ Memory!ListNext /\ UNCHANGED <<vars, pageVars, diskVars, usbVars, bootVars>>
       \/ part = "pages" /\ Memory!PagesNext /\ UNCHANGED <<vars, listVars, diskVars, usbVars, bootVars>>
       \/ part = "disk" /\ Disk!Next /\ UNCHANGED <<vars, listVars, pageVars, usbVars, bootVars>>
       \/ part = "usb" /\ Usb!Next /\ UNCHANGED <<vars, listVars, pageVars, diskVars, bootVars>>
       \/ part = "boot" /\ Boot!BootNext /\ UNCHANGED <<vars, listVars, pageVars, diskVars, usbVars>>
       \/ part = "delay" /\ Boot!PitNext /\ UNCHANGED <<vars, listVars, pageVars, diskVars, usbVars>>

MCSpec == MCInit /\ [][MCNext]_allVars

-----------------------------------------------------------------------------

(* The linked list implements the cut into blocks: every alloc and dealloc *)
(* of heap.rs is one of HeapBlocks.                                        *)
ImplementsCut == Memory!ImplementsCut

(* The page tables of memory.rs are the map their callers asked for, a     *)
(* disk driver takes the answer of its own command, and the USB driver     *)
(* harvests every report once (memory.rs, ahci.rs, nvme.rs, xhci.rs).      *)
DriversSound ==
    /\ part = "pages" => Memory!PagesAsMapped
    /\ part = "disk" => Disk!OwnAnswers
    /\ part = "usb" => Usb!ReportsHarvested

=============================================================================
