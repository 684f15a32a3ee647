------------------------------ MODULE KernelUsb ------------------------------
(***************************************************************************)
(* The polled xHCI driver, aios-kernel/src/xhci.rs, with the host          *)
(* controller and the devices on its root ports (external).                *)
(*                                                                         *)
(* A TRB is what it asks for and its cycle bit; a control transfer fills   *)
(* three cells of the EP0 ring, or two without a data stage.  The contexts *)
(* of a slot are the port it was addressed on and where the controller     *)
(* reads the rings of its two endpoints.  Register offsets, packet sizes   *)
(* and intervals are left out.                                             *)
(***************************************************************************)
EXTENDS Integers, Sequences, FiniteSets

CONSTANTS
    Trbs,          \* TRBS, for commands and control
    EvTrbs,        \* TRBS, of the event ring
    IntTrbs,       \* TRBS, of the interrupt rings
    Ports,         \* root ports, numbered from 1
    Usages,        \* HID usages a keyboard can report
    Mapped,        \* those usage_to_scancode knows
    MaxReports,    \* bound on reports of each device
    MaxFails       \* bound on commands and transfers that fail or hang

VARIABLES
    attached,      \* what is on each port
    limit,         \* slots the controller enables; init writes CONFIG = 1
    rings,         \* cells of the producer rings "cmd", "ep0", "kbd", "mouse"
    at,            \* the driver's position in each: index and cycle
    events,        \* the event ring
    deq,           \* the driver's position in it
    XB_EV,         \* the position saved for poll, before the mouse is looked for
    ERDP,          \* the cell that the controller was told the driver is at
    enq,           \* the controller's
    hc,            \* the controller's position in "cmd" and in a slot's rings
    in_ctx,        \* the input context: the port, and the ring of the endpoint
    pc,            \* the call of init at work
    frame,         \* the data frame: port and descriptor it was read from
    XB, XM,        \* slots of the keyboard and the mouse; 0: none
    buffer,        \* the keyboard's report buffer
    LAST_REPORT, KEY_SEQ, MOUSE_SEQ,
    sent,          \* reports the keyboard has sent, and how many the mouse has
    fails

vars == <<attached, limit, rings, at, events, deq, XB_EV, ERDP, enq, hc, in_ctx, pc, frame,
          XB, XM, buffer, LAST_REPORT, KEY_SEQ, MOUSE_SEQ, sent, fails>>

driverVars == <<rings, at, deq, XB_EV, ERDP, in_ctx, pc, XB, XM, LAST_REPORT, KEY_SEQ, MOUSE_SEQ>>
hcVars == <<events, enq, hc, frame, buffer, sent, fails>>

(* The event ring holds what the search for the mouse puts on it, up to    *)
(* ten events a device, and one report of each device: poll starts before  *)
(* them, and after a whole lap would wait for a cycle bit that does not    *)
(* come.                                                                   *)
UsbAssumption ==
    /\ Trbs > 4 /\ IntTrbs > 2 /\ Ports > 0 /\ Mapped \subseteq Usages
    /\ EvTrbs > 10 * (Ports - 1) + 3

Cell == 0 .. EvTrbs - 1
Slots == 1 .. 2 * Ports - 1
Reports == {<<>>} \cup {<<k>> : k \in Usages} \cup {<<k, l>> : <<k, l>> \in {p \in Usages \X Usages : p[1] < p[2]}}

Blank == [do |-> "none", slot |-> 0, cycle |-> FALSE]
NoEvent == [kind |-> "none", slot |-> 0, ep |-> 0, ok |-> TRUE, cycle |-> FALSE]
Off == [ring |-> "cmd", at |-> 0, cycle |-> TRUE, on |-> FALSE]

Rings == {"cmd", "ep0", "kbd", "mouse"}
Link(r) == IF r \in {"cmd", "ep0"} THEN Trbs - 1 ELSE IntTrbs - 1

(* setup_ring closes a ring with a link that toggles the cycle *)
setup_ring(r) == [c \in 0 .. Link(r) |-> [Blank EXCEPT !.do = IF c = Link(r) THEN "link" ELSE @,
                                                       !.cycle = c = Link(r)]]

Init ==
    /\ attached \in [1 .. Ports -> {"kbd", "mouse", "other", "none"}]
    /\ limit \in {1, 2 * Ports - 1}
    /\ rings = [r \in Rings |-> setup_ring(r)]
    /\ at = [r \in Rings |-> [i |-> 0, cycle |-> TRUE]]
    /\ events = [c \in Cell |-> NoEvent]
    /\ deq = [i |-> 0, cycle |-> TRUE] /\ enq = deq /\ XB_EV = deq /\ ERDP = 0
    /\ hc = [cmd |-> [Off EXCEPT !.on = TRUE], port |-> [s \in Slots |-> 0], slots |-> 0,
             ctl |-> [s \in Slots |-> Off], int |-> [s \in Slots |-> Off]]
    /\ in_ctx = [port |-> 0, ring |-> "ep0"]
    /\ pc = [goal |-> "kbd", skip |-> 0, port |-> 1, step |-> 1, wait |-> FALSE, slot |-> 0]
    /\ frame = [port |-> 0, desc |-> "none"]
    /\ XB = 0 /\ XM = 0
    /\ buffer = <<>> /\ LAST_REPORT = <<>> /\ KEY_SEQ = 0 /\ MOUSE_SEQ = 0
    /\ sent = [kbd |-> <<>>, mouse |-> 0]
    /\ fails = 0

-----------------------------------------------------------------------------
(* Rings.  Pushed returns ring and position after one TRB: the cell before *)
(* the link rewrites the link's cycle bit and starts the next lap.         *)
Pushed(r, state, what) ==
    LET p == state.pos
        ring == [state.ring EXCEPT ![p.i] = [do |-> what, slot |-> pc.slot, cycle |-> p.cycle]]
    IN  IF p.i + 1 = Link(r)
        THEN [ring |-> [ring EXCEPT ![Link(r)].cycle = p.cycle], pos |-> [i |-> 0, cycle |-> ~ p.cycle]]
        ELSE [ring |-> ring, pos |-> [p EXCEPT !.i = @ + 1]]

PushedOn(r, what) == Pushed(r, [ring |-> rings[r], pos |-> at[r]], what)

(* arm_ep1, arm_ep1_m *)
ArmedSameLap(r) == [PushedOn(r, "report") EXCEPT !.pos.cycle = at[r].cycle]
Armed(r) == PushedOn(r, "report")

Stages(what) ==
    IF what \in {"dev", "head", "config"} THEN <<"setup", "data", what>> ELSE <<"setup", what>>

(* push_ep0 for each stage of a control transfer *)
Control(what) ==
    LET two == Pushed("ep0", PushedOn("ep0", Stages(what)[1]), Stages(what)[2])
    IN  IF Len(Stages(what)) = 2 THEN two ELSE Pushed("ep0", two, what)

Produce(r, state) ==
    /\ rings' = [rings EXCEPT ![r] = state.ring]
    /\ at' = [at EXCEPT ![r] = state.pos]

(* The event at the driver's position, if its cycle bit is the expected one *)
Pending == events[deq.i].cycle = deq.cycle
Advanced(p) == IF p.i + 1 = EvTrbs THEN [i |-> 0, cycle |-> ~ p.cycle] ELSE [p EXCEPT !.i = @ + 1]

-----------------------------------------------------------------------------
(* init from find_hid_dev on: these steps for the keyboard, then the same  *)
(* for the mouse on the other ports.                                       *)
Steps == <<"reset", "enable", "address", "dev", "head", "config", "setconf", "setproto", "endpoint">>
Doing == Steps[pc.step]
Commands == {"enable", "address", "endpoint"}
Finding == pc.goal \in {"kbd", "mouse"}

(* init saves the position for poll once the keyboard is configured, so    *)
(* poll goes over the events of the mouse's search again.                  *)
Resumed(c, d) == IF c.goal \in {"arm", "failed"} /\ XB # 0 THEN XB_EV ELSE d

NextPort(c) == [c EXCEPT !.port = @ + 1, !.step = 1, !.wait = FALSE]

(* reset_port, or the end of the ports *)
reset_port ==
    /\ Finding /\ Doing = "reset" /\ ~ pc.wait
    /\ IF pc.port > Ports
       THEN pc' = [pc EXCEPT !.goal = IF @ = "kbd" THEN "failed" ELSE "arm"]
       ELSE \/ /\ pc.port # pc.skip /\ attached[pc.port] # "none"
               /\ pc' = [pc EXCEPT !.step = 2]
            \/ /\ pc.port = pc.skip \/ attached[pc.port] = "none"
               /\ pc' = NextPort(pc)
    /\ deq' = Resumed(pc', deq)
    /\ UNCHANGED <<attached, limit, in_ctx, rings, at, XB_EV, ERDP, XB, XM, LAST_REPORT, KEY_SEQ, MOUSE_SEQ, hcVars>>

(* cmd_run and ep0_ctrl up to the wait, with the doorbell.  address_device *)
(* gives the start of the EP0 ring and cycle 1 for the slot's EP0,         *)
(* configure_ep the start of the device's own ring.                        *)
Issue ==
    /\ Finding /\ Doing # "reset" /\ ~ pc.wait
    /\ Produce(IF Doing \in Commands THEN "cmd" ELSE "ep0",
               IF Doing \in Commands THEN PushedOn("cmd", Doing) ELSE Control(Doing))
    /\ pc' = [pc EXCEPT !.wait = TRUE]
    /\ in_ctx' = CASE Doing = "address" -> [port |-> pc.port, ring |-> "ep0"]
                   [] Doing = "endpoint" -> [in_ctx EXCEPT !.ring = pc.goal]
                   [] OTHER -> in_ctx
    /\ hc' = IF Doing \in Commands THEN hc ELSE [hc EXCEPT !.ctl[pc.slot].on = TRUE]
    /\ UNCHANGED <<attached, limit, deq, XB_EV, ERDP, events, enq, frame, XB, XM, buffer,
                   LAST_REPORT, KEY_SEQ, MOUSE_SEQ, sent, fails>>

(* `?` in find_hid_dev ends the search; in init itself it ends init *)
Refused(c) ==
    CASE Doing = "enable" -> NextPort(c)
      [] Doing \in {"address", "dev", "head", "config"} ->
           [c EXCEPT !.goal = IF @ = "kbd" THEN "failed" ELSE "arm", !.wait = FALSE]
      [] OTHER -> [c EXCEPT !.goal = "failed", !.wait = FALSE]

(* What follows a call that succeeded; find_hid_ep looks at the frame *)
Granted(c, slot) ==
    CASE Doing = "enable" -> [c EXCEPT !.step = @ + 1, !.slot = slot, !.wait = FALSE]
      [] Doing = "config" /\ ~ (frame.desc = "config" /\ attached[frame.port] = c.goal) -> NextPort(c)
      [] Doing = "endpoint" ->
           IF c.goal = "kbd" THEN [c EXCEPT !.goal = "mouse", !.skip = c.port, !.port = 1, !.step = 1, !.wait = FALSE]
           ELSE [c EXCEPT !.goal = "arm", !.wait = FALSE]
      [] OTHER -> [c EXCEPT !.step = @ + 1, !.wait = FALSE]

(* cmd_run takes any command completion, ep0_wait a transfer on EP0 of the *)
(* slot; everything else is passed over.                                   *)
Awaited(e) ==
    IF Doing \in Commands THEN e.kind = "command"
    ELSE e.kind = "transfer" /\ e.slot = pc.slot /\ e.ep = 1

TakeEvent ==
    /\ Finding /\ pc.wait /\ Pending
    /\ LET e == events[deq.i]
           done == Awaited(e) /\ e.ok /\ Doing = "endpoint"
       IN  /\ pc' = IF ~ Awaited(e) THEN pc ELSE IF e.ok THEN Granted(pc, e.slot) ELSE Refused(pc)
           /\ XB' = IF done /\ pc.goal = "kbd" THEN pc.slot ELSE XB
           /\ XM' = IF done /\ pc.goal = "mouse" THEN pc.slot ELSE XM
           /\ XB_EV' = IF done /\ pc.goal = "kbd" THEN Advanced(deq) ELSE XB_EV
    /\ deq' = Resumed(pc', Advanced(deq))
    /\ ERDP' = Advanced(deq).i
    /\ UNCHANGED <<attached, limit, in_ctx, rings, at, LAST_REPORT, KEY_SEQ, MOUSE_SEQ, hcVars>>

WaitTimesOut ==
    /\ Finding /\ pc.wait /\ ~ Pending /\ fails < MaxFails
    /\ pc' = Refused(pc)
    /\ fails' = fails + 1
    /\ deq' = Resumed(pc', deq)
    /\ UNCHANGED <<attached, limit, in_ctx, rings, at, XB_EV, ERDP, XB, XM, LAST_REPORT, KEY_SEQ, MOUSE_SEQ,
                   events, enq, hc, frame, buffer, sent>>

(* The end of init: arm_ep1, and arm_ep1_m if there is a mouse *)
Arm ==
    /\ pc.goal = "arm"
    /\ LET k == Armed("kbd")
           m == Armed("mouse")
       IN  /\ rings' = [rings EXCEPT !["kbd"] = k.ring, !["mouse"] = IF XM # 0 THEN m.ring ELSE @]
           /\ at' = [at EXCEPT !["kbd"] = k.pos, !["mouse"] = IF XM # 0 THEN m.pos ELSE @]
    /\ pc' = [pc EXCEPT !.goal = "poll"]
    /\ UNCHANGED <<attached, limit, in_ctx, deq, XB_EV, ERDP, XB, XM, LAST_REPORT, KEY_SEQ, MOUSE_SEQ, hcVars>>

-----------------------------------------------------------------------------
(* poll, one event at a time *)

(* harvest_report: the first key that was not down before, if it has a     *)
(* scancode; a second new key of the same report is never emitted.         *)
Held(report) == {report[i] : i \in DOMAIN report}
Emitted(report, previous) ==
    LET fresh == {i \in DOMAIN report : report[i] \notin Held(previous)}
    IN  IF \E i \in fresh : report[i] \in Mapped /\ \A j \in fresh : i <= j THEN 1 ELSE 0

poll ==
    /\ pc.goal \in {"poll", "failed"} /\ XB # 0 /\ Pending
    /\ deq' = Advanced(deq) /\ ERDP' = deq'.i
    /\ LET e == events[deq.i]
           interrupt == e.kind = "transfer" /\ e.ep = 3 /\ e.ok
           kbd == interrupt /\ e.slot = XB
           mouse == interrupt /\ e.slot # XB /\ XM # 0 /\ e.slot = XM
       IN  /\ LAST_REPORT' = IF kbd THEN buffer ELSE LAST_REPORT
           /\ KEY_SEQ' = IF kbd THEN KEY_SEQ + Emitted(buffer, LAST_REPORT) ELSE KEY_SEQ
           /\ MOUSE_SEQ' = IF mouse THEN MOUSE_SEQ + 1 ELSE MOUSE_SEQ
           /\ \/ kbd /\ Produce("kbd", Armed("kbd"))
              \/ mouse /\ Produce("mouse", Armed("mouse"))
              \/ ~ kbd /\ ~ mouse /\ UNCHANGED <<rings, at>>
    /\ UNCHANGED <<attached, limit, in_ctx, pc, XB_EV, XB, XM, hcVars>>

-----------------------------------------------------------------------------
(* The controller (external).  It stops one cell before ERDP.              *)
Room == Advanced(enq).i # ERDP

Post(kind, slot, ep, ok) ==
    /\ Room
    /\ events' = [events EXCEPT ![enq.i] = [kind |-> kind, slot |-> slot, ep |-> ep, ok |-> ok, cycle |-> enq.cycle]]
    /\ enq' = Advanced(enq)

(* Reading a ring: the next TRB, through the link when it is reached *)
Linked(e) ==
    IF e.at = Link(e.ring) /\ rings[e.ring][e.at].cycle = e.cycle
    THEN [e EXCEPT !.at = 0, !.cycle = ~ @] ELSE e
Fetched(e) == rings[e.ring][e.at]
Available(e) == e.on /\ e.at # Link(e.ring) /\ Fetched(e).cycle = e.cycle
Stepped(e) == Linked([e EXCEPT !.at = @ + 1])
Start(r) == [ring |-> r, at |-> 0, cycle |-> TRUE, on |-> TRUE]

May(ok) == ok \/ fails < MaxFails
Count(ok) == fails' = IF ok THEN fails ELSE fails + 1

Command(ok) ==
    /\ Available(hc.cmd)
    /\ LET what == Fetched(hc.cmd).do
           s == IF what = "enable" THEN hc.slots + 1 ELSE Fetched(hc.cmd).slot
           full == what = "enable" /\ hc.slots = limit
           good == ok /\ ~ full
           next == [hc EXCEPT !.cmd = Stepped(@)]
       IN  /\ full \/ May(ok)
           /\ Post("command", s, 0, good)
           /\ IF full THEN UNCHANGED fails ELSE Count(ok)
           /\ hc' = CASE ~ good -> next
                      [] what = "enable" -> [next EXCEPT !.slots = s]
                      [] what = "address" -> [next EXCEPT !.port[s] = in_ctx.port, !.ctl[s] = [Start("ep0") EXCEPT !.on = FALSE]]
                      [] OTHER -> [next EXCEPT !.int[s] = Start(in_ctx.ring)]
    /\ UNCHANGED <<attached, limit, driverVars, frame, buffer, sent>>

(* A slot's EP0 runs from where it stands until no TRB is ready *)
Transfer(s, ok) ==
    LET e == hc.ctl[s]
        after == Stepped(e)
        what == Fetched(e).do
    IN  /\ Available(e)
        /\ hc' = [hc EXCEPT !.ctl[s] = [after EXCEPT !.on = Available(after)]]
        /\ IF what \in {"setup", "data"}
           THEN ok /\ UNCHANGED <<events, enq, frame, fails>>
           ELSE /\ May(ok) /\ Count(ok) /\ Post("transfer", s, 1, ok)
                /\ frame' = IF ok /\ what \in {"dev", "head", "config"} THEN [port |-> hc.port[s], desc |-> what] ELSE frame
        /\ UNCHANGED <<attached, limit, driverVars, buffer, sent>>

(* A device answers the armed TRB with a report; an error halts the pipe *)
Report(s, report, ok) ==
    LET e == hc.int[s]
        kbd == e.ring = "kbd"
    IN  /\ Available(e) /\ May(ok) /\ Count(ok)
        /\ IF kbd THEN Len(sent.kbd) < MaxReports ELSE sent.mouse < MaxReports /\ report = <<>>
        /\ Post("transfer", s, 3, ok)
        /\ hc' = [hc EXCEPT !.int[s] = [Stepped(@) EXCEPT !.on = ok]]
        /\ buffer' = IF ok /\ kbd THEN report ELSE buffer
        /\ sent' = IF ~ ok THEN sent
                   ELSE IF kbd THEN [sent EXCEPT !.kbd = Append(@, report)]
                   ELSE [sent EXCEPT !.mouse = @ + 1]
        /\ UNCHANGED <<attached, limit, driverVars, frame>>

Next ==
    \/ reset_port \/ Issue \/ TakeEvent \/ WaitTimesOut \/ Arm \/ poll
    \/ \E ok \in BOOLEAN :
         \/ Command(ok)
         \/ \E s \in Slots : Transfer(s, ok) \/ \E report \in Reports : Report(s, report, ok)

Spec == Init /\ [][Next]_vars

-----------------------------------------------------------------------------
Waiting(s) == Cardinality({c \in Cell : events[c].cycle = (IF c >= deq.i THEN deq.cycle ELSE ~ deq.cycle)
                                        /\ events[c].kind = "transfer" /\ events[c].slot = s
                                        /\ events[c].ep = 3})
Good(s) == Cardinality({c \in Cell : events[c].cycle = (IF c >= deq.i THEN deq.cycle ELSE ~ deq.cycle)
                                     /\ events[c].kind = "transfer" /\ events[c].slot = s
                                     /\ events[c].ep = 3 /\ events[c].ok})
Presses(log) == Cardinality({n \in DOMAIN log :
                    Emitted(log[n], IF n = 1 THEN <<>> ELSE log[n - 1]) = 1})

(* "[`poll`] harvests both devices off the shared event ring": every       *)
(* report a device sent is harvested once and in order, however often the  *)
(* rings wrap and whatever init left on the event ring: KEY_SEQ counts the *)
(* presses in the reports whose event has been taken, and MOUSE_SEQ the    *)
(* mouse's reports.  No buffer is overwritten before it is read, because a *)
(* pipe has one transfer armed, or its event waiting, or an error.         *)
ReportsHarvested ==
    pc.goal = "poll" =>
      /\ KEY_SEQ = Presses(SubSeq(sent.kbd, 1, Len(sent.kbd) - Good(XB)))
      /\ XM # 0 => MOUSE_SEQ = sent.mouse - Good(XM)
      /\ \A s \in {XB, XM} \ {0} :
           hc.int[s].on => Waiting(s) + (IF Available(hc.int[s]) THEN 1 ELSE 0) = 1

(* "A boot mouse is optional": refuted.  Once the keyboard is configured,  *)
(* an error of the mouse's own set-up still ends init before arm_ep1.      *)
MouseIsOptional == pc.goal = "failed" => XB = 0

(* Refuted: a device after the first is addressed with the start of the    *)
(* EP0 ring, so its first transfers are those of the device before; where  *)
(* the ring has wrapped there is nothing with the right cycle, and the     *)
(* driver waits for an answer that cannot come.                            *)
NeverStuck ==
    Finding /\ pc.wait /\ ~ Pending =>
      Available(hc.cmd) \/ \E s \in Slots : Available(hc.ctl[s])
=============================================================================
