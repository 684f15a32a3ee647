----------------------------- MODULE KernelInput ----------------------------
(***************************************************************************)
(* The kernel's keyboard and pointer paths, from the devices to the screen *)
(* owner: the byte decoder of ps2.rs, the boot reports of xhci.rs, the key *)
(* FIFO and shift state of interrupts.rs, the two pointer bands of the     *)
(* idle loop in main.rs, and the runaway gate and button edges of          *)
(* gui::input_allowed and gui::on_mouse.                                   *)
(*                                                                         *)
(* Bytes arrive in the IRQ1 handler ("irq") or are polled ("poll"); the    *)
(* idle loop drains both.  A key is its make code and whether shift is     *)
(* down; one axis stands for both of the pointer's.                        *)
(***************************************************************************)
EXTENDS Integers, SequencesExt

CONSTANTS
    Path,          \* how keyboard bytes arrive
    FifoSize,      \* slots of KEY_FIFO
    MaxBytes,      \* bound on the bytes typed
    Bands,         \* pointer bands with a device: "usb", "ps2"
    MaxX,          \* the rightmost cursor position
    MaxStep,       \* MOUSE_MAX_STEP
    Settle,        \* drains that settle the motion before a press
    Runaway,       \* RUNAWAY_STREAK
    Reach,         \* largest delta of one report
    MaxReports     \* bound on the pointer reports

InputAssumption ==
    /\ Path \in {"irq", "poll"} /\ FifoSize \in Nat \ {0, 1} /\ MaxX \in Nat
    /\ MaxStep \in Nat \ {0} /\ Settle \in Nat /\ Runaway \in Nat \ {0} /\ Reach \in Nat
    /\ MaxReports * Reach <= (1 + Settle) * MaxStep   \* no backlog outlasts the settling

VARIABLES
    kbd,       \* the controller's bytes, EXT, SHIFT_DOWN, SHIFTED and KEY_FIFO
    pressed,   \* the keys pressed, each with the shift of that moment
    handled,   \* the keys handed to the screen owner, each with the shift used
    dev,       \* per device: motion accumulated, buttons, press edge, a new report
    last,      \* per band: the button state it delivered last
    scr,       \* the cursor, LAST_BTNS, PIN_STREAK and PIN_LOCK
    owed       \* per device: "due" a press the screen has not seen, "late" once the gate held it

kbdVars == <<kbd, pressed, handled>>
ptrVars == <<dev, last, scr, owed>>
vars == <<kbdVars, ptrVars>>

Init ==
    /\ kbd = [wire |-> <<>>, fifo |-> <<>>, ext |-> FALSE, down |-> FALSE, shifted |-> FALSE,
              held |-> FALSE, sent |-> 0]
    /\ pressed = <<>> /\ handled = <<>>
    /\ dev = [b \in Bands |-> [acc |-> 0, btn |-> FALSE, edge |-> FALSE, fresh |-> FALSE]]
    /\ last = [b \in Bands |-> FALSE] /\ owed = [b \in Bands |-> "no"]
    /\ scr = [x |-> 0, vis |-> FALSE, btn |-> FALSE, streak |-> 0, lock |-> FALSE, reports |-> 0]

-----------------------------------------------------------------------------
(* The keyboard: what is typed, external *)

key_push(fifo, byte) == IF Len(fifo) = FifoSize - 1 THEN fifo ELSE Append(fifo, byte)

(* A byte leaves the keyboard.  An extended key is its prefix and the code *)
Types(bytes) ==
    /\ kbd.sent + Len(bytes) <= MaxBytes
    /\ kbd' = [kbd EXCEPT
                 !.sent = @ + Len(bytes),
                 !.held = IF bytes = <<"shift">> THEN TRUE
                          ELSE IF bytes = <<"unshift">> THEN FALSE ELSE @,
                 !.wire = IF Path = "poll" THEN @ \o bytes ELSE @,
                 !.fifo = IF Path = "irq" THEN FoldLeft(key_push, @, bytes) ELSE @]
    /\ pressed' = IF bytes = <<"key">> THEN Append(pressed, kbd.held) ELSE pressed
    /\ UNCHANGED <<handled, ptrVars>>

(* feed_key: prefixes, shift and break codes stay out of the FIFO *)
feed_key(k, byte) ==
    IF k.ext THEN [k EXCEPT !.ext = FALSE]
    ELSE CASE byte = "E0" -> [k EXCEPT !.ext = TRUE]
           [] byte = "shift" -> [k EXCEPT !.down = TRUE]
           [] byte = "unshift" -> [k EXCEPT !.down = FALSE]
           [] byte = "keyup" -> k
           [] byte = "key" -> [k EXCEPT !.shifted = k.down, !.fifo = key_push(@, byte)]

(* ps2::drain takes what the controller holds before the loop pops a key   *)
drain ==
    /\ kbd.wire # <<>> /\ kbd' = [FoldLeft(feed_key, kbd, kbd.wire) EXCEPT !.wire = <<>>]
    /\ UNCHANGED <<pressed, handled, ptrVars>>

(* One turn of the idle loop's key_pop loop *)
PopIgnoresRelease ==
    LET byte == Head(kbd.fifo)
        k == [kbd EXCEPT !.fifo = Tail(@)]
    IN /\ kbd.fifo # <<>>
       /\ kbd' = IF byte # "E0" /\ kbd.ext THEN [k EXCEPT !.ext = FALSE]
                 ELSE CASE byte = "E0" -> [k EXCEPT !.ext = TRUE]
                        [] byte = "shift" -> [k EXCEPT !.down = TRUE, !.shifted = TRUE]
                        [] OTHER -> k
       /\ handled' = IF ~kbd.ext /\ byte = "key" THEN Append(handled, kbd.shifted) ELSE handled
       /\ UNCHANGED <<pressed, ptrVars>>
key_pop ==
    LET byte == Head(kbd.fifo)
        k == [kbd EXCEPT !.fifo = Tail(@)]
        char == ~kbd.ext /\ byte = "key"
    IN /\ kbd.fifo # <<>>
       /\ kbd' = IF byte # "E0" /\ kbd.ext THEN [k EXCEPT !.ext = FALSE]
                 ELSE CASE byte = "E0" -> [k EXCEPT !.ext = TRUE]
                        [] byte = "shift" -> [k EXCEPT !.down = TRUE, !.shifted = TRUE]
                        [] byte = "unshift" -> [k EXCEPT !.down = FALSE, !.shifted = FALSE]
                        [] OTHER -> k
       /\ handled' = IF char THEN Append(handled, kbd.shifted) ELSE handled
       /\ UNCHANGED <<pressed, ptrVars>>

-----------------------------------------------------------------------------
(* The pointer *)

Sign(n) == IF n < 0 THEN -1 ELSE 1
Abs(n) == IF n < 0 THEN -n ELSE n
Clamp(n, lo, hi) == IF n < lo THEN lo ELSE IF n > hi THEN hi ELSE n

(* decode_packet and harvest_mouse: motion adds up, press edges are latched. *)
(* A press the gate swallowed is no longer owed once it is released          *)
Report(b, dx, down) ==
    /\ scr.reports < MaxReports /\ scr' = [scr EXCEPT !.reports = @ + 1]
    /\ dev' = [dev EXCEPT ![b] = [acc |-> @.acc + dx, btn |-> down, fresh |-> TRUE,
                                  edge |-> @.edge \/ (down /\ ~@.btn)]]
    /\ owed' = [owed EXCEPT ![b] = IF down /\ ~dev[b].btn THEN "due"
                                   ELSE IF down \/ dev[b].edge THEN @ ELSE "no"]
    /\ UNCHANGED <<kbdVars, last>>

(* drain_axis and take_mouse_delta, n times over: at most MaxStep each time *)
Drained(acc, n) == Sign(acc) * Clamp(Abs(acc), 0, n * MaxStep)

Changed(b) == dev[b].fresh /\ dev[b].btn # last[b]
Presses(b) == dev[b].edge \/ Changed(b)
Delta(b) == Drained(dev[b].acc, IF Presses(b) THEN 1 + Settle ELSE 1)

Pins(dx) == (scr.x = 0 /\ dx < 0) \/ (scr.x = MaxX /\ dx > 0)

(* input_allowed: the verdict and the gate after it *)
input_allowed(dx) ==
    IF ~scr.vis THEN [ok |-> TRUE, streak |-> scr.streak, lock |-> scr.lock]
    ELSE IF scr.lock THEN IF dx # 0 /\ ~Pins(dx) THEN [ok |-> TRUE, streak |-> 0, lock |-> FALSE]
                          ELSE [ok |-> FALSE, streak |-> scr.streak, lock |-> TRUE]
    ELSE IF ~Pins(dx) THEN [ok |-> TRUE, streak |-> IF dx # 0 THEN 0 ELSE scr.streak, lock |-> FALSE]
    ELSE LET locks == scr.streak + 1 >= Runaway
         IN [ok |-> ~locks, streak |-> scr.streak + 1, lock |-> locks]

States(b) ==
    IF dev[b].edge
    THEN (IF last[b] THEN <<FALSE>> ELSE <<>>) \o <<TRUE>> \o (IF dev[b].btn THEN <<>> ELSE <<FALSE>>)
    ELSE <<dev[b].btn>>

(* on_mouse dispatches a click at each rising edge of the button it knows  *)
Clicks(b) ==
    LET seen == <<scr.btn>> \o States(b)
    IN Len(SelectSeq([i \in 1 .. Len(seen) - 1 |-> ~seen[i] /\ seen[i + 1]], LAMBDA up : up))

Accepted(b) == (Delta(b) # 0 \/ Presses(b)) /\ input_allowed(Delta(b)).ok

(* One band's turn of the idle loop *)
Poll(b) ==
    LET dx == Delta(b)
        gate == input_allowed(dx)
        from == IF scr.vis THEN scr.x ELSE MaxX \div 2
        idle == dx = 0 /\ ~Presses(b)
    IN /\ dev[b].fresh \/ dev[b].acc # 0 \/ dev[b].edge
       /\ dev' = [dev EXCEPT ![b] = [@ EXCEPT !.acc = @ - dx, !.edge = FALSE, !.fresh = FALSE]]
       /\ scr' = IF idle THEN scr
                 ELSE IF ~gate.ok THEN [scr EXCEPT !.streak = gate.streak, !.lock = gate.lock]
                 ELSE [scr EXCEPT !.x = Clamp(from + dx, 0, MaxX), !.vis = TRUE,
                                  !.streak = gate.streak, !.lock = gate.lock,
                                  !.btn = States(b)[Len(States(b))]]
       /\ last' = IF Accepted(b) THEN [last EXCEPT ![b] = dev[b].btn] ELSE last
       /\ owed' = [owed EXCEPT ![b] = IF Accepted(b) \/ ~dev[b].btn \/ @ = "no" THEN "no" ELSE "late"]
       /\ UNCHANGED kbdVars

Next ==
    \/ \E byte \in {"key", "keyup", "shift", "unshift"} : Types(<<byte>>)
    \/ Types(<<"E0", "key">>)
    \/ drain \/ key_pop
    \/ \E b \in Bands : Poll(b) \/ \E dx \in -Reach .. Reach, down \in BOOLEAN : Report(b, dx, down)

Spec == Init /\ [][Next]_vars

-----------------------------------------------------------------------------
(* Keys reach the screen owner in the order pressed, none twice, and with  *)
(* bytes taken in the IRQ handler each with the shift that was down when   *)
(* it was pressed, however far the idle loop lags.  (Polled bytes share    *)
(* one shift state per drain, so there only the order is kept.)            *)
KeysInOrder ==
    LET same(i) == Path = "irq" => handled[i] = pressed[i]
    IN Len(handled) <= Len(pressed) /\ (MaxBytes < FifoSize => \A i \in DOMAIN handled : same(i))

(* What the screen owner is shown of a press: with one pointing device it  *)
(* is dispatched once, never twice and never when nothing was pressed,     *)
(* also when press and release fall into one poll; and it is dispatched    *)
(* where the pointer has come to rest.  Only a press the runaway gate held *)
(* back may stay without its click                                         *)
ClickPerPress ==
    [][\A b \in Bands : Poll(b) /\ Accepted(b) =>
          /\ Clicks(b) \in (IF owed[b] = "due" THEN {1} ELSE IF owed[b] = "late" THEN {0, 1} ELSE {0})
          /\ owed[b] = "due" => dev'[b].acc = 0]_vars
=============================================================================
