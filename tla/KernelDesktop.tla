--------------------------- MODULE KernelDesktop ----------------------------
(***************************************************************************)
(* The window manager of the kernel's desktop (aios-kernel/src/gui.rs):    *)
(* the window table whose slots are the z-order, focus, the remembered     *)
(* ranks of closed windows, minimise and maximise, the drag in progress,   *)
(* the confirm and crash dialogs, the Task Manager and the windows of      *)
(* ring-3 clients.  Keys, clicks and the clients' system calls interleave. *)
(*                                                                         *)
(* Pixels are abstracted: a click names what it hits, and a window is hit  *)
(* unless it is minimised or a maximised one lies above it.  The contents  *)
(* of forms are KernelForms, geometry and the pointer KernelPointer.       *)
(***************************************************************************)
EXTENDS Naturals, SequencesExt

CONSTANTS
    MaxWins,       \* MAX_WINS, slots of the window table
    Apps,          \* the built-in windows of the instance
    ClientKinds,   \* Client(id), one per task that owns a client record
    NoteCap        \* bytes of a typed note

Kinds == Apps \cup ClientKinds
Slots == 1 .. MaxWins
None == "none"

DesktopAssumption ==
    /\ MaxWins \in Nat \ {0} /\ NoteCap \in Nat
    /\ {"Welcome", "System"} \subseteq Apps
    /\ Apps \cap ClientKinds = {} /\ None \notin Kinds

VARIABLES
    desk,      \* WINS, CLOSED_Z, MODAL, DRAG, TASK_SEL and the Widget Lab's open menu
    active,    \* ACTIVE
    clients,   \* CLIENTS: the pending event of a registered client, or None
    crash      \* a fault waits for its recovery (fault::pending)

vars == <<desk, active, clients, crash>>

NoWin == [kind |-> None, focused |-> FALSE, min |-> FALSE, max |-> FALSE, note |-> 0]
NewWin(k) == [NoWin EXCEPT !.kind = k, !.focused = TRUE]
EmptyDesk == [wins |-> [i \in Slots |-> NoWin], z |-> [k \in Kinds |-> MaxWins],
              modal |-> None, drag |-> None, sel |-> None, menu |-> FALSE]

Used(d) == {i \in Slots : d.wins[i].kind # None}
Visible(d) == {i \in Used(d) : ~d.wins[i].min}
Holding(d, k) == {i \in Used(d) : d.wins[i].kind = k}
find_kind(d, k) == Min(Holding(d, k))
Focused(d) == {i \in Used(d) : d.wins[i].focused}
FocusedIdx(d) == Max(Focused(d))
FocusedKind(d) == IF Focused(d) = {} THEN None ELSE d.wins[FocusedIdx(d)].kind

Init ==
    /\ desk = EmptyDesk /\ active = FALSE /\ crash = FALSE
    /\ clients = [k \in ClientKinds |-> "free"]

-----------------------------------------------------------------------------
(* The window table *)

bring_to_front(d, i) ==
    IF i \notin Used(d) THEN d
    ELSE [d EXCEPT !.wins = [j \in Slots |-> IF j < i THEN d.wins[j]
                                             ELSE IF j < MaxWins THEN d.wins[j + 1]
                                             ELSE d.wins[i]]]

Unfocused(d) == [d EXCEPT !.wins = [i \in Slots |-> [d.wins[i] EXCEPT !.focused = FALSE]]]
unfocus_all(d) == Unfocused(d)

focus_window(d, i) ==
    IF d.modal # None THEN d
    ELSE bring_to_front([Unfocused(d) EXCEPT
                            !.wins[i] = IF i \in Used(d)
                                        THEN [@ EXCEPT !.focused = TRUE, !.min = FALSE]
                                        ELSE @], i)

(* z holds the rank remembered at a close, MaxWins when there is none *)
remember_closed_z(d, k, rank) ==
    IF d.z[k] < MaxWins \/ Cardinality({l \in Kinds : d.z[l] < MaxWins}) < MaxWins
    THEN [d EXCEPT !.z[k] = rank] ELSE d
take_closed_z(d, k) == [d EXCEPT !.z[k] = MaxWins]

(* The open windows, bottom to top *)
Compact(d) ==
    [r \in 1 .. Cardinality(Used(d)) |->
        d.wins[CHOOSE i \in Used(d) : Cardinality({j \in Used(d) : j <= i}) = r]]

place_window(d, win) ==
    LET seq == Compact(d)
        rank == Min({d.z[win.kind], Len(seq)})
        all == SubSeq(seq, 1, rank) \o <<win>> \o SubSeq(seq, rank + 1, Len(seq))
    IN [take_closed_z(d, win.kind) EXCEPT
            !.wins = [i \in Slots |-> IF i <= Len(all) THEN all[i] ELSE NoWin]]

spawn(d, k) ==
    IF d.modal # None \/ Used(d) = Slots THEN d
    ELSE place_window([Unfocused(d) EXCEPT !.menu = @ /\ k # "Widgets"], NewWin(k))

spawn_client(d, k) ==
    IF d.modal # None \/ Used(d) = Slots THEN d
    ELSE place_window(Unfocused(d), NewWin(k))

open_or_focus(d, k) ==
    IF Holding(d, k) # {} THEN focus_window(d, find_kind(d, k)) ELSE spawn(d, k)

close_window_raw(d, i) ==
    LET k == d.wins[i].kind
        rank == Cardinality({j \in Used(d) : j < i})
        kept == IF k = None THEN d ELSE remember_closed_z(d, k, rank)
    IN [kept EXCEPT !.wins[i] = NoWin, !.drag = IF k # None /\ @ = k THEN None ELSE @]

modal_open(d, k) == [d EXCEPT !.modal = k, !.drag = None]
close_window(d, i) ==
    IF d.wins[i].note > 0 THEN modal_open(d, d.wins[i].kind) ELSE close_window_raw(d, i)

modal_close(d) == [d EXCEPT !.modal = None]
modal_confirm(d) ==
    modal_close(IF Holding(d, d.modal) # {} THEN close_window_raw(d, find_kind(d, d.modal)) ELSE d)
modal_cancel(d) == modal_close(d)

toggle_maximize(d, k) ==
    IF Holding(d, k) = {} THEN d
    ELSE LET i == find_kind(d, k) IN focus_window([d EXCEPT !.wins[i].max = ~@], i)

MinimizeKeepsDrag(d, k) ==
    IF Holding(d, k) = {} THEN d
    ELSE LET i == find_kind(d, k)
             hidden == [d EXCEPT !.wins[i].min = TRUE]
         IN IF ~d.wins[i].focused THEN hidden
            ELSE IF Visible(hidden) # {} THEN focus_window(hidden, Max(Visible(hidden)))
            ELSE unfocus_all(hidden)
minimize_window(d, k) ==
    IF Holding(d, k) = {} THEN d
    ELSE LET i == find_kind(d, k)
             hidden == [d EXCEPT !.wins[i].min = TRUE, !.drag = IF @ = k THEN None ELSE @]
         IN IF ~d.wins[i].focused THEN hidden
            ELSE IF Visible(hidden) # {} THEN focus_window(hidden, Max(Visible(hidden)))
            ELSE unfocus_all(hidden)

(* The first visible window after the focused one, the lowest when none is *)
cycle_focus(d) ==
    LET after == {i \in Visible(d) : Focused(d) \cap Visible(d) # {} /\ i > FocusedIdx(d)}
    IN IF d.modal # None \/ Visible(d) = {} THEN d
       ELSE focus_window(d, Min(IF after # {} THEN after ELSE Visible(d)))

(* Each client window, from the highest slot down, then the frontmost one gets the focus *)
RaiseClient(d, i) == IF d.wins[i].kind \in ClientKinds THEN bring_to_front(d, i) ELSE d
raise_clients(d) ==
    LET raised == FoldLeft(RaiseClient, d, [n \in Slots |-> MaxWins + 1 - n])
        held == {j \in Slots : raised.wins[j].kind \in ClientKinds}
    IN IF held = {} THEN raised ELSE focus_window(raised, Max(held))

-----------------------------------------------------------------------------
(* Entering and leaving *)

enter ==
    LET Opened(d, k, n) == IF Cardinality(Used(d)) = n /\ k \in Apps THEN open_or_focus(d, k) ELSE d
    IN /\ ~active /\ active' = TRUE
       /\ desk' = raise_clients(Opened(Opened(open_or_focus(desk, "Welcome"), "System", 1),
                                       "Clock", 2))
       /\ UNCHANGED <<clients, crash>>

leave == active' = FALSE /\ desk' = [EmptyDesk EXCEPT !.menu = desk.menu] /\ UNCHANGED <<clients, crash>>

-----------------------------------------------------------------------------
(* The Task Manager.  After focus_window has moved the selected window to  *)
(* the last slot, task_switch raises whatever its slot holds then          *)

task_end(d) == IF Holding(d, d.sel) = {} THEN d ELSE close_window(d, find_kind(d, d.sel))
task_switch(d) ==
    IF Holding(d, d.sel) = {} THEN d
    ELSE LET i == find_kind(d, d.sel) IN bring_to_front(focus_window(d, i), i)

-----------------------------------------------------------------------------
(* Keys *)

Keys == {"Esc", "Tab", "Back", "Enter", "F2", "F4", "F5", "F9", "char"}
Editing == {"Tab", "Back", "Enter", "char"}

net_key(d, key) == FocusedKind(d) = "Network" /\ key \in Editing
(* The focused window's form takes every editing key, whatever the window  *)
widget_key(d, key) ==
    /\ FocusedKind(d) \notin {None, "Network"}
    /\ key \in Editing \/ (key = "Esc" /\ FocusedKind(d) = "Widgets" /\ d.menu)
MenuDismissed(d) == [d EXCEPT !.menu = @ /\ FocusedKind(d) # "Widgets"]

note_key(d, key) ==
    LET i == FocusedIdx(d)
    IN IF Focused(d) = {} THEN d
       ELSE IF key = "Back" THEN [d EXCEPT !.wins[i].note = IF @ > 0 THEN @ - 1 ELSE 0]
       ELSE IF d.wins[i].kind \in ClientKinds THEN d
       ELSE [d EXCEPT !.wins[i].note = IF @ < NoteCap THEN @ + 1 ELSE @]

window_key(d, key) ==
    LET k == FocusedKind(d)
    IN CASE key \in {"Esc", "F4"} -> IF k = None THEN d ELSE close_window(d, FocusedIdx(d))
         [] key \in {"Tab", "F9"} -> cycle_focus(d)
         [] key = "F2" -> IF k = None THEN d ELSE toggle_maximize(d, k)
         [] key = "F5" -> IF k = None THEN d ELSE minimize_window(d, k)
         [] key \in {"Back", "char"} -> note_key(d, key)
         [] OTHER -> d

modal_key(d, key) ==
    CASE key = "Enter" -> modal_confirm(d) [] key = "Esc" -> modal_cancel(d) [] OTHER -> d

Post(k, ev) == [clients EXCEPT ![k] = IF @ = None THEN ev ELSE @]

(* handle_scancode: who gets the key, in the order of the code *)
handle_scancode(key) ==
    LET task == key = "Enter" /\ FocusedKind(desk) = "Tasks"
        formed == widget_key(desk, key)
        d == IF net_key(desk, key) THEN desk ELSE MenuDismissed(desk)
    IN /\ active /\ ~crash
       /\ IF desk.modal # None THEN desk' = modal_key(desk, key) /\ UNCHANGED <<active, clients>>
          ELSE IF task THEN desk' = task_switch(desk) /\ UNCHANGED <<active, clients>>
          ELSE IF formed \/ net_key(desk, key) THEN desk' = d /\ UNCHANGED <<active, clients>>
          ELSE IF key = "Esc" /\ Used(desk) = {} THEN leave
          ELSE /\ desk' = window_key(d, key)
               /\ clients' = IF key = "char" /\ FocusedKind(d) \in ClientKinds
                             THEN Post(FocusedKind(d), "key") ELSE clients
               /\ UNCHANGED active
       /\ UNCHANGED crash

(* The crash dialog takes every key and click; some of them resolve the fault *)
crash_input == active /\ crash /\ crash' = FALSE /\ UNCHANGED <<desk, active, clients>>
FaultRaised == ~crash /\ crash' = TRUE /\ UNCHANGED <<desk, active, clients>>

-----------------------------------------------------------------------------
(* Clicks *)

Hit(d, i) == i \in Visible(d) /\ \A j \in Visible(d) : j > i => ~d.wins[j].max

Clickable == active /\ ~crash
Dispatched(d) == Clickable /\ desk.modal = None /\ desk' = d /\ UNCHANGED <<active, clients, crash>>

(* A click past the menu, an open one included, dismisses it first *)
Dismissed == [desk EXCEPT !.menu = FALSE]

ClickGlobe == "Network" \in Apps /\ Dispatched(open_or_focus(desk, "Network"))
ClickTaskbar(k) == Holding(desk, k) # {} /\ Dispatched(focus_window(desk, find_kind(desk, k)))
ClickIcon(k) == k \in Apps \ {"Welcome"} /\ Dispatched(open_or_focus(desk, k))
ClickDesktop == Dispatched(unfocus_all(Dismissed))

(* lab_menu_pick: only the last row concerns the window table *)
ClickMenuRow(closes) ==
    /\ desk.menu /\ Holding(desk, "Widgets") # {}
    /\ LET d == IF closes THEN close_window(desk, find_kind(desk, "Widgets")) ELSE desk
       IN Dispatched([d EXCEPT !.menu = FALSE])

ClickClose(i) == Hit(desk, i) /\ Dispatched(close_window(Dismissed, i))
ClickMaximize(i) == Hit(desk, i) /\ Dispatched(toggle_maximize(Dismissed, desk.wins[i].kind))
ClickMinimize(i) == Hit(desk, i) /\ Dispatched(minimize_window(Dismissed, desk.wins[i].kind))

ClickBorder(i) ==
    /\ Hit(desk, i) /\ ~desk.wins[i].max
    /\ Dispatched(focus_window([Dismissed EXCEPT !.drag = desk.wins[i].kind], i))
ClickTitle(i) ==
    /\ Hit(desk, i)
    /\ Dispatched(focus_window([Dismissed EXCEPT !.drag = IF desk.wins[i].max THEN @
                                                          ELSE desk.wins[i].kind], i))

(* A body click: a row of the Task Manager is selected, a client gets an event *)
ClickBody(i) ==
    LET k == desk.wins[i].kind
    IN /\ Hit(desk, i) /\ Clickable /\ desk.modal = None
       /\ \E s \in IF k = "Tasks" THEN {desk.sel} \cup {desk.wins[j].kind : j \in Used(desk)}
                   ELSE {desk.sel} :
             desk' = focus_window([Dismissed EXCEPT !.sel = s], i)
       /\ clients' = IF k \in ClientKinds THEN Post(k, "click") ELSE clients
       /\ UNCHANGED <<active, crash>>

(* A button's host.  dispatch_click hands widget_click a reference to slot *)
(* i, and focus_window has moved the table by then: the kind read through  *)
(* it is the one the window had, or what the slot holds now, which in an   *)
(* emptied slot is left over from any window                               *)
HostRead(i) ==
    LET k == focus_window(Dismissed, i).wins[i].kind
    IN {desk.wins[i].kind} \cup (IF k = None THEN Kinds ELSE {k})

CloseHost(d, host) == IF Holding(d, host) = {} THEN d ELSE close_window(d, find_kind(d, host))

ClickCloseHost(i) ==
    /\ Hit(desk, i) /\ desk.wins[i].kind \in {"Welcome", "Widgets"}
    /\ \E host \in HostRead(i) : Dispatched(CloseHost(focus_window(Dismissed, i), host))
ClickOpen(i, k) ==
    /\ Hit(desk, i) /\ desk.wins[i].kind = "Welcome" /\ k \in {"System", "Clock", "About"} \cap Apps
    /\ Dispatched(open_or_focus(Dismissed, k))
ClickTaskButton(i, end) ==
    /\ Hit(desk, i) /\ desk.wins[i].kind = "Tasks"
    /\ LET d == focus_window(Dismissed, i) IN Dispatched(IF end THEN task_end(d) ELSE task_switch(d))
(* The plate of an open menu keeps it open until the toggle *)
ClickMenu(i) ==
    /\ Hit(desk, i) /\ desk.wins[i].kind = "Widgets"
    /\ \E host \in HostRead(i) :
          Dispatched(focus_window([desk EXCEPT !.menu = IF host = "Widgets" THEN ~@ ELSE @], i))

Release == active /\ desk.drag # None /\ desk' = [desk EXCEPT !.drag = None] /\ UNCHANGED <<active, clients, crash>>

-----------------------------------------------------------------------------
(* SYS_GUI.  A task creates its window once, as the programs of user.rs do *)

create_client(k) ==
    /\ clients[k] = "free" /\ clients' = [clients EXCEPT ![k] = None]
    /\ desk' = spawn_client(desk, k) /\ UNCHANGED <<active, crash>>
present_client(k) ==
    /\ clients[k] # "free" /\ Holding(desk, k) = {}
    /\ desk' = spawn_client(desk, k) /\ UNCHANGED <<active, clients, crash>>
take_client_event(k) ==
    /\ clients[k] \notin {"free", None} /\ clients' = [clients EXCEPT ![k] = None]
    /\ UNCHANGED <<desk, active, crash>>

Next ==
    \/ enter \/ crash_input \/ FaultRaised \/ Release
    \/ \E key \in Keys : handle_scancode(key)
    \/ ClickGlobe \/ ClickDesktop
    \/ \E k \in Kinds : ClickTaskbar(k) \/ ClickIcon(k)
    \/ \E i \in Slots :
          \/ ClickClose(i) \/ ClickMaximize(i) \/ ClickMinimize(i)
          \/ ClickBorder(i) \/ ClickTitle(i) \/ ClickBody(i)
          \/ ClickCloseHost(i) \/ ClickMenu(i)
          \/ \E k \in Apps : ClickOpen(i, k)
          \/ \E end \in BOOLEAN : ClickTaskButton(i, end)
    \/ \E closes \in BOOLEAN : ClickMenuRow(closes)
    \/ \E k \in ClientKinds : create_client(k) \/ present_client(k) \/ take_client_event(k)

Spec == Init /\ [][Next]_vars

-----------------------------------------------------------------------------
(* The keyboard has one target, and it is on the screen: at most one       *)
(* window is focused and it is not minimised; no kind has two windows; the *)
(* window being dragged is open and shown                                  *)
OneFocus ==
    /\ Cardinality(Focused(desk)) <= 1 /\ Focused(desk) \subseteq Visible(desk)
    /\ \A k \in Kinds : Cardinality(Holding(desk, k)) <= 1
    /\ desk.drag # None => \E i \in Visible(desk) : desk.wins[i].kind = desk.drag

(* The Close button in a window's body closes that window and no other     *)
\* Refuted: section 5 of the README.
ClosesOwnHost ==
    [][\A i \in Slots : ClickCloseHost(i) =>
          {desk'.wins[j].kind : j \in Slots} \cup {desk.wins[i].kind, None}
              = {desk.wins[j].kind : j \in Slots} \cup {None}]_vars

(* Switch To puts the selected window on top *)
\* Refuted: section 5 of the README.
SwitchRaises ==
    [][\A i \in Slots : ClickTaskButton(i, FALSE) /\ Holding(desk, desk.sel) # {} =>
          desk'.wins[Max(Used(desk'))].kind = desk.sel]_vars

(* A printable key goes to the focused client as an event: no handler      *)
(* before the client's takes it                                            *)
\* Refuted: section 5 of the README.
KeyReachesClient ==
    active /\ ~crash /\ FocusedKind(desk) \in ClientKinds => ~widget_key(desk, "char")

(* Esc with no window focused returns to the console *)
\* Refuted: section 5 of the README.
EscLeaves == active /\ ~crash /\ Focused(desk) = {} => Used(desk) = {}
=============================================================================
