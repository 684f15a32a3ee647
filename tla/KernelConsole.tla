--------------------------- MODULE KernelConsole ---------------------------
(***************************************************************************)
(* The kernel's text screen: the boot log strip of                            *)
(* aios-kernel/src/console.rs with its lock, and the interactive panel of      *)
(* aios-kernel/src/tui.rs below it - tabs, shell commands, the mouse arrow     *)
(* and what a repaint covers - next to the timer bar and the heartbeat square  *)
(* that interrupts.rs and main.rs paint straight into the framebuffer.         *)
(*                                                                            *)
(* The panel runs in the idle loop, in ring 0, so one key, report or repaint   *)
(* is one step; only the log strip is written byte by byte, because a timer    *)
(* interrupt may print in the middle of a line.  Pixels are columns of the     *)
(* tab bar, and screen areas elsewhere.                                         *)
(***************************************************************************)
EXTENDS Integers, Sequences, FiniteSets

CONSTANTS
    Width,       \* framebuffer width in pixels
    Margin,      \* the right-hand pixels the panel leaves to the tick bar (16)
    Arrow,       \* width of the mouse arrow (8)
    TabCount,    \* TABS.len()
    TabShell,    \* TAB_SHELL
    Streak,      \* RUNAWAY_STREAK
    Cols, Rows,  \* glyph cells of the log strip
    TabStop,     \* columns a tab character advances to (8)
    Slots,       \* sockets in the kernel's table
    LogBytes     \* bytes of one line printed by ring-0 code

VARIABLES
    tab,     \* ACTIVE_TAB
    shell,   \* the command typed so far
    screen,  \* area -> who painted it last
    gui,     \* gui::active()
    mouse,   \* [x, bar, init, buttons, streak, lock]
    shown,   \* the tab drawn under each column by the last repaint
    socks,   \* [user, shell, linger]: slots held by tasks, by the shell, by closing TCP
    verdict, \* [phases, full] of the last socktest
    log,     \* [x, y, holder, left, drawn, torn] of the log strip
    lease    \* an address is bound

vars == <<tab, shell, screen, gui, mouse, shown, socks, verdict, log, lease>>

Commands == {"clear", "echo", "gui", "tui", "udp", "http", "socktest"}
Phases == {"udp", "bc", "mc", "tcp", "bulk", "cc"}
Areas == {"log", "bar", "tabs", "content", "right", "status", "heart"}
MaxX == Width - Arrow

KernelConsoleAssumption ==
    /\ Width \in Nat /\ Margin \in 0..Width /\ Arrow \in 0..Width
    /\ TabCount \in Nat \ {0} /\ TabShell \in 0..(TabCount - 1)
    /\ Width - Margin >= TabCount
    /\ Streak \in Nat \ {0} /\ Cols \in Nat \ {0} /\ Rows \in Nat \ {0}
    /\ TabStop \in Nat \ {0} /\ Slots \in Nat /\ LogBytes \in Nat

-----------------------------------------------------------------------------
(* The shell's commands.  Each runs to its end inside the idle loop, polling   *)
(* the network itself; whether a peer answers is open.                         *)
InUse == socks.user + socks.shell + socks.linger
Free == Slots - InUse

\* cmd_udp: one socket, closed whether or not a reply came.
UdpKeepsOnTimeout ==
    /\ lease /\ Free > 0
    /\ \E reply \in BOOLEAN : socks' = [socks EXCEPT !.shell = @ + (IF reply THEN 0 ELSE 1)]
    /\ UNCHANGED <<verdict, gui>>
cmd_udp ==
    /\ lease /\ Free > 0
    /\ UNCHANGED <<socks, verdict, gui>>

\* cmd_http: an established connection that is closed lingers until its peer is done.
cmd_http ==
    /\ lease /\ Free > 0
    /\ \E established \in BOOLEAN :
         socks' = [socks EXCEPT !.linger = @ + (IF established THEN 1 ELSE 0)]
    /\ UNCHANGED <<verdict, gui>>

\* What is left of n sockets opened with room for `room`: a phase that got all
\* of them closes them, one that did not keeps those it got.
Kept(n, room) == IF room >= n THEN 0 ELSE room

\* cmd_socktest: two UDP sockets, two groups of three opened together, two TCP sockets.
cmd_socktest ==
    /\ lease
    /\ LET udp == Kept(2, Free)
           free == Free - udp
           first == IF free < 3 THEN free ELSE 3       \* opened for the broadcast phase
           second == IF free - first < 3 THEN free - first ELSE 3
           fans == Kept(3, first) + Kept(3, second)
           tcp == Kept(2, free - fans)
           tested == Kept(2, free - fans) = 0 /\ free - fans >= 2
       IN \E accepted \in (IF free - fans >= 3 THEN BOOLEAN ELSE {FALSE}) :
            /\ socks' = [socks EXCEPT !.shell = @ + udp + fans + tcp]
            /\ verdict' = [phases |-> {"udp", "bc", "mc", "tcp"}
                                      \cup (IF tested /\ accepted THEN {"bulk", "cc"} ELSE {}),
                           full |-> verdict.full \/ Free < 2 \/ free < 6 \/ free - fans < 2]
    /\ UNCHANGED gui

\* No address, or no socket: the command only says so.
Refused ==
    /\ ~lease \/ Free = 0
    /\ UNCHANGED <<socks, verdict, gui>>

run_command(c) ==
    CASE c = "udp"      -> cmd_udp \/ Refused
      [] c = "http"     -> cmd_http \/ Refused
      [] c = "socktest" -> cmd_socktest \/ (~lease /\ UNCHANGED <<socks, verdict, gui>>)
      [] c = "gui"      -> gui' = TRUE /\ UNCHANGED <<socks, verdict>>
      [] c = "tui"      -> gui' = FALSE /\ UNCHANGED <<socks, verdict>>
      [] OTHER          -> UNCHANGED <<socks, verdict, gui>>

\* handle_scancode in the Shell tab: Enter runs the line, Esc clears it, text grows it.
shell_exec ==
    /\ ~gui /\ tab = TabShell /\ shell # ""
    /\ shell' = ""
    /\ run_command(shell)
    /\ UNCHANGED <<tab, screen, mouse, shown, log, lease>>

ShellKey ==
    /\ ~gui /\ tab = TabShell
    /\ \/ shell = "" /\ shell' \in Commands
       \/ shell' = ""
    /\ UNCHANGED <<tab, screen, gui, mouse, shown, socks, verdict, log, lease>>

\* In the other tabs the digits 1..7 switch.
DigitKey ==
    /\ ~gui /\ tab # TabShell
    /\ tab' \in 0..(TabCount - 1)
    /\ UNCHANGED <<shell, screen, gui, mouse, shown, socks, verdict, log, lease>>

-----------------------------------------------------------------------------
(* The mouse arrow.                                                            *)
Slot == (Width - Margin) \div TabCount

TabAtFullWidth(x) ==
    LET idx == x \div (Width \div TabCount) IN IF idx < TabCount THEN idx ELSE -1
\* tab_at_click on the row of the tab bar; -1 for no tab.
tab_at_click(x) == LET idx == x \div Slot IN IF idx < TabCount THEN idx ELSE -1

Clamp(x) == IF x < 0 THEN 0 ELSE IF x > MaxX THEN MaxX ELSE x

Pins(dx) == (mouse.x = 0 /\ dx < 0) \/ (mouse.x >= MaxX /\ dx > 0)

GateStaysShut(dx) ==
    IF ~mouse.init THEN [ok |-> TRUE, m |-> mouse]
    ELSE IF mouse.lock THEN [ok |-> dx # 0 /\ ~Pins(dx), m |-> mouse]
    ELSE IF ~Pins(dx) THEN [ok |-> TRUE, m |-> IF dx # 0 THEN [mouse EXCEPT !.streak = 0] ELSE mouse]
    ELSE IF mouse.streak + 1 >= Streak
         THEN [ok |-> FALSE, m |-> [mouse EXCEPT !.streak = @ + 1, !.lock = TRUE]]
         ELSE [ok |-> TRUE, m |-> [mouse EXCEPT !.streak = @ + 1]]
\* input_allowed: a stream that keeps pushing into an edge is shut out until it turns.
input_allowed(dx) ==
    IF ~mouse.init THEN [ok |-> TRUE, m |-> mouse]
    ELSE IF mouse.lock
         THEN IF dx # 0 /\ ~Pins(dx)
              THEN [ok |-> TRUE, m |-> [mouse EXCEPT !.lock = FALSE, !.streak = 0]]
              ELSE [ok |-> FALSE, m |-> mouse]
    ELSE IF ~Pins(dx) THEN [ok |-> TRUE, m |-> IF dx # 0 THEN [mouse EXCEPT !.streak = 0] ELSE mouse]
    ELSE IF mouse.streak + 1 >= Streak
         THEN [ok |-> FALSE, m |-> [mouse EXCEPT !.streak = @ + 1, !.lock = TRUE]]
         ELSE [ok |-> TRUE, m |-> [mouse EXCEPT !.streak = @ + 1]]

\* on_mouse: the arrow moves; a press on the tab bar switches.
on_mouse(m, dx, down, bar) ==
    LET x == Clamp((IF m.init THEN m.x ELSE Width \div 2) + dx)
        hit == IF down /\ ~m.buttons /\ bar THEN tab_at_click(x) ELSE -1
    IN /\ mouse' = [m EXCEPT !.x = x, !.bar = bar, !.init = TRUE, !.buttons = down]
       /\ tab' = IF hit >= 0 THEN hit ELSE tab

Report ==
    /\ ~gui
    /\ \E dx \in -Width..Width, down \in BOOLEAN, bar \in BOOLEAN :
         LET gate == input_allowed(dx)
         IN IF gate.ok THEN on_mouse(gate.m, dx, down, bar)
            ELSE mouse' = gate.m /\ UNCHANGED tab
    /\ UNCHANGED <<shell, screen, gui, shown, socks, verdict, log, lease>>

-----------------------------------------------------------------------------
(* Repaints.  draw_tabs fills one slot per tab, the content area is cleared    *)
(* over the full width, draw_status fills the bottom strip over the full width.*)
draw_tabs == [x \in 0..MaxX |-> LET i == {t \in 0..(TabCount - 1) : t * Slot <= x /\ x < (t + 1) * Slot}
                                IN IF i = {} THEN -1 ELSE CHOOSE t \in i : TRUE]
draw_status == {"status", "heart"}
Content == {"content", "right"}

render ==
    /\ ~gui
    /\ shown' = draw_tabs
    /\ screen' = [a \in Areas |-> IF a \in {"tabs"} \cup Content \cup draw_status
                                  THEN "panel" ELSE screen[a]]
    /\ UNCHANGED <<tab, shell, gui, mouse, socks, verdict, log, lease>>

\* draw_timer_bar, from every timer interrupt, and the 2 Hz heartbeat of the idle loop.
draw_timer_bar ==
    /\ ~gui
    /\ screen' = [screen EXCEPT !["bar"] = "timer"]
    /\ UNCHANGED <<tab, shell, gui, mouse, shown, socks, verdict, log, lease>>

Heartbeat ==
    /\ ~gui
    /\ screen' = [screen EXCEPT !["heart"] = "heartbeat"]
    /\ UNCHANGED <<tab, shell, gui, mouse, shown, socks, verdict, log, lease>>

-----------------------------------------------------------------------------
(* The log strip.                                                              *)
Bytes == {"char", "nl", "cr", "tab"}

newline(l) == [l EXCEPT !.x = 0, !.y = IF @ + 1 >= Rows THEN @ ELSE @ + 1]

WriteTabUnwrapped(l, b) ==
    CASE b = "nl"  -> newline(l)
      [] b = "cr"  -> [l EXCEPT !.x = 0]
      [] b = "tab" -> [l EXCEPT !.x = ((@ + TabStop) \div TabStop) * TabStop]
      [] OTHER     -> LET d == [l EXCEPT !.drawn = <<l.x, l.y>>, !.x = @ + 1]
                      IN IF d.x >= Cols THEN newline(d) ELSE d
\* write_byte: a glyph is drawn at the cursor, which wraps at the last column.
write_byte(l, b) ==
    CASE b = "nl"  -> newline(l)
      [] b = "cr"  -> [l EXCEPT !.x = 0]
      [] b = "tab" -> LET t == [l EXCEPT !.x = ((@ + TabStop) \div TabStop) * TabStop]
                      IN IF t.x >= Cols THEN newline(t) ELSE t
      [] OTHER     -> LET d == [l EXCEPT !.drawn = <<l.x, l.y>>, !.x = @ + 1]
                      IN IF d.x >= Cols THEN newline(d) ELSE d

\* print in ring 0: gone while the GUI owns the screen, else under try_lock.
PrintBegin ==
    /\ ~gui /\ ~log.holder
    /\ log' = [log EXCEPT !.holder = TRUE, !.left = LogBytes]
    /\ UNCHANGED <<tab, shell, screen, gui, mouse, shown, socks, verdict, lease>>

PrintByte ==
    /\ log.holder /\ log.left > 0
    /\ \E b \in Bytes : log' = [write_byte(log, b) EXCEPT !.left = @ - 1]
    /\ screen' = [screen EXCEPT !["log"] = "console"]
    /\ UNCHANGED <<tab, shell, gui, mouse, shown, socks, verdict, lease>>

PrintEnd ==
    /\ log.holder /\ log.left = 0
    /\ log' = [log EXCEPT !.holder = FALSE]
    /\ UNCHANGED <<tab, shell, screen, gui, mouse, shown, socks, verdict, lease>>

MayPrintAlways == ~gui
\* What print asks before it writes.
try_lock == ~gui /\ ~log.holder

\* A line printed by an interrupt handler: whole, or not at all.
InterruptPrints ==
    /\ try_lock
    /\ \E b \in Bytes : log' = [newline(write_byte(log, b)) EXCEPT !.torn = @ \/ log.holder]
    /\ UNCHANGED <<tab, shell, screen, gui, mouse, shown, socks, verdict, lease>>

-----------------------------------------------------------------------------
(* The rest of the kernel: tasks open and close sockets, closing connections   *)
(* end, the address comes and goes, and the GUI is left again.                 *)
Surroundings ==
    /\ \/ /\ Free > 0 /\ socks' = [socks EXCEPT !.user = @ + 1] /\ UNCHANGED <<lease, gui>>
       \/ /\ socks.user > 0 /\ socks' = [socks EXCEPT !.user = @ - 1] /\ UNCHANGED <<lease, gui>>
       \/ /\ socks.linger > 0 /\ socks' = [socks EXCEPT !.linger = @ - 1] /\ UNCHANGED <<lease, gui>>
       \/ /\ lease' = ~lease /\ UNCHANGED <<socks, gui>>
       \/ /\ gui /\ gui' = FALSE /\ UNCHANGED <<socks, lease>>
    /\ UNCHANGED <<tab, shell, screen, mouse, shown, verdict, log>>

-----------------------------------------------------------------------------
Init ==
    /\ tab = 0 /\ shell = "" /\ gui = FALSE
    /\ screen = [a \in Areas |-> "boot"]
    /\ mouse = [x |-> 0, bar |-> FALSE, init |-> FALSE, buttons |-> FALSE, streak |-> 0, lock |-> FALSE]
    /\ shown = [x \in 0..MaxX |-> -1]
    /\ socks = [user |-> 0, shell |-> 0, linger |-> 0]
    /\ verdict = [phases |-> Phases, full |-> FALSE]
    /\ log = [x |-> 0, y |-> 0, holder |-> FALSE, left |-> 0, drawn |-> <<0, 0>>, torn |-> FALSE]
    /\ lease = FALSE

PanelNext == Report \/ DigitKey \/ render \/ draw_timer_bar \/ Heartbeat
ShellNext == shell_exec \/ ShellKey \/ Surroundings \/ (DigitKey /\ tab' = TabShell)
LogNext == PrintBegin \/ PrintByte \/ PrintEnd \/ InterruptPrints

Next == PanelNext \/ ShellNext \/ LogNext

Spec == Init /\ [][Next]_vars

-----------------------------------------------------------------------------
(* A click switches to the tab that the last repaint drew under the arrow, or   *)
(* to none right of the last tab; and a pointer is shut out only while its      *)
(* arrow stands at an edge, so a stream that turns back is let in again.         *)
ClickOpensShownTab ==
    [][/\ (tab' # tab /\ mouse'.buttons /\ ~mouse.buttons /\ shown # [x \in 0..MaxX |-> -1])
            => tab' = shown[mouse'.x]
       /\ mouse'.lock => mouse'.x \in {0, MaxX}]_vars

(* A shell command that found room for every socket it asked for leaves none    *)
(* behind.                                                                       *)
SocketsReturned == socks.shell > 0 => verdict.full

(* Text stays in the log strip, and no interrupt's output falls into a line     *)
(* that ring-0 code is writing.                                                  *)
LogIntact ==
    /\ log.drawn[1] < Cols /\ log.drawn[2] < Rows
    /\ ~log.torn

(* tui.rs: the panel never writes the rightmost 16 px or the heartbeat square.  *)
\* Refuted: section 5 of the README.
PanelKeepsOff == screen["right"] # "panel" /\ screen["heart"] # "panel"

(* tui.rs on socktest: one PASS/FAIL line per phase.                            *)
\* Refuted: section 5 of the README.
OneLinePerPhase == verdict.full \/ verdict.phases = Phases
=============================================================================
