-------------------------- MODULE MCKernelDesktop ---------------------------
(***************************************************************************)
(* The kernel's desktop for TLC: the window manager, the input paths, what *)
(* is typed into windows, geometry with repainting, and the text console   *)
(* with its panel, shell and log, some with several sets of bounds.  A     *)
(* behaviour exercises the one `part` names; the others rest in their      *)
(* initial state.                                                          *)
(***************************************************************************)
EXTENDS Integers

VARIABLES part,
          desk, active, clients, crash,                       \* KernelDesktop
          kbd, pressed, handled, dev, last, scr, owed,        \* KernelInput
          form, clip, draft, conf, saved, losses,             \* KernelForms
          wins, cur, drag, modal, dirty, stale, burst,        \* KernelScreen
          tab, shell, screen, gui, mouse, shown, socks,       \* KernelConsole
          verdict, log, lease

deskVars == <<desk, active, clients, crash>>
inputVars == <<kbd, pressed, handled, dev, last, scr, owed>>
formVars == <<form, clip, draft, conf, saved, losses>>
screenVars == <<wins, cur, drag, modal, dirty, stale, burst>>
consoleVars == <<tab, shell, screen, gui, mouse, shown, socks, verdict, log, lease>>

(* The Task Manager or the Network window beside a client of two slots;    *)
(* three slots with the Widget Lab and its menu                            *)
Tasks == INSTANCE KernelDesktop WITH
    MaxWins <- 2, Apps <- {"Welcome", "System", "Tasks"}, ClientKinds <- {"Client0"}, NoteCap <- 1
Nets == INSTANCE KernelDesktop WITH
    MaxWins <- 2, Apps <- {"Welcome", "System", "Network"}, ClientKinds <- {"Client0"}, NoteCap <- 1
Labs == INSTANCE KernelDesktop WITH
    MaxWins <- 3, Apps <- {"Welcome", "System", "Widgets"}, ClientKinds <- {}, NoteCap <- 1

(* Six bytes typed, taken in the interrupt handler or polled               *)
Typed(path) == INSTANCE KernelInput WITH
    Path <- path, FifoSize <- 7, MaxBytes <- 6, Bands <- {"ps2"}, MaxX <- 3, MaxStep <- 1,
    Settle <- 9, Runaway <- 2, Reach <- 2, MaxReports <- 0
(* Five reports of one pointing device                                     *)
Pointed == INSTANCE KernelInput WITH
    Path <- "irq", FifoSize <- 7, MaxBytes <- 0, Bands <- {"ps2"}, MaxX <- 3, MaxStep <- 1,
    Settle <- 9, Runaway <- 2, Reach <- 2, MaxReports <- 5

(* Fields of three bytes; quads of two groups up to 20, one power loss     *)
Forms(host) == INSTANCE KernelForms WITH
    Host <- host, FieldCap <- 3, Items <- 3, Rows <- 2, Octets <- 2, OctetMax <- 20,
    QuadCap <- 4, Digits <- {2}, CredCap <- 1, MaxCrash <- 1

(* One window on a screen of six rows, two events between renders        *)
Screen == INSTANCE KernelScreen WITH
    Height <- 6, Bar <- 1, MinH <- 2, Kinds <- {"System"}, Live <- {"System"}, Heights <- {2, 3},
    Back <- TRUE, MaxBurst <- 2

(* Four tabs on twelve columns; a log of three rows, written by two tasks  *)
Console == INSTANCE KernelConsole WITH
    Width <- 12, Margin <- 3, Arrow <- 2, TabCount <- 4, TabShell <- 2, Streak <- 3,
    Cols <- 20, Rows <- 3, TabStop <- 8, Slots <- 10, LogBytes <- 6

ASSUME Tasks!DesktopAssumption /\ Nets!DesktopAssumption /\ Labs!DesktopAssumption
ASSUME Typed("irq")!InputAssumption /\ Typed("poll")!InputAssumption /\ Pointed!InputAssumption
ASSUME Forms("Widgets")!FormsAssumption /\ Forms("Network")!FormsAssumption
ASSUME Screen!ScreenAssumption /\ Console!KernelConsoleAssumption

Desks == {"tasks", "nets", "labs"}
Inputs == {"irq", "poll", "pointer"}
Hosts == {"Widgets", "Network"}

MCInit ==
    /\ part \in Desks \cup Inputs \cup Hosts \cup {"screen", "panel", "shell", "log"}
    /\ IF part = "labs" THEN Labs!Init ELSE IF part = "nets" THEN Nets!Init ELSE Tasks!Init
    /\ Pointed!Init /\ Forms("Network")!Init /\ Screen!Init /\ Console!Init

MCNext ==
    /\ UNCHANGED part
    /\ \/ /\ \/ part = "tasks" /\ Tasks!Next
             \/ part = "nets" /\ Nets!Next
             \/ part = "labs" /\ Labs!Next
          /\ UNCHANGED <<inputVars, formVars, screenVars, consoleVars>>
       \/ /\ \/ part = "irq" /\ Typed("irq")!Next
             \/ part = "poll" /\ Typed("poll")!Next
             \/ part = "pointer" /\ Pointed!Next
          /\ UNCHANGED <<deskVars, formVars, screenVars, consoleVars>>
       \/ /\ \/ part = "Widgets" /\ Forms("Widgets")!Next
             \/ part = "Network" /\ Forms("Network")!Next
          /\ UNCHANGED <<deskVars, inputVars, screenVars, consoleVars>>
       \/ part = "screen" /\ Screen!Next /\ UNCHANGED <<deskVars, inputVars, formVars, consoleVars>>
       \/ /\ \/ part = "panel" /\ Console!PanelNext
             \/ part = "shell" /\ Console!ShellNext
             \/ part = "log" /\ Console!LogNext
          /\ UNCHANGED <<deskVars, inputVars, formVars, screenVars>>

MCSpec == MCInit /\ [][MCNext]_<<part, deskVars, inputVars, formVars, screenVars, consoleVars>>

-----------------------------------------------------------------------------
(* The keyboard has one target, and it is on the screen *)
OneFocus ==
    /\ part = "tasks" => Tasks!OneFocus
    /\ part = "nets" => Nets!OneFocus
    /\ part = "labs" => Labs!OneFocus


(* Text fields and the clipboard hold whole characters, the list its view; *)
(* network settings are read as written and survive a power loss whole.    *)
FormSound ==
    /\ part = "Widgets" => Forms("Widgets")!FormSound
    /\ part = "Network" => Forms("Network")!SettingsWhole

(* Windows stay on the desktop, and what is shown wrongly is repainted *)
OnScreen == part = "screen" => Screen!OnScreen /\ Screen!DamageCovers

(* A click on the console's bar opens the tab drawn there, the shell's     *)
(* commands give back the sockets they took, and lines of the log are      *)
(* neither torn nor drawn outside the strip (console.rs, shell.rs).        *)
ConsoleSound ==
    /\ Console!ClickOpensShownTab
    /\ [](/\ part = "shell" => Console!SocketsReturned
          /\ part = "log" => Console!LogIntact)
=============================================================================
