------------------------------- MODULE GuiApp -------------------------------
(***************************************************************************)
(* The graphical dashboard, aios-gui.  eframe calls AiosApp::update again  *)
(* and again on one thread: a pass polls the slots of the background       *)
(* threads and the live runtime, then builds the widgets, some of which    *)
(* report a click or a key of the user.  After an input egui always makes  *)
(* one more pass, so an input is given to a frame drawn without one.       *)
(* Threads open the native browser, ask the model and let tasks fault.     *)
(*                                                                         *)
(* Blocks and offers are numbers, in the order of their names; texts,      *)
(* colours and log lines are left out.                                     *)
(***************************************************************************)
EXTENDS Naturals, Sequences, FiniteSets, SequencesExt

CONSTANTS Tabs,       \* the tabs the user visits, among 0..8
          Pids,       \* tasks of the runtime
          Names,      \* names of blocks
          Base,       \* blocks loaded by GuiRuntime::new
          Offers,     \* names in the catalog, in its order
          Hits,       \* offers that match the search text of the App Store
          MaxIds,     \* bound on the block ids given out
          MaxAsks,    \* bound on the questions to the model
          MaxWindows, \* bound on the browser windows opened
          None

VARIABLES pc,         \* poll, draw, panicked or off
          ui,         \* selected_tab, selected rows, search text and dialogs
          views,      \* processes, blocks and marketplace_entries
          frame,      \* what the frame on the screen highlights
          registry,   \* block id -> name and origin of the binary
          nextId,
          store,      \* installed blocks: name -> version, 0 older than the catalog
          sched,      \* the tasks, id -> state, and the fault queue
          crash,      \* the task of the open crash dialog, or None
          browser,    \* browser, browser_opening, the two slots, the threads
          ai,         \* ai_busy, ai_stream, pending_ai and ai_log
          asks,       \* questions whose threads run
          saved       \* the files: chat log and network settings

vars == <<pc, ui, views, frame, registry, nextId, store, sched, crash, browser,
          ai, asks, saved>>

GuiAssumption ==
    /\ Tabs \subseteq 0..8 /\ Tabs # {} /\ Names \subseteq Nat
    /\ Base \subseteq Names /\ Offers \in Seq(Names) /\ Hits \subseteq Names

-----------------------------------------------------------------------------
Ordered(S) == SetToSortSeq(S, LAMBDA a, b : a < b)

\* The blocks of a registry as refresh_blocks lists them: by name.
Listed(reg) ==
    SetToSortSeq({[id |-> i, name |-> reg[i].name] : i \in DOMAIN reg},
                 LAMBDA a, b : a.name < b.name \/ (a.name = b.name /\ a.id < b.id))

BaseRegistry == [i \in 1..Cardinality(Base) |-> [name |-> Ordered(Base)[i], from |-> "base"]]

Blank == [tab |-> None, block |-> None, offer |-> None]

Init ==
    /\ pc = "poll" /\ frame = Blank
    /\ ui = [tab |-> CHOOSE t \in Tabs : \A o \in Tabs : t <= o, proc |-> 0,
             block |-> 0, offer |-> 0, search |-> FALSE, load |-> None, net |-> "default"]
    /\ registry = BaseRegistry /\ nextId = Cardinality(Base) + 1
    /\ views = [procs |-> <<>>, blocks |-> Listed(BaseRegistry), offers |-> <<>>]
    /\ \E old \in {{}} \cup {{n} : n \in ToSet(Offers)} : store = [n \in old |-> 0]
    /\ sched = [tasks |-> [p \in Pids |-> "ready"], faults |-> <<>>]
    /\ crash = None
    /\ browser = [window |-> None, opening |-> FALSE, slot |-> None, error |-> FALSE,
                  threads |-> {}, opened |-> 0]
    /\ ai = [busy |-> FALSE, stream |-> <<>>, slot |-> None, log |-> <<>>, asked |-> 0]
    /\ asks = {} /\ saved = [chat |-> <<>>, net |-> "default"]

-----------------------------------------------------------------------------
(* The polls at the start of a pass.                                       *)

poll_browser_open ==
    browser' = IF ~browser.opening THEN browser
               ELSE IF browser.error
               THEN [browser EXCEPT !.opening = FALSE, !.error = FALSE]
               ELSE IF browser.slot # None
               THEN [browser EXCEPT !.opening = FALSE, !.window = browser.slot,
                                    !.slot = None]
               ELSE browser

\* The answer is what the thread has streamed; only a complete one is kept,
\* and the chat with it.
poll_ai ==
    LET kept == ai.slot # None /\ ai.slot.ok /\ ai.stream # <<>>
        log  == IF kept THEN Append(ai.log, [role |-> "assistant", text |-> ai.stream])
                ELSE ai.log
    IN  /\ ai' = IF ai.slot = None THEN ai
                 ELSE [ai EXCEPT !.slot = None, !.busy = FALSE, !.stream = <<>>,
                                 !.log = log]
        /\ saved' = IF kept THEN [saved EXCEPT !.chat = log] ELSE saved

\* The first pending fault is presented, unless a dialog is open.
Presented == IF crash = None /\ sched.faults # <<>> THEN Head(sched.faults) ELSE crash

\* The map of tasks is only ever shortened, which keeps its order.
ListedTasks(tasks) == Ordered(DOMAIN tasks)

PollAlsoBlocks ==
    /\ views' = [views EXCEPT !.procs = ListedTasks(sched.tasks), !.blocks = Listed(registry)]
    /\ crash' = Presented

sync_runtime_snapshot ==
    /\ views' = [views EXCEPT !.procs = ListedTasks(sched.tasks)]
    /\ crash' = Presented

\* A file of the blocks directory may be new or changed: its block is loaded
\* under a new id, in the place of the one loaded from it before.
poll_hot_reload ==
    \/ UNCHANGED <<registry, nextId>>
    \/ \E n \in Names :
          /\ nextId <= MaxIds /\ nextId' = nextId + 1
          /\ LET old == {i \in DOMAIN registry : registry[i] = [name |-> n, from |-> "disk"]}
             IN  registry' = [i \in (DOMAIN registry \ old) \cup {nextId} |->
                                IF i = nextId THEN [name |-> n, from |-> "disk"] ELSE registry[i]]

\* At most four times a second the runtime is read again.
poll_runtime ==
    \/ poll_hot_reload /\ sync_runtime_snapshot
    \/ UNCHANGED <<views, crash, registry, nextId>>

Poll ==
    /\ pc = "poll" /\ pc' = "draw"
    /\ poll_browser_open /\ poll_ai /\ poll_runtime
    /\ UNCHANGED <<ui, frame, store, sched, asks>>

-----------------------------------------------------------------------------
(* What a frame shows.  The row of the App Store is one of the offers that *)
(* match the search text.                                                  *)
At(s, i) == IF i \in 1..Len(s) THEN s[i] ELSE None

Visible == IF ui.search THEN SelectSeq(views.offers, LAMBDA n : n \in Hits) ELSE views.offers

blocks_show == IF ui.tab = 1 /\ ui.block # 0 THEN At(views.blocks, ui.block) ELSE None
marketplace_show == IF ui.tab = 3 THEN At(Visible, ui.offer) ELSE None

\* The line under the table of blocks indexes it with the selected row.
OutOfRange(row, list) == row > Len(list)

Frame ==
    /\ pc = "draw"
    /\ frame' = [tab |-> ui.tab, block |-> blocks_show, offer |-> marketplace_show]
    /\ pc' = IF ui.tab = 1 /\ OutOfRange(ui.block, views.blocks) THEN "panicked" ELSE "poll"
    /\ UNCHANGED <<ui, views, registry, nextId, store, sched, crash, browser, ai, asks, saved>>

\* A pass that reports an input: every click and key below begins so.
Input(t) ==
    /\ pc = "draw" /\ frame # Blank /\ frame.tab = ui.tab /\ ui.tab = t
    /\ frame' = Blank

-----------------------------------------------------------------------------
(* Tabs and rows.                                                          *)
Rest == <<views, registry, nextId, store, sched, crash, browser, ai, asks, saved>>

SelectTab ==
    /\ \E t \in Tabs : Input(ui.tab) /\ ui' = [ui EXCEPT !.tab = t]
    /\ pc' = "poll" /\ UNCHANGED Rest

SelectRow ==
    /\ \/ Input(0) /\ \E i \in 1..Len(views.procs) : ui' = [ui EXCEPT !.proc = i]
       \/ Input(1) /\ \E i \in 1..Len(views.blocks) : ui' = [ui EXCEPT !.block = i]
       \/ Input(3) /\ \E i \in 1..Len(Visible) : ui' = [ui EXCEPT !.offer = i]
    /\ pc' = "poll" /\ UNCHANGED Rest

move_selection_up ==
    /\ \/ Input(1) /\ ui.block > 1 /\ ui' = [ui EXCEPT !.block = @ - 1]
       \/ Input(3) /\ ui.offer > 1 /\ ui' = [ui EXCEPT !.offer = @ - 1]
    /\ pc' = "poll" /\ UNCHANGED Rest

move_selection_down ==
    /\ \/ Input(1) /\ ui.block < Len(views.blocks) /\ ui' = [ui EXCEPT !.block = @ + 1]
       \/ Input(3) /\ ui.offer < Len(views.offers) /\ ui' = [ui EXCEPT !.offer = @ + 1]
    /\ pc' = "poll" /\ UNCHANGED Rest

-----------------------------------------------------------------------------
(* The Processes table of the overview and the crash dialog.               *)
Tasked(tasks, faults) ==
    /\ sched' = [tasks |-> tasks, faults |-> faults]
    /\ views' = [views EXCEPT !.procs = ListedTasks(tasks)]
    /\ crash' = IF crash = None /\ faults # <<>> THEN Head(faults) ELSE crash

Without(f, x) == [y \in DOMAIN f \ {x} |-> f[y]]

kill_process(p) ==
    Tasked(Without(sched.tasks, p), SelectSeq(sched.faults, LAMBDA q : q # p))
suspend_process(p) ==
    Tasked(IF p \in DOMAIN sched.tasks THEN [sched.tasks EXCEPT ![p] = "suspended"]
           ELSE sched.tasks, sched.faults)
resume_process(p) ==
    Tasked(IF p \in DOMAIN sched.tasks /\ sched.tasks[p] = "suspended"
           THEN [sched.tasks EXCEPT ![p] = "ready"] ELSE sched.tasks, sched.faults)

overview_show ==
    /\ Input(0) /\ ui.proc # 0
    /\ IF OutOfRange(ui.proc, views.procs)
       THEN pc' = "panicked" /\ UNCHANGED <<views, sched, crash>>
       ELSE /\ pc' = "poll"
            /\ \/ kill_process(views.procs[ui.proc])
               \/ suspend_process(views.procs[ui.proc])
               \/ resume_process(views.procs[ui.proc])
    /\ UNCHANGED <<ui, registry, nextId, store, browser, ai, asks, saved>>

\* A decision goes to the scheduler in the same pass; it is refused when the
\* task has no fault any more.
apply_crash_outcome(p, action) ==
    sched' = IF p \notin ToSet(sched.faults) THEN sched
             ELSE [faults |-> SelectSeq(sched.faults, LAMBDA q : q # p),
                   tasks  |-> IF action = "Terminate" THEN Without(sched.tasks, p)
                              ELSE [sched.tasks EXCEPT ![p] = "ready"]]

choose ==
    /\ Input(ui.tab) /\ crash # None
    /\ crash' = None
    /\ \E action \in {"Rollback", "Terminate", "Resume"} : apply_crash_outcome(crash, action)
    /\ pc' = "poll"
    /\ UNCHANGED <<ui, views, registry, nextId, store, browser, ai, asks, saved>>

\* The scheduler thread of the runtime finds a panicked task.
TaskFaults ==
    /\ \E p \in DOMAIN sched.tasks :
          /\ p \notin ToSet(sched.faults) /\ sched.tasks[p] # "crashed"
          /\ sched' = [faults |-> Append(sched.faults, p),
                       tasks |-> [sched.tasks EXCEPT ![p] = "crashed"]]
    /\ pc \notin {"panicked", "off"}
    /\ UNCHANGED <<pc, ui, views, frame, registry, nextId, store, crash, browser, ai, asks, saved>>

-----------------------------------------------------------------------------
(* Blocks.                                                                 *)
refresh_blocks(reg) == registry' = reg /\ views' = [views EXCEPT !.blocks = Listed(reg)]

Loaded(name, from) == registry @@ (nextId :> [name |-> name, from |-> from])

\* Only a block that has a file in the blocks directory can be loaded.
load_block(name) ==
    IF name \notin DOMAIN store THEN UNCHANGED <<registry, views, nextId>>
    ELSE nextId <= MaxIds /\ nextId' = nextId + 1 /\ refresh_blocks(Loaded(name, "store"))

LoadDialog ==
    /\ Input(1) /\ pc' = "poll"
    /\ \/ /\ ui' = [ui EXCEPT !.load = [step |-> 0, name |-> 0]]
          /\ UNCHANGED <<registry, views, nextId>>
       \/ /\ ui.load # None /\ ui.load.step = 0
          /\ \E n \in Names : ui' = [ui EXCEPT !.load = [step |-> 1, name |-> n]]
          /\ UNCHANGED <<registry, views, nextId>>
       \/ /\ ui.load # None /\ ui' = [ui EXCEPT !.load = None]
          /\ \/ UNCHANGED <<registry, views, nextId>>
             \/ ui.load.step = 1 /\ load_block(ui.load.name)
    /\ UNCHANGED <<store, sched, crash, browser, ai, asks, saved>>

unload_block(id) == refresh_blocks(Without(registry, id))

\* The live update may be refused; else the installed copy is served.
hot_swap_block(name) ==
    LET ids == {i \in DOMAIN registry : registry[i].name = name}
    IN  IF name \notin DOMAIN store THEN UNCHANGED <<registry, views>>
        ELSE IF ids = {} THEN UNCHANGED <<registry, views>>
        ELSE \/ \E i \in ids : refresh_blocks([registry EXCEPT ![i].from = "store"])
             \/ refresh_blocks(registry)

\* After the buttons the same pass draws the line of the selected row.
BlockButtons ==
    /\ Input(1) /\ ui.block \in 1..Len(views.blocks)
    /\ \/ unload_block(views.blocks[ui.block].id)
       \/ hot_swap_block(views.blocks[ui.block].name)
       \/ refresh_blocks(registry)
    /\ pc' = IF OutOfRange(ui.block, views'.blocks) THEN "panicked" ELSE "poll"
    /\ UNCHANGED <<ui, nextId, store, sched, crash, browser, ai, asks, saved>>

-----------------------------------------------------------------------------
(* The App Store.                                                          *)
sync_marketplace(reg) ==
    views' = [views EXCEPT !.offers = Offers, !.blocks = Listed(reg)]

search_marketplace ==
    /\ Input(3) /\ pc' = "poll"
    /\ \E b \in BOOLEAN : ui' = [ui EXCEPT !.search = b]
    /\ views' = [views EXCEPT !.offers = Offers]
    /\ UNCHANGED <<registry, nextId, store, sched, crash, browser, ai, asks, saved>>

InstallAgain(name) ==
    /\ nextId <= MaxIds /\ nextId' = nextId + 1
    /\ store' = [n \in DOMAIN store \cup {name} |-> IF n = name THEN 1 ELSE store[n]]
    /\ registry' = Loaded(name, "store") /\ sync_marketplace(registry')

\* A block that is installed in any version is left as it is.
install_block(name) ==
    IF name \in DOMAIN store
    THEN views' = [views EXCEPT !.offers = Offers] /\ UNCHANGED <<registry, nextId, store>>
    ELSE InstallAgain(name)

\* A newer version in the catalog only leads to install_block.
update_block(name) ==
    IF name \notin DOMAIN store \/ store[name] = 1
    THEN UNCHANGED <<registry, views, nextId, store>>
    ELSE install_block(name)

uninstall_block(name) ==
    IF name \notin DOMAIN store
    THEN sync_marketplace(registry) /\ UNCHANGED <<registry, nextId, store>>
    ELSE LET ids == {i \in DOMAIN registry : registry[i].name = name}
         IN  /\ store' = Without(store, name) /\ UNCHANGED nextId
             /\ IF ids = {} THEN UNCHANGED registry
                ELSE \E i \in ids : registry' = Without(registry, i)
             /\ sync_marketplace(registry')

\* The buttons take the selected row of all offers, not of the visible ones.
Chosen == views.offers[ui.offer]

StoreButtons ==
    /\ Input(3) /\ pc' = "poll" /\ ui.offer # 0
    /\ install_block(Chosen) \/ update_block(Chosen) \/ uninstall_block(Chosen)
    /\ UNCHANGED <<ui, sched, crash, browser, ai, asks, saved>>

-----------------------------------------------------------------------------
(* AI Studio.                                                              *)
ai_save_chat(log) == [saved EXCEPT !.chat = log]

SendWhileBusy ==
    /\ ai.asked < MaxAsks
    /\ ai' = [ai EXCEPT !.busy = TRUE, !.stream = <<>>, !.asked = @ + 1,
                        !.log = Append(@, [role |-> "user", text |-> ai.asked + 1])]
    /\ asks' = asks \cup {ai.asked + 1}
    /\ UNCHANGED saved

\* One question at a time: it is logged and a thread asks the model.
ai_send == ~ai.busy /\ SendWhileBusy

\* A chat on the disk replaces the one in memory.
ai_restore_chat == IF saved.chat = <<>> THEN ai.log ELSE saved.chat

\* /save and /load; the other commands change the output or the next request.
ai_command ==
    /\ ~ai.busy /\ UNCHANGED asks
    /\ \/ saved' = ai_save_chat(ai.log) /\ UNCHANGED ai
       \/ ai' = [ai EXCEPT !.log = ai_restore_chat] /\ UNCHANGED saved

ai_studio_show ==
    /\ Input(2) /\ pc' = "poll"
    /\ ai_send \/ ai_command
    /\ UNCHANGED <<ui, views, registry, nextId, store, sched, crash, browser>>

\* The thread of a question: tokens go to the stream, the result to the slot.
Streams ==
    /\ \E n \in asks :
          \/ /\ Len(ai.stream) < 2 /\ ai' = [ai EXCEPT !.stream = Append(@, n)]
             /\ UNCHANGED asks
          \/ /\ \E ok \in BOOLEAN : ai' = [ai EXCEPT !.slot = [ok |-> ok]]
             /\ asks' = asks \ {n}
    /\ pc \notin {"panicked", "off"}
    /\ UNCHANGED <<pc, ui, views, frame, registry, nextId, store, sched, crash, browser, saved>>

-----------------------------------------------------------------------------
(* Network settings: a save writes the file, a reset saves the defaults.   *)
net_save(cfg) == saved' = [saved EXCEPT !.net = cfg]
net_reset == ui' = [ui EXCEPT !.net = "default"] /\ net_save("default")

network_show ==
    /\ Input(4) /\ pc' = "poll"
    /\ \/ ui' = [ui EXCEPT !.net = "edited"] /\ UNCHANGED saved
       \/ net_save(ui.net) /\ UNCHANGED ui
       \/ net_reset
    /\ UNCHANGED <<views, registry, nextId, store, sched, crash, browser, ai, asks>>

-----------------------------------------------------------------------------
(* The native browser.                                                     *)
OpenBeside ==
    /\ browser.window = None /\ browser.opened < MaxWindows
    /\ browser' = [browser EXCEPT !.opening = TRUE, !.slot = None, !.error = FALSE,
                      !.threads = @ \cup {browser.opened + 1}, !.opened = @ + 1]

\* Ignored while a window is open or on its way.
start_browser_open == ~browser.opening /\ OpenBeside

\* The old window is dropped, and with it closed.
close_browser ==
    /\ browser.window # None
    /\ browser' = [browser EXCEPT !.opening = FALSE, !.slot = None, !.error = FALSE,
                                  !.window = None]

web_show ==
    /\ Input(6) /\ pc' = "poll"
    /\ start_browser_open \/ close_browser
    /\ UNCHANGED <<ui, views, registry, nextId, store, sched, crash, ai, asks, saved>>

BrowserThread ==
    /\ \E n \in browser.threads :
          \/ browser' = [browser EXCEPT !.threads = @ \ {n}, !.slot = n]
          \/ browser' = [browser EXCEPT !.threads = @ \ {n}, !.error = TRUE]
    /\ pc \notin {"panicked", "off"}
    /\ UNCHANGED <<pc, ui, views, frame, registry, nextId, store, sched, crash, ai, asks, saved>>

\* The window is closed: the chat is saved and the runtime kills its tasks.
Exit ==
    /\ pc = "poll" /\ pc' = "off"
    /\ saved' = IF ai.log = <<>> THEN saved ELSE ai_save_chat(ai.log)
    /\ sched' = [tasks |-> <<>>, faults |-> <<>>]
    /\ UNCHANGED <<ui, views, frame, registry, nextId, store, crash, browser, ai, asks>>

Next ==
    \/ Poll \/ Frame \/ SelectTab \/ SelectRow \/ move_selection_up \/ move_selection_down
    \/ overview_show \/ choose \/ TaskFaults
    \/ LoadDialog \/ BlockButtons \/ search_marketplace \/ StoreButtons
    \/ ai_studio_show \/ Streams \/ network_show \/ web_show \/ BrowserThread \/ Exit

Spec == Init /\ [][Next]_vars

-----------------------------------------------------------------------------
(* Properties.                                                             *)

\* A button acts on what the frame highlights: the block that Unload takes
\* out of the registry is the highlighted one, and so is the offer that is
\* installed or removed while no search text narrows the list (the rows are
\* remembered by index, and the lists change under them).
GuiActsOnFrame ==
    [][ /\ (BlockButtons /\ DOMAIN registry' # DOMAIN registry)
              => DOMAIN registry \ DOMAIN registry' = {frame.block.id}
        /\ (StoreButtons /\ ~ui.search /\ DOMAIN store' # DOMAIN store)
              => DOMAIN store' \cup {frame.offer} = DOMAIN store \cup {frame.offer} ]_vars

\* There is never more than one native window, open or on its way, and it is
\* never lost while the dashboard waits for it (browser_opening,
\* pending_browser).
OneBrowser ==
    /\ Cardinality(browser.threads \cup ({browser.window, browser.slot} \ {None})) <= 1
    /\ browser.opening =>
          browser.threads # {} \/ browser.slot # None \/ browser.error

\* An answer in the chat follows its question and holds tokens of no other
\* one, also after failed questions and a reloaded chat (ai_busy, ai_stream,
\* pending_ai).
AnswersInTurn ==
    \A i \in 1..Len(ai.log) :
        ai.log[i].role = "assistant" =>
            /\ i > 1 /\ ai.log[i - 1].role = "user"
            /\ ToSet(ai.log[i].text) = {ai.log[i - 1].text}

\* The table of blocks is never indexed beyond its end.
\* Refuted: section 5 of the README.
RowsInRange == pc # "panicked"
=============================================================================
