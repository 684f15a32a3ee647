------------------------------ MODULE Dashboard ------------------------------
(***************************************************************************)
(* The text dashboard of aios-tui.  One thread runs the loop of main: it   *)
(* empties the outboxes, draws a frame and handles at most one key.        *)
(* Pages, shell tasks, block downloads and the native browser window are   *)
(* fetched or opened by threads of their own, each of which leaves its     *)
(* result in a slot that holds one result.                                 *)
(*                                                                         *)
(* Text is abstracted: a typed line is one of the lines the handlers tell  *)
(* apart, a page is its address, and logs, colours and widths are left     *)
(* out.                                                                    *)
(***************************************************************************)
EXTENDS Naturals, Sequences, FiniteSets, SequencesExt

CONSTANTS Urls,       \* addresses of pages
          Queries,    \* texts of the omnibox that are no address
          Lands,      \* the address of the page an address or a query leads to
          Links,      \* the addresses a page links to, in order
          LinkRows,   \* LINKS_VIEW_ROWS
          CacheCap,   \* WEB_CACHE_CAP
          Tabs,       \* the tabs the user visits, among 0..7
          Pids,       \* processes at the start
          BlockNames, \* names of blocks
          MaxBlocks,  \* bound on the block ids given out
          MaxGen,     \* bound on the page fetches started
          MaxHistory, \* bound on the web history
          MaxTasks,   \* bound on the shell tasks started
          MaxWindows, \* bound on the native windows opened
          None

VARIABLES pc,         \* where the main loop is: poll, draw, key or off
          ui,         \* tab, row, modes and prompts of DashboardState
          web,        \* WebState
          fetches,    \* threads of load_url and navigate_web
          page_cache, \* their outbox
          task,       \* task_gen and task_label
          workers,    \* threads of spawn_task and spawn_fetch
          outs,       \* task_outbox and fetch_out
          sys,        \* registry and scheduler, as far as the keys change them
          snap,       \* the lists of the last frame
          frame,      \* what the frame the user looks at highlights and asks
          native      \* WEB_BROWSER, WEB_BROWSER_SPAWNING and the opener thread

vars == <<pc, ui, web, fetches, page_cache, task, workers, outs, sys, snap,
          frame, native>>

DashboardAssumption ==
    /\ Lands \in [Urls \cup Queries -> Urls] /\ Links \in [Urls -> Seq(Urls)]
    /\ Tabs \subseteq 0..7 /\ Tabs # {} /\ LinkRows > 0 /\ CacheCap > 0

-----------------------------------------------------------------------------
(* The start: overview tab, nothing loaded, nothing running.               *)
NewWeb == [page |-> None, current |-> None, loading |-> FALSE, error |-> FALSE,
           history |-> <<>>, cache |-> <<>>, gen |-> 0, links_scroll |-> 0,
           shown |-> 0]

NewUi == [tab |-> CHOOSE t \in Tabs : \A o \in Tabs : t <= o, row |-> 0,
          help |-> FALSE, omnibox |-> FALSE, sidebar |-> FALSE, sel |-> 0,
          block |-> "none", named |-> None, fm |-> "none", viewing |-> FALSE,
          preview |-> FALSE]

Blank == [item |-> None, prompt |-> "none"]

Init ==
    /\ pc = "poll" /\ ui = NewUi /\ web = NewWeb
    /\ fetches = {} /\ page_cache = None
    /\ task = [gen |-> 0, label |-> FALSE] /\ workers = {}
    /\ outs = [task |-> None, fetch |-> None]
    /\ \E n \in BlockNames :
          sys = [procs |-> Pids, blocks |-> {[id |-> 1, name |-> n]},
                 next |-> 2, loaded |-> None]
    /\ snap = [procs |-> <<>>, blocks |-> <<>>] /\ frame = Blank
    /\ native = [window |-> None, spawning |-> FALSE, opener |-> None,
                 live |-> {}, opened |-> 0]

-----------------------------------------------------------------------------
(* Pages.                                                                  *)

\* The cache keeps the newest pages, one per address.
Cached(c, url) ==
    LET kept == SelectSeq(c, LAMBDA u : u # url) \o <<url>>
    IN  SubSeq(kept, IF Len(kept) > CacheCap THEN 2 ELSE 1, Len(kept))

\* A page on the screen: what a cached page and a fetched one have in common.
Shown(w, url, g) ==
    [w EXCEPT !.page = url, !.current = url, !.loading = FALSE,
              !.error = FALSE, !.links_scroll = 0, !.shown = g]

\* A fetch begins: nothing is shown until its result is picked up.
Starting(w) ==
    [w EXCEPT !.loading = TRUE, !.page = None, !.error = FALSE,
              !.gen = @ + 1]

\* The page left goes into the history, unless it is there on top or is the
\* page asked for.
Remembered(w, url) ==
    IF w.current # None /\ w.current # url
       /\ (w.history = <<>> \/ Last(w.history) # url)
    THEN [w EXCEPT !.history = Append(@, w.current)] ELSE w

\* A cached page is shown at once; any other is fetched by a new thread.
load_url(u, w, url) ==
    IF url \in ToSet(w.cache)
    THEN /\ web' = Shown(w, url, w.gen)
         /\ ui' = [u EXCEPT !.row = 0]
         /\ UNCHANGED fetches
    ELSE /\ w.gen < MaxGen
         /\ web' = Starting(w)
         /\ fetches' = fetches \cup {[gen |-> w.gen + 1, url |-> url]}
         /\ ui' = u

\* The omnibox: an address is loaded, any other text is searched for.
navigate_web(u, raw) ==
    IF raw \in Urls
    THEN load_url(u, Remembered(web, raw), raw)
    ELSE /\ web.gen < MaxGen
         /\ web' = Starting(IF web.current = None THEN web
                            ELSE [web EXCEPT !.history = Append(@, web.current)])
         /\ fetches' = fetches \cup {[gen |-> web.gen + 1, url |-> raw]}
         /\ ui' = u

\* A fetch ends, with a page or with an error; its result replaces whatever
\* the slot holds.
FetchEnds ==
    \E f \in fetches, ok \in BOOLEAN :
        /\ page_cache' = [gen |-> f.gen, url |-> Lands[f.url], ok |-> ok]
        /\ fetches' = fetches \ {f}
        /\ UNCHANGED <<pc, ui, web, task, workers, outs, sys, snap, frame, native>>

AnyResult == page_cache # None

\* Whether the result in the slot is of the latest fetch.
CurrentResult == page_cache # None /\ page_cache.gen = web.gen

check_page_cache(acked) ==
    /\ page_cache' = None
    /\ web' = IF ~CurrentResult THEN web
              ELSE IF page_cache.ok
              THEN [Shown(web, page_cache.url, page_cache.gen)
                       EXCEPT !.cache = Cached(@, page_cache.url)]
              ELSE [web EXCEPT !.loading = FALSE, !.error = TRUE]
    /\ ui' = IF CurrentResult /\ page_cache.ok THEN [acked EXCEPT !.row = 0] ELSE acked

\* The sidebar lists the current page and the history, newest first, once
\* each.
web_nav_entries(w) ==
    LET listed == (IF w.current = None THEN <<>> ELSE <<w.current>>)
                     \o Reverse(w.history)
    IN  FoldLeft(LAMBDA out, u : IF u \in ToSet(out) THEN out
                                 ELSE Append(out, u), <<>>, listed)

-----------------------------------------------------------------------------
(* What a frame shows.                                                     *)

\* The links in the window of the link list, by position from 0.
LinksDrawn == IF web.page = None THEN {}
              ELSE {i \in web.links_scroll..(web.links_scroll + LinkRows - 1) :
                        i < Len(Links[web.page])}

\* The window follows the selection.
clamp_web_links_scroll(w, row) ==
    LET len == IF w.page = None THEN 0 ELSE Len(Links[w.page])
        start == IF len < LinkRows THEN 0 ELSE len - LinkRows
        want == IF row < LinkRows - 1 THEN 0 ELSE row - (LinkRows - 1)
    IN  IF want < start THEN want ELSE start
\* Each panel highlights the selected row of its list, if the list is that
\* long; the prompts are drawn on their own tab, and the help covers all.
draw_processes(l) == [item |-> IF ui.row < Len(l.procs) THEN l.procs[ui.row + 1]
                               ELSE None, prompt |-> "none"]

draw_blocks(l) == [item |-> IF ui.row < Len(l.blocks) THEN l.blocks[ui.row + 1]
                            ELSE None, prompt |-> ui.block]

draw_web == [item |-> IF ui.row \in LinksDrawn THEN Links[web.page][ui.row + 1]
                      ELSE None,
             prompt |-> IF ui.omnibox THEN "omnibox" ELSE "none"]

draw_shell == [item |-> None, prompt |-> "shell"]

draw_help == [item |-> None, prompt |-> "help"]

draw_dashboard(l) == CASE ui.help -> draw_help
                       [] ~ui.help /\ ui.tab = 1 -> draw_processes(l)
                       [] ~ui.help /\ ui.tab = 2 -> draw_blocks(l)
                       [] ~ui.help /\ ui.tab = 5 -> draw_web
                       [] ~ui.help /\ ui.tab = 6 -> draw_shell
                       [] OTHER -> Blank

\* The number of rows of the list a tab shows.
Rows == CASE ui.tab = 1 -> Len(snap.procs)
          [] ui.tab = 2 -> Len(snap.blocks)
          [] ui.tab = 4 -> Cardinality({snap.blocks[i].name :
                                        i \in DOMAIN snap.blocks})
          [] ui.tab = 5 -> IF web.page = None THEN 0 ELSE Len(Links[web.page])
          [] OTHER -> 0

\* The process, block or link of the selected row, if the row is in the list.
SelectedPid == IF ui.tab = 1 /\ ui.row < Len(snap.procs)
               THEN snap.procs[ui.row + 1] ELSE None
SelectedBlock == IF ui.row < Len(snap.blocks)
                 THEN snap.blocks[ui.row + 1] ELSE None
SelectedLink == IF web.page # None /\ ui.row < Len(Links[web.page])
                THEN Links[web.page][ui.row + 1] ELSE None

-----------------------------------------------------------------------------
(* Tasks of the shell and the native browser window.                       *)

SpawnBeside(kind) ==
    /\ task.gen < MaxTasks
    /\ task' = [gen |-> task.gen + 1, label |-> TRUE]
    /\ workers' = workers \cup {[gen |-> task.gen + 1, kind |-> kind]}

\* One task at a time: while one runs, another is refused.
spawn_task(kind) ==
    IF task.label THEN UNCHANGED <<task, workers>>
    ELSE /\ task.gen < MaxTasks
         /\ task' = [gen |-> task.gen + 1, label |-> TRUE]
         /\ workers' = workers \cup {[gen |-> task.gen + 1, kind |-> kind]}
WorkerEnds ==
    \E w \in workers, ok \in BOOLEAN :
        /\ workers' = workers \ {w}
        /\ outs' = [outs EXCEPT ![w.kind] = [gen |-> w.gen, ok |-> ok]]
        /\ UNCHANGED <<pc, ui, web, fetches, page_cache, task, sys, snap, frame, native>>

\* The result of a task, or of a download, clears the label of the running
\* one.
Finished(kind) == outs[kind] # None /\ outs[kind].gen = task.gen

\* A new block of the registry.
Registered(s, n) == [s EXCEPT !.blocks = @ \cup {[id |-> s.next, name |-> n]},
                              !.next = @ + 1]

\* A thread opens the window, stores its handle and lets the next one start.
web_browser_spawn(n) ==
    IF n.spawning THEN n ELSE [n EXCEPT !.spawning = TRUE, !.opener = "opening"]

OpenerReleasesEarly ==
    /\ native.opener = "opening"
    /\ \/ /\ native.opened < MaxWindows
          /\ native' = [native EXCEPT !.opener = "storing", !.opened = @ + 1,
                                      !.live = @ \cup {native.opened + 1},
                                      !.spawning = FALSE]
       \/ native' = [native EXCEPT !.opener = "done"]
    /\ UNCHANGED <<pc, ui, web, fetches, page_cache, task, workers, outs, sys, snap, frame>>

OpenerOpens ==
    /\ native.opener = "opening"
    /\ \/ /\ native.opened < MaxWindows
          /\ native' = [native EXCEPT !.opener = "storing", !.opened = @ + 1,
                                      !.live = @ \cup {native.opened + 1}]
       \/ native' = [native EXCEPT !.opener = "done"]
    /\ UNCHANGED <<pc, ui, web, fetches, page_cache, task, workers, outs, sys, snap, frame>>
OpenerStores ==
    /\ native.opener = "storing"
    /\ native' = [native EXCEPT !.opener = "done", !.window = native.opened]
    /\ UNCHANGED <<pc, ui, web, fetches, page_cache, task, workers, outs, sys, snap, frame, frame>>

OpenerEnds ==
    /\ native.opener = "done"
    /\ native' = [native EXCEPT !.opener = None, !.spawning = FALSE]
    /\ UNCHANGED <<pc, ui, web, fetches, page_cache, task, workers, outs, sys, snap, frame>>

\* The user closes the window; the handle stays until it is used.
WindowClosed ==
    /\ \E w \in native.live : native' = [native EXCEPT !.live = @ \ {w}]
    /\ UNCHANGED <<pc, ui, web, fetches, page_cache, task, workers, outs, sys, snap, frame>>

\* An open window is reused; a handle of a closed one is dropped.
web_open_native ==
    native' = IF native.window = None THEN web_browser_spawn(native)
              ELSE IF native.window \in native.live THEN native
              ELSE web_browser_spawn([native EXCEPT !.window = None])

-----------------------------------------------------------------------------
(* The main loop.                                                          *)

\* A preview that was asked for may have arrived.
poll_fm_acks ==
    {ui} \cup (IF ui.viewing THEN {[ui EXCEPT !.viewing = FALSE, !.preview = TRUE]}
              ELSE {})

\* The outboxes are emptied, in this order; a downloaded block is loaded.
Poll ==
    /\ pc = "poll" /\ pc' = "draw"
    /\ \E acked \in poll_fm_acks : check_page_cache(acked)
    /\ outs' = [task |-> None, fetch |-> None]
    /\ task' = [task EXCEPT !.label = @ /\ ~Finished("task") /\ ~Finished("fetch")]
    /\ \E n \in BlockNames :
          sys' = IF Finished("fetch") /\ outs.fetch.ok /\ sys.next <= MaxBlocks
                 THEN Registered(sys, n) ELSE sys
    /\ UNCHANGED <<fetches, workers, snap, frame, native>>

\* The lists of hash maps keep their order while nothing is added or removed
\* and have any order afterwards.
Listed(s, old) ==
    IF ToSet(old) = s THEN {old}
    ELSE {q \in [1..Cardinality(s) -> s] : ToSet(q) = s}

DrawThenRefresh ==
    /\ pc = "draw" /\ pc' = "key"
    /\ \E p \in Listed(sys.procs, snap.procs), b \in Listed(sys.blocks, snap.blocks) :
          /\ snap' = [procs |-> p, blocks |-> b]
          /\ frame' = draw_dashboard(snap)
    /\ UNCHANGED <<ui, web, fetches, page_cache, task, workers, outs, sys, native>>

\* The lists are refreshed and the frame is drawn from them.
Draw ==
    /\ pc = "draw" /\ pc' = "key"
    /\ \E p \in Listed(sys.procs, snap.procs), b \in Listed(sys.blocks, snap.blocks) :
          /\ snap' = [procs |-> p, blocks |-> b]
          /\ frame' = draw_dashboard(snap')
    /\ UNCHANGED <<ui, web, fetches, page_cache, task, workers, outs, sys, native>>

\* Who reads the next key, in the order in which the loop asks.
Reader == CASE ui.help -> "help"
            [] ~ui.help /\ ui.tab = 5 /\ ui.omnibox -> "omnibox"
            [] ~ui.help /\ ui.tab = 5 /\ ~ui.omnibox /\ ui.sidebar -> "sidebar"
            [] OTHER -> IF ui.block # "none" THEN "block"
                        ELSE IF ui.tab = 6 THEN "shell"
                        ELSE IF ui.tab = 7 THEN "files" ELSE "general"

Handled == pc = "key" /\ pc' = "poll" /\ frame' = Blank
Read(reader) == Handled /\ Reader = reader
Still == UNCHANGED <<page_cache, outs, snap>>
OnlyUi == UNCHANGED <<web, fetches, task, workers, sys, native>>

\* No key within the time the loop waits, or one that does nothing.
NoKey ==
    /\ Handled
    /\ UNCHANGED <<ui, web, fetches, page_cache, task, workers, outs, sys, snap, native>>

switch_tab(t) ==
    /\ ui' = [ui EXCEPT !.tab = t, !.row = 0]
    /\ web' = IF t = 5 THEN [web EXCEPT !.links_scroll = 0] ELSE web
\* Alt and a digit switch tabs whoever reads the keys; a digit alone does for
\* the general keys.
SwitchTab ==
    /\ Handled
    /\ \E t \in Tabs : switch_tab(t)
    /\ Still /\ UNCHANGED <<fetches, task, workers, sys, native>>

Help ==
    /\ \/ Read("general") /\ ui' = [ui EXCEPT !.help = TRUE]
       \/ Read("help") /\ ui' = [ui EXCEPT !.help = FALSE]
    /\ Still /\ OnlyUi

Quit ==
    /\ pc = "key" /\ pc' = "off" /\ frame' = Blank
    /\ UNCHANGED <<ui, web, fetches, page_cache, task, workers, outs, sys, snap, native>>

\* The omnibox reads a text and navigates, or is left.
OmniboxFocus ==
    /\ Read("general") /\ ui.tab = 5
    /\ ui' = [ui EXCEPT !.omnibox = TRUE]
    /\ Still /\ OnlyUi

OmniboxKey ==
    /\ Read("omnibox")
    /\ \/ /\ ui' = [ui EXCEPT !.omnibox = FALSE]
          /\ UNCHANGED <<web, fetches>>
       \/ /\ Len(web.history) < MaxHistory
          /\ \E raw \in Urls \cup Queries :
                navigate_web([ui EXCEPT !.omnibox = FALSE], raw)
    /\ Still /\ UNCHANGED <<task, workers, sys, native>>

SidebarKey ==
    LET entries == web_nav_entries(web)
        len == Len(entries)
    IN  /\ \/ Read("general") /\ ui.tab = 5
              /\ ui' = [ui EXCEPT !.sidebar = TRUE, !.sel = 0]
              /\ UNCHANGED <<web, fetches>>
           \/ Read("sidebar") /\ ui' = [ui EXCEPT !.sidebar = FALSE]
              /\ UNCHANGED <<web, fetches>>
           \/ Read("sidebar")
              /\ \E d \in {1, len - 1} :
                    ui' = [ui EXCEPT !.sel = IF len = 0 THEN 0 ELSE (@ + d) % len]
              /\ UNCHANGED <<web, fetches>>
           \/ Read("sidebar") /\ ui.sel < len
              /\ load_url(ui, web, entries[ui.sel + 1])
        /\ Still /\ UNCHANGED <<task, workers, sys, native>>

\* Loading a block: a name, then a version.  The file and the name of the
\* block that is loaded are those of the selected row.
start_load_block ==
    /\ Read("general") /\ ui.tab = 2
    /\ ui' = [ui EXCEPT !.block = "name", !.named = None]
    /\ Still /\ OnlyUi

confirm_block_load ==
    /\ Read("block")
    /\ \/ /\ ui' = [ui EXCEPT !.block = "none", !.named = None]
          /\ UNCHANGED sys
       \/ /\ ui.block = "name"
          /\ \E n \in BlockNames : ui' = [ui EXCEPT !.block = "version", !.named = n]
          /\ UNCHANGED sys
       \/ /\ ui.block = "version"
          /\ ui' = [ui EXCEPT !.block = "none", !.named = None]
          /\ \/ UNCHANGED sys
             \/ /\ sys.next <= MaxBlocks
                /\ sys' = LET n == IF SelectedBlock = None THEN "unknown"
                                   ELSE SelectedBlock.name
                          IN  [Registered(sys, n) EXCEPT
                                  !.loaded = [typed |-> ui.named, got |-> n]]
    /\ Still /\ UNCHANGED <<web, fetches, task, workers, native>>

\* Lines of the shell that start a thread, open a page or change the system.
ShellTask ==
    /\ Read("shell")
    /\ \E kind \in {"task", "fetch"} : spawn_task(kind)
    /\ Still /\ UNCHANGED <<ui, web, fetches, sys, native>>

ShellOpen ==
    /\ Read("shell") /\ 5 \in Tabs /\ Len(web.history) < MaxHistory
    /\ \E raw \in Urls \cup Queries :
          navigate_web([ui EXCEPT !.tab = 5, !.row = 0], raw)
    /\ Still /\ UNCHANGED <<task, workers, sys, native>>

ShellExecute ==
    /\ Read("shell")
    /\ \/ \E p \in sys.procs : sys' = [sys EXCEPT !.procs = @ \ {p}]
       \/ \E p \in Pids \ sys.procs : sys' = [sys EXCEPT !.procs = @ \cup {p}]
       \/ \E b \in sys.blocks : sys' = [sys EXCEPT !.blocks = @ \ {b}]
       \/ /\ sys.next <= MaxBlocks
          /\ \E n \in BlockNames : sys' = Registered(sys, n)
    /\ Still /\ UNCHANGED <<ui, web, fetches, task, workers, native>>

\* The file manager's keys, as far as the dashboard keeps state for them: a
\* name is asked for or given, a preview is asked for or closed.
FilesKey ==
    /\ Read("files")
    /\ ui' \in IF ui.fm # "none" THEN {[ui EXCEPT !.fm = "none"]}
              ELSE {[ui EXCEPT !.preview = FALSE], [ui EXCEPT !.viewing = TRUE]}
                      \cup {[ui EXCEPT !.fm = m] : m \in {"mkdir", "rename"}}
    /\ Still /\ OnlyUi

-----------------------------------------------------------------------------
(* The general keys.                                                       *)

move_selection ==
    /\ Read("general")
    /\ \E row \in {IF ui.row > 0 THEN ui.row - 1 ELSE 0,
                   IF Rows > 0 /\ ui.row < Rows - 1 THEN ui.row + 1 ELSE ui.row} :
          /\ ui' = [ui EXCEPT !.row = row]
          /\ web' = IF ui.tab # 5 THEN web
                    ELSE [web EXCEPT !.links_scroll = clamp_web_links_scroll(web, row)]
    /\ Still /\ UNCHANGED <<fetches, task, workers, sys, native>>

KillSelected ==
    /\ Read("general") /\ SelectedPid # None
    /\ sys' = [sys EXCEPT !.procs = @ \ {SelectedPid}]
    /\ Still /\ UNCHANGED <<ui, web, fetches, task, workers, native>>

UnloadSelected ==
    /\ Read("general") /\ ui.tab = 2 /\ SelectedBlock # None
    /\ sys' = [sys EXCEPT !.blocks = @ \ {SelectedBlock}]
    /\ Still /\ UNCHANGED <<ui, web, fetches, task, workers, native>>

\* The block is unloaded before its file is read.
HotSwapSelected ==
    /\ Read("general") /\ ui.tab = 2 /\ SelectedBlock # None
    /\ sys.next <= MaxBlocks
    /\ LET gone == [sys EXCEPT !.blocks = @ \ {SelectedBlock}]
       IN  \/ sys' = gone
           \/ sys' = Registered(gone, SelectedBlock.name)
    /\ Still /\ UNCHANGED <<ui, web, fetches, task, workers, native>>

open_selected_link ==
    /\ Read("general") /\ ui.tab = 5 /\ SelectedLink # None
    /\ Len(web.history) < MaxHistory
    /\ load_url(ui, Remembered(web, SelectedLink), SelectedLink)
    /\ Still /\ UNCHANGED <<task, workers, sys, native>>

web_go_back ==
    /\ Read("general") /\ ui.tab = 5 /\ web.history # <<>>
    /\ load_url(ui, [web EXCEPT !.history = Front(@)], Last(web.history))
    /\ Still /\ UNCHANGED <<task, workers, sys, native>>

\* The page, or the selected link, in the native window.
OpenNative ==
    /\ Read("general") /\ ui.tab = 5 /\ web.page # None
    /\ web_open_native
    /\ Still /\ UNCHANGED <<ui, web, fetches, task, workers, sys>>

Next ==
    \/ Poll \/ Draw \/ NoKey \/ SwitchTab \/ Help \/ Quit
    \/ OmniboxFocus \/ OmniboxKey \/ SidebarKey
    \/ start_load_block \/ confirm_block_load
    \/ ShellTask \/ ShellOpen \/ ShellExecute \/ FilesKey
    \/ move_selection \/ KillSelected \/ UnloadSelected \/ HotSwapSelected
    \/ open_selected_link \/ web_go_back \/ OpenNative
    \/ FetchEnds \/ WorkerEnds
    \/ OpenerOpens \/ OpenerStores \/ OpenerEnds \/ WindowClosed

Spec == Init /\ [][Next]_vars

-----------------------------------------------------------------------------
(* Properties.                                                             *)

\* A page never gives way to the result of an older fetch: results may be
\* left in any order, and check_page_cache drops those of a generation that
\* is not the latest.
NewestPageWins == [][web'.shown >= web.shown]_vars

\* A task has its label exactly while its thread runs or its result waits,
\* and there is one of them: task_outbox and fetch_out share the counter.
TaskAnswered ==
    LET results == {k \in {"task", "fetch"} : outs[k] # None}
        pending == Cardinality(workers) + Cardinality(results)
    IN  /\ task.label <=> pending = 1
        /\ pending <= 1
        /\ \A w \in workers : w.gen = task.gen
        /\ \A k \in results : outs[k].gen = task.gen

\* There is one native window at most, however fast the key is pressed and
\* whenever the window is closed.
OneWindow == Cardinality(native.live) <= 1

\* A key acts on what the frame shows: the process killed, the block unloaded
\* or reloaded and the link opened are the ones highlighted in the last frame.
\* The lists change under the selection, the link list shows a window of the
\* links, and results that arrive move the selection.
ActsOnFrame ==
    [][/\ KillSelected => frame.item \in sys.procs \ sys'.procs
       /\ UnloadSelected \/ HotSwapSelected => frame.item \in sys.blocks \ sys'.blocks
       /\ open_selected_link => frame.item = SelectedLink]_vars

\* "Load block (enter name, then version)": the block that is loaded has the
\* name that was typed.
\* Refuted: section 5 of the README.
LoadsTypedName == sys.loaded # None => sys.loaded.typed = sys.loaded.got
=============================================================================
