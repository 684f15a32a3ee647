--------------------------- MODULE SystemConsole ---------------------------
(***************************************************************************)
(* The text console of the system (src/aios/src/tui): one loop that draws, *)
(* takes a key and collects what background work has finished, over seven  *)
(* tabs.                                                                   *)
(*                                                                         *)
(*   - keys: the chain of prompts that may swallow a key before the tab    *)
(*     sees it (help, block path, AI help, network, URL, query, shell);    *)
(*   - the text browser: its own tabs, each with page, history and link    *)
(*     selection, one generation counter and one result slot for all of    *)
(*     the fetches that run beside the loop;                               *)
(*   - the AI console: queries that stream into one shared buffer, the     *)
(*     chat log and its file, the configuration and the shared engine;     *)
(*   - the store task, the event log panel, the native browser window.     *)
(*                                                                         *)
(* A typed text is known only as empty or not; a page is the address it    *)
(* came from; scrolling and layout are left out.  Handlers that only touch *)
(* the registry and the scheduler are in SystemThreads.                    *)
(***************************************************************************)
EXTENDS Integers, Sequences, FiniteSets, SequencesExt

CONSTANTS Keys, Tabs,  \* the keys the user presses, the tabs they go to
          Urls, Lands, \* addresses, and where each of them redirects to
          Links,       \* the links of a page, in order
          MaxTabs, MaxGen, MaxHistory,
          Configs,     \* configurations /backend, /model and /key choose
          MaxAsks,     \* queries ever sent
          MaxTasks,    \* store tasks ever started
          LogCap, LogKeep, ShownCap, MaxLines,
          None

VARIABLES pc, ui, web, fetches, slot, ai, queries, applies, store, logs,
          window, frame

uiVars == <<pc, ui, frame>>
webVars == <<web, fetches, slot>>
aiVars == <<ai, queries, applies>>
vars == <<pc, ui, web, fetches, slot, ai, queries, applies, store, logs,
          window, frame>>

Prompts == {"load", "net", "url", "ai", "shell", "name"}
NoTab == [url |-> None, page |-> None, link |-> 0, history |-> <<>>,
          error |-> FALSE]

SystemConsoleAssumption ==
    /\ \A u \in Urls : Lands[u] \in Urls /\ Range(Links[u]) \subseteq Urls
    /\ Tabs \subseteq 0..6 /\ MaxTabs \in Nat \ {0} /\ LogKeep < LogCap

TypeOK ==
    /\ pc \in {"draw", "key", "poll", "quit"}
    /\ ui.tab \in 0..6 /\ ui.typed \subseteq Prompts
    /\ web.active \in 1..Len(web.tabs) /\ web.page \in Urls \cup {None}
    /\ web.link \in Nat /\ web.gen \in 0..MaxGen
    /\ Len(logs.shown) <= ShownCap

Init ==
    /\ pc = "draw" /\ frame = [tab |-> 0, prompt |-> "shell", row |-> None]
    /\ ui = [tab |-> 0, help |-> FALSE, load |-> FALSE, aihelp |-> FALSE,
             net |-> FALSE, ai |-> FALSE, paused |-> FALSE, typed |-> {}]
    /\ web = [url |-> None, page |-> None, link |-> 0, history |-> <<>>,
              error |-> FALSE, loading |-> FALSE, focused |-> FALSE, gen |-> 0,
              marks |-> <<>>, mark |-> 0, showm |-> FALSE, showj |-> FALSE,
              naming |-> FALSE, tabs |-> <<NoTab>>, active |-> 1]
    /\ fetches = {} /\ slot = None
    /\ ai = [config |-> None, engine |-> None, streaming |-> FALSE,
             stream |-> {}, log |-> <<>>, file |-> <<>>, asked |-> 0]
    /\ queries = {} /\ applies = {}
    /\ store = [task |-> None, gen |-> 0, running |-> {}, out |-> None,
                printed |-> 0]
    /\ logs = [kept |-> <<>>, shown |-> <<>>, next |-> 0]
    /\ window = [open |-> FALSE, spawning |-> FALSE]

(***************************************************************************)
(* Event log.  push_log trims the shared log; the panel keeps its own copy *)
(* and follows the log by the number of lines it already shows.            *)
(***************************************************************************)
push_log(k) ==
    LET more == Append(k, logs.next)
    IN  IF Len(more) > LogCap
        THEN SubSeq(more, Len(more) - LogKeep + 1, Len(more)) ELSE more

LogLine ==
    /\ logs.next < MaxLines
    /\ logs' = [logs EXCEPT !.kept = push_log(@), !.next = @ + 1]
    /\ UNCHANGED <<uiVars, webVars, aiVars, store, window>>

\* update_logs: nothing while paused; else the lines past the count shown
update_logs(l) ==
    LET fresh == SubSeq(l.kept, Len(l.shown) + 1, Len(l.kept))
        all   == l.shown \o fresh
    IN  IF ui.paused THEN l
        ELSE [l EXCEPT !.shown =
                SubSeq(all, IF Len(all) > ShownCap
                            THEN Len(all) - ShownCap + 1 ELSE 1, Len(all))]

(***************************************************************************)
(* The text browser: what the tab shows (web) and what its tabs hold.      *)
(***************************************************************************)
TabOf(w) == [url |-> w.url, page |-> w.page, link |-> w.link,
             history |-> w.history, error |-> w.error]

web_sync_tab(w) == [w EXCEPT !.tabs[w.active] = TabOf(w)]

web_load_tab(w, i) ==
    LET t == w.tabs[i]
    IN  [w EXCEPT !.active = i, !.url = t.url, !.page = t.page,
                  !.link = t.link, !.history = t.history, !.error = t.error,
                  !.loading = FALSE]

web_new_tab(w) ==
    LET s == web_sync_tab(w)
    IN  web_load_tab([s EXCEPT !.tabs = Append(@, NoTab)], Len(s.tabs) + 1)

web_close_tab(w) ==
    LET left == RemoveAt(web_sync_tab(w).tabs, w.active)
    IN  IF Len(w.tabs) <= 1 THEN w
        ELSE web_load_tab([w EXCEPT !.tabs = left],
                          IF w.active > Len(left) THEN Len(left)
                          ELSE w.active)

\* mutant: the tab that is left does not keep what it showed
SwitchForgets(w, dir) ==
    IF Len(w.tabs) < 2 THEN w
    ELSE web_load_tab(w, ((w.active - 1 + dir) % Len(w.tabs)) + 1)

web_switch_tab(w, dir) ==
    IF Len(w.tabs) < 2 THEN w
    ELSE web_load_tab(web_sync_tab(w),
                      ((w.active - 1 + dir) % Len(w.tabs)) + 1)

\* the browser state once a load of u has been started in the shown tab
Loading(w, u, push) ==
    LET seen == \E i \in DOMAIN w.history : w.history[i] = u
        hist == IF push /\ w.url # None /\ w.url # u /\ ~seen
                THEN Append(w.history, w.url) ELSE w.history
    IN  web_sync_tab([w EXCEPT !.history = hist, !.loading = TRUE,
                               !.page = None, !.error = FALSE,
                               !.focused = FALSE, !.gen = @ + 1])

web_load(w, u, push) ==
    /\ w.gen < MaxGen /\ Len(w.history) < MaxHistory
    /\ web' = Loading(w, u, push)
    /\ fetches' = fetches \cup {[gen |-> w.gen + 1, tab |-> w.active,
                                 url |-> u]}
    /\ UNCHANGED slot

\* a fetch ends, well or not, and overwrites the one result slot
FetchDone ==
    /\ \E f \in fetches, ok \in BOOLEAN :
         /\ fetches' = fetches \ {f}
         /\ slot' = [gen |-> f.gen, tab |-> f.tab,
                     page |-> IF ok THEN Lands[f.url] ELSE None]
    /\ UNCHANGED <<uiVars, web, aiVars, store, logs, window>>

\* the result's tab gets the page; the shown page follows if it is that tab
Arrived(w, r) ==
    LET held == [w EXCEPT !.tabs[r.tab] =
                   IF r.page = None THEN [@ EXCEPT !.error = TRUE]
                   ELSE [@ EXCEPT !.url = r.page, !.page = r.page,
                                  !.link = 0, !.error = FALSE]]
    IN  CASE r.tab > Len(w.tabs) -> w
          [] r.tab # w.active    -> held
          [] r.page = None       -> [held EXCEPT !.error = TRUE]
          [] OTHER -> [held EXCEPT !.page = r.page, !.url = r.page]

web_poll ==
    IF slot = None \/ slot.gen # web.gen THEN web
    ELSE Arrived([web EXCEPT !.loading = FALSE], slot)

web_back(w) ==
    \/ /\ w.history = <<>>
       /\ UNCHANGED webVars
    \/ /\ w.history # <<>>
       /\ web_load([w EXCEPT !.history = Front(@)], Last(w.history), FALSE)

LinksOf(w) == IF w.page = None THEN <<>> ELSE Links[w.page]

web_link_move(w, dir) ==
    [w EXCEPT !.link = IF LinksOf(w) = <<>> THEN 0
                       ELSE (@ + dir) % Len(LinksOf(w))]

\* the address that Enter opens: of the bookmark or of the link selected
Selected(w) ==
    IF w.showm
    THEN IF w.mark < Len(w.marks) THEN w.marks[w.mark + 1] ELSE None
    ELSE IF w.link < Len(LinksOf(w)) THEN LinksOf(w)[w.link + 1] ELSE None

web_open_selected ==
    IF Selected(web) = None THEN UNCHANGED webVars
    ELSE web_load(web, Selected(web), TRUE)

(***************************************************************************)
(* The native browser window, opened by a thread of its own.               *)
(***************************************************************************)
web_browser_spawn(w) == [w EXCEPT !.open = FALSE, !.spawning = TRUE]

\* an open window navigates, or has been closed and is opened again
web_open_native ==
    /\ web.page # None
    /\ \/ window.open /\ UNCHANGED window
       \/ window' = IF window.spawning THEN [window EXCEPT !.open = FALSE]
                    ELSE web_browser_spawn(window)

WindowReady ==
    /\ window.spawning
    /\ \E ok \in BOOLEAN :
         window' = [window EXCEPT !.spawning = FALSE,
                                  !.open = ok \/ @]
    /\ UNCHANGED <<uiVars, webVars, aiVars, store, logs>>

(***************************************************************************)
(* AI console.  A query passes through: "ask" (waits for the shared        *)
(* engine), "run" (streams), "save" (log written to the file from a        *)
(* snapshot taken before).                                                 *)
(***************************************************************************)
submit_ai_query ==
    /\ ai.asked < MaxAsks
    /\ ai' = [ai EXCEPT !.asked = @ + 1, !.streaming = TRUE, !.stream = {},
                        !.log = Append(@, [role |-> "user", of |-> ai.asked])]
    /\ queries' = queries \cup {[id |-> ai.asked, at |-> "ask",
                                 seen |-> <<>>]}
    /\ UNCHANGED applies

At(q, where) == (queries \ {q}) \cup {[q EXCEPT !.at = where]}

\* the engine is taken out of the bridge and a default one left in its place
TakeEngine(q) ==
    /\ q.at = "ask"
    /\ queries' = At(q, "run")
    /\ ai' = [ai EXCEPT !.engine = None]
    /\ UNCHANGED applies

StreamDelta(q) ==
    /\ q.at = "run"
    /\ ai' = [ai EXCEPT !.stream = @ \cup {q.id}]
    /\ UNCHANGED <<queries, applies>>

\* mutant: an error is reported and the console left streaming
FailKeepsStreaming(q) ==
    /\ q.at = "run"
    /\ queries' = At(q, "log")
    /\ UNCHANGED <<ai, applies>>

StreamFails(q) ==
    /\ q.at = "run"
    /\ queries' = At(q, "log")
    /\ ai' = [ai EXCEPT !.streaming = FALSE]
    /\ UNCHANGED applies

StreamEnds(q) ==
    /\ q.at = "run"
    /\ queries' = At(q, "log")
    /\ ai' = [ai EXCEPT !.streaming = FALSE, !.stream = {},
                        !.log = IF ai.stream = {} THEN @
                                ELSE Append(@, [role |-> "assistant",
                                                of |-> ai.stream])]
    /\ UNCHANGED applies

\* save_chat_to: the text is built under the lock and written after it
SnapshotChat(q) ==
    /\ q.at = "log"
    /\ queries' = (queries \ {q}) \cup {[q EXCEPT !.at = "save",
                                                  !.seen = ai.log]}
    /\ UNCHANGED <<ai, applies>>

WriteChat(q) ==
    /\ q.at = "save"
    /\ queries' = queries \ {q}
    /\ ai' = [ai EXCEPT !.file = q.seen]
    /\ UNCHANGED applies

QueryStep ==
    /\ \E q \in queries : \/ TakeEngine(q) \/ StreamDelta(q)
                          \/ StreamFails(q) \/ StreamEnds(q)
                          \/ SnapshotChat(q) \/ WriteChat(q)
    /\ UNCHANGED <<uiVars, webVars, store, logs, window>>

\* apply_config_async: the engine is replaced some time later
apply_config_async ==
    /\ \E c \in applies : /\ applies' = applies \ {c}
                          /\ ai' = [ai EXCEPT !.engine = c]
    /\ UNCHANGED <<uiVars, webVars, queries, store, logs, window>>

\* /model, /backend, /key: the console's configuration, and the engine later
ConfigCommand ==
    /\ \E c \in Configs \ {ai.config} : /\ ai' = [ai EXCEPT !.config = c]
                                       /\ applies' = applies \cup {c}
    /\ UNCHANGED <<queries, ui>>

\* /save and /load
ChatCommand ==
    /\ ai' \in {[ai EXCEPT !.file = ai.log], [ai EXCEPT !.log = ai.file]}
    /\ UNCHANGED <<queries, applies, ui>>

handle_ai_command ==
    \/ ConfigCommand
    \/ ChatCommand
    \/ /\ ui' = [ui EXCEPT !.aihelp = TRUE, !.typed = @ \ {"ai"}]
       /\ UNCHANGED aiVars

(***************************************************************************)
(* Store tasks of the shell: one at a time, the answer printed by a poll.  *)
(***************************************************************************)
\* mutant: a second task starts beside the one that runs
SpawnOver(s) ==
    [s EXCEPT !.gen = @ + 1, !.task = s.gen + 1,
              !.running = @ \cup {s.gen + 1}]

store_spawn(s) ==
    IF s.task # None THEN s
    ELSE [s EXCEPT !.gen = @ + 1, !.task = s.gen + 1,
                   !.running = @ \cup {s.gen + 1}]

StoreDone ==
    /\ \E g \in store.running :
         store' = [store EXCEPT !.running = @ \ {g}, !.out = g]
    /\ UNCHANGED <<uiVars, webVars, aiVars, logs, window>>

take_store_result(s) == s.out # None /\ s.out = s.gen

store_poll(s) ==
    IF take_store_result(s)
    THEN [s EXCEPT !.out = None, !.task = None, !.printed = @ + 1]
    ELSE [s EXCEPT !.out = None]

shell_execute == store' \in {store} \cup (IF store.gen < MaxTasks
                                          THEN {store_spawn(store)} ELSE {})

(***************************************************************************)
(* Keys.                                                                   *)
(***************************************************************************)
Chars == Keys \ {"alt", "ctrl-c", "esc", "enter", "tab", "bs", "F1"}

\* a key typed into a prompt; a backspace may or may not empty it
Edits(k, p) ==
    \/ k \in Chars /\ ui' = [ui EXCEPT !.typed = @ \cup {p}]
    \/ k = "bs" /\ ui' = [ui EXCEPT !.typed = @ \ {p}]
    \/ k = "bs" /\ UNCHANGED ui

HelpKey(k) ==
    /\ ui' = [ui EXCEPT !.help = k \notin {"F1", "esc", "h"}]
    /\ UNCHANGED <<webVars, aiVars, store, window>>

LoadKey(k) ==
    /\ \/ Edits(k, "load")
       \/ k = "esc" /\ ui' = [ui EXCEPT !.load = FALSE]
       \/ /\ k = "enter" /\ "load" \in ui.typed
          /\ ui' = [ui EXCEPT !.load = FALSE, !.typed = @ \ {"load"}]
    /\ UNCHANGED <<webVars, aiVars, store, window>>

AiHelpKey(k) ==
    /\ k = "esc" \/ (k = "h" /\ "ai" \notin ui.typed)
    /\ ui' = [ui EXCEPT !.aihelp = FALSE]
    /\ UNCHANGED <<webVars, aiVars, store, window>>

NetKey(k) ==
    /\ \/ Edits(k, "net")
       \/ k = "esc" /\ ui' = [ui EXCEPT !.net = FALSE]
       \/ /\ k = "enter" /\ "net" \in ui.typed
          /\ ui' = [ui EXCEPT !.net = FALSE, !.typed = @ \ {"net"}]
    /\ UNCHANGED <<webVars, aiVars, store, window>>

web_navigate(k) ==
    /\ \/ Edits(k, "url") /\ UNCHANGED webVars
       \/ /\ k = "esc"
          /\ web' = [web EXCEPT !.focused = FALSE]
          /\ UNCHANGED <<ui, fetches, slot>>
       \/ /\ k = "enter" /\ "url" \in ui.typed
          /\ ui' = [ui EXCEPT !.typed = @ \ {"url"}]
          /\ \E u \in Urls : web_load(web, u, TRUE)
    /\ UNCHANGED <<aiVars, store, window>>

AiKey(k) ==
    /\ \/ Edits(k, "ai") /\ UNCHANGED aiVars
       \/ k = "esc" /\ ui' = [ui EXCEPT !.ai = FALSE] /\ UNCHANGED aiVars
       \/ /\ k = "enter" /\ "ai" \in ui.typed
          /\ ui' = [ui EXCEPT !.typed = @ \ {"ai"}]
          /\ submit_ai_query
       \/ k = "enter" /\ "ai" \in ui.typed /\ handle_ai_command
    /\ UNCHANGED <<webVars, store, window>>

ShellKey(k) ==
    /\ \/ Edits(k, "shell") /\ UNCHANGED store
       \/ /\ k = "esc" /\ UNCHANGED store
          /\ ui' = [ui EXCEPT !.typed = @ \ {"shell"}]
       \/ /\ k = "enter"
          /\ ui' = [ui EXCEPT !.typed = @ \ {"shell"}]
          /\ shell_execute
    /\ UNCHANGED <<webVars, aiVars, window>>

handle_blocks_key(k) ==
    /\ ui.tab = 1 /\ k = "L"
    /\ ui' = [ui EXCEPT !.load = TRUE, !.typed = @ \ {"load"}]
    /\ UNCHANGED <<webVars, store, window>>

handle_ai_key(k) ==
    /\ ui.tab = 2
    /\ \/ k = "i" /\ ui' = [ui EXCEPT !.ai = TRUE]
       \/ k = "h" /\ ui' = [ui EXCEPT !.aihelp = TRUE]
    /\ UNCHANGED <<webVars, store, window>>

handle_net_store_key(k) ==
    /\ ui.tab = 4 /\ k = "n"
    /\ ui' = [ui EXCEPT !.net = TRUE, !.typed = @ \ {"net"}]
    /\ UNCHANGED <<webVars, store, window>>

\* naming a bookmark for the address shown
NamingKey(k) ==
    /\ web.naming
    /\ \/ Edits(k, "name") /\ UNCHANGED web
       \/ k = "esc" /\ web' = [web EXCEPT !.naming = FALSE] /\ UNCHANGED ui
       \/ /\ k = "enter" /\ "name" \in ui.typed
          /\ ui' = [ui EXCEPT !.typed = @ \ {"name"}]
          /\ web' = [web EXCEPT !.naming = FALSE,
                       !.marks = IF web.url = None \/ Contains(@, web.url)
                                 THEN @ ELSE Append(@, web.url)]
    /\ UNCHANGED <<fetches, slot>>

BookmarksKey(k) ==
    /\ ~web.naming /\ web.showm /\ UNCHANGED ui
    /\ \/ k \in {"enter", "o"} /\ web_open_selected
       \/ /\ UNCHANGED <<fetches, slot>>
          /\ \/ k = "esc" /\ web' = [web EXCEPT !.showm = FALSE]
             \/ /\ k \in {"j", "k"} /\ web.marks # <<>>
                /\ web' = [web EXCEPT !.mark = IF k = "j"
                             THEN (@ + 1) % Len(web.marks)
                             ELSE IF @ = 0 THEN Len(web.marks) - 1 ELSE @ - 1]
             \/ /\ k = "d" /\ web.mark < Len(web.marks)
                /\ web' = [web EXCEPT
                     !.marks = RemoveAt(@, web.mark + 1),
                     !.mark = IF @ + 1 = Len(web.marks) /\ @ > 0
                              THEN @ - 1 ELSE @]

PageKey(k) ==
    /\ ~web.naming /\ ~web.showm /\ UNCHANGED ui
    /\ \/ k \in {"enter", "o"} /\ ~web.showj /\ web_open_selected
       \/ k = "b" /\ ~web.showj /\ web_back(web)
       \/ /\ UNCHANGED <<fetches, slot>>
          /\ \/ k \in {"esc", "J"} /\ web.showj
                /\ web' = [web EXCEPT !.showj = FALSE]
             \/ /\ ~web.showj
                /\ web' = CASE k = "J" -> [web EXCEPT !.showj = TRUE]
                            [] k = "m" -> [web EXCEPT !.showm = TRUE,
                                 !.mark = IF @ < Len(web.marks) THEN @
                                          ELSE IF web.marks = <<>> THEN 0
                                          ELSE Len(web.marks) - 1]
                            [] k = "a" -> [web EXCEPT !.naming = web.url # None]
                            [] k = "j" -> web_link_move(web, 1)
                            [] k = "k" -> web_link_move(web, -1)
                            [] k = "t" -> IF Len(web.tabs) < MaxTabs
                                          THEN web_new_tab(web) ELSE web
                            [] k = "x" -> web_close_tab(web)
                            [] k = "]" -> web_switch_tab(web, 1)
                            [] k = "[" -> web_switch_tab(web, -1)
                            [] OTHER -> web

handle_web_key(k) ==
    /\ ui.tab = 5 /\ UNCHANGED store
    /\ \/ UNCHANGED window /\ (NamingKey(k) \/ BookmarksKey(k) \/ PageKey(k))
       \/ /\ ~web.naming /\ ~web.showm /\ ~web.showj
          /\ k \in {"B", "n"} /\ web_open_native
          /\ UNCHANGED <<ui, webVars>>

\* mutant: a digit changes the tab and leaves the network prompt open
SwitchKeepsPrompt(t) == [ui EXCEPT !.tab = t, !.ai = FALSE]

SwitchTo(t) == [ui EXCEPT !.tab = t, !.ai = FALSE, !.net = FALSE]

AltDigit ==
    /\ \E t \in Tabs : ui' = SwitchTo(t)
    /\ web' = [web EXCEPT !.focused = FALSE]
    /\ UNCHANGED <<fetches, slot, aiVars, store, window>>

\* keys every tab shares, then the keys of the tab
NormalKey(k) ==
    /\ UNCHANGED aiVars
    /\ \/ /\ \/ k = "F1" /\ ui' = [ui EXCEPT !.help = TRUE]
             \/ k = "tab" /\ ui' = [ui EXCEPT !.tab = (@ + 1) % 7]
             \/ k = " " /\ ui' = [ui EXCEPT !.paused = ~@]
          /\ UNCHANGED <<webVars, store, window>>
       \/ /\ k = "digit"
          /\ \E t \in Tabs : ui' = SwitchTo(t)
          /\ web' = [web EXCEPT !.focused = FALSE]
          /\ UNCHANGED <<fetches, slot, store, window>>
       \/ /\ k = "g" /\ ui.tab = 5
          /\ ui' = [ui EXCEPT !.typed = @ \ {"url"}]
          /\ web' = [web EXCEPT !.focused = TRUE]
          /\ UNCHANGED <<fetches, slot, store, window>>
       \/ /\ k \notin {"F1", "tab", " ", "digit", "g", "q", "l"}
          /\ \/ handle_blocks_key(k) \/ handle_ai_key(k)
             \/ handle_net_store_key(k) \/ handle_web_key(k)

\* who gets the key
Owner ==
    CASE ui.help                -> "help"
      [] ~ui.help /\ ui.load    -> "load"
      [] ~ui.help /\ ~ui.load /\ ui.aihelp -> "aihelp"
      [] ~ui.help /\ ~ui.load /\ ~ui.aihelp /\ ui.net -> "net"
      [] ~ui.help /\ ~ui.load /\ ~ui.aihelp /\ ~ui.net /\ web.focused -> "url"
      [] OTHER -> IF ui.tab = 2 /\ ui.ai THEN "ai"
                  ELSE IF ui.tab = 6 THEN "shell" ELSE "normal"

handle_key(k) ==
    \/ k = "alt" /\ AltDigit
    \/ /\ k # "alt"
       /\ \/ Owner = "help" /\ HelpKey(k)
          \/ Owner = "load" /\ LoadKey(k)
          \/ Owner = "aihelp" /\ AiHelpKey(k)
          \/ Owner = "net" /\ NetKey(k)
          \/ Owner = "url" /\ web_navigate(k)
          \/ Owner = "ai" /\ AiKey(k)
          \/ Owner = "shell" /\ ShellKey(k)
          \/ Owner = "normal" /\ NormalKey(k)

\* keys that end the loop; the chat is then saved once more
Quits(k) ==
    \/ k = "ctrl-c"
    \/ k = "q" /\ Owner \in {"help", "normal"}
    \/ k = "q" /\ Owner = "aihelp" /\ "ai" \notin ui.typed

(***************************************************************************)
(* What the frame shows, and the loop.                                     *)
(***************************************************************************)
\* the row drawn in reverse in the browser's right panel
draw_web_tab == IF web.showj THEN None ELSE Selected(web)

\* the input line the frame shows
prompt_line ==
    IF ui.net THEN "net"
    ELSE IF ui.tab = 5 /\ web.focused THEN "url"
    ELSE IF ui.tab = 5 /\ web.naming THEN "name"
    ELSE IF ui.tab = 2 /\ ui.ai THEN "ai" ELSE "shell"

draw == [tab |-> ui.tab, prompt |-> prompt_line,
         row |-> IF ui.tab = 5 THEN draw_web_tab ELSE None]

Draw ==
    /\ pc = "draw" /\ pc' = "key" /\ frame' = draw
    /\ UNCHANGED <<ui, webVars, aiVars, store, logs, window>>

Key ==
    /\ pc = "key" /\ UNCHANGED <<frame, logs>>
    /\ \E k \in Keys :
         \/ handle_key(k) /\ pc' = "poll"
         \/ /\ Quits(k) /\ pc' = "quit"
            /\ ai' = [ai EXCEPT !.file = ai.log]
            /\ UNCHANGED <<ui, webVars, queries, applies, store, window>>

NoKey ==
    /\ pc = "key" /\ pc' = "poll"
    /\ UNCHANGED <<ui, webVars, aiVars, store, logs, window, frame>>

\* mutant: results are collected between the frame and the key
PollsThenKey ==
    /\ pc = "poll" /\ pc' = "key"
    /\ logs' = update_logs(logs) /\ web' = web_poll /\ slot' = None
    /\ store' = store_poll(store)
    /\ UNCHANGED <<ui, fetches, aiVars, window, frame>>

Polls ==
    /\ pc = "poll" /\ pc' = "draw"
    /\ logs' = update_logs(logs) /\ web' = web_poll /\ slot' = None
    /\ store' = store_poll(store)
    /\ UNCHANGED <<ui, fetches, aiVars, window, frame>>

run == Draw \/ Key \/ NoKey \/ Polls

Next == run \/ LogLine \/ FetchDone \/ WindowReady \/ QueryStep
            \/ apply_config_async \/ StoreDone

Spec == Init /\ [][Next]_vars

----------------------------------------------------------------------------
(* A text field that takes the keys belongs to the tab on screen: however *)
(* the tabs are switched, keys never go to the network, URL or query      *)
(* field of another tab (handle_key resets these modes).                  *)
PromptBelongsToTab ==
    /\ ui.net => ui.tab = 4
    /\ web.focused => ui.tab = 5
    /\ ui.ai => ui.tab = 2

(* Enter opens the address the last frame highlighted, or the top of the  *)
(* history, though fetches end and pages arrive at any time: results are  *)
(* collected only between a key and the next frame (run).                 *)
OpensShownRow ==
    [][ (pc = "key" /\ Owner = "normal" /\ web'.gen > web.gen) =>
          \E f \in fetches' : /\ f.gen = web'.gen
                              /\ \/ f.url = frame.row
                                 \/ /\ web.history # <<>>
                                    /\ f.url = Last(web.history) ]_vars

(* A browser tab keeps what it showed while another one is shown: a step  *)
(* that changes tabs without closing one leaves the page and the history  *)
(* last shown in the tab that is left (web_sync_tab).                     *)
LeftTabKeepsView ==
    [][ (web'.active # web.active /\ Len(web'.tabs) >= Len(web.tabs)) =>
          web'.tabs[web.active] = TabOf(web) ]_vars

(* The streaming mark goes out: when no query is waiting or running,      *)
(* whatever the order in which several of them failed or ended, the       *)
(* console does not show one as streaming (submit_ai_query).              *)
StreamingEnds ==
    (\A q \in queries : q.at \notin {"ask", "run"}) => ~ai.streaming

(* "Only one store task runs at a time" and its label stands exactly      *)
(* until its answer is printed: each task is answered once                *)
(* (store_spawn, take_store_result, store_poll).                          *)
OneStoreTask ==
    /\ Cardinality(store.running) <= 1
    /\ store.printed + (IF store.task = None THEN 0 ELSE 1) = store.gen
    /\ store.task # None => store.task \in store.running \/ store.out = store.task

(* "Changes are applied to the shared engine, so the HTTP                 *)
(* /api/v1/llm/query endpoint uses the same configuration": with nothing  *)
(* under way the bridge's engine has the configuration the console shows. *)
\* Refuted: section 5 of the README.
EngineHasConfig == (queries = {} /\ applies = {}) => ai.engine = ai.config
=============================================================================
