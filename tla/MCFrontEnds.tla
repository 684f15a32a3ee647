----------------------------- MODULE MCFrontEnds ----------------------------
(***************************************************************************)
(* The front ends for TLC: the dashboard of aios-tui, the console of aios, *)
(* the desktop application, the file manager and the browser, some with    *)
(* several sets of bounds.  A behaviour exercises the one `part` names;    *)
(* the others rest in an initial state of theirs.                          *)
(***************************************************************************)
EXTENDS Integers, Sequences, FiniteSets, TLC

CONSTANTS u1, u2, None

VARIABLES part,
          dashPc, dashUi, dashWeb, dashFetches, page_cache, task,       \* Dashboard
          workers, outs, sys, snap, dashFrame, native,
          guiPc, guiUi, views, guiFrame, registry, nextId, market,      \* GuiApp
          sched, crash, browser, guiAi, asks, saved,
          pc, ui, web, fetches, slot, ai, queries, applies, store,      \* SystemConsole
          logs, window, frame,
          disk, panels, active, prompt, queue, loop, jobs, acl,         \* FileManager
          preview, error, used, excused, writer,
          page, js, tabs, tabActive, bookmarks, userScripts, proxy,     \* Browser
          gtkTaken, threads, opener, commands, windows, doc, text

dashVars == <<dashPc, dashUi, dashWeb, dashFetches, page_cache, task, workers, outs, sys, snap,
              dashFrame, native>>
guiVars == <<guiPc, guiUi, views, guiFrame, registry, nextId, market, sched, crash, browser,
             guiAi, asks, saved>>
consoleVars == <<pc, ui, web, fetches, slot, ai, queries, applies, store, logs, window, frame>>
fileVars == <<disk, panels, active, prompt, queue, loop, jobs, acl, preview, error, used,
              excused, writer>>
browserVars == <<page, js, tabs, tabActive, bookmarks, userScripts, proxy, gtkTaken, threads,
                 opener, commands, windows, doc, text>>

-----------------------------------------------------------------------------
(* The dashboard: pages and their fetches; tasks, blocks and processes;    *)
(* the native window                                                       *)
DashLands == [u \in {"a", "b", "q"} |-> IF u = "q" THEN "b" ELSE u]
DashLinks == [u \in {"a", "b"} |-> IF u = "a" THEN <<"b", "a", "b">> ELSE <<"a">>]
Pages == INSTANCE Dashboard WITH
    pc <- dashPc, ui <- dashUi, web <- dashWeb, fetches <- dashFetches, frame <- dashFrame,
    Urls <- {"a", "b"}, Queries <- {"q"}, Lands <- DashLands, Links <- DashLinks, LinkRows <- 2,
    CacheCap <- 1, Tabs <- {1, 5}, Pids <- {}, BlockNames <- {"m"}, MaxBlocks <- 1, MaxGen <- 2,
    MaxHistory <- 2, MaxTasks <- 0, MaxWindows <- 0
Tasks == INSTANCE Dashboard WITH
    pc <- dashPc, ui <- dashUi, web <- dashWeb, fetches <- dashFetches, frame <- dashFrame,
    Urls <- {"a", "b"}, Queries <- {"q"}, Lands <- DashLands, Links <- DashLinks, LinkRows <- 2,
    CacheCap <- 1, Tabs <- {1, 2, 6}, Pids <- {11}, BlockNames <- {"m"}, MaxBlocks <- 2,
    MaxGen <- 0, MaxHistory <- 2, MaxTasks <- 2, MaxWindows <- 0
Native == INSTANCE Dashboard WITH
    pc <- dashPc, ui <- dashUi, web <- dashWeb, fetches <- dashFetches, frame <- dashFrame,
    Urls <- {"a", "b"}, Queries <- {"q"}, Lands <- DashLands, Links <- DashLinks, LinkRows <- 2,
    CacheCap <- 1, Tabs <- {5, 7}, Pids <- {}, BlockNames <- {"m"}, MaxBlocks <- 1, MaxGen <- 1,
    MaxHistory <- 2, MaxTasks <- 0, MaxWindows <- 3
DashNext ==
    \/ part = "pages" /\ Pages!Next
    \/ part = "tasks" /\ Tasks!Next
    \/ part = "native" /\ Native!Next

(* The desktop application: blocks and offers; questions and windows;      *)
(* processes and faults                                                    *)
Blocks == INSTANCE GuiApp WITH
    pc <- guiPc, ui <- guiUi, frame <- guiFrame, store <- market, ai <- guiAi, Tabs <- {1, 3},
    Pids <- {}, Names <- {1, 2}, Base <- {1, 2}, Offers <- <<2, 1>>, Hits <- {1}, MaxIds <- 3,
    MaxAsks <- 0, MaxWindows <- 0
Asks == INSTANCE GuiApp WITH
    pc <- guiPc, ui <- guiUi, frame <- guiFrame, store <- market, ai <- guiAi,
    Tabs <- {2, 6, 7}, Pids <- {}, Names <- {1, 2}, Base <- {}, Offers <- <<>>, Hits <- {1},
    MaxIds <- 0, MaxAsks <- 2, MaxWindows <- 3
Crashes == INSTANCE GuiApp WITH
    pc <- guiPc, ui <- guiUi, frame <- guiFrame, store <- market, ai <- guiAi,
    Tabs <- {0, 4, 5, 8}, Pids <- {11, 12}, Names <- {1, 2}, Base <- {}, Offers <- <<>>,
    Hits <- {1}, MaxIds <- 0, MaxAsks <- 0, MaxWindows <- 0
GuiNext ==
    \/ part = "blocks" /\ Blocks!Next
    \/ part = "asks" /\ Asks!Next
    \/ part = "faults" /\ Crashes!Next

(* The console: prompts on several tabs; the web tabs; the AI tab; the     *)
(* App Store with the log                                                  *)
AnyLink == [u \in {u1, u2} |-> <<u1, u2>>]
OwnLand == [u \in {u1, u2} |-> u]
OwnLink == [u \in {u1} |-> <<u1>>]
PromptKeys == {"alt", "esc", "enter", "tab", "bs", "F1", "h", "digit", "g", "i", "n", "L", "q",
               "ctrl-c"}
Prompts == INSTANCE SystemConsole WITH
    Keys <- PromptKeys, Tabs <- {1, 2, 4, 5}, Urls <- {u1}, Lands <- OwnLand, Links <- OwnLink,
    MaxTabs <- 2, MaxGen <- 0, MaxHistory <- 2, Configs <- {}, MaxAsks <- 0, MaxTasks <- 0,
    LogCap <- 3, LogKeep <- 2, ShownCap <- 2, MaxLines <- 0
Web == INSTANCE SystemConsole WITH
    Keys <- {"digit", "enter", "g", "j", "t", "x", "]", "b"}, Tabs <- {5}, Urls <- {u1, u2},
    Lands <- OwnLand, Links <- AnyLink, MaxTabs <- 2, MaxGen <- 2, MaxHistory <- 2,
    Configs <- {}, MaxAsks <- 0, MaxTasks <- 0, LogCap <- 3, LogKeep <- 2, ShownCap <- 2,
    MaxLines <- 0
Chat == INSTANCE SystemConsole WITH
    Keys <- {"digit", "enter", "i", "c"}, Tabs <- {2}, Urls <- {u1}, Lands <- OwnLand,
    Links <- OwnLink, MaxTabs <- 2, MaxGen <- 0, MaxHistory <- 2, Configs <- {"c1"},
    MaxAsks <- 2, MaxTasks <- 0, LogCap <- 3, LogKeep <- 2, ShownCap <- 2, MaxLines <- 0
Store == INSTANCE SystemConsole WITH
    Keys <- {"alt", "enter", "c", "esc", " "}, Tabs <- {1, 6}, Urls <- {u1}, Lands <- OwnLand,
    Links <- OwnLink, MaxTabs <- 2, MaxGen <- 0, MaxHistory <- 2, Configs <- {}, MaxAsks <- 0,
    MaxTasks <- 3, LogCap <- 3, LogKeep <- 2, ShownCap <- 2, MaxLines <- 4
ConNext ==
    \/ part = "prompts" /\ Prompts!Next
    \/ part = "web" /\ Web!Next
    \/ part = "chat" /\ Chat!Next
    \/ part = "store" /\ Store!Next

(* The file manager: moves and renames in a tree with equal names; every   *)
(* key on a small tree; the caller of atomic_write                         *)
Dir == [dir |-> TRUE, c |-> None, w |-> {}]
File(c) == [dir |-> FALSE, c |-> c, w |-> {}]
TwinTree == (<<>> :> Dir) @@ (<<1>> :> Dir) @@ (<<2>> :> Dir) @@ (<<1, 1>> :> Dir)
            @@ (<<1, 1, 2>> :> File("x")) @@ (<<2, 1>> :> Dir) @@ (<<2, 1, 1>> :> File("y"))
SmallTree == (<<>> :> Dir) @@ (<<1>> :> Dir) @@ (<<1, 1>> :> Dir) @@ (<<1, 2>> :> File("x"))
             @@ (<<2>> :> Dir)
AllUses == {"up", "down", "switch", "sort", "enter", "goup", "copy", "move", "delete", "view",
            "refresh", "grant read", "grant write", "mkdir", "rename", "close", "click"}
Moves == INSTANCE FileManager WITH
    Names <- {1, 2}, Tree <- TwinTree, Kinds <- <<"text", "wasm">>, Starts <- <<<<1>>, <<2>>>>,
    Faults <- TRUE, Uses <- {"move", "rename", "enter"}, PathMax <- 4, MaxCmds <- 2,
    MaxJobs <- 1, MaxUses <- 3
Panels == INSTANCE FileManager WITH
    Names <- {1, 2}, Tree <- SmallTree, Kinds <- <<"text", "wasm">>, Starts <- <<<<1>>, <<2>>>>,
    Faults <- TRUE, Uses <- AllUses, PathMax <- 4, MaxCmds <- 2, MaxJobs <- 1, MaxUses <- 2
FileNext ==
    \/ part = "moves" /\ Moves!PanelNext
    \/ part = "files" /\ Panels!PanelNext
    \/ part = "write" /\ Panels!WriteNext

(* The browser: a page with a script and one that refreshes; the session;  *)
(* the native window; and the text of documents                            *)
Site == [u \in {u1, u2} |-> [scripts |-> IF u = u1 THEN 1 ELSE 0,
                             refresh |-> IF u = u2 THEN u1 ELSE None]]
Outcomes == [u \in {u1, u2} |-> IF u = u1 THEN {u1, None} ELSE {u2}]
Word(w) == [tag |-> "#text", word |-> w, kids |-> <<>>]
Element(t, kids) == [tag |-> t, word |-> "", kids |-> kids]
Pieces(a, b) ==
    {Word(a), Element("hr", <<>>), Element("img", <<>>), Element("script", <<Word(a)>>),
     Element("h1", <<Word(a), Element("b", <<Word(b)>>)>>),
     Element("p", <<Word(a), Element("br", <<>>), Word(b)>>),
     Element("ul", <<Element("li", <<Word(a)>>), Element("li", <<Word(b)>>)>>),
     Element("ul", <<Word(a), Element("li", <<Word(b)>>)>>), Element("li", <<Word(a)>>),
     Element("tr", <<Element("td", <<>>), Element("td", <<Word(a)>>), Element("td", <<Word(b)>>)>>),
     Element("pre", <<Word(a), Element("code", <<Word(b)>>)>>),
     Element("span", <<Word(a), Element("p", <<Word(b)>>)>>),
     Element("div", <<Element("div", <<Word(a)>>), Word(b)>>)}
Documents == {Element("html", <<Element("body", <<x, y>>)>>) :
                  x \in Pieces("a", "b"), y \in Pieces("c", "d")}
Page == INSTANCE Browser WITH
    active <- tabActive, slot <- proxy, queue <- commands, window <- windows, Urls <- {u1, u2},
    Lands <- Outcomes, Effects <- {"fetch", "script", "timer", "nav", "none"}, MaxHops <- 1,
    MaxDynRounds <- 2, MaxDynScripts <- 1, MaxFetchRounds <- 2, MaxFetches <- 2, MaxTimers <- 1,
    MaxTabs <- 2, MaxHistory <- 1, MaxBookmarks <- 1, Openers <- {1, 2}, MaxThreads <- 2,
    MaxQueue <- 3, Docs <- Documents
ManyTabs == INSTANCE Browser WITH
    active <- tabActive, slot <- proxy, queue <- commands, window <- windows, Urls <- {u1},
    Lands <- Outcomes, Effects <- {"fetch", "script", "timer", "nav", "none"}, MaxHops <- 1,
    MaxDynRounds <- 2, MaxDynScripts <- 1, MaxFetchRounds <- 2, MaxFetches <- 2, MaxTimers <- 1,
    MaxTabs <- 3, MaxHistory <- 1, MaxBookmarks <- 0, Openers <- {1, 2}, MaxThreads <- 2,
    MaxQueue <- 3, Docs <- Documents
BrowserNext ==
    \/ /\ part = "page" /\ Page!PageNext
       /\ UNCHANGED <<tabs, tabActive, bookmarks, userScripts, proxy, gtkTaken, threads, opener,
                      commands, windows, doc, text>>
    \/ /\ \/ part = "session" /\ Page!SessionNext
          \/ part = "tabs" /\ ManyTabs!SessionNext
       /\ UNCHANGED <<page, js, proxy, gtkTaken, threads, opener, commands, windows, doc, text>>
    \/ /\ part = "window" /\ Page!WindowNext
       /\ UNCHANGED <<page, js, tabs, tabActive, bookmarks, userScripts, doc, text>>
    \/ /\ part = "text" /\ Page!TextNext
       /\ UNCHANGED <<page, js, tabs, tabActive, bookmarks, userScripts, proxy, gtkTaken, threads,
                      opener, commands, windows>>

-----------------------------------------------------------------------------
ASSUME Pages!DashboardAssumption /\ Tasks!DashboardAssumption /\ Native!DashboardAssumption
ASSUME Blocks!GuiAssumption /\ Asks!GuiAssumption /\ Crashes!GuiAssumption
ASSUME Prompts!SystemConsoleAssumption /\ Web!SystemConsoleAssumption
ASSUME Chat!SystemConsoleAssumption /\ Store!SystemConsoleAssumption
ASSUME Moves!FileManagerAssumption /\ Panels!FileManagerAssumption
ASSUME Page!BrowserAssumption /\ ManyTabs!BrowserAssumption

MCInit ==
    /\ part \in {"pages", "tasks", "native", "blocks", "asks", "faults", "prompts", "web", "chat",
                 "store", "moves", "files", "write", "page", "session", "tabs", "window", "text"}
    /\ IF part = "tasks" THEN Tasks!Init ELSE Pages!Init
    /\ IF part = "blocks" THEN Blocks!Init ELSE IF part = "faults" THEN Crashes!Init ELSE Asks!Init
    /\ Prompts!Init
    /\ IF part = "moves" THEN Moves!Init ELSE Panels!Init
    /\ Page!Init

MCNext ==
    /\ UNCHANGED part
    /\ \/ DashNext /\ UNCHANGED <<guiVars, consoleVars, fileVars, browserVars>>
       \/ GuiNext /\ UNCHANGED <<dashVars, consoleVars, fileVars, browserVars>>
       \/ ConNext /\ UNCHANGED <<dashVars, guiVars, fileVars, browserVars>>
       \/ FileNext /\ UNCHANGED <<dashVars, guiVars, consoleVars, browserVars>>
       \/ BrowserNext /\ UNCHANGED <<dashVars, guiVars, consoleVars, fileVars>>

MCSpec == MCInit /\ [][MCNext]_<<part, dashVars, guiVars, consoleVars, fileVars, browserVars>>

-----------------------------------------------------------------------------
(* A key or a button acts on what the frame on the screen shows, although  *)
(* the lists change under the selection: the process killed, the block     *)
(* unloaded and the link opened are the highlighted ones (dashboard: poll, *)
(* draw, key; desktop application: sync_runtime_snapshot; console: the     *)
(* polls of run).                                                          *)
ActsOnShown ==
    /\ Pages!ActsOnFrame
    /\ Blocks!GuiActsOnFrame
    /\ Web!OpensShownRow


(* However fast the keys are pressed there is one task, one native window, *)
(* one browser and one store task at a time; every task and stream that is *)
(* announced as running runs or has left a result; answers come in turn;   *)
(* and a prompt takes keys on its own tab only (spawn_task, the openers,   *)
(* ai_send, store_spawn, handle_key).                                      *)
OneAtATime ==
    /\ part = "tasks" => Tasks!TaskAnswered
    /\ part = "native" => Native!OneWindow
    /\ part = "asks" => Asks!OneBrowser
                        /\ Asks!AnswersInTurn
    /\ part = "prompts" => Prompts!PromptBelongsToTab
    /\ part = "chat" => Chat!StreamingEnds
    /\ part = "store" => Store!OneStoreTask


=============================================================================
