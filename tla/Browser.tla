------------------------------ MODULE Browser ------------------------------
(***************************************************************************)
(* aios-browser and aios-webview.  Four parts share this module:           *)
(*   page     BrowserEngine::build_page with its script context: navigation *)
(*            hops, the page's scripts, the scripts and requests they       *)
(*            create, the life-cycle events and the timers, every one       *)
(*            under a cap;                                                  *)
(*   session  BrowserSession and the commands of BrowserBlock: tabs, back   *)
(*            and forward stacks, bookmarks, a hot swap of the block;       *)
(*   window   WebBrowser::open with its engine thread and its event loop;   *)
(*   text     HtmlParser's rendering of a document as plain text.           *)
(* A piece of page code, whatever it is, may do one of Effects each time    *)
(* it runs.                                                                 *)
(***************************************************************************)
EXTENDS Integers, Sequences, FiniteSets, SequencesExt

CONSTANTS
    Urls,            \* http addresses
    Site,            \* URL -> [scripts: Nat, refresh: URL or None]
    Lands,           \* URL -> where a load of it may end (URLs, or None for a failure)
    Effects,         \* what page code may do: "fetch", "script", "timer", "nav", "none"
    MaxHops, MaxDynRounds, MaxDynScripts, MaxFetchRounds, MaxFetches, MaxTimers,
    MaxTabs,         \* bound: open tabs
    MaxHistory,      \* bound: entries of a back stack
    MaxBookmarks,    \* bound: saved bookmarks
    Openers,         \* threads that call WebBrowser::open
    MaxThreads,      \* bound: engine threads ever started
    MaxQueue,        \* bound: commands waiting for the event loop
    Docs,            \* documents of the text part
    None

VARIABLES
    page,            \* the load in progress
    js,              \* its script context
    tabs, active, bookmarks, userScripts,
    slot, gtkTaken, threads, opener, queue, window,
    doc, text

pageVars == <<page, js>>
sessionVars == <<tabs, active, bookmarks, userScripts>>
windowVars == <<slot, gtkTaken, threads, opener, queue, window>>
textVars == <<doc, text>>
vars == <<pageVars, sessionVars, windowVars, textVars>>

BrowserAssumption ==
    /\ Urls \subseteq DOMAIN Site \cap DOMAIN Lands
    /\ \A u \in Urls : Lands[u] \subseteq Urls \cup {None}
    /\ MaxDynRounds > 0 /\ MaxFetchRounds > 0 /\ MaxTabs > 0

-----------------------------------------------------------------------------
(* The page pipeline *)

Phases == <<"scripts", "user", "settle", "DOMContentLoaded", "settle", "timers",
            "settle", "load", "settle", "finish">>

NoPage == [pc |-> "idle", url |-> None, html |-> None, hops |-> 0, loads |-> 0,
           at |-> 1, left |-> 0, rounds |-> 0, dynamic |-> 0, fetched |-> 0,
           stage |-> "dyn", turn |-> 0, k |-> 0, before |-> 0, batch |-> 0, ran |-> 0,
           limit |-> {}]

\* A fresh context: nothing queued, the parser's own scripts marked as run.
NoContext == [requests |-> 0, pending |-> 0, scripts |-> 0, timers |-> 0, nav |-> None]

\* What one run of page code leaves behind: a parked request, a script element, a
\* timer, a requested navigation or nothing.  A throwing script is one of these too.
Does(c, e, u) ==
    CASE e = "fetch"  -> [c EXCEPT !.requests = @ + 1, !.pending = @ + 1]
      [] e = "script" -> [c EXCEPT !.scripts = @ + 1]
      [] e = "timer"  -> [c EXCEPT !.timers = @ + 1]
      [] e = "nav"    -> [c EXCEPT !.nav = u]
      [] OTHER        -> c

\* engine.run, run_module: evaluate and drain the microtasks.
Runs(c) == {Does(c, e, u) : e \in Effects, u \in Urls}

Phase == Phases[page.at]
NextPhase(p) == [p EXCEPT !.at = @ + 1, !.stage = "dyn", !.turn = 0]

\* run_page_scripts begins on the document at p.url, in a fresh context.
Begins(p) == [p EXCEPT !.pc = "scripts", !.at = 1, !.left = Site[p.url].scripts,
                       !.rounds = 0, !.dynamic = 0, !.fetched = 0, !.stage = "dyn",
                       !.turn = 0, !.ran = 0, !.limit = {}]

navigate(u) ==
    /\ page.pc \in {"idle", "done"}
    /\ \/ page' = [NoPage EXCEPT !.pc = "failed"]
       \/ page' = Begins([NoPage EXCEPT !.url = u, !.html = u, !.loads = 1])
    /\ js' = NoContext

Reset == page.pc = "failed" /\ page' = NoPage /\ js' = NoContext

InPhase(name) == page.pc = "scripts" /\ Phase = name

\* Inline scripts and fetched externals in document order; an external that cannot
\* be fetched does nothing.
RunScripts ==
    /\ InPhase("scripts")
    /\ IF page.left > 0
       THEN js' \in Runs(js) /\ page' = [page EXCEPT !.left = @ - 1]
       ELSE page' = NextPhase(page) /\ UNCHANGED js

RunUserScripts ==
    /\ InPhase("user")
    /\ js' \in Runs(js) \cup {js}
    /\ page' = NextPhase(page)

InStage(name) == InPhase("settle") /\ page.stage = name

\* run_dynamic_rounds: collect what page code created since the last round.
collect_dynamic_scripts ==
    /\ InStage("dyn")
    /\ IF page.rounds < MaxDynRounds /\ page.dynamic < MaxDynScripts /\ js.scripts > 0
       THEN /\ page' = [page EXCEPT !.rounds = @ + 1, !.batch = js.scripts, !.stage = "run"]
            /\ js' = [js EXCEPT !.scripts = 0]
       ELSE page' = [page EXCEPT !.stage = "take", !.k = 0, !.before = page.fetched] /\ UNCHANGED js

RunDynamic ==
    /\ InStage("run")
    /\ CASE page.batch = 0 ->
              page' = [page EXCEPT !.stage = "dyn"] /\ UNCHANGED js
         [] page.batch > 0 /\ page.dynamic >= MaxDynScripts ->
              /\ page' = [page EXCEPT !.stage = "take", !.k = 0, !.before = page.fetched,
                                      !.limit = @ \cup {"scripts"}]
              /\ UNCHANGED js
         [] OTHER ->
              /\ page' = [page EXCEPT !.batch = @ - 1, !.dynamic = @ + 1]
              /\ js' \in Runs(js) \cup {js}

\* settle without its loop: scripts, then requests, once.
SettlesOnce(p) == NextPhase(p)

\* The end of resolve_fetches within settle: another turn while requests were served.
Settles(p) ==
    IF p.fetched # p.before /\ p.turn + 1 < MaxFetchRounds
    THEN [p EXCEPT !.turn = @ + 1, !.stage = "dyn"]
    ELSE NextPhase([p EXCEPT !.limit = IF p.fetched = p.before THEN @ ELSE @ \cup {"turns"}])

pending_requests ==
    /\ InStage("take")
    /\ CASE page.k = MaxFetchRounds ->
              page' = Settles([page EXCEPT !.limit = @ \cup {"requests"}]) /\ UNCHANGED js
         [] page.k < MaxFetchRounds /\ js.requests = 0 ->
              page' = Settles(page) /\ UNCHANGED js
         [] OTHER ->
              /\ page' = [page EXCEPT !.batch = js.requests, !.stage = "serve"]
              /\ js' = [js EXCEPT !.requests = 0]

\* Every request of the batch is answered, those over the cap with a failure; the
\* callback of the answer is page code.
resolve_request ==
    /\ InStage("serve")
    /\ IF page.batch = 0
       THEN page' = [page EXCEPT !.stage = "take", !.k = @ + 1] /\ UNCHANGED js
       ELSE /\ page' = [page EXCEPT !.batch = @ - 1,
                                    !.fetched = IF @ < MaxFetches THEN @ + 1 ELSE @]
            /\ js' \in Runs([js EXCEPT !.pending = @ - 1])

\* DOMContentLoaded and load handlers, each a piece of page code.
Fire ==
    /\ InPhase("DOMContentLoaded") \/ InPhase("load")
    /\ js' \in Runs(js)
    /\ page' = NextPhase(page)

\* One callback at a time; a callback set by a callback runs in the same flush.
flush_timers ==
    /\ InPhase("timers")
    /\ IF js.timers > 0 /\ page.ran < MaxTimers
       THEN /\ js' \in Runs([js EXCEPT !.timers = @ - 1])
            /\ page' = [page EXCEPT !.ran = @ + 1]
       ELSE /\ page' = NextPhase([page EXCEPT !.limit = IF js.timers > 0 THEN @ \cup {"timers"} ELSE @])
            /\ UNCHANGED js

\* finish reads the tree back; a tree that cannot be read loses what the scripts did,
\* the navigation included.  A refresh element without delay counts as a navigation.
finish ==
    /\ InPhase("finish")
    /\ \E ok \in BOOLEAN :
          js' = [js EXCEPT !.nav = IF ok /\ js.nav # None THEN @ ELSE Site[page.url].refresh]
    /\ page' = [page EXCEPT !.pc = "nav"]

\* The loop with the address set before the load is known to succeed.
FollowEarly ==
    /\ page.pc = "nav"
    /\ \/ page' = [page EXCEPT !.pc = "render",
                               !.url = IF js.nav # None THEN js.nav ELSE @] /\ UNCHANGED js
       \/ /\ js.nav # None /\ js.nav # page.url /\ page.hops < MaxHops
          /\ page' = Begins([page EXCEPT !.hops = @ + 1, !.loads = @ + 1,
                                         !.url = js.nav, !.html = js.nav])
          /\ js' = NoContext

\* The navigation loop: stay when there is nowhere to go, when the target is the page
\* itself, at the hop limit or when the load fails; else load and start over.
FollowNav ==
    /\ page.pc = "nav"
    /\ \/ page' = [page EXCEPT !.pc = "render"] /\ UNCHANGED js
       \/ /\ js.nav # None /\ js.nav # page.url /\ page.hops < MaxHops
          /\ page' = Begins([page EXCEPT !.hops = @ + 1, !.loads = @ + 1,
                                         !.url = js.nav, !.html = js.nav])
          /\ js' = NoContext

\* A page without text is rendered once more by an installed headless browser, whose
\* document is taken when it is richer.
render_to_html ==
    /\ page.pc = "render"
    /\ page' = [page EXCEPT !.pc = "done"]
    /\ UNCHANGED js

PageInit == page = NoPage /\ js = NoContext

PageNext ==
    \/ \E u \in Urls : navigate(u)
    \/ Reset \/ RunScripts \/ RunUserScripts \/ collect_dynamic_scripts \/ RunDynamic
    \/ pending_requests \/ resolve_request \/ Fire \/ flush_timers \/ finish
    \/ FollowNav \/ render_to_html

-----------------------------------------------------------------------------
(* The session and its block *)

NoTab == [id |-> 0, history |-> <<>>, forward |-> <<>>, current |-> None, page |-> None]

SetTab(t) == tabs' = [tabs EXCEPT ![active] = t]
Tab == tabs[active]

\* Record the visit once the load succeeded; a failed load changes nothing.
go(u) ==
    /\ Len(Tab.history) < MaxHistory
    /\ \E final \in Lands[u] \ {None} :
          SetTab([Tab EXCEPT !.current = u, !.forward = <<>>, !.page = final,
                             !.history = IF Tab.current \notin {None, final}
                                         THEN Append(@, Tab.current) ELSE @])
    /\ UNCHANGED <<active, bookmarks, userScripts>>

\* back_target without the push of the current address.
BackForgets(t) ==
    [t EXCEPT !.history = Front(@), !.current = Last(t.history)]

back_target(t) ==
    [t EXCEPT !.history = Front(@), !.current = Last(t.history),
              !.forward = IF t.current = None THEN @ ELSE Append(@, t.current)]

forward_target(t) ==
    [t EXCEPT !.forward = Front(@), !.current = Last(t.forward),
              !.history = IF t.current = None THEN @ ELSE Append(@, t.current)]

\* The stacks move before the load; when it fails the old page stays.
Loaded(t) == {[t EXCEPT !.page = IF final = None THEN @ ELSE final] : final \in Lands[t.current]}

back ==
    /\ Tab.history # <<>>
    /\ \E t \in Loaded(back_target(Tab)) : SetTab(t)
    /\ UNCHANGED <<active, bookmarks, userScripts>>

forward ==
    /\ Tab.forward # <<>>
    /\ \E t \in Loaded(forward_target(Tab)) : SetTab(t)
    /\ UNCHANGED <<active, bookmarks, userScripts>>

reload ==
    /\ Tab.current # None
    /\ \E t \in Loaded(Tab) : SetTab(t)
    /\ UNCHANGED <<active, bookmarks, userScripts>>

\* Tabs have no identity in the code; here a number tells them apart.
FreshId == CHOOSE n \in 0..MaxTabs : \A i \in DOMAIN tabs : tabs[i].id # n

new_tab ==
    /\ Len(tabs) < MaxTabs
    /\ tabs' = Append(tabs, [NoTab EXCEPT !.id = FreshId])
    /\ active' = Len(tabs) + 1
    /\ UNCHANGED <<bookmarks, userScripts>>


close_tab(i) ==
    /\ Len(tabs) > 1
    /\ tabs' = RemoveAt(tabs, i)
    /\ active' = CASE active > Len(tabs) - 1 -> Len(tabs) - 1
                   [] active <= Len(tabs) - 1 /\ active > i -> active - 1
                   [] OTHER -> active
    /\ UNCHANGED <<bookmarks, userScripts>>

select_tab(i) ==
    /\ active' = i
    /\ UNCHANGED <<tabs, bookmarks, userScripts>>

\* The same address once; bookmarking it again renames it.
add_bookmark(u, name) ==
    /\ Len(bookmarks) < MaxBookmarks \/ \E i \in DOMAIN bookmarks : bookmarks[i].url = u
    /\ bookmarks' = IF \E i \in DOMAIN bookmarks : bookmarks[i].url = u
                    THEN [i \in DOMAIN bookmarks |->
                            IF bookmarks[i].url = u THEN [bookmarks[i] EXCEPT !.name = name]
                            ELSE bookmarks[i]]
                    ELSE Append(bookmarks, [url |-> u, name |-> name])
    /\ UNCHANGED <<tabs, active, userScripts>>

remove_bookmark(i) ==
    /\ bookmarks' = RemoveAt(bookmarks, i)
    /\ UNCHANGED <<tabs, active, userScripts>>

add_user_script ==
    /\ userScripts' = TRUE
    /\ UNCHANGED <<tabs, active, bookmarks>>

\* extract_state into a new block's restore_state: the stacks and the bookmarks, but
\* neither the pages nor the userscripts.
restore_state ==
    /\ tabs' = [i \in DOMAIN tabs |-> [tabs[i] EXCEPT !.page = None]]
    /\ userScripts' = FALSE
    /\ UNCHANGED <<active, bookmarks>>

SessionInit ==
    /\ tabs = <<NoTab>> /\ active = 1 /\ bookmarks = <<>>
    /\ userScripts = FALSE

handle_custom ==
    \/ \E u \in Urls : go(u)
    \/ back \/ forward \/ reload \/ new_tab \/ add_user_script
    \/ \E i \in DOMAIN tabs : close_tab(i) \/ select_tab(i)
    \/ \E u \in Urls, n \in 1..2 : add_bookmark(u, n)
    \/ \E i \in DOMAIN bookmarks : remove_bookmark(i)

SessionNext == handle_custom \/ restore_state

-----------------------------------------------------------------------------
(* The native window *)

\* open holds the lock of the proxy slot from its first line to its return.
Locked == \E o \in Openers : opener[o].pc \in {"proxy", "ready"}
Goes(o, pc) == opener' = [opener EXCEPT ![o].pc = pc]
Thread(t, s) == threads' = [threads EXCEPT ![t] = s]
Running == slot # 0 /\ threads[slot] = "run"

\* A running engine gets one more command; a dead one empties the slot.
open_again(o) ==
    /\ opener[o].pc = "idle" /\ ~Locked /\ slot # 0
    /\ IF Running
       THEN /\ Len(queue) < MaxQueue
            /\ queue' = Append(queue, "navigate") /\ Goes(o, "held") /\ UNCHANGED slot
       ELSE slot' = 0 /\ UNCHANGED <<queue, opener>>
    /\ UNCHANGED <<gtkTaken, threads, window>>

open(o) ==
    /\ opener[o].pc = "idle" /\ ~Locked /\ slot = 0 /\ ~gtkTaken
    /\ Len(threads) < MaxThreads
    /\ threads' = Append(threads, "start")
    /\ opener' = [opener EXCEPT ![o] = [pc |-> "proxy", thread |-> Len(threads) + 1]]
    /\ UNCHANGED <<slot, gtkTaken, queue, window>>

\* The engine thread binds GTK, which refuses a second thread, then sets the flag.
GtkInit(t) ==
    /\ threads[t] = "start"
    /\ Thread(t, IF \E u \in DOMAIN threads : threads[u] \in {"bound", "gtk", "loop", "run"}
                 THEN "refused" ELSE "bound")
    /\ UNCHANGED <<slot, gtkTaken, opener, queue, window>>

GtkFails(t) ==
    /\ threads[t] = "start"
    /\ Thread(t, "dead")
    /\ UNCHANGED <<slot, gtkTaken, opener, queue, window>>

SetsFlag(t) ==
    /\ threads[t] = "bound"
    /\ gtkTaken' = TRUE
    /\ Thread(t, "gtk")
    /\ UNCHANGED <<slot, opener, queue, window>>

\* The event loop is built and its proxy sent, or the thread ends.
BuildLoop(t) ==
    /\ threads[t] = "gtk"
    /\ \E s \in {"loop", "dead"} : Thread(t, s)
    /\ UNCHANGED <<slot, gtkTaken, opener, queue, window>>

\* resumed: the window and its view exist and are shown, or the loop exits.
resumed(t) ==
    /\ threads[t] = "loop"
    /\ \/ Thread(t, "run") /\ window' = window \cup {t}
       \/ Thread(t, "failed") /\ UNCHANGED window
    /\ UNCHANGED <<slot, gtkTaken, opener, queue>>

\* open waits for the proxy, then for the window; either wait may time out, and the
\* thread then goes on alone.
Sent(t) == threads[t] \in {"loop", "run", "failed", "ended"}

AwaitProxy(o) ==
    /\ opener[o].pc = "proxy"
    /\ \/ Sent(opener[o].thread) /\ Goes(o, "ready")
       \/ ~Sent(opener[o].thread) /\ Goes(o, "idle")
    /\ UNCHANGED <<slot, gtkTaken, threads, queue, window>>

AwaitReady(o) ==
    /\ opener[o].pc = "ready"
    /\ \/ threads[opener[o].thread] \in {"run", "ended"} /\ Goes(o, "held") /\ slot' = opener[o].thread
       \/ threads[opener[o].thread] \notin {"run", "ended"} /\ Goes(o, "idle") /\ UNCHANGED slot
    /\ UNCHANGED <<gtkTaken, threads, queue, window>>

\* navigate, back and forward of a handle; the drop of a handle sends close.
Command(o) ==
    /\ opener[o].pc = "held" /\ Running /\ Len(queue) < MaxQueue
    /\ queue' = Append(queue, "navigate")
    /\ UNCHANGED <<slot, gtkTaken, threads, opener, window>>


drop(o) ==
    /\ opener[o].pc = "held" /\ Len(queue) < MaxQueue
    /\ Goes(o, "idle")
    /\ queue' = IF Running THEN Append(queue, "close") ELSE queue
    /\ UNCHANGED <<slot, gtkTaken, threads, window>>

user_event ==
    /\ Running /\ queue # <<>>
    /\ queue' = Tail(queue)
    /\ window' = IF Head(queue) = "close" THEN window \ {slot} ELSE window \cup {slot}
    /\ UNCHANGED <<slot, gtkTaken, threads, opener>>

\* CloseRequested from the window's own button.
window_event(t) ==
    /\ threads[t] = "run" /\ t \in window
    /\ window' = window \ {t}
    /\ UNCHANGED <<slot, gtkTaken, threads, opener, queue>>

\* The display connection is lost and run_app returns.
LoopEnds(t) ==
    /\ threads[t] = "run"
    /\ Thread(t, "ended") /\ window' = window \ {t}
    /\ queue' = IF t = slot THEN <<>> ELSE queue
    /\ UNCHANGED <<slot, gtkTaken, opener>>

WindowInit ==
    /\ slot = 0 /\ gtkTaken = FALSE /\ threads = <<>> /\ queue = <<>> /\ window = {}
    /\ opener = [o \in Openers |-> [pc |-> "idle", thread |-> 0]]

WindowNext ==
    \/ \E o \in Openers : open_again(o) \/ open(o) \/ AwaitProxy(o) \/ AwaitReady(o)
                             \/ Command(o) \/ drop(o)
    \/ \E t \in DOMAIN threads : GtkInit(t) \/ GtkFails(t) \/ SetsFlag(t) \/ BuildLoop(t)
                                   \/ resumed(t) \/ window_event(t) \/ LoopEnds(t)
    \/ user_event

-----------------------------------------------------------------------------
(* Plain text of a document.  A node is [tag, word, kids]; the output is a      *)
(* sequence of words, "sp", "nl" and "mark" (a bullet, a # or an image).        *)

Containers == {"html", "body", "div", "p", "table", "tbody"}
Skipped == {"script", "style", "head"}
Space == {"sp", "nl"}

\* Words of a text node are set apart from what precedes them.
push_text(out, w) ==
    (IF out = <<>> \/ Last(out) \in Space THEN out ELSE Append(out, "sp")) \o <<w>>

\* out without what trails in junk.
Chomp(out, junk) ==
    LET n == CHOOSE i \in 0..Len(out) :
               /\ i = 0 \/ out[i] \notin junk
               /\ \A k \in (i + 1)..Len(out) : out[k] \in junk
    IN SubSeq(out, 1, n)

Break(out, ends) == IF Chomp(out, {"nl"}) = <<>> THEN <<>> ELSE Chomp(out, {"nl"}) \o ends
nl(out) == Break(out, <<"nl">>)
blank(out) == Break(out, <<"nl", "nl">>)

RECURSIVE render_inline(_, _)
render_inline(out, n) ==
    CASE n.tag = "#text" -> push_text(out, n.word)
      [] n.tag \in Skipped -> out
      [] n.tag = "br" -> Append(out, "sp")
      [] n.tag = "img" -> Append(out, "mark")
      [] OTHER -> FoldLeft(render_inline, out, n.kids)

\* The cells of a row, separated from the second one on.
Cells(out, kids) ==
    LET cells == SelectSeq(kids, LAMBDA k : k.tag \in {"td", "th"})
        Cell(o, i) == render_inline(IF i = 1 THEN o ELSE o \o <<"sp", "mark", "sp">>, cells[i])
    IN FoldLeft(Cell, out, [i \in 1..Len(cells) |-> i])

Item(out, n) ==
    IF n.tag # "li" THEN out ELSE nl(render_inline(out \o <<"mark", "sp">>, n))

Verbatim(out, n) == IF n.tag = "#text" THEN Append(out, n.word) ELSE out

RECURSIVE render_flow(_, _)
render_flow(out, n) ==
    CASE n.tag \in Skipped -> out
      [] n.tag = "#text" -> push_text(out, n.word)
      [] n.tag = "h1" -> blank(render_inline(blank(out) \o <<"mark", "sp">>, n))
      [] n.tag = "ul" -> blank(FoldLeft(Item, blank(out), n.kids))
      [] n.tag = "li" -> nl(render_inline(blank(out) \o <<"mark", "sp">>, n))
      [] n.tag = "tr" -> nl(Cells(nl(out), n.kids))
      [] n.tag = "pre" -> blank(FoldLeft(Verbatim, blank(out), n.kids))
      [] n.tag = "hr" -> blank(Append(blank(out), "mark"))
      [] n.tag = "img" -> Append(out, "mark")
      [] n.tag \in Containers -> blank(FoldLeft(render_flow, blank(out), n.kids))
      [] OTHER -> render_inline(out, n)

\* A line without a word or a mark counts as empty; one empty line is kept of several.
FlushLine(s) ==
    IF \A i \in DOMAIN s.line : s.line[i] = "sp"
    THEN [done |-> IF s.empty = 0 THEN Append(s.done, "nl") ELSE s.done,
          line |-> <<>>, empty |-> s.empty + 1]
    ELSE [done |-> Append(s.done \o Chomp(s.line, {"sp"}), "nl"), line |-> <<>>, empty |-> 0]

finalize(out) ==
    LET Step(s, x) == IF x = "nl" THEN FlushLine(s) ELSE [s EXCEPT !.line = Append(@, x)]
    IN FlushLine(FoldLeft(Step, [done |-> <<>>, line |-> <<>>, empty |-> 0], out)).done

Trim(s) == Reverse(Chomp(Reverse(Chomp(s, Space)), Space))

extract_text(root) == Trim(finalize(render_flow(<<>>, root)))

Parse(d) == doc = None /\ doc' = d /\ text' = extract_text(d)

TextInit == doc = None /\ text = <<>>
TextNext == \E d \in Docs : Parse(d)

-----------------------------------------------------------------------------

Init == PageInit /\ SessionInit /\ WindowInit /\ TextInit

Next ==
    \/ PageNext /\ UNCHANGED <<sessionVars, windowVars, textVars>>
    \/ SessionNext /\ UNCHANGED <<pageVars, windowVars, textVars>>
    \/ WindowNext /\ UNCHANGED <<pageVars, sessionVars, textVars>>
    \/ TextNext /\ UNCHANGED <<pageVars, sessionVars, windowVars>>

Spec == Init /\ [][Next]_vars

-----------------------------------------------------------------------------

TypeOK ==
    /\ page.pc \in {"idle", "failed", "scripts", "nav", "render", "done"}
    /\ active \in DOMAIN tabs /\ Len(tabs) <= MaxTabs
    /\ \A i \in DOMAIN tabs : tabs[i].current \in Urls \cup {None}
    /\ slot \in 0..MaxThreads /\ window \subseteq 1..MaxThreads

(* engine.rs, settle and resolve_fetches: when a page's scripts are over, every     *)
(* request the engine took was answered, a request still queued is behind the      *)
(* reported round limit, and a created script that never ran is behind a cap.       *)
ServedOrCapped ==
    page.pc = "nav" =>
        /\ js.pending = js.requests
        /\ js.requests > 0 => "requests" \in page.limit
        /\ js.scripts > 0 => \/ page.rounds = MaxDynRounds \/ page.dynamic = MaxDynScripts
                             \/ page.fetched = MaxFetches \/ "turns" \in page.limit

(* engine.rs, build_page: whatever the scripts, the refresh elements and failing     *)
(* loads do, the page returned is the document of the address it reports, and at     *)
(* most MaxHops loads followed the first.                                            *)
PageOfItsUrl ==
    page.pc \in {"render", "done"} => page.html = page.url /\ page.loads <= 1 + MaxHops

(* engine.rs, resolve_fetches: "requests over the caps are rejected so no promise    *)
(* is left pending forever".                                                         *)
\* Refuted: section 5 of the README.
NoPromiseLeft == page.pc = "nav" => js.pending = 0

Trail(t) == t.history \o (IF t.current = None THEN <<>> ELSE <<t.current>>) \o Reverse(t.forward)

(* session.rs: going back and forth, also over loads that fail, closing other tabs   *)
(* and a hot swap keep what every tab can return to; only a new visit drops the      *)
(* forward part.  Closing another tab leaves the active one active.                  *)
SessionKept ==
    [][/\ \A i \in DOMAIN tabs, k \in DOMAIN tabs' :
            tabs[i].id = tabs'[k].id =>
               \/ Trail(tabs'[k]) = Trail(tabs[i])
               \/ tabs'[k].forward = <<>> /\ IsPrefix(tabs[i].history, tabs'[k].history)
       /\ (/\ Len(tabs') < Len(tabs)
           /\ \E k \in DOMAIN tabs' : tabs'[k].id = tabs[active].id)
             => tabs'[active'].id = tabs[active].id]_<<tabs, active>>

(* lib.rs of aios-webview: once every handle is dropped and the event loop has taken  *)
(* its commands, the window is hidden, in whatever order handles were opened and      *)
(* dropped.                                                                           *)
ClosedIsHidden ==
    (Running /\ queue = <<>> /\ ~Locked /\ \A o \in Openers : opener[o].pc # "held")
       => slot \notin window

(* lib.rs of aios-webview: "GTK allows initialization from exactly one thread for the *)
(* whole process lifetime".                                                           *)
\* Refuted: section 5 of the README.
GtkOneThread == \A t \in DOMAIN threads : threads[t] # "refused"

\* The words of a document with the tags above each, in document order.
RECURSIVE Words(_, _)
Words(n, above) ==
    IF n.tag = "#text" THEN << <<n.word, above>> >>
    ELSE FlattenSeq([i \in DOMAIN n.kids |-> Words(n.kids[i], Append(above, n.tag))])

\* Below its containers a word is shown unless a tag above it is skipped, or the first
\* tag that is no container takes only children of one kind and it is not in one.
Shown(w) ==
    LET inner == SelectSeq(w[2], LAMBDA t : t \notin Containers)
    IN /\ \A i \in DOMAIN inner : inner[i] \notin Skipped
       /\ inner # <<>> =>
            CASE inner[1] = "pre" -> Len(inner) = 1
              [] inner[1] = "ul" -> Len(inner) > 1 /\ inner[2] = "li"
              [] inner[1] = "tr" -> Len(inner) > 1 /\ inner[2] \in {"td", "th"}
              [] OTHER -> TRUE

(* html_parser.rs, extract_text: the text holds the visible words of the document,   *)
(* each once and in document order, no two run together, and never two empty lines   *)
(* in a row.                                                                          *)
TextSound ==
    doc # None =>
       LET Word(x) == x \notin {"sp", "nl", "mark"}
           shown == SelectSeq(Words(doc, <<>>), Shown)
       IN /\ SelectSeq(text, Word) = [i \in DOMAIN shown |-> shown[i][1]]
          /\ \A i \in 1..(Len(text) - 1) : ~(Word(text[i]) /\ Word(text[i + 1]))
          /\ \A i \in 1..(Len(text) - 2) : ~(\A k \in 0..2 : text[i + k] = "nl")
=============================================================================
