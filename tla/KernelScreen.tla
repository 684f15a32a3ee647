---------------------------- MODULE KernelScreen ----------------------------
(***************************************************************************)
(* Geometry, dragging and repainting of the kernel's desktop               *)
(* (aios-kernel/src/gui.rs): on_mouse with its move and resize drags,      *)
(* maximise and restore, the damage rectangle DIRTY that every change is   *)
(* united into, and render, which repaints it layer by layer.              *)
(*                                                                         *)
(* One axis, the vertical one, in rows.  What a row shows is the topmost   *)
(* layer there.  Colours, text and shadows are left out.                   *)
(***************************************************************************)
EXTENDS Integers, SequencesExt, FiniteSetsExt

CONSTANTS
    Height,     \* rows of the screen
    Bar,        \* TASKBAR_H
    MinH,       \* RESIZE_MIN_H
    Kinds,      \* the windows of the instance
    Live,       \* those with telemetry: System, Clock, Network
    Heights,    \* heights windows open with
    Back,       \* whether the RAM backbuffer could be allocated
    MaxBurst    \* bound on the events between two renders

Desk == Height - Bar
Rows == 0 .. Height - 1

ScreenAssumption ==
    /\ Height \in Nat /\ Bar \in 1 .. Height - 1 /\ MinH \in 1 .. Desk /\ Live \subseteq Kinds
    /\ Heights \subseteq MinH .. Desk /\ Back \in BOOLEAN /\ MaxBurst \in Nat

VARIABLES
    wins,     \* WINS from the bottom to the top
    cur,      \* the cursor's row, CUR_Y
    drag,     \* DRAG
    modal,    \* the confirm dialog is up
    dirty,    \* DIRTY: rows from lo, below hi
    stale,    \* rows that do not show what they should
    burst     \* events since the last render, and whether one touched more than telemetry

vars == <<wins, cur, drag, modal, dirty, stale, burst>>

NoDrag == [kind |-> "none", mode |-> "none", c0 |-> 0, h0 |-> 0, y0 |-> 0]
Everything == [lo |-> 0, hi |-> Height]

Init ==
    /\ wins = <<>> /\ cur = Height \div 2 /\ drag = NoDrag /\ modal = FALSE
    /\ dirty = Everything /\ stale = Rows /\ burst = [n |-> 0, more |-> TRUE]

-----------------------------------------------------------------------------
(* The layers of a scene, from the bottom up, as render paints them *)

Span(y, h) == y .. y + h - 1

draw_taskbar == [name |-> [kind |-> "taskbar"], rows |-> Span(Desk, Bar)]
draw_window(w) == [name |-> w, rows |-> IF w.min THEN {} ELSE Span(w.y, w.h)]
draw_modal(up) == [name |-> [kind |-> "modal"], rows |-> IF up THEN Span(Desk \div 3, 1) ELSE {}]
paint_cursor(c) == [name |-> [kind |-> "cursor"], rows |-> {c}]

Layers(ws, c, up) ==
    <<draw_taskbar>> \o [i \in DOMAIN ws |-> draw_window(ws[i])] \o <<draw_modal(up), paint_cursor(c)>>

(* The layer on top at a row among those that touch the damage *)
TopAt(layers, row, damage) ==
    LET at == {i \in DOMAIN layers : row \in layers[i].rows /\ layers[i].rows \cap damage # {}}
    IN IF at = {} THEN [kind |-> "desktop"] ELSE layers[Max(at)].name

Changed(ws, c, up) ==
    {r \in Rows : TopAt(Layers(ws, c, up), r, Rows) # TopAt(Layers(wins, cur, modal), r, Rows)}

-----------------------------------------------------------------------------
(* Damage *)

Least(a, b) == IF a < b THEN a ELSE b
Most(a, b) == IF a > b THEN a ELSE b
Clamp(n, lo, hi) == IF n < lo THEN lo ELSE IF n > hi THEN hi ELSE n

dirty_rect(d, y, h) == [lo |-> Least(d.lo, y), hi |-> Most(d.hi, y + h)]
dirty_all == Everything
Damage == {r \in Rows : r >= dirty.lo /\ r < dirty.hi}

(* The live windows and the task bar are dirty again after every render *)
NoLiveDirty(d) == d
mark_live_dirty(d) ==
    LET live(e, w) == IF w.kind \in Live THEN dirty_rect(e, w.y, w.h) ELSE e
    IN dirty_rect(FoldLeft(live, d, wins), Desk, Bar)

(* The task bar's strip and the live windows show something new *)
LiveRows == Span(Desk, Bar) \cup UNION {Span(w.y, w.h) : w \in {v \in Range(wins) : v.kind \in Live /\ ~v.min}}
Telemetry ==
    /\ burst.n < MaxBurst /\ burst' = [burst EXCEPT !.n = @ + 1] /\ stale' = stale \cup LiveRows
    /\ UNCHANGED <<wins, cur, drag, modal, dirty>>

(* render: the damage is cleared and every layer touching it is drawn, in  *)
(* full; with a backbuffer only the damaged rows reach the screen.  DIRTY  *)
(* becomes the empty rectangle at the origin                               *)
render ==
    LET layers == Layers(wins, cur, modal)
        wrong(r) == TopAt(layers, r, Damage) # TopAt(layers, r, Rows)
        spilt == {r \in Rows \ Damage : \E i \in DOMAIN layers :
                     r \in layers[i].rows /\ layers[i].rows \cap Damage # {}}
        fixed == Damage \cup (IF Back THEN {} ELSE {r \in spilt : ~wrong(r)})
        broken == IF Back THEN {} ELSE {r \in spilt : wrong(r)}
    IN /\ IF Damage = {} THEN dirty' = mark_live_dirty(dirty) /\ UNCHANGED stale
          ELSE dirty' = mark_live_dirty([lo |-> 0, hi |-> 0]) /\ stale' = (stale \ fixed) \cup broken
       /\ burst' = [n |-> 0, more |-> FALSE]
       /\ UNCHANGED <<wins, cur, drag, modal>>

(* An event changes the scene and dirties a region *)
Event(ws, c, up, d) ==
    /\ burst.n < MaxBurst /\ burst' = [n |-> burst.n + 1, more |-> TRUE]
    /\ wins' = ws /\ cur' = c /\ modal' = up /\ dirty' = d
    /\ stale' = stale \cup Changed(ws, c, up)

-----------------------------------------------------------------------------
(* The pointer *)

At(k) == CHOOSE i \in DOMAIN wins : wins[i].kind = k
IsOpen(k) == \E i \in DOMAIN wins : wins[i].kind = k

Moved(w, dy) == [w EXCEPT !.y = Clamp(@ + dy, 0, Most(Height - (w.h + Bar), 0))]

ResizedFree(w, c) ==
    LET h == Most(drag.h0 + c - drag.c0, MinH)
    IN [w EXCEPT !.y = drag.y0, !.h = h]
Resized(w, c) ==
    LET dd == c - drag.c0
        h == IF drag.mode = "top"
             THEN Clamp(drag.h0 - dd, MinH, Most(drag.y0 + drag.h0, MinH))
             ELSE Clamp(drag.h0 + dd, MinH, Most(Desk - drag.y0, MinH))
    IN [w EXCEPT !.h = h, !.y = IF drag.mode = "top" THEN drag.y0 + drag.h0 - h ELSE drag.y0]

(* on_mouse with the button as it was; a drag whose window is gone ends *)
on_mouse(dy) ==
    LET c == Clamp(cur + dy, 0, Height - 1)
        i == At(drag.kind)
        new == IF drag.mode = "move" THEN Moved(wins[i], dy) ELSE Resized(wins[i], c)
        moved == dirty_rect(dirty_rect(dirty, cur, 1), c, 1)
    IN /\ c # cur
       /\ IF drag # NoDrag /\ IsOpen(drag.kind)
          THEN /\ Event([wins EXCEPT ![i] = new], c, modal,
                        dirty_rect(dirty_rect(moved, wins[i].y, wins[i].h), new.y, new.h))
               /\ UNCHANGED drag
          ELSE Event(wins, c, modal, moved) /\ drag' = NoDrag

Raised(ws, k) == SelectSeq(ws, LAMBDA w : w.kind # k) \o SelectSeq(ws, LAMBDA w : w.kind = k)
Shown(ws, k) == [i \in DOMAIN ws |-> IF ws[i].kind = k THEN [ws[i] EXCEPT !.min = FALSE] ELSE ws[i]]
focus_window(ws, k) == Raised(Shown(ws, k), k)

(* A press on the title bar or on the upper or lower border of a window    *)
dispatch_click(k, mode) ==
    LET w == wins[At(k)]
    IN /\ IsOpen(k) /\ ~modal /\ ~w.min /\ drag = NoDrag
       /\ TopAt(Layers(wins, cur, modal), cur, Rows \ {cur}) = w \/ (cur \in Span(w.y, w.h) /\ w = Last(wins))
       /\ ~w.max \/ mode = "focus"
       /\ cur = (CASE mode = "top" -> w.y [] mode = "bottom" -> w.y + w.h - 1 [] OTHER -> cur)
       /\ drag' = IF mode = "focus" THEN NoDrag
                  ELSE [kind |-> k, mode |-> mode, c0 |-> cur, h0 |-> w.h, y0 |-> w.y]
       /\ Event(focus_window(wins, k), cur, modal, dirty_all)
release == drag # NoDrag /\ drag' = NoDrag /\ UNCHANGED <<wins, cur, modal, dirty, stale, burst>>

-----------------------------------------------------------------------------
(* Windows.  Keys work while a button is held, so also during a drag *)

spawn(k, y, h) ==
    /\ ~IsOpen(k) /\ ~modal /\ y + h <= Desk /\ UNCHANGED drag
    /\ Event(Append(wins, [kind |-> k, y |-> y, h |-> h, min |-> FALSE, max |-> FALSE, ry |-> 0, rh |-> 0]),
             cur, modal, dirty_all)

(* The geometry saved for the restore is the one of the last maximise *)
toggle_maximize(k) ==
    LET i == At(k)
        w == wins[i]
        new == IF w.max THEN [w EXCEPT !.y = w.ry, !.h = w.rh, !.max = FALSE, !.ry = 0, !.rh = 0]
               ELSE [w EXCEPT !.ry = w.y, !.rh = w.h, !.y = 0, !.h = Desk, !.max = TRUE]
    IN /\ IsOpen(k) /\ ~modal /\ UNCHANGED drag
       /\ Event(focus_window([wins EXCEPT ![i] = new], k), cur, modal, dirty_all)

minimize_window(k) ==
    /\ IsOpen(k) /\ ~modal /\ ~wins[At(k)].min
    /\ drag' = IF drag.kind = k THEN NoDrag ELSE drag
    /\ Event([wins EXCEPT ![At(k)].min = TRUE], cur, modal, dirty_all)

close_window_raw(k) ==
    /\ IsOpen(k) /\ drag' = IF drag.kind = k THEN NoDrag ELSE drag
    /\ Event(SelectSeq(wins, LAMBDA w : w.kind # k), cur, FALSE, dirty_all)

modal_open == ~modal /\ wins # <<>> /\ drag' = NoDrag /\ Event(wins, cur, TRUE, dirty_all)
modal_close == modal /\ UNCHANGED drag /\ Event(wins, cur, FALSE, dirty_all)

Next ==
    \/ render \/ Telemetry \/ release \/ modal_open \/ modal_close
    \/ \E dy \in {-2, -1, 1, 2} : on_mouse(dy)
    \/ \E k \in Kinds :
          \/ \E mode \in {"move", "top", "bottom", "focus"} : dispatch_click(k, mode)
          \/ toggle_maximize(k) \/ minimize_window(k) \/ close_window_raw(k)
          \/ \E y \in Rows, h \in Heights : spawn(k, y, h)

Spec == Init /\ [][Next]_vars

-----------------------------------------------------------------------------
(* What the screen still shows wrongly is marked for repainting, so the    *)
(* next render puts it right                                               *)
DamageCovers == stale \subseteq Damage

(* Whatever is moved, resized, maximised and restored in whatever order,   *)
(* also with keys pressed during a drag, a window stays within the desktop *)
(* above the task bar and no lower than the minimum                        *)
OnScreen ==
    \A i \in DOMAIN wins : /\ wins[i].y >= 0 /\ wins[i].h >= MinH /\ wins[i].y + wins[i].h <= Desk
                           /\ wins[i].max => wins[i].ry >= 0 /\ wins[i].ry + wins[i].rh <= Desk

(* A maximised window is pinned to the desktop *)
\* Refuted: section 5 of the README.
MaximizedPinned == \A i \in DOMAIN wins : wins[i].max => wins[i].y = 0 /\ wins[i].h = Desk

(* A refresh with no event before it repaints the live windows and the     *)
(* task bar without touching the rest of the desktop                       *)
\* Refuted: section 5 of the README.
RefreshIsPartial == ~burst.more => Damage \subseteq LiveRows
=============================================================================
