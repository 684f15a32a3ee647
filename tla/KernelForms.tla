---------------------------- MODULE KernelForms -----------------------------
(***************************************************************************)
(* What is typed into the kernel's windows (aios-kernel/src/gui.rs and     *)
(* net.rs): the widget form of a window with its text fields, list, menu,  *)
(* check boxes, radio buttons, slider and the shared clipboard, and the    *)
(* draft of the Network window, from the keys through parse_quad and       *)
(* net::apply to the byte-by-byte copy of the settings in CMOS, which a    *)
(* power loss may cut short.                                               *)
(*                                                                         *)
(* A text field is its bytes.  "a" is a scalar of one byte, "l" leads one  *)
(* of two and "c" continues it.  One host is open at a time: form_slot     *)
(* gives each its own form.                                                *)
(***************************************************************************)
EXTENDS Integers, SequencesExt, FiniteSetsExt

CONSTANTS
    Host,        \* the window under the keyboard: "Widgets" or "Network"
    FieldCap,    \* LAB_FIELD_CAP
    Items,       \* LAB_ITEMS, rows of the list
    Rows,        \* LAB_ROWS, rows shown
    Octets,      \* groups of a dotted quad
    OctetMax,    \* largest value of a group
    QuadCap,     \* characters a quad field takes
    Digits,      \* the digits typed
    CredCap,     \* characters of a credential field
    MaxCrash     \* bound on power losses

FormsAssumption ==
    /\ Host \in {"Widgets", "Network"} /\ FieldCap \in Nat /\ Rows \in Nat \ {0}
    /\ Items \in Nat /\ Items > Rows /\ Octets \in Nat \ {0} /\ OctetMax \in Nat
    /\ QuadCap \in Nat /\ Digits \subseteq 0 .. 9 /\ CredCap \in Nat \ {0} /\ MaxCrash \in Nat

VARIABLES
    form,     \* the host's WidgetForm
    clip,     \* CLIP
    draft,    \* NET_DRAFT
    conf,     \* SETTINGS, the CMOS cells and the next cell cmos_save writes
    saved,    \* ghost: the settings last copied with their check word
    losses    \* power losses so far

vars == <<form, clip, draft, conf, saved, losses>>
formVars == <<form, clip>>
netVars == <<draft, conf, saved, losses>>

NoFocus == 255
NoField == 7
Fields == 0 .. 1
ListId == 2

EmptyForm == [text |-> [f \in Fields |-> <<>>], focus |-> 0, menu |-> FALSE, sel |-> 0,
              scroll |-> 0, check |-> FALSE, radio |-> NoFocus, slider |-> 0]

Default == [dhcp |-> TRUE, ip |-> [o \in 1 .. Octets |-> 0]]

-----------------------------------------------------------------------------
(* Editing a text field *)

Scalars == {<<"a">>, <<"l", "c">>}

(* Whole scalars one after the other *)
Whole(text) ==
    \A i \in DOMAIN text : /\ text[i] = "l" => i < Len(text) /\ text[i + 1] = "c"
                           /\ text[i] = "c" => i > 1 /\ text[i - 1] = "l"

(* A scalar goes in only when it fits whole *)
Typed(text, scalar) == IF Len(text) + Len(scalar) <= FieldCap THEN text \o scalar ELSE text

(* The list's keys: n and p move the selection and the view follows *)
Selected(f, sel) ==
    [f EXCEPT !.sel = sel,
              !.scroll = IF sel < @ THEN sel ELSE IF sel >= @ + Rows THEN sel + 1 - Rows ELSE @]

form_type_char(f, scalar) ==
    IF f.focus \in Fields THEN {[f EXCEPT !.text[f.focus] = Typed(@, scalar)]}
    ELSE IF f.focus = ListId
         THEN {Selected(f, Min({f.sel + 1, Items - 1})), Selected(f, Max({f.sel - 1, 0})), f}
    ELSE {f}

LastStart(text) == Max({i \in DOMAIN text : text[i] # "c"} \cup {1})

BackspaceByte(f) ==
    IF f.focus \in Fields /\ f.text[f.focus] # <<>> THEN [f EXCEPT !.text[f.focus] = Front(@)] ELSE f
form_backspace(f) ==
    IF f.focus \in Fields /\ f.text[f.focus] # <<>>
    THEN [f EXCEPT !.text[f.focus] = SubSeq(@, 1, LastStart(@) - 1)] ELSE f

form_focus_cycle(f) == [f EXCEPT !.focus = IF @ < NoFocus THEN (@ + 1) % 2 ELSE 0]

(* form_clip_paste: as much of the clipboard as fits, cut at a scalar *)
PasteLen(room) == Max({n \in 0 .. Min({Len(clip), room}) : n < Len(clip) => clip[n + 1] # "c"} \cup {0})
form_clip_paste(f) ==
    IF f.focus \in Fields
    THEN [f EXCEPT !.text[f.focus] = @ \o SubSeq(clip, 1, PasteLen(FieldCap - Len(@)))] ELSE f

form_clip_copy == IF form.focus \in Fields THEN form.text[form.focus] ELSE clip
form_clip_cut(f) == IF f.focus \in Fields THEN [f EXCEPT !.text[f.focus] = <<>>] ELSE f

(* widget_key: an open menu is dismissed by any key, which is then handled *)
widget_key ==
    LET f == [form EXCEPT !.menu = FALSE]
    IN /\ Host = "Widgets" /\ UNCHANGED netVars
       /\ \/ form.menu /\ form' = f /\ clip' = clip                          \* Esc
          \/ form' = f /\ clip' = form_clip_copy                             \* Ctrl+C
          \/ form' = form_clip_cut(f) /\ clip' = form_clip_copy              \* Ctrl+X
          \/ form' = form_clip_paste(f) /\ clip' = clip                      \* Ctrl+V
          \/ form' = form_focus_cycle(f) /\ clip' = clip                     \* Tab
          \/ form' = form_backspace(f) /\ clip' = clip
          \/ \E s \in Scalars : form' \in form_type_char(f, s) /\ clip' = clip

-----------------------------------------------------------------------------
(* Clicks on the widgets of the Widget Lab *)

(* Rows + 1 rows fit the list's frame in part, so the row after the last   *)
(* one shown can be hit                                                    *)
lab_list_click(row) ==
    [form EXCEPT !.focus = ListId, !.sel = IF form.scroll + row < Items THEN form.scroll + row ELSE @]

(* lab_scroll_click: the view jumps and takes the selection along *)
lab_scroll_click(to) ==
    [form EXCEPT !.scroll = to, !.sel = IF @ < to THEN to ELSE Min({@, to + Rows - 1, Items - 1})]

lab_menu_pick(row) ==
    [CASE row = 0 -> [form EXCEPT !.text[0] = <<>>]
       [] row = 1 -> [form EXCEPT !.text[1] = <<>>]
       [] row = 2 -> [form EXCEPT !.sel = 0, !.scroll = 0]
       [] row = 3 -> form                                    \* Close: the window's part
     EXCEPT !.menu = FALSE]

(* slider_value_at: a point of the track to a value of the slider *)
slider_value_at(at, width, min, max) ==
    LET rel == Min({at, width})
    IN IF width = 0 \/ max <= min THEN min ELSE Min({min + (rel * (max - min)) \div width, max})

(* widget_click on everything but the menu; a click off the menu closes it *)
widget_click ==
    LET shut == [form EXCEPT !.menu = FALSE]
    IN /\ Host = "Widgets" /\ UNCHANGED <<clip, netVars>>
       /\ form' \in {[shut EXCEPT !.focus = f] : f \in Fields}
                \cup {[lab_list_click(row) EXCEPT !.menu = FALSE] : row \in 0 .. Rows}
                \cup {[lab_scroll_click(to) EXCEPT !.menu = FALSE] : to \in 0 .. Items - Rows}
                \cup {[shut EXCEPT !.check = ~@], [form EXCEPT !.menu = ~@]}
                \cup {[shut EXCEPT !.radio = v] : v \in {0, 1}}
                \cup {[shut EXCEPT !.slider = slider_value_at(at, 3, 0, 1)] : at \in 0 .. 4}

lab_dropdown_click ==
    /\ Host = "Widgets" /\ form.menu /\ \E row \in 0 .. 3 : form' = lab_menu_pick(row)
    /\ UNCHANGED <<clip, netVars>>

(* form_load, when the window is opened again: the clipboard stays *)
form_load == Host = "Widgets" /\ form' = EmptyForm /\ UNCHANGED <<clip, netVars>>

-----------------------------------------------------------------------------
(* The Network window's draft: addresses are text until Apply *)

Dot == 10

(* parse_quad, byte by byte, with its early returns *)
QuadStep(s, b) ==
    CASE ~s.ok -> s
      [] s.ok /\ b = Dot -> IF ~s.digits \/ Len(s.out) >= Octets - 1 THEN [s EXCEPT !.ok = FALSE]
                            ELSE [ok |-> TRUE, out |-> Append(s.out, s.val), val |-> 0, digits |-> FALSE]
      [] s.ok /\ b # Dot -> LET val == s.val * 10 + b
                            IN [s EXCEPT !.ok = val <= OctetMax, !.val = val, !.digits = TRUE]
LaxQuad(text) ==
    LET s == FoldLeft(QuadStep, [ok |-> TRUE, out |-> <<>>, val |-> 0, digits |-> FALSE], text)
    IN IF s.ok /\ Len(s.out) = Octets - 1 THEN <<Append(s.out, s.val)>> ELSE <<>>
parse_quad(text) ==
    LET s == FoldLeft(QuadStep, [ok |-> TRUE, out |-> <<>>, val |-> 0, digits |-> FALSE], text)
    IN IF s.ok /\ s.digits /\ Len(s.out) = Octets - 1 THEN <<Append(s.out, s.val)>> ELSE <<>>

fmt_u8(n) ==
    IF n >= 100 THEN <<n \div 100, (n \div 10) % 10, n % 10>>
    ELSE IF n >= 10 THEN <<n \div 10, n % 10>> ELSE <<n>>
fmt_ip(ip) == FoldLeft(LAMBDA text, o : text \o <<Dot>> \o fmt_u8(ip[o]),
                       fmt_u8(ip[1]), [i \in 1 .. Octets - 1 |-> i + 1])

net_draft_load(settings) ==
    [dhcp |-> settings.dhcp, ip |-> fmt_ip(settings.ip), ssid |-> 0, focus |-> NoField]

(* The cells of the CMOS copy in the order cmos_save writes them, and the  *)
(* check word of a payload, taken to tell payloads apart (crc16)           *)
payload_from(s) == <<s.dhcp>> \o s.ip
Cells == Octets + 4
CellOf(s, n) == IF n <= Octets + 1 THEN payload_from(s)[n]
                ELSE IF n <= Octets + 3 THEN payload_from(s) ELSE "magic"
Stored(cells) == SubSeq(cells, 1, Octets + 1)

TornLoad(cells) ==
    IF cells[Cells] = "magic" THEN [dhcp |-> cells[1], ip |-> SubSeq(cells, 2, Octets + 1)] ELSE Default
cmos_load(cells) ==
    IF cells[Cells] = "magic" /\ cells[Octets + 2] = Stored(cells) /\ cells[Octets + 3] = Stored(cells)
    THEN [dhcp |-> cells[1], ip |-> SubSeq(cells, 2, Octets + 1)] ELSE Default

Idle == conf.next = 0

net_apply ==
    LET ip == parse_quad(draft.ip)
        ok == ip # <<>> /\ (draft.dhcp \/ ip[1] # Default.ip)
    IN /\ UNCHANGED <<draft, saved>>
       /\ conf' = IF ok THEN [conf EXCEPT !.settings = [dhcp |-> draft.dhcp, ip |-> ip[1]], !.next = 1]
                  ELSE conf

net_type(b) ==
    draft' = CASE draft.focus = 0 /\ Len(draft.ip) < QuadCap -> [draft EXCEPT !.ip = Append(@, b)]
               [] draft.focus = 5 /\ draft.ssid < CredCap -> [draft EXCEPT !.ssid = @ + 1]
               [] OTHER -> draft
net_backspace ==
    draft' = CASE draft.focus = 0 /\ draft.ip # <<>> -> [draft EXCEPT !.ip = Front(@)]
               [] draft.focus = 5 /\ draft.ssid > 0 -> [draft EXCEPT !.ssid = @ - 1]
               [] OTHER -> draft
(* The fields 1 to 4 and 6 are as 0 and 5 *)
net_focus_next == draft' = [draft EXCEPT !.focus = IF @ = 0 THEN 5 ELSE 0]

net_key ==
    /\ Host = "Network" /\ Idle /\ UNCHANGED <<formVars, losses>>
    /\ \/ net_apply
       \/ /\ net_focus_next \/ net_backspace \/ \E b \in Digits \cup {Dot} : net_type(b)
          /\ UNCHANGED <<conf, saved>>

net_button ==
    /\ Host = "Network" /\ Idle /\ UNCHANGED <<formVars, losses>>
    /\ \/ net_apply
       \/ /\ \/ \E mode \in BOOLEAN : draft' = [draft EXCEPT !.dhcp = mode]
             \/ \E f \in {0, 5} : draft' = [draft EXCEPT !.focus = f]
             \/ draft' = net_draft_load(conf.settings)                        \* the window is reopened
          /\ UNCHANGED <<conf, saved>>

cmos_save ==
    /\ ~Idle
    /\ conf' = [conf EXCEPT !.cells[conf.next] = CellOf(conf.settings, conf.next),
                            !.next = IF @ = Cells THEN 0 ELSE @ + 1]
    /\ saved' = IF conf.next = Octets + 3 THEN conf.settings ELSE saved
    /\ UNCHANGED <<formVars, draft, losses>>

(* Power is lost, at any cell of the copy; net::init loads what is there *)
PowerLoss ==
    /\ Host = "Network" /\ losses < MaxCrash /\ losses' = losses + 1
    /\ conf' = [conf EXCEPT !.settings = cmos_load(conf.cells), !.next = 0]
    /\ draft' = net_draft_load(cmos_load(conf.cells))
    /\ UNCHANGED <<formVars, saved>>

-----------------------------------------------------------------------------
Init ==
    /\ form = EmptyForm /\ clip = <<>> /\ saved = Default /\ losses = 0
    /\ conf = [settings |-> Default, cells |-> [n \in 1 .. Cells |-> "blank"], next |-> 0]
    /\ draft = net_draft_load(Default)

Next ==
    \/ widget_key \/ widget_click \/ lab_dropdown_click \/ form_load
    \/ net_key \/ net_button \/ cmos_save \/ PowerLoss

Spec == Init /\ [][Next]_vars

-----------------------------------------------------------------------------
(* Whatever is typed, deleted, cut and pasted at whatever fill of the      *)
(* buffers, fields and clipboard hold whole characters within their        *)
(* capacity, and the list shows its selection, or the row cut off below    *)
FormSound ==
    /\ \A f \in Fields : Whole(form.text[f]) /\ Len(form.text[f]) <= FieldCap
    /\ Whole(clip)
    /\ form.scroll \in 0 .. Items - Rows /\ form.sel \in form.scroll .. Min({form.scroll + Rows, Items - 1})

(* The quad a text denotes: the digits after g - 1 of the dots are group g *)
(* and read as a decimal number                                            *)
DotsBefore(text, i) == Cardinality({j \in 1 .. i : text[j] = Dot})
Group(text, g) == {i \in DOMAIN text : text[i] # Dot /\ DotsBefore(text, i) = g - 1}
ValueOf(text, g) ==
    MapThenSumSet(LAMBDA i : text[i] * 10 ^ Cardinality({j \in Group(text, g) : j > i}), Group(text, g))
IsQuad(text) ==
    /\ DotsBefore(text, Len(text)) = Octets - 1
    /\ \A g \in 1 .. Octets : Group(text, g) # {} /\ ValueOf(text, g) <= OctetMax

(* Apply reads an address field as what it denotes and refuses every other *)
(* text.  A power loss, also one in the middle of the CMOS copy, leaves    *)
(* the settings in force, the last ones saved or the defaults, never a     *)
(* mixture; once the copy is finished it leaves those in force             *)
SettingsWhole ==
    LET ip == parse_quad(draft.ip)
    IN /\ ip # <<>> <=> IsQuad(draft.ip)
       /\ ip # <<>> => \A g \in 1 .. Octets : ip[1][g] = ValueOf(draft.ip, g)
       /\ cmos_load(conf.cells) \in (IF Idle THEN {conf.settings} ELSE {conf.settings, saved, Default})
=============================================================================
