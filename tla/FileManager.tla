---------------------------- MODULE FileManager ----------------------------
(***************************************************************************)
(* The two-panel file manager: the command loop and the background jobs of     *)
(* aios-fm (engine.rs, state.rs), the sandboxed tree and the recursive copy,    *)
(* move and delete of aios-vfs (vfs.rs, operations.rs, security.rs), and the    *)
(* Files tab of the GUI that drives them (app.rs, tabs/files.rs).               *)
(*                                                                            *)
(* The loop takes one command at a time; every job is a task of its own.  One   *)
(* call of the file system is one step, so that the user, the loop and the      *)
(* jobs meet between any two of them.  Names are positive numbers in the order  *)
(* of the listing; a path is the sequence of its names.                         *)
(***************************************************************************)
EXTENDS Integers, Sequences, FiniteSets, SequencesExt, TLC

CONSTANTS
    Names,     \* file and directory names, without 0
    Tree,      \* the tree at start: path -> node
    Kinds,     \* name -> what its extension says: "wasm", "jsonl", "log", "json", "text"
    Starts,    \* the two directories the panels start in
    Faults,    \* whether a call of the file system may fail
    Uses,      \* what the user does: a subset of the keys below
    PathMax,   \* names in the longest path that the host accepts
    MaxCmds, MaxJobs, MaxUses, \* bounds: commands queued, jobs and inputs of a run
    None

VARIABLES
    disk,     \* path -> [dir, c, w]: a directory, or a content and the jobs writing it
    panels,   \* side -> [path, entries, cursor, desc, of, by]
    active,   \* the active side
    prompt,   \* fm_input: "no", "mkdir" or "rename"
    queue,    \* commands on their way to the loop
    loop,     \* what the loop is doing
    jobs,     \* background jobs, in the order of their ids
    acl,      \* tokens granted
    preview,  \* fm_preview
    error,    \* an Ack::Error was shown
    used,     \* inputs so far
    excused,  \* contents that a Delete or an overwrite took
    writer    \* the caller of atomic_write

vars == <<disk, panels, active, prompt, queue, loop, jobs, acl, preview, error, used, excused, writer>>

Up == 0
Sides == {1, 2}
DirNode == [dir |-> TRUE, c |-> None, w |-> {}]
Contents == {Tree[p].c : p \in DOMAIN Tree} \ {None}

FileManagerAssumption ==
    /\ Names \subseteq Nat \ {0} /\ IsFiniteSet(Names)
    /\ <<>> \in DOMAIN Tree /\ \A p \in DOMAIN Tree : p \in Seq(Names) /\ Len(p) <= PathMax
    /\ Len(Starts) = 2 /\ \A s \in Sides : Starts[s] \in DOMAIN Tree
    /\ Faults \in BOOLEAN /\ PathMax \in Nat /\ MaxCmds \in Nat /\ MaxJobs \in Nat /\ MaxUses \in Nat

-----------------------------------------------------------------------------
(* Paths and the tree.                                                         *)
\* normalize_virtual_path: ".." at the root stays there.
normalize_virtual_path(segs) ==
    FoldLeft(LAMBDA out, s : IF s = Up THEN (IF out = <<>> THEN out ELSE Front(out)) ELSE Append(out, s), <<>>, segs)
join(p, n) == normalize_virtual_path(Append(p, n))
parent(p) == IF p = <<>> THEN p ELSE Front(p)

Below(t, p) == {q \in DOMAIN t : Len(q) > Len(p) /\ SubSeq(q, 1, Len(p)) = p}
Children(t, p) == {q \in DOMAIN t : q # <<>> /\ Front(q) = p}
Without(t, S) == [q \in DOMAIN t \ S |-> t[q]]
IsDir(t, p) == p \in DOMAIN t /\ t[p].dir
IsFile(t, p) == p \in DOMAIN t /\ ~t[p].dir

\* list_dir: the entries of a directory; Failed when it is none.
Failed == [failed |-> TRUE]
list_dir(t, p) == IF IsDir(t, p) THEN {[n |-> Last(q), dir |-> t[q].dir] : q \in Children(t, p)} ELSE {Failed}

MayCreate(t, p) == Len(p) <= PathMax /\ \A q \in Prefixes(p) : ~IsFile(t, q)
create_dir(t, p) == [q \in Prefixes(p) |-> DirNode] @@ t

\* open_write: missing directories are made, the file is emptied.
MayWrite(t, p) == p # <<>> /\ MayCreate(t, parent(p)) /\ Len(p) <= PathMax /\ ~IsDir(t, p)
open_write(t, p, j) ==
    (p :> [dir |-> FALSE, c |-> None, w |-> {j} \cup (IF IsFile(t, p) THEN t[p].w ELSE {})]) @@ create_dir(t, parent(p))

\* delete_item of the file system: one file, or a directory that is empty.
MayDelete(t, p) == p \in DOMAIN t /\ Children(t, p) = {}

\* rename of the host: the target is missing, or of the same kind and empty.
MayRename(t, a, b) ==
    /\ a \in DOMAIN t /\ b # <<>> /\ IsDir(t, parent(b)) /\ Len(b) <= PathMax
    /\ \A q \in Below(t, a) : Len(q) - Len(a) + Len(b) <= PathMax
    /\ ~(Len(b) > Len(a) /\ SubSeq(b, 1, Len(a)) = a)
    /\ (a # b /\ b \in DOMAIN t) => (t[b].dir = t[a].dir /\ Children(t, b) = {})
rename(t, a, b) ==
    LET moved == Below(t, a) \cup {a}
        There(q) == b \o SubSeq(q, Len(a) + 1, Len(q))
        rest == Without(t, moved \cup {b})
    IN [q \in {There(m) : m \in moved} |-> t[CHOOSE m \in moved : There(m) = q]] @@ rest

ContentAt(t, p) == IF IsFile(t, p) THEN {t[p].c} \ {None} ELSE {}

-----------------------------------------------------------------------------
(* Panels.                                                                     *)
Before(d, x, y) == IF x.dir # y.dir THEN x.dir ELSE IF d THEN x.n > y.n ELSE x.n < y.n
\* sort_entries: directories first, then by name in the panel's direction.
Row(p, e) == Cardinality({x \in p.entries : Before(p.desc, x, e)})
selected(p) == {e \in p.entries : Row(p, e) = p.cursor}
selected_path(p) == {join(p.path, e.n) : e \in selected(p)}

Clamp(i, n) == IF n = 0 THEN 0 ELSE IF i > n - 1 THEN n - 1 ELSE i
\* set_entries: a new listing, the cursor kept inside it.
set_entries(p, es, of, by) ==
    [p EXCEPT !.entries = es, !.cursor = Clamp(@, Cardinality(es)), !.of = of, !.by = by]

move_cursor(p, delta) ==
    [p EXCEPT !.cursor = IF p.entries = {} THEN 0
                         ELSE Clamp(IF @ + delta < 0 THEN 0 ELSE @ + delta, Cardinality(p.entries))]
set_cursor(p, i) == [p EXCEPT !.cursor = Clamp(i, Cardinality(p.entries))]
toggle_sort(p) == [p EXCEPT !.desc = ~@]

\* default_target: the name of the selection in the other panel's directory.
default_target(s) == {join(panels[3 - s].path, Last(src)) : src \in selected_path(panels[s])}

-----------------------------------------------------------------------------
(* The Files tab.  A key or a button becomes an action, an action a command.    *)
Cmd(op, s, a, b) == [op |-> op, side |-> s, a |-> a, b |-> b]
send(c) == Len(queue) < MaxCmds /\ queue' = Append(queue, c)
Use(u) == u \in Uses /\ used < MaxUses /\ used' = used + 1

\* The part of fm_act that only moves in the panels.
Moves(u) ==
    /\ u \in {"up", "down", "switch", "sort"} /\ prompt = "no" /\ Use(u)
    /\ active' = IF u = "switch" THEN 3 - active ELSE active
    /\ panels' = CASE u = "up" -> [panels EXCEPT ![active] = move_cursor(@, -1)]
                   [] u = "down" -> [panels EXCEPT ![active] = move_cursor(@, 1)]
                   [] u = "sort" -> [panels EXCEPT ![active] = toggle_sort(@)]
                   [] OTHER -> panels
    /\ UNCHANGED <<disk, prompt, queue, loop, jobs, acl, preview, error, excused, writer>>

\* fm_act: what a key or button on the active panel sends.
Sent(u) ==
    LET s == active
        p == panels[s]
    IN CASE u = "enter" -> {Cmd(IF e.dir THEN "navigate" ELSE "view", s, join(p.path, e.n), <<>>) : e \in selected(p)}
         [] u = "goup" -> {Cmd("navigate", s, parent(p.path), <<>>)}
         [] u \in {"copy", "move"} -> {Cmd(u, s, a, b) : a \in selected_path(p), b \in default_target(s)}
         [] u \in {"delete", "view"} -> {Cmd(u, s, a, <<>>) : a \in selected_path(p)}
         [] u \in {"refresh", "grant read", "grant write"} -> {Cmd(u, s, <<>>, <<>>)}
         [] OTHER -> {}

fm_act(u) ==
    /\ prompt = "no" /\ Use(u)
    /\ \E c \in Sent(u) : send(c)
    /\ UNCHANGED <<disk, panels, active, prompt, loop, jobs, acl, preview, error, excused, writer>>

\* Mkdir and Rename open a prompt; Close hides the preview.
OpenPrompt(u) ==
    /\ u \in {"mkdir", "rename"} /\ prompt = "no" /\ Use(u)
    /\ u = "rename" => selected(panels[active]) # {}
    /\ prompt' = u
    /\ UNCHANGED <<disk, panels, active, queue, loop, jobs, acl, preview, error, excused, writer>>

Close ==
    /\ preview # None /\ Use("close")
    /\ preview' = None
    /\ UNCHANGED <<disk, panels, active, prompt, queue, loop, jobs, acl, error, excused, writer>>

\* fm_confirm_input: the directory and the selection are those of this moment.
fm_confirm_input(n) ==
    /\ prompt # "no"
    /\ LET s == active
           p == panels[s]
           cs == IF prompt = "mkdir" THEN {Cmd("mkdir", s, join(p.path, n), <<>>)}
                 ELSE {Cmd("rename", s, a, join(parent(a), n)) : a \in selected_path(p)}
       IN IF cs = {} THEN UNCHANGED queue ELSE \E c \in cs : send(c)
    /\ prompt' = "no"
    /\ UNCHANGED <<disk, panels, active, loop, jobs, acl, preview, error, used, excused, writer>>

\* show_input_modal: Cancel, or a name of blanks.
CancelPrompt ==
    /\ prompt # "no" /\ prompt' = "no"
    /\ UNCHANGED <<disk, panels, active, queue, loop, jobs, acl, preview, error, used, excused, writer>>

\* show: the rows of both panels take clicks.
show == {[panel |-> s, entry |-> e, double |-> d] : s \in Sides, e \in UNION {panels[i].entries : i \in Sides}, d \in BOOLEAN}

handle_click(k) ==
    /\ k.entry \in panels[k.panel].entries /\ Use("click")
    /\ IF k.double
       THEN /\ send(Cmd(IF k.entry.dir THEN "navigate" ELSE "view", k.panel, join(panels[k.panel].path, k.entry.n), <<>>))
            /\ UNCHANGED <<panels, active>>
       ELSE /\ active' = k.panel
            /\ panels' = [panels EXCEPT ![k.panel] = set_cursor(@, Row(@, k.entry))]
            /\ UNCHANGED queue
    /\ UNCHANGED <<disk, prompt, loop, jobs, acl, preview, error, excused, writer>>

-----------------------------------------------------------------------------
(* The command loop.                                                           *)
Idle == [st |-> "idle"]
Fails == Faults /\ error' = TRUE /\ loop' = Idle

\* Navigate: the directory is listed before the panel goes there.
Navigate(c) ==
    /\ UNCHANGED <<disk, panels, jobs, acl, preview, excused>>
    /\ IF IsDir(disk, c.a)
       THEN loop' = [st |-> "set", side |-> c.side, path |-> c.a, es |-> list_dir(disk, c.a)] /\ UNCHANGED error
       ELSE loop' = Idle /\ error' = TRUE

Refresh(c) ==
    /\ loop' = [st |-> "refresh", side |-> c.side]
    /\ UNCHANGED <<disk, panels, jobs, acl, preview, error, excused>>

Mkdir(c) ==
    /\ UNCHANGED <<panels, jobs, acl, preview, excused>>
    /\ \/ /\ MayCreate(disk, c.a)
          /\ disk' = create_dir(disk, c.a)
          /\ loop' = [st |-> "refresh", side |-> c.side] /\ UNCHANGED error
       \/ ~MayCreate(disk, c.a) /\ UNCHANGED disk /\ error' = TRUE /\ loop' = Idle
       \/ Fails /\ UNCHANGED disk

Rename(c) ==
    /\ UNCHANGED <<panels, jobs, acl, preview>>
    /\ \/ /\ MayRename(disk, c.a, c.b)
          /\ disk' = rename(disk, c.a, c.b)
          /\ excused' = excused \cup (IF c.a = c.b THEN {} ELSE ContentAt(disk, c.b))
          /\ loop' = [st |-> "refresh", side |-> c.side] /\ UNCHANGED error
       \/ ~MayRename(disk, c.a, c.b) /\ UNCHANGED <<disk, excused>> /\ error' = TRUE /\ loop' = Idle
       \/ Fails /\ UNCHANGED <<disk, excused>>

\* spawn_job: sized, listed as running, and started as a task.
Task(op, s, d) == [op |-> op, s |-> s, d |-> d, c |-> None]
spawn_job(c) ==
    /\ Len(jobs) < MaxJobs
    /\ jobs' = Append(jobs, [kind |-> c.op, status |-> "running", todo |-> <<Task(c.op, c.a, c.b)>>,
                             paths |-> <<>>, i |-> 0, es |-> None])
    /\ loop' = Idle
    /\ UNCHANGED <<disk, panels, acl, preview, error, excused>>

\* View: the head of the file, classified by its name and bytes.
analyze_file(p) == Kinds[Last(p)]
View(c) ==
    /\ loop' = Idle
    /\ IF IsFile(disk, c.a) THEN preview' = [path |-> c.a, kind |-> analyze_file(c.a)] /\ UNCHANGED error
       ELSE error' = TRUE /\ UNCHANGED preview
    /\ UNCHANGED <<disk, panels, jobs, acl, excused>>

Grant(token) ==
    /\ acl' = acl \cup {token} /\ loop' = Idle
    /\ UNCHANGED <<disk, panels, jobs, preview, error, excused>>

\* dispatch, up to the first listing it waits for.
dispatch ==
    /\ loop = Idle /\ queue # <<>> /\ queue' = Tail(queue)
    /\ LET c == Head(queue)
       IN \/ c.op = "navigate" /\ Navigate(c)
          \/ c.op = "refresh" /\ Refresh(c)
          \/ c.op = "mkdir" /\ Mkdir(c)
          \/ c.op = "rename" /\ Rename(c)
          \/ c.op \in {"copy", "move", "delete"} /\ spawn_job(c)
          \/ c.op = "view" /\ View(c)
          \/ c.op = "grant read" /\ Grant("vfs:host:read")
          \/ c.op = "grant write" /\ Grant("vfs:host:write")
    /\ UNCHANGED <<active, prompt, used, writer>>

\* refresh_panel: the panel's directory is listed; a failure is ignored.
refresh_panel ==
    /\ loop.st = "refresh"
    /\ LET p == panels[loop.side].path
       IN loop' = IF IsDir(disk, p) THEN [st |-> "set", side |-> loop.side, path |-> p, es |-> list_dir(disk, p)] ELSE Idle
    /\ UNCHANGED <<disk, panels, active, prompt, queue, jobs, acl, preview, error, used, excused, writer>>

\* The listing is put into the panel under the lock.
SetPanel ==
    /\ loop.st = "set"
    /\ panels' = [panels EXCEPT ![loop.side] = set_entries([@ EXCEPT !.path = loop.path], loop.es, loop.path, "loop")]
    /\ loop' = Idle
    /\ UNCHANGED <<disk, active, prompt, queue, jobs, acl, preview, error, used, excused, writer>>

-----------------------------------------------------------------------------
(* Jobs.  A step of job j runs the first of the calls it still has to make.     *)
Closed(t, j) == [p \in DOMAIN t |-> [t[p] EXCEPT !.w = @ \ {j}]]
Go(j, todo) == jobs' = [jobs EXCEPT ![j].todo = todo]
Sorted(es) == SetToSortSeq(es, LAMBDA x, y : Before(FALSE, x, y))

\* The job ends: its status is set and the directories of both panels are read.
Ends(j, status) ==
    jobs' = [jobs EXCEPT ![j].status = status, ![j].todo = <<>>, ![j].i = 1,
                         ![j].paths = <<panels[1].path, panels[2].path>>]

JobFails(j) == Ends(j, "failed") /\ disk' = Closed(disk, j) /\ UNCHANGED excused

\* copy_recursive of one path: a directory is made, a file is opened at both ends.
CopyVisit(j, k, rest) ==
    \/ /\ IsDir(disk, k.s) /\ MayCreate(disk, k.d)
       /\ disk' = create_dir(disk, k.d) /\ UNCHANGED excused
       /\ Go(j, <<Task("copy all", k.s, k.d)>> \o rest)
    \/ /\ IsFile(disk, k.s) /\ MayWrite(disk, k.d)
       /\ disk' = open_write(disk, k.d, j)
       /\ excused' = excused \cup ContentAt(disk, k.d)
       /\ Go(j, <<[Task("write", k.s, k.d) EXCEPT !.c = IF k.s = k.d THEN None ELSE disk[k.s].c]>> \o rest)
    \/ /\ ~(IsDir(disk, k.s) /\ MayCreate(disk, k.d)) /\ ~(IsFile(disk, k.s) /\ MayWrite(disk, k.d))
       /\ JobFails(j)

\* Its entries are listed after the directory was made.
CopyEntries(j, k, rest) ==
    IF ~IsDir(disk, k.s) THEN JobFails(j)
    ELSE /\ LET es == Sorted(list_dir(disk, k.s))
            IN Go(j, [i \in DOMAIN es |-> Task("copy", join(k.s, es[i].n), join(k.d, es[i].n))] \o rest)
         /\ UNCHANGED <<disk, excused>>

\* The bytes reach the file that was opened, wherever it is now; with another
\* writer in it the outcome is either one's bytes or a mixture.
CopyBytes(j, k, rest) ==
    /\ \E c \in {k.c} \cup (IF \E p \in DOMAIN disk : j \in disk[p].w /\ disk[p].c # None THEN {"mixed"} ELSE {}) :
           disk' = [p \in DOMAIN disk |-> IF j \in disk[p].w THEN [disk[p] EXCEPT !.c = c, !.w = @ \ {j}] ELSE disk[p]]
    /\ Go(j, rest) /\ UNCHANGED excused

MoveDeletesAnyway(j, k) ==
    \/ /\ MayRename(disk, k.s, k.d)
       /\ disk' = rename(disk, k.s, k.d)
       /\ excused' = excused \cup (IF k.s = k.d THEN {} ELSE ContentAt(disk, k.d))
       /\ Go(j, <<>>)
    \/ /\ ~MayRename(disk, k.s, k.d) \/ Faults
       /\ Go(j, <<Task("delete", k.s, k.s), Task("copy", k.s, k.d)>>) /\ UNCHANGED <<disk, excused>>
\* move_item: a rename, else a copy and then a delete.
move_item(j, k) ==
    \/ /\ MayRename(disk, k.s, k.d)
       /\ disk' = rename(disk, k.s, k.d)
       /\ excused' = excused \cup (IF k.s = k.d THEN {} ELSE ContentAt(disk, k.d))
       /\ Go(j, <<>>)
    \/ /\ ~MayRename(disk, k.s, k.d) \/ Faults
       /\ Go(j, <<Task("copy", k.s, k.d), Task("delete", k.s, k.s)>>) /\ UNCHANGED <<disk, excused>>

\* delete_item of the job: the entries of a directory first.
delete_item(j, k, rest) ==
    CASE IsDir(disk, k.s) ->
             /\ LET es == Sorted(list_dir(disk, k.s))
                IN Go(j, [i \in DOMAIN es |-> Task("delete", join(k.s, es[i].n), k.s)]
                         \o <<Task("remove dir", k.s, k.s)>> \o rest)
             /\ UNCHANGED <<disk, excused>>
      [] IsFile(disk, k.s) ->
             /\ disk' = Without(disk, {k.s}) /\ Go(j, rest)
             /\ excused' = IF jobs[j].kind = "delete" THEN excused \cup ContentAt(disk, k.s) ELSE excused
      [] OTHER -> JobFails(j)

RemoveDir(j, k, rest) ==
    IF IsDir(disk, k.s) /\ MayDelete(disk, k.s)
    THEN disk' = Without(disk, {k.s}) /\ Go(j, rest) /\ UNCHANGED excused
    ELSE JobFails(j)

JobStep(j) ==
    /\ jobs[j].status = "running" /\ jobs[j].todo # <<>>
    /\ LET k == Head(jobs[j].todo)
           rest == Tail(jobs[j].todo)
       IN \/ k.op = "copy" /\ CopyVisit(j, k, rest)
          \/ k.op = "copy all" /\ CopyEntries(j, k, rest)
          \/ k.op = "write" /\ CopyBytes(j, k, rest)
          \/ k.op = "move" /\ move_item(j, k)
          \/ k.op = "delete" /\ delete_item(j, k, rest)
          \/ k.op = "remove dir" /\ RemoveDir(j, k, rest)
          \/ Faults /\ JobFails(j)
    /\ UNCHANGED <<panels, active, prompt, queue, loop, acl, preview, error, used, writer>>

JobDone(j) ==
    /\ jobs[j].status = "running" /\ jobs[j].todo = <<>> /\ Ends(j, "done")
    /\ UNCHANGED <<disk, panels, active, prompt, queue, loop, acl, preview, error, used, excused, writer>>

\* refresh_all: each directory is listed, then put into the panel of its index.
JobLists(j) ==
    /\ jobs[j].i \in Sides /\ jobs[j].es = None
    /\ jobs' = IF IsDir(disk, jobs[j].paths[jobs[j].i])
               THEN [jobs EXCEPT ![j].es = list_dir(disk, jobs[j].paths[jobs[j].i])]
               ELSE [jobs EXCEPT ![j].i = @ + 1]
    /\ UNCHANGED <<disk, panels, active, prompt, queue, loop, acl, preview, error, used, excused, writer>>

refresh_all(j) ==
    /\ jobs[j].i \in Sides /\ jobs[j].es # None
    /\ panels' = [panels EXCEPT ![jobs[j].i] = set_entries(@, jobs[j].es, jobs[j].paths[jobs[j].i], "job")]
    /\ jobs' = [jobs EXCEPT ![j].i = @ + 1, ![j].es = None]
    /\ UNCHANGED <<disk, active, prompt, queue, loop, acl, preview, error, used, excused, writer>>

-----------------------------------------------------------------------------
(* atomic_write: a sibling is written, the destination removed, the sibling     *)
(* renamed; the process may die in between.                                     *)
Quiet == UNCHANGED <<disk, panels, active, prompt, queue, loop, jobs, acl, preview, error, used, excused>>
WriteTemp ==
    /\ writer.st = "idle" /\ writer.n < MaxUses
    /\ writer' = [writer EXCEPT !.st = "written", !.tmp = writer.n + 1, !.n = @ + 1] /\ Quiet
RemoveOld == writer.st = "written" /\ writer' = [writer EXCEPT !.st = "removed", !.file = None] /\ Quiet
RenameTemp == writer.st = "removed" /\ writer' = [writer EXCEPT !.st = "idle", !.file = writer.tmp, !.tmp = None] /\ Quiet
Dies == writer.st # "idle" /\ writer' = [writer EXCEPT !.st = "idle"] /\ Quiet

-----------------------------------------------------------------------------
Init ==
    /\ disk = Tree
    /\ panels = [s \in Sides |-> [path |-> Starts[s], entries |-> {}, cursor |-> 0, desc |-> FALSE,
                                  of |-> Starts[s], by |-> "loop"]]
    /\ active = 1 /\ prompt = "no" /\ loop = Idle /\ jobs = <<>> /\ acl = {} /\ preview = None
    /\ queue = [s \in Sides |-> Cmd("refresh", s, <<>>, <<>>)]
    /\ error = FALSE /\ used = 0 /\ excused = {}
    /\ writer = [st |-> "idle", file |-> 0, tmp |-> None, n |-> 0]

PanelNext ==
    \/ \E u \in Uses : Moves(u) \/ fm_act(u) \/ OpenPrompt(u)
    \/ Close \/ CancelPrompt \/ dispatch \/ refresh_panel \/ SetPanel
    \/ \E n \in Names : fm_confirm_input(n)
    \/ \E k \in show : handle_click(k)
    \/ \E j \in DOMAIN jobs : JobStep(j) \/ JobDone(j) \/ JobLists(j) \/ refresh_all(j)

WriteNext == WriteTemp \/ RemoveOld \/ RenameTemp \/ Dies

Next == PanelNext \/ WriteNext

Spec == Init /\ [][Next]_vars

-----------------------------------------------------------------------------
TypeOK ==
    /\ <<>> \in DOMAIN disk /\ \A p \in DOMAIN disk : p = <<>> \/ IsDir(disk, Front(p))
    /\ active \in Sides /\ prompt \in {"no", "mkdir", "rename"} /\ acl \subseteq {"vfs:host:read", "vfs:host:write"}
    /\ \A s \in Sides : panels[s].entries = {} \/ panels[s].cursor < Cardinality(panels[s].entries)

(* operations.rs: with one job at a time, no sequence of moves, copies, renames    *)
(* and failures loses the content of a file, unless a delete or an overwrite was    *)
(* asked for.  With two jobs crossing it does not hold.                             *)
NothingLost == \A c \in Contents : c \in excused \/ \E p \in DOMAIN disk : disk[p].c = c

(* engine.rs: a panel shows the listing of the directory in its title, also after *)
(* a navigation that failed, unless the refresh at the end of a job came between.  *)
ListingOfDirectory == \A s \in Sides : panels[s].by = "loop" => panels[s].of = panels[s].path

(* state.rs: a panel is one view of one directory, its path and its listing.      *)
\* Refuted: section 5 of the README.
PanelShowsItsDirectory == \A s \in Sides : panels[s].of = panels[s].path

(* vfs.rs on atomic_write: the file is replaced atomically, so that it always has *)
(* the old or the new content.                                                     *)
\* Refuted: section 5 of the README.
AtomicWriteVisible == writer.file # None
=============================================================================
