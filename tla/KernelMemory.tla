---------------------------- MODULE KernelMemory ----------------------------
(***************************************************************************)
(* The kernel's memory, two parts that share no state:                     *)
(*   list    the global allocator (aios-kernel/src/heap.rs) as it is: block*)
(*           headers in memory, linked into a free list by address.  Each  *)
(*           call runs under the spin lock, so it is one step.  `size` has *)
(*           a value where a block starts and `next` where a free one does:*)
(*           what stale headers still hold is undefined, and a step that   *)
(*           read one would be an error.                                   *)
(*   pages   physical frames and page tables (aios-kernel/src/memory.rs).  *)
(*           An address is the path of its four table indices; the byte    *)
(*           within a page is left out.  A table lives in a frame, and a   *)
(*           frame that nobody cleared holds Stale entries: RAM keeps what *)
(*           was there before boot.  The boot loader's tables have a 1 GiB *)
(*           and a 2 MiB page, as a direct map of RAM does.                *)
(***************************************************************************)
EXTENDS Integers, Sequences, FiniteSets, SequencesExt, FiniteSetsExt, Functions, TLC

CONSTANTS
    Units,        \* length of the heap
    Requests,     \* sizes asked for
    Regions,      \* usable regions <<start, end>>, in frames
    Pages,        \* the paths that are mapped and unmapped
    TestPage,     \* SELFTEST_ADDR
    MmioPages,    \* the pages of the MMIO window, in order
    Device        \* the first frame of device memory, outside the regions

VARIABLES
    head,         \* free_head
    size, next,   \* the headers, by address
    handed,       \* the blocks callers hold
    mem,          \* frame -> index -> entry
    region, nextFrame, \* FRAME_REGION and FRAME_NEXT
    taken,        \* frames handed out to callers of alloc_frame
    mmio,         \* pages of the MMIO window used
    want,         \* page -> what was mapped there last: its frame, for whom
    tested        \* selftest has not failed

listVars == <<head, size, next, handed>>
pageVars == <<mem, region, nextFrame, taken, mmio, want, tested>>

-----------------------------------------------------------------------------
(* The free list                                                           *)

Null == -1
Addresses == 0 .. Units - 1
MinBlock == 2

(* init_heap                                                               *)
ListInit ==
    /\ head = 0
    /\ size = (0 :> Units)
    /\ next = (0 :> Null)
    /\ handed = {}

(* The list as the loops walk it: its k-th block, Null past the end        *)
Walk ==
    LET at[k \in 0 .. Units] ==
          IF k = 0 THEN head ELSE IF at[k - 1] = Null THEN Null ELSE next[at[k - 1]]
    IN at
Previous(k) == IF k = 0 THEN Null ELSE Walk[k - 1]

Without(f, a) == Restrict(f, DOMAIN f \ {a})
(* Linking block `to` behind `prev`, or as the head                        *)
Link(prev, to, links) ==
    /\ head' = IF prev = Null THEN to ELSE head
    /\ next' = IF prev = Null THEN links ELSE [links EXCEPT ![prev] = to]

-----------------------------------------------------------------------------
Fits(a, needed) == a # Null /\ size[a] >= needed

(* alloc: first fit; the remainder of a split takes the block's place      *)
Leftover(cur, needed) == size[cur] - needed >= MinBlock

Alloc(n) ==
    LET needed == n + 1
        fits == {k \in 0 .. Units : Fits(Walk[k], needed)}
        k == Min(fits)
        cur == Walk[k]
        rest == cur + needed
    IN /\ fits # {}
       /\ handed' = handed \cup {cur}
       /\ IF Leftover(cur, needed)
          THEN /\ size' = [size EXCEPT ![cur] = needed] @@ (rest :> size[cur] - needed)
               /\ Link(Previous(k), rest, Without(next, cur) @@ (rest :> next[cur]))
          ELSE /\ UNCHANGED size
               /\ Link(Previous(k), next[cur], Without(next, cur))

(* dealloc: insert by address, absorb the next block, then be absorbed by  *)
(* the previous one                                                        *)
AbsorbsNextNever(b, nxt) == FALSE
AbsorbsNext(b, nxt) == nxt # Null /\ b + size[b] = nxt

InsertPosition(b) == Min({k \in 0 .. Units : Walk[k] = Null \/ Walk[k] >= b})

Dealloc(b) ==
    LET k == InsertPosition(b)
        prev == Previous(k)
        nxt == Walk[k]
        absorbs == AbsorbsNext(b, nxt)
        grown == IF absorbs THEN size[b] + size[nxt] ELSE size[b]
        sizes == IF absorbs THEN Without(size, nxt) ELSE size
        links == IF absorbs THEN Without(next, nxt) ELSE next
        follows == IF absorbs THEN next[nxt] ELSE nxt
    IN /\ handed' = handed \ {b}
       /\ IF prev # Null /\ prev + size[prev] = b
          THEN /\ size' = Without([sizes EXCEPT ![prev] = @ + grown], b)
               /\ next' = [links EXCEPT ![prev] = follows]
               /\ UNCHANGED head
          ELSE /\ size' = [sizes EXCEPT ![b] = grown]
               /\ Link(prev, b, links @@ (b :> follows))

ListNext == (\E n \in Requests : Alloc(n)) \/ (\E b \in handed : Dealloc(b))

-----------------------------------------------------------------------------
(* Frames and page tables                                                  *)

Index == {0, 1}
Root == 0
BootTables == {-1, -2}
Huge1G == 100
Huge2M == 101
Ram == UNION { Regions[i][1] .. Regions[i][2] - 1 : i \in DOMAIN Regions }

PagingAssumption ==
    /\ \A i \in DOMAIN Regions : 0 < Regions[i][1] /\ Regions[i][1] < Regions[i][2]
    /\ (\A v \in Pages : DOMAIN v = 1 .. 4) /\ TestPage \in Pages
    /\ \A i \in DOMAIN MmioPages : MmioPages[i] \in Pages
    /\ \A i \in DOMAIN MmioPages : Device + i - 1 \notin Ram

Entry(frame, huge, user) == [present |-> TRUE, frame |-> frame, huge |-> huge, user |-> user]
Absent == [present |-> FALSE, frame |-> 0, huge |-> FALSE, user |-> FALSE]
Stale == Entry(Root, FALSE, TRUE)
Nothing == [frame |-> 0, user |-> FALSE]

BootTable(t) ==
    CASE t = Root -> [i \in Index |-> IF i = 1 THEN Entry(-1, FALSE, FALSE) ELSE Absent]
      [] t = -1 -> [i \in Index |-> IF i = 0 THEN Entry(Huge1G, TRUE, FALSE) ELSE Entry(-2, FALSE, FALSE)]
      [] t = -2 -> [i \in Index |-> IF i = 0 THEN Entry(Huge2M, TRUE, FALSE) ELSE Absent]

PagesInit ==
    /\ mem = [f \in Ram \cup {Root} \cup BootTables |->
                IF f \in Ram THEN [i \in Index |-> Stale] ELSE BootTable(f)]
    /\ region = 1 /\ nextFrame = Regions[1][1]
    /\ taken = {} /\ mmio = 0 /\ tested = TRUE
    /\ want = [v \in Pages |-> CASE v[1] = 1 /\ v[2] = 0 -> [frame |-> Huge1G, user |-> FALSE]
                                  [] v[1] = 1 /\ v[2] = 1 /\ v[3] = 0 -> [frame |-> Huge2M, user |-> FALSE]
                                  [] OTHER -> Nothing]

-----------------------------------------------------------------------------
(* A computation on the memory: its state, whether it failed, and the      *)
(* value it ends with.                                                     *)
Now == [mem |-> mem, region |-> region, next |-> nextFrame, ok |-> TRUE, val |-> Absent]

(* alloc_frame, a bump allocator over the regions; a frame is in val.frame *)
alloc_frame(m) ==
    LET end == Regions[m.region][2]
        last == m.region = Len(Regions)
        at == IF m.next < end THEN m.next ELSE Regions[m.region + 1][1]
    IN  IF m.next >= end /\ last THEN [m EXCEPT !.ok = FALSE]
        ELSE [m EXCEPT !.region = IF m.next < end THEN @ ELSE @ + 1,
                       !.next = at + 1, !.val = Entry(at, FALSE, FALSE)]

TableUncleared(m, parent, i, user) ==
    LET a == alloc_frame(m)
        e == Entry(a.val.frame, FALSE, user)
    IN  IF m.mem[parent][i].present THEN [m EXCEPT !.val = m.mem[parent][i]]
        ELSE IF ~ a.ok THEN a
        ELSE [a EXCEPT !.mem[parent][i] = e, !.val = e]

(* ensure_table: the entry there, or that of a new, cleared table *)
ensure_table(m, parent, i, user) ==
    LET a == alloc_frame(m)
        e == Entry(a.val.frame, FALSE, user)
    IN  IF m.mem[parent][i].present THEN [m EXCEPT !.val = m.mem[parent][i]]
        ELSE IF ~ a.ok THEN a
        ELSE [a EXCEPT !.mem[a.val.frame] = [k \in Index |-> Absent], !.mem[parent][i] = e, !.val = e]

(* One level of map_page: the table below, opened to ring 3 when asked.    *)
(* Only a page on the way down that is huge is refused, and only after its *)
(* entry was opened; the topmost level has none.                           *)
Descend(m, parent, i, user, level) ==
    LET t == ensure_table(m, parent, i, user)
        o == IF user THEN [t EXCEPT !.mem[parent][i].user = TRUE, !.val.user = TRUE] ELSE t
    IN  IF ~ t.ok THEN t
        ELSE IF level > 1 /\ o.val.huge THEN [o EXCEPT !.ok = FALSE] ELSE o

map_page(m, v, frame, user) ==
    LET Level(x, i) == IF x.ok THEN Descend(x, x.val.frame, v[i], user, i) ELSE x
        table == FoldLeft(Level, [m EXCEPT !.val = Entry(Root, FALSE, FALSE)], <<1, 2, 3>>)
    IN  IF table.ok THEN [table EXCEPT !.mem[table.val.frame][v[4]] = Entry(frame, FALSE, user)] ELSE table

(* walk_leaf, and translate: the leaf entry that covers a page *)
walk_leaf(memory, v) ==
    LET a == memory[Root][v[1]]
        b == memory[a.frame][v[2]]
        c == memory[b.frame][v[3]]
        d == memory[c.frame][v[4]]
    IN  IF ~ a.present THEN Absent
        ELSE IF ~ b.present THEN Absent ELSE IF b.huge THEN b
        ELSE IF ~ c.present THEN Absent ELSE IF c.huge THEN c
        ELSE IF ~ d.present THEN Absent ELSE d
translate(memory, v) == walk_leaf(memory, v).frame

(* unmap_page leaves huge pages and tables alone *)
unmap_page(m, v) ==
    LET a == m.mem[Root][v[1]]
        b == m.mem[a.frame][v[2]]
        c == m.mem[b.frame][v[3]]
    IN  IF ~ a.present THEN m
        ELSE IF ~ b.present \/ b.huge THEN m
        ELSE IF ~ c.present \/ c.huge THEN m
        ELSE [m EXCEPT !.mem[c.frame][v[4]] = Absent]

-----------------------------------------------------------------------------
Becomes(m) == mem' = m.mem /\ region' = m.region /\ nextFrame' = m.next
Mapped(v, frame, user) == want' = [want EXCEPT ![v] = [frame |-> frame, user |-> user]]
Small(v) == want[v].frame \notin {Huge1G, Huge2M}

(* The heap, a program's pages, a client's pixels: a frame, then its page. *)
(* The frame is lost when the page cannot be mapped.                       *)
MapFrame(v, user) ==
    /\ v \notin {TestPage} \cup { MmioPages[i] : i \in DOMAIN MmioPages }
    /\ \E a \in {alloc_frame(Now)} : \E m \in {map_page(a, v, a.val.frame, user)} :
           /\ a.ok
           /\ Becomes(m)
           /\ taken' = taken \cup {a.val.frame}
           /\ IF m.ok THEN Mapped(v, a.val.frame, user) ELSE UNCHANGED want
    /\ UNCHANGED <<mmio, tested>>

(* DMA buffers are frames that are not mapped *)
TakeFrame ==
    /\ LET a == alloc_frame(Now)
       IN  a.ok /\ Becomes(a) /\ taken' = taken \cup {a.val.frame}
    /\ UNCHANGED <<mmio, want, tested>>

UnmapPage(v) ==
    /\ Becomes(unmap_page(Now, v))
    /\ want' = IF Small(v) THEN [want EXCEPT ![v] = Nothing] ELSE want
    /\ UNCHANGED <<taken, mmio, tested>>

(* map_mmio takes window space first and maps page by page: what was       *)
(* mapped before a failure stays, and the space is not used again.         *)
map_mmio(n) ==
    /\ mmio + n <= Len(MmioPages)
    /\ LET Page(x, i) ==
             LET m == map_page(x.m, MmioPages[i], Device + i - 1, FALSE)
             IN  IF ~ x.m.ok THEN x
                 ELSE [m |-> m, want |-> IF m.ok THEN [x.want EXCEPT ![MmioPages[i]] =
                                                         [frame |-> Device + i - 1, user |-> FALSE]]
                                         ELSE x.want]
       IN  \E x \in {FoldLeft(Page, [m |-> Now, want |-> want], [k \in 1 .. n |-> mmio + k])} :
             Becomes(x.m) /\ want' = x.want
    /\ mmio' = mmio + n
    /\ UNCHANGED <<taken, tested>>

(* selftest maps a page, reads it through its translation, unmaps it *)
selftest ==
    /\ \E a \in {alloc_frame(Now)} :
       \E m \in {map_page(a, TestPage, a.val.frame, FALSE)} :
       \E u \in {unmap_page(m, TestPage)} :
           /\ translate(mem, TestPage) = 0 /\ a.ok /\ m.ok
           /\ Becomes(u)
           /\ taken' = taken \cup {a.val.frame}
           /\ tested' = (translate(m.mem, TestPage) = a.val.frame /\ translate(u.mem, TestPage) = 0)
    /\ UNCHANGED <<mmio, want>>

PagesNext ==
    \/ \E v \in Pages : UnmapPage(v) \/ \E user \in BOOLEAN : MapFrame(v, user)
    \/ \E n \in {1, 2} : map_mmio(n)
    \/ TakeFrame \/ selftest

-----------------------------------------------------------------------------
FreeBlocks == {Walk[k] : k \in 0 .. Units} \ {Null}

(* The linked list implements the cut into blocks of HeapBlocks.           *)
Cut == INSTANCE HeapBlocks WITH
    free <- {<<a, size[a]>> : a \in FreeBlocks},
    live <- {<<a, size[a]>> : a \in handed}
ImplementsCut == Cut!Spec

TablesUsed ==
    LET below == { mem[Root][i] : i \in Index }
        Down(es) == UNION { { mem[e.frame][i] : i \in Index } : e \in { x \in es : x.present /\ ~ x.huge } }
        Frames(es) == { e.frame : e \in { x \in es : x.present /\ ~ x.huge } }
    IN  Frames(below) \cup Frames(Down(below)) \cup Frames(Down(Down(below)))

Path(v) ==
    LET a == mem[Root][v[1]]
        b == mem[a.frame][v[2]]
        c == mem[b.frame][v[3]]
    IN  {a, b, c}

(* The tables are the map their callers asked for, also after a call that  *)
(* ran out of frames half way: every page translates to what was mapped    *)
(* there last, a page for ring 3 is open to it on every level ("a single   *)
(* supervisor upper entry faults the whole walk"), no frame that a caller  *)
(* holds is a table, and the self-test succeeds.                           *)
PagesAsMapped ==
    /\ \A v \in Pages : translate(mem, v) = want[v].frame
    /\ \A v \in Pages : want[v].user => walk_leaf(mem, v).user /\ \A e \in Path(v) : e.user
    /\ taken \cap TablesUsed = {}
    /\ tested
=============================================================================
