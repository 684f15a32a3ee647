----------------------------- MODULE HeapBlocks -----------------------------
(***************************************************************************)
(* What the kernel heap promises: the heap is at every moment cut into     *)
(* blocks, each either free or handed out.  Which free block serves a      *)
(* request, and how the free ones are linked, is left open.                *)
(*                                                                         *)
(* Addresses and sizes count units of 16 bytes, BLOCK_ALIGN; a header is   *)
(* one unit and so is the least payload.  A block is a pair of its address *)
(* and its size, header included.                                          *)
(***************************************************************************)
EXTENDS Integers, TLAPS

CONSTANTS Units,     \* HEAP_SIZE
          Requests   \* payload sizes asked for, rounded up to units

ASSUME HeapAssumption ==
    /\ Units \in Nat /\ Units >= 2
    /\ Requests \subseteq Nat \ {0}

VARIABLES free, live

vars == <<free, live>>

MinBlock == 2
Blocks == free \cup live
End(b) == b[1] + b[2]
Covers(b, u) == b[1] <= u /\ u < End(b)

Init == free = {<<0, Units>>} /\ live = {}

(* alloc: a free block that is large enough, split when what remains can   *)
(* be a block of its own                                                   *)
AllocSplit(b, needed) ==
    /\ b[2] - needed >= MinBlock
    /\ free' = (free \ {b}) \cup {<<b[1] + needed, b[2] - needed>>}
    /\ live' = live \cup {<<b[1], needed>>}

AllocWhole(b, needed) ==
    /\ b[2] >= needed /\ b[2] - needed < MinBlock
    /\ free' = free \ {b}
    /\ live' = live \cup {b}

Alloc(n) == \E b \in free : AllocSplit(b, n + 1) \/ AllocWhole(b, n + 1)

(* dealloc: the block joins the free neighbours on both sides              *)
BeforeNone(b) == {}
Before(b) == {c \in free : End(c) = b[1]}
After(b) == {c \in free : c[1] = End(b)}

MergedForward(b) ==
    LET end == IF After(b) = {} THEN End(b) ELSE End(CHOOSE c \in After(b) : TRUE)
    IN <<b[1], end - b[1]>>
Merged(b) ==
    LET first == IF Before(b) = {} THEN b[1] ELSE (CHOOSE c \in Before(b) : TRUE)[1]
        end == IF After(b) = {} THEN End(b) ELSE End(CHOOSE c \in After(b) : TRUE)
    IN <<first, end - first>>

Dealloc(b) ==
    /\ live' = live \ {b}
    /\ free' = (free \ (Before(b) \cup After(b))) \cup {Merged(b)}

Next == (\E n \in Requests : Alloc(n)) \/ (\E b \in live : Dealloc(b))

Spec == Init /\ [][Next]_vars

-----------------------------------------------------------------------------
TypeOK ==
    /\ free \subseteq Nat \X Nat /\ live \subseteq Nat \X Nat
    /\ \A b \in Blocks : b[2] >= MinBlock /\ End(b) <= Units

(* No two blocks overlap, and none is both free and handed out.            *)
Disjoint ==
    /\ free \cap live = {}
    /\ \A b, c \in Blocks : b # c => End(b) <= c[1] \/ End(c) <= b[1]

(* No unit of the heap is lost, however blocks are split and joined.       *)
NothingLost == \A u \in 0 .. Units - 1 : \E b \in Blocks : Covers(b, u)

(* Coalescing is complete: no two free blocks touch.                       *)
Coalesced == \A b, c \in free : End(b) # c[1]

(* The heap is cut into blocks, exactly: what alloc and dealloc keep.      *)
Tiling == TypeOK /\ Disjoint /\ NothingLost /\ Coalesced

(* "a large allocation failed even though the heap was mostly free" cannot *)
(* happen for want of coalescing: when some stretch that no caller holds   *)
(* is long enough for a request, one free block is.                        *)
Unheld(u) == \A b \in live : ~Covers(b, u)
StretchServed ==
    \A n \in Requests, a \in 0 .. Units - 1 :
      (a + n < Units /\ \A u \in a .. a + n : Unheld(u))
        => \E b \in free : b[2] >= n + 1

-----------------------------------------------------------------------------
(* The heap is cut into blocks, completely and without overlap, for every  *)
(* heap size and every set of request sizes.                               *)

(* The step of a merge: at most one free block ends where b starts, and at *)
(* most one starts where it ends, so the CHOOSE of Merged has no choice.   *)
LEMMA NeighboursUnique ==
    ASSUME Tiling, NEW b \in live
    PROVE  /\ \A c, d \in Before(b) : c = d
           /\ \A c, d \in After(b) : c = d
           /\ \A c \in Before(b) : c \in free /\ c[1] \in Nat /\ c[2] \in Nat /\ c[1] + c[2] = b[1]
           /\ \A c \in After(b) : c \in free /\ c[1] \in Nat /\ c[2] \in Nat /\ c[1] = b[1] + b[2]
  BY DEF Tiling, TypeOK, Disjoint, Blocks, End, Before, After, MinBlock

(* What dealloc leaves in the list: a block from the start of the free     *)
(* neighbour before, if any, to the end of the one after, if any.          *)
LEMMA MergedShape ==
    ASSUME Tiling, NEW b \in live
    PROVE  \E f \in Nat, e \in Nat :
             /\ Merged(b) = <<f, e - f>>
             /\ f <= b[1] /\ End(b) <= e /\ e <= Units
             /\ \/ f = b[1] /\ Before(b) = {}
                \/ \E c \in free : Before(b) = {c} /\ c[1] = f /\ End(c) = b[1]
             /\ \/ e = End(b) /\ After(b) = {}
                \/ \E c \in free : After(b) = {c} /\ c[1] = End(b) /\ End(c) = e
  <1> DEFINE c == CHOOSE x \in Before(b) : TRUE
             d == CHOOSE x \in After(b) : TRUE
             f == IF Before(b) = {} THEN b[1] ELSE c[1]
             e == IF After(b) = {} THEN End(b) ELSE End(d)
  <1>0. b \in Nat \X Nat /\ End(b) <= Units /\ End(b) \in Nat
    BY DEF Tiling, TypeOK, Blocks, End
  <1>1. Merged(b) = <<f, e - f>>
    BY DEF Merged
  <1>2. /\ f \in Nat /\ f <= b[1]
        /\ \/ f = b[1] /\ Before(b) = {}
           \/ \E x \in free : Before(b) = {x} /\ x[1] = f /\ End(x) = b[1]
    <2>1. CASE Before(b) = {}
      BY <1>0, <2>1
    <2>2. CASE Before(b) # {}
      <3>1. c \in Before(b)
        BY <2>2
      <3>2. Before(b) = {c} /\ c \in free /\ c[1] = f /\ End(c) = b[1] /\ f \in Nat /\ f <= b[1]
        BY <2>2, <3>1, NeighboursUnique DEF End
      <3> QED BY <3>2
    <2> QED BY <2>1, <2>2
  <1>3. /\ e \in Nat /\ End(b) <= e /\ e <= Units
        /\ \/ e = End(b) /\ After(b) = {}
           \/ \E x \in free : After(b) = {x} /\ x[1] = End(b) /\ End(x) = e
    <2>1. CASE After(b) = {}
      BY <1>0, <2>1
    <2>2. CASE After(b) # {}
      <3>1. d \in After(b)
        BY <2>2
      <3>2. After(b) = {d} /\ d \in free /\ d[1] = End(b) /\ End(d) = e
        BY <2>2, <3>1, NeighboursUnique DEF End
      <3>3. e \in Nat /\ End(b) <= e /\ e <= Units
        BY <3>2, <1>0 DEF Tiling, TypeOK, Blocks, End
      <3> QED BY <3>2, <3>3
    <2> QED BY <2>1, <2>2
  <1> HIDE DEF f, e
  <1> QED BY <1>1, <1>2, <1>3

(* Splitting: the front goes out, the rest stays where it was.             *)
LEMMA SplitTiles ==
    ASSUME Tiling, NEW b \in free, NEW needed \in Nat, needed >= MinBlock, AllocSplit(b, needed)
    PROVE  Tiling'
  <1> DEFINE front == <<b[1], needed>>
             rest == <<b[1] + needed, b[2] - needed>>
  <1>1. /\ b \in Nat \X Nat /\ front \in Nat \X Nat /\ rest \in Nat \X Nat
        /\ front[1] = b[1] /\ End(front) = rest[1] /\ End(rest) = End(b)
        /\ front[2] >= MinBlock /\ rest[2] >= MinBlock
        /\ rest[1] = b[1] + needed /\ front[2] = needed /\ rest[2] = b[2] - needed
    BY DEF Tiling, TypeOK, Blocks, AllocSplit, MinBlock, End
  <1>2. free' = (free \ {b}) \cup {rest} /\ live' = live \cup {front}
    BY DEF AllocSplit
  <1> HIDE DEF front, rest
  <1>3. TypeOK'
    <2>1. free' \subseteq Nat \X Nat /\ live' \subseteq Nat \X Nat
      BY <1>1, <1>2 DEF Tiling, TypeOK
    <2>2. ASSUME NEW c \in Blocks' PROVE c[2] >= MinBlock /\ End(c) <= Units
      <3>1. c \in Blocks \/ c = front \/ c = rest
        BY <1>2 DEF Blocks
      <3>2. End(b) <= Units
        BY DEF Tiling, TypeOK, Blocks
      <3>3. End(front) <= End(b)
        BY <1>1 DEF End, MinBlock
      <3>4. End(b) \in Nat /\ End(front) \in Nat
        BY <1>1 DEF End
      <3> QED BY <1>1, <3>1, <3>2, <3>3, <3>4, HeapAssumption DEF Tiling, TypeOK
    <2> QED BY <2>1, <2>2 DEF TypeOK, End
  <1>4. /\ front \notin Blocks \ {b} /\ rest \notin Blocks /\ front # rest
        /\ \A c \in Blocks \ {b} : /\ End(c) <= front[1] \/ End(rest) <= c[1]
                                   /\ c \in Nat \X Nat /\ c[2] >= MinBlock
    BY <1>1 DEF Tiling, TypeOK, Disjoint, Blocks, End, MinBlock
  <1>5. Disjoint'
    <2>1. (free \cap live)' = {}
      BY <1>1, <1>2, <1>4 DEF Tiling, Disjoint, Blocks
    <2>2. ASSUME NEW x \in Blocks', NEW y \in Blocks', x # y
          PROVE  End(x) <= y[1] \/ End(y) <= x[1]
      <3>1. x \in (Blocks \ {b}) \cup {front, rest} /\ y \in (Blocks \ {b}) \cup {front, rest}
        BY <1>2, <2>2 DEF Tiling, Disjoint, Blocks
      <3>2. CASE x \in Blocks \ {b} /\ y \in Blocks \ {b}
        BY <2>2, <3>2 DEF Tiling, Disjoint
      <3> QED BY <1>1, <1>4, <2>2, <3>1, <3>2 DEF End, MinBlock
    <2> QED BY <2>1, <2>2 DEF Disjoint, End
  <1>6. NothingLost'
    <2> SUFFICES ASSUME NEW u \in 0 .. Units - 1 PROVE \E c \in Blocks' : Covers(c, u)
      BY DEF NothingLost, Covers, End
    <2>1. PICK c \in Blocks : Covers(c, u)
      BY DEF Tiling, NothingLost
    <2>2. CASE c = b
      <3>1. Covers(front, u) \/ Covers(rest, u)
        BY <1>1, <2>1, <2>2, HeapAssumption DEF Covers, End
      <3> QED BY <1>2, <3>1 DEF Blocks
    <2> QED BY <1>2, <2>1, <2>2 DEF Blocks
  <1>7. Coalesced'
    <2> SUFFICES ASSUME NEW x \in free', NEW y \in free' PROVE End(x) # y[1]
      BY DEF Coalesced, End
    <2>1. \A c \in free \ {b} : End(c) # rest[1] /\ End(rest) # c[1]
      BY <1>1, <1>4 DEF Tiling, Coalesced, Blocks, End, MinBlock
    <2>2. End(rest) # rest[1]
      BY <1>1 DEF End, MinBlock
    <2> QED BY <1>2, <2>1, <2>2 DEF Tiling, Coalesced
  <1> QED BY <1>3, <1>5, <1>6, <1>7 DEF Tiling

(* Handing out a whole block moves it from one side to the other.          *)
LEMMA WholeTiles ==
    ASSUME Tiling, NEW b \in free, NEW needed \in Nat, AllocWhole(b, needed)
    PROVE  Tiling'
  <1>1. free' = free \ {b} /\ live' = live \cup {b} /\ Blocks' = Blocks
    BY DEF AllocWhole, Blocks
  <1>2. TypeOK'
    BY <1>1 DEF Tiling, TypeOK, Blocks, End
  <1>3. Disjoint'
    BY <1>1 DEF Tiling, Disjoint, End
  <1>4. NothingLost'
    BY <1>1 DEF Tiling, NothingLost, Covers, End
  <1>5. Coalesced'
    BY <1>1 DEF Tiling, Coalesced, End
  <1> QED BY <1>2, <1>3, <1>4, <1>5 DEF Tiling

(* Freeing: the new block covers what b and its free neighbours covered.   *)
LEMMA DeallocTiles ==
    ASSUME Tiling, NEW b \in live, Dealloc(b)
    PROVE  Tiling'
  <1>1. PICK f \in Nat, e \in Nat :
             /\ Merged(b) = <<f, e - f>>
             /\ f <= b[1] /\ End(b) <= e /\ e <= Units
             /\ \/ f = b[1] /\ Before(b) = {}
                \/ \E c \in free : Before(b) = {c} /\ c[1] = f /\ End(c) = b[1]
             /\ \/ e = End(b) /\ After(b) = {}
                \/ \E c \in free : After(b) = {c} /\ c[1] = End(b) /\ End(c) = e
    BY MergedShape
  <1> DEFINE m == <<f, e - f>>
             joined == Before(b) \cup After(b)
             kept == Blocks \ (joined \cup {b})
  <1>2. /\ m \in Nat \X Nat /\ m[1] = f /\ End(m) = e /\ m[2] >= MinBlock
        /\ b \in Nat \X Nat /\ b[2] >= MinBlock
    BY <1>1 DEF Tiling, TypeOK, Blocks, End, MinBlock
  <1>3. free' = (free \ joined) \cup {m} /\ live' = live \ {b} /\ joined \subseteq free
    BY <1>1 DEF Dealloc, Before, After
  <1>4. /\ Blocks' = kept \cup {m}
        /\ \A c \in joined \cup {b} : f <= c[1] /\ End(c) <= e
    <2>1. Blocks' = kept \cup {m}
      BY <1>3 DEF Blocks, Tiling, Disjoint
    <2>2. \A c \in Before(b) \cup After(b) \cup {b} : f <= c[1] /\ End(c) <= e
      BY <1>1, <1>2 DEF End, Before, After
    <2> QED BY <2>1, <2>2
  <1> HIDE DEF m
  <1>5. \A c \in kept : /\ c \in Nat \X Nat /\ c[2] >= MinBlock
                        /\ End(c) <= f \/ e <= c[1]
                        /\ c \in free => End(c) # f /\ e # c[1]
    <2> SUFFICES ASSUME NEW c \in kept
                 PROVE  /\ c \in Nat \X Nat /\ c[2] >= MinBlock
                        /\ End(c) <= f \/ e <= c[1]
                        /\ c \in free => End(c) # f /\ e # c[1]
      OBVIOUS
    <2>1. c \in Blocks /\ c # b /\ c \in Nat \X Nat /\ c[2] >= MinBlock
      BY DEF Tiling, TypeOK, Blocks
    <2>2. End(c) <= b[1] \/ End(b) <= c[1]
      BY <2>1 DEF Tiling, Disjoint, Blocks
    <2>3. ASSUME NEW p \in free, Before(b) = {p}, p[1] = f, End(p) = b[1]
          PROVE  (End(c) <= p[1] \/ End(p) <= c[1]) /\ (c \in free => End(c) # p[1])
      BY <2>1, <2>3 DEF Tiling, Disjoint, Coalesced, Blocks
    <2>4. ASSUME NEW q \in free, After(b) = {q}, q[1] = End(b), End(q) = e
          PROVE  (End(c) <= q[1] \/ End(q) <= c[1]) /\ (c \in free => End(q) # c[1])
      BY <2>1, <2>4 DEF Tiling, Disjoint, Coalesced, Blocks
    <2>5. c \in free => (Before(b) = {} => End(c) # b[1]) /\ (After(b) = {} => c[1] # End(b))
      BY DEF Before, After
    <2>6. End(c) \in Nat /\ End(b) \in Nat /\ c[1] < End(c) /\ b[1] < End(b) /\ c[1] \in Nat /\ b[1] \in Nat
      BY <1>2, <2>1 DEF End, MinBlock
    <2>7. (End(c) <= b[1] => End(c) <= f) /\ (c \in free => End(c) # f)
      BY <1>1, <2>2, <2>3, <2>5, <2>6
    <2>8. (End(b) <= c[1] => e <= c[1]) /\ (c \in free => e # c[1])
      BY <1>1, <2>2, <2>4, <2>5, <2>6
    <2> QED BY <2>1, <2>2, <2>7, <2>8
  <1> HIDE DEF joined, kept
  <1>6. TypeOK'
    <2>1. \A c \in kept : End(c) <= Units
      BY DEF Tiling, TypeOK, kept
    <2>2. free' \subseteq Nat \X Nat /\ live' \subseteq Nat \X Nat
      BY <1>2, <1>3 DEF Tiling, TypeOK
    <2>3. ASSUME NEW c \in Blocks' PROVE c[2] >= MinBlock /\ End(c) <= Units
      <3>1. CASE c \in kept
        BY <1>5, <2>1, <3>1
      <3>2. CASE c = m
        BY <1>1, <1>2, <3>2
      <3> QED BY <1>4, <2>3, <3>1, <3>2
    <2> QED BY <2>2, <2>3 DEF TypeOK, End
  <1>7. Disjoint'
    <2>1. m \notin kept
      <3>1. f < e
        BY <1>2 DEF End, MinBlock
      <3> QED BY <1>2, <1>5, <3>1
    <2>2. (free \cap live)' = {}
      <3>1. live' \subseteq kept
        BY <1>3 DEF kept, Blocks, Tiling, Disjoint
      <3> QED BY <1>3, <2>1, <3>1 DEF Tiling, Disjoint
    <2>3. ASSUME NEW x \in Blocks', NEW y \in Blocks', x # y
          PROVE  End(x) <= y[1] \/ End(y) <= x[1]
      <3>1. CASE x \in kept /\ y \in kept
        BY <2>3, <3>1 DEF Tiling, Disjoint, kept
      <3>2. CASE x = m /\ y \in kept
        BY <1>2, <1>5, <3>2
      <3>3. CASE y = m /\ x \in kept
        BY <1>2, <1>5, <3>3
      <3> QED BY <1>4, <2>3, <3>1, <3>2, <3>3
    <2> QED BY <2>2, <2>3 DEF Disjoint, End
  <1>8. NothingLost'
    <2> SUFFICES ASSUME NEW u \in 0 .. Units - 1 PROVE \E c \in Blocks' : Covers(c, u)
      BY DEF NothingLost, Covers, End
    <2>1. PICK c \in Blocks : Covers(c, u)
      BY DEF Tiling, NothingLost
    <2>2. CASE c \in kept
      BY <1>4, <2>1, <2>2
    <2>3. CASE c \in joined \cup {b}
      <3>1. c \in Nat \X Nat
        BY <2>1 DEF Tiling, TypeOK, Blocks
      <3>2. Covers(m, u)
        BY <1>2, <1>4, <2>1, <2>3, <3>1, HeapAssumption DEF Covers, End
      <3> QED BY <1>4, <3>2
    <2> QED BY <2>1, <2>2, <2>3 DEF kept
  <1>9. Coalesced'
    <2> SUFFICES ASSUME NEW x \in free', NEW y \in free' PROVE End(x) # y[1]
      BY DEF Coalesced, End
    <2>1. \A c \in free' : c = m \/ (c \in kept /\ c \in free)
      BY <1>3 DEF kept, Blocks, Tiling, Disjoint
    <2>2. End(m) # m[1]
      BY <1>2 DEF End, MinBlock
    <2>3. CASE x = m /\ y # m
      BY <1>2, <1>5, <2>1, <2>3
    <2>4. CASE x # m /\ y = m
      BY <1>2, <1>5, <2>1, <2>4
    <2>5. CASE x # m /\ y # m
      BY <2>1, <2>5 DEF Tiling, Coalesced
    <2> QED BY <2>2, <2>3, <2>4, <2>5
  <1> QED BY <1>6, <1>7, <1>8, <1>9 DEF Tiling

-----------------------------------------------------------------------------
(* Whatever is allocated and freed, in any order: blocks never overlap, no *)
(* unit is lost, and no two free blocks touch (alloc and dealloc in        *)
(* heap.rs, "coalescing is complete").                                     *)
THEOREM HeapTiled == Spec => []Tiling
  <1>1. Init => Tiling
    BY HeapAssumption DEF Init, Tiling, TypeOK, Disjoint, NothingLost, Coalesced, Blocks, Covers, End, MinBlock
  <1>2. Tiling /\ [Next]_vars => Tiling'
    <2> SUFFICES ASSUME Tiling, [Next]_vars PROVE Tiling'
      OBVIOUS
    <2>1. ASSUME NEW n \in Requests, Alloc(n) PROVE Tiling'
      <3>1. n + 1 \in Nat /\ n + 1 >= MinBlock
        BY HeapAssumption DEF MinBlock
      <3>2. PICK b \in free : AllocSplit(b, n + 1) \/ AllocWhole(b, n + 1)
        BY <2>1 DEF Alloc
      <3> QED BY <3>1, <3>2, SplitTiles, WholeTiles
    <2>2. ASSUME NEW b \in live, Dealloc(b) PROVE Tiling'
      BY <2>2, DeallocTiles
    <2>3. CASE UNCHANGED vars
      BY <2>3 DEF vars, Tiling, TypeOK, Disjoint, NothingLost, Coalesced, Blocks, Covers, End
    <2> QED BY <2>1, <2>2, <2>3 DEF Next
  <1> QED BY <1>1, <1>2, PTL DEF Spec

(* A stretch that no caller holds lies in one free block, so alloc refuses *)
(* a request only when no such stretch is long enough.                     *)
THEOREM NoFalseRefusal == Spec => []StretchServed
  <1>1. Tiling => StretchServed
    <2> SUFFICES ASSUME Tiling, NEW n \in Requests, NEW a \in 0 .. Units - 1,
                        a + n < Units, \A u \in a .. a + n : Unheld(u)
                 PROVE  \E b \in free : b[2] >= n + 1
      BY DEF StretchServed
    <2>0. n \in Nat /\ a \in Nat /\ a \in a .. a + n
      BY HeapAssumption
    <2>1. PICK b \in Blocks : Covers(b, a)
      BY DEF Tiling, NothingLost
    <2>2. b \in free /\ b \in Nat \X Nat
      BY <2>0, <2>1 DEF Unheld, Blocks, Tiling, TypeOK
    <2>3. CASE End(b) <= a + n
      <3>1. End(b) \in a .. a + n /\ End(b) \in 0 .. Units - 1
        BY <2>0, <2>1, <2>2, <2>3, HeapAssumption DEF Covers, End
      <3>2. PICK c \in Blocks : Covers(c, End(b))
        BY <3>1 DEF Tiling, NothingLost
      <3>3. c \in free /\ c \in Nat \X Nat
        BY <3>1, <3>2 DEF Unheld, Blocks, Tiling, TypeOK
      <3>4. c # b
        BY <2>2, <3>2 DEF Covers, End
      <3>5. End(b) <= c[1] \/ End(c) <= b[1]
        BY <2>1, <3>2, <3>4 DEF Tiling, Disjoint
      <3>6. c[1] = End(b)
        BY <2>2, <3>2, <3>3, <3>5 DEF Covers, End
      <3> QED BY <2>2, <3>3, <3>6 DEF Tiling, Coalesced
    <2>4. CASE a + n < End(b)
      BY <2>0, <2>1, <2>2, <2>4 DEF Covers, End
    <2> QED BY <2>0, <2>2, <2>3, <2>4 DEF End
  <1> QED BY <1>1, HeapTiled, PTL
=============================================================================
