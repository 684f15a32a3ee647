------------------------- MODULE KernelFault_proof -------------------------
(***************************************************************************)
(* Proofs about the kernel scheduler and fault interceptor, for any number *)
(* of tasks, any watchdog window, any fault budget and any set of frames.  *)
(*                                                                         *)
(* A handler is a chain of calls on the kernel state Kernel, so types are   *)
(* proved call by call (KType) and the queue's soundness on the values the *)
(* chain ends with (SoundAt).                                              *)
(***************************************************************************)
EXTENDS KernelFault, FiniteSetTheorems, SequenceTheorems, TLAPS

KType == [sleep : [Slots -> 0 .. Frozen],
          frame : [UserSlots -> Frame],
          stallAge : [UserSlots -> 0 .. HangTicks],
          stallRip : [UserSlots -> Rips \cup {NoRip}],
          activityAge : [UserSlots -> 0 .. HangTicks],
          queue : Seq(Record),
          count : [UserSlots -> 0 .. U8Max],
          events : Seq(Event)]

-----------------------------------------------------------------------------
(* Type lemmas: every call keeps the kernel state well typed. *)

LEMMA SlotFacts ==
    /\ UserSlots \subseteq Slots
    /\ KernelSlots \subseteq Slots
    /\ KernelSlots \cap UserSlots = {}
    /\ Frozen \in Nat /\ Frozen > 1
    /\ 0 \in 0 .. Frozen /\ Frozen \in 0 .. Frozen
    /\ 0 \in 0 .. HangTicks
BY KernelAssumption DEF UserSlots, KernelSlots, Slots, Frozen

LEMMA KernelTyped == TypeOK => Kernel \in KType
BY DEF TypeOK, Kernel, KType

LEMMA CommitTyped ==
    ASSUME NEW k \in KType, Commit(k)
    PROVE  Kernel' = k
BY DEF Commit, Kernel, KType

LEMMA PostEventTyped ==
    ASSUME NEW ev \in Seq(Event), NEW e \in Event
    PROVE  PostEvent(ev, e) \in Seq(Event)
<1>1. CASE Len(ev) >= EventLen
  <2>1. ev # <<>>
    BY <1>1, KernelAssumption
  <2>2. Tail(ev) \in Seq(Event)
    BY <2>1
  <2> QED BY <1>1, <2>2 DEF PostEvent
<1>2. CASE ~ (Len(ev) >= EventLen)
  BY <1>2 DEF PostEvent
<1> QED BY <1>1, <1>2

LEMMA PublishTyped ==
    ASSUME NEW k \in KType, NEW p \in UserSlots, NEW kind \in Kinds, NEW f \in Frame
    PROVE  Publish(k, p, kind, f) \in KType
<1> DEFINE c == Least(k.count[p] + 1, U8Max)
           record == [pid |-> p, kind |-> kind, frame |-> f, count |-> c]
           e == [pid |-> p, kind |-> kind, count |-> c]
<1>1. c \in 1 .. U8Max
  <2>1. k.count[p] \in 0 .. U8Max
    BY DEF KType
  <2> QED BY <2>1 DEF Least, U8Max
<1>2. record \in Record /\ e \in Event
  BY <1>1 DEF Record, Event
<1>3. PostEvent(k.events, e) \in Seq(Event)
  BY <1>2, PostEventTyped DEF KType
<1>4. (IF Len(k.queue) >= FaultQueueLen THEN k.queue ELSE Append(k.queue, record)) \in Seq(Record)
  BY <1>2 DEF KType
<1>5. [k.count EXCEPT ![p] = c] \in [UserSlots -> 0 .. U8Max]
  BY <1>1 DEF KType
<1> HIDE DEF c
<1> QED BY Zenon, <1>3, <1>4, <1>5 DEF Publish, KType, c

LEMMA FreezeTyped ==
    ASSUME NEW k \in KType, NEW p \in UserSlots
    PROVE  FreezeTask(k, p) \in KType
BY Zenon, SlotFacts DEF FreezeTask, KType

LEMMA NoteActivityTyped ==
    ASSUME NEW k \in KType, NEW p \in UserSlots
    PROVE  NoteActivity(k, p) \in KType
BY Zenon, SlotFacts DEF NoteActivity, KType

LEMMA ResetStallTyped ==
    ASSUME NEW k \in KType, NEW p \in UserSlots
    PROVE  ResetStall(k, p) \in KType
BY Zenon, SlotFacts DEF ResetStall, KType

LEMMA WakeTyped ==
    ASSUME NEW k \in KType, NEW p \in UserSlots
    PROVE  [k EXCEPT !.sleep = [@ EXCEPT ![p] = 0]] \in KType
BY Zenon, SlotFacts DEF KType

LEMMA ElapseTyped ==
    ASSUME NEW k \in KType
    PROVE  Elapse(k) \in KType
<1>1. [s \in Slots |-> IF k.sleep[s] \in 1 .. MaxSleep THEN k.sleep[s] - 1 ELSE k.sleep[s]]
         \in [Slots -> 0 .. Frozen]
  BY KernelAssumption DEF KType, Frozen
<1>2. [p \in UserSlots |-> Least(k.stallAge[p] + 1, HangTicks)] \in [UserSlots -> 0 .. HangTicks]
  BY KernelAssumption DEF KType, Least
<1>3. [p \in UserSlots |-> Least(k.activityAge[p] + 1, HangTicks)] \in [UserSlots -> 0 .. HangTicks]
  BY KernelAssumption DEF KType, Least
<1> QED BY Zenon, <1>1, <1>2, <1>3 DEF Elapse, KType

LEMMA RefreshTyped ==
    ASSUME NEW k \in KType, NEW p \in UserSlots, NEW f \in Frame
    PROVE  Refresh(k, p, f) \in KType
<1> DEFINE saved == [k EXCEPT !.frame = [@ EXCEPT ![p] = f],
                              !.stallRip = [@ EXCEPT ![p] = f.rip],
                              !.stallAge = [@ EXCEPT ![p] = StallAge(k, p, f)]]
           hang == FreezeTask(Publish(saved, p, "hang", f), p)
<1>1. StallAge(k, p, f) \in 0 .. HangTicks
  BY KernelAssumption DEF StallAge, Least, KType
<1>2. saved \in KType
  BY Zenon, <1>1 DEF KType, Frame
<1>3. hang \in KType
  BY <1>2, PublishTyped, FreezeTyped DEF Kinds
<1>4. [hang EXCEPT !.stallAge = [@ EXCEPT ![p] = 0]] \in KType
  <2> HIDE DEF hang
  <2> QED BY Zenon, <1>3, SlotFacts DEF KType
<1> QED BY <1>2, <1>4 DEF Refresh

-----------------------------------------------------------------------------
(* QueueSound, as a predicate on the values a chain of calls ends with. *)

Has(q, p) == \E i \in 1 .. Len(q) : q[i].pid = p

MatchAt(q, s, fr, c, pres) ==
    \A i \in 1 .. Len(q) :
        /\ q[i].pid \in pres
        /\ s[q[i].pid] = Frozen
        /\ fr[q[i].pid] = q[i].frame
        /\ c[q[i].pid] = q[i].count

UniqueAt(q) == \A i, j \in 1 .. Len(q) : q[i].pid = q[j].pid => i = j

WaitsAt(q, s, pres) == \A p \in UserSlots : p \in pres /\ s[p] = Frozen => Has(q, p)

SoundAt(k, pres) ==
    /\ MatchAt(k.queue, k.sleep, k.frame, k.count, pres)
    /\ UniqueAt(k.queue)
    /\ WaitsAt(k.queue, k.sleep, pres)

(* Pigeonhole: a queue that holds no task twice is shorter than its capacity. *)
LEMMA UniqueIsShort ==
    ASSUME NEW q \in Seq(Record), UniqueAt(q)
    PROVE  Len(q) < FaultQueueLen
<1>1. SUFFICES ASSUME Len(q) >= FaultQueueLen PROVE FALSE
  BY KernelAssumption DEF FaultQueueLen
<1> DEFINE S == 1 .. Len(q)
           f == [i \in S |-> q[i].pid]
<1>2. IsFiniteSet(S) /\ Cardinality(S) = Len(q)
  <2>1. Len(q) \in Nat /\ Len(q) > 0
    BY <1>1, KernelAssumption DEF FaultQueueLen
  <2> QED BY <2>1, FS_Interval
<1>3. IsFiniteSet(UserSlots) /\ Cardinality(UserSlots) = MaxTasks - 2
  <2>1. 2 \in Int /\ MaxTasks - 1 \in Int /\ ~ (2 > MaxTasks - 1)
    BY KernelAssumption
  <2>2. Cardinality(UserSlots) = (MaxTasks - 1) - 2 + 1 /\ IsFiniteSet(UserSlots)
    BY <2>1, FS_Interval DEF UserSlots
  <2> QED BY <2>2, KernelAssumption
<1>4. f \in [S -> UserSlots]
  <2>1. \A i \in S : q[i] \in Record
    BY ElementOfSeq
  <2>2. \A i \in S : q[i].pid \in UserSlots
    BY <2>1 DEF Record
  <2> QED BY <2>2
<1>5. Cardinality(UserSlots) < Cardinality(S)
  BY <1>1, <1>2, <1>3, KernelAssumption DEF FaultQueueLen
<1>6. \E x, y \in S : x # y /\ f[x] = f[y]
  <2> HIDE DEF f, S
  <2> QED BY <1>2, <1>3, <1>4, <1>5, FS_PigeonHole
<1> QED BY <1>6 DEF UniqueAt

LEMMA SoundIsQueueSound ==
    ASSUME TypeOK
    PROVE  QueueSound <=> (overlap \/ SoundAt(Kernel, present))
<1>1. UniqueAt(queue) => Len(queue) < FaultQueueLen
  BY UniqueIsShort DEF TypeOK
<1>2. RecordsMatchTasks <=> MatchAt(queue, sleep, frame, count, present)
  BY DEF RecordsMatchTasks, MatchAt
<1>3. RecordsUnique <=> UniqueAt(queue)
  BY DEF RecordsUnique, UniqueAt
<1>4. FrozenIsQueued <=> WaitsAt(queue, sleep, present)
  BY DEF FrozenIsQueued, WaitsAt, Queued, Has
<1> QED BY <1>1, <1>2, <1>3, <1>4 DEF QueueSound, SoundAt, Kernel

(* Publishing a record for a running task that is frozen with the same frame *)
(* keeps the queue sound.                                                    *)
LEMMA AddRecord ==
    ASSUME NEW k \in KType, NEW k2 \in KType, NEW pres, SoundAt(k, pres),
           NEW p \in UserSlots, p \in pres, k.sleep[p] # Frozen,
           NEW r \in Record, r.pid = p,
           k2.queue = IF Len(k.queue) >= FaultQueueLen THEN k.queue ELSE Append(k.queue, r),
           k2.sleep = [k.sleep EXCEPT ![p] = Frozen],
           k2.frame = [k.frame EXCEPT ![p] = r.frame],
           k2.count = [k.count EXCEPT ![p] = r.count]
    PROVE  SoundAt(k2, pres)
<1> DEFINE q == k.queue
           q2 == Append(q, r)
<1>0. q \in Seq(Record) /\ k.sleep \in [Slots -> 0 .. Frozen] /\ k.frame \in [UserSlots -> Frame]
      /\ k.count \in [UserSlots -> 0 .. U8Max] /\ p \in Slots
  BY SMTT(40), SlotFacts DEF KType
<1>1. k2.queue = q2
  BY UniqueIsShort, <1>0, KernelAssumption DEF SoundAt, FaultQueueLen
<1>2. Len(q2) = Len(q) + 1 /\ Len(q) \in Nat /\ q2[Len(q) + 1] = r
      /\ \A i \in 1 .. Len(q) : q2[i] = q[i]
  BY <1>0
<1>3. \A i \in 1 .. Len(q) : q[i] \in Record /\ q[i].pid \in UserSlots /\ q[i].pid # p
  <2> TAKE i \in 1 .. Len(q)
  <2>1. q[i] \in Record
    BY <1>0, ElementOfSeq
  <2>2. k.sleep[q[i].pid] = Frozen
    BY DEF SoundAt, MatchAt
  <2> QED BY <2>1, <2>2 DEF Record
<1>4. \A i \in 1 .. Len(q2) : i \in 1 .. Len(q) \/ i = Len(q) + 1
  BY <1>2
<1> HIDE DEF q, q2
<1>5. MatchAt(q, k.sleep, k.frame, k.count, pres) /\ UniqueAt(q) /\ WaitsAt(q, k.sleep, pres)
  BY DEF SoundAt, q
<1>6. MatchAt(q2, k2.sleep, k2.frame, k2.count, pres)
  <2> SUFFICES ASSUME NEW i \in 1 .. Len(q2)
               PROVE  /\ q2[i].pid \in pres
                      /\ k2.sleep[q2[i].pid] = Frozen
                      /\ k2.frame[q2[i].pid] = q2[i].frame
                      /\ k2.count[q2[i].pid] = q2[i].count
    BY DEF MatchAt
  <2>1. CASE i \in 1 .. Len(q)
    <3>1. q2[i] = q[i] /\ q[i].pid \in UserSlots /\ q[i].pid # p /\ q[i].pid \in Slots
      BY <2>1, <1>2, <1>3, SlotFacts
    <3>2. /\ q[i].pid \in pres
          /\ k.sleep[q[i].pid] = Frozen
          /\ k.frame[q[i].pid] = q[i].frame
          /\ k.count[q[i].pid] = q[i].count
      BY <2>1, <1>5 DEF MatchAt
    <3> QED BY SMTT(40), <3>1, <3>2, <1>0
  <2>2. CASE i = Len(q) + 1
    BY <2>2, <1>2, <1>0
  <2> QED BY <1>4, <2>1, <2>2
<1>7. UniqueAt(q2)
  BY <1>2, <1>3, <1>4, <1>5 DEF UniqueAt
<1>8. WaitsAt(q2, k2.sleep, pres)
  <2> SUFFICES ASSUME NEW u \in UserSlots, u \in pres, k2.sleep[u] = Frozen
               PROVE  Has(q2, u)
    BY DEF WaitsAt
  <2>1. CASE u = p
    BY <2>1, <1>2 DEF Has
  <2>2. CASE u # p
    <3>1. Has(q, u)
      BY <2>2, <1>0, <1>5, SlotFacts DEF WaitsAt
    <3> QED BY <3>1, <1>2 DEF Has
  <2> QED BY <2>1, <2>2
<1> QED BY <1>1, <1>6, <1>7, <1>8 DEF SoundAt

(* A step that touches only a task that is not frozen, before and after,     *)
(* keeps the queue sound.                                                    *)
LEMMA TouchAwake ==
    ASSUME NEW k \in KType, NEW k2 \in KType, NEW pres, SoundAt(k, pres),
           NEW p \in UserSlots, k.sleep[p] # Frozen, k2.sleep[p] # Frozen,
           k2.queue = k.queue,
           \A u \in UserSlots : u # p => /\ k2.sleep[u] = k.sleep[u]
                                         /\ k2.frame[u] = k.frame[u]
                                         /\ k2.count[u] = k.count[u]
    PROVE  SoundAt(k2, pres)
<1>1. \A i \in 1 .. Len(k.queue) : k.queue[i].pid \in UserSlots /\ k.queue[i].pid # p
  <2> TAKE i \in 1 .. Len(k.queue)
  <2>1. k.queue[i] \in Record
    BY ElementOfSeq DEF KType
  <2>2. k.sleep[k.queue[i].pid] = Frozen
    BY DEF SoundAt, MatchAt
  <2> QED BY <2>1, <2>2 DEF Record
<1>2. MatchAt(k2.queue, k2.sleep, k2.frame, k2.count, pres)
  BY <1>1 DEF SoundAt, MatchAt
<1>3. WaitsAt(k2.queue, k2.sleep, pres)
  BY DEF SoundAt, WaitsAt
<1> QED BY <1>2, <1>3 DEF SoundAt

(* Resolving the front record for its task p, which is then either gone or    *)
(* no longer frozen, keeps the queue sound.                                   *)
LEMMA PopRecord ==
    ASSUME NEW k \in KType, NEW k2 \in KType, NEW pres, NEW pres2, SoundAt(k, pres),
           k.queue # <<>>, k2.queue = Tail(k.queue),
           NEW p \in UserSlots, p = Head(k.queue).pid,
           p \notin pres2 \/ k2.sleep[p] # Frozen,
           pres2 \subseteq pres, \A u \in pres : u # p => u \in pres2,
           \A u \in UserSlots : u # p => /\ k2.sleep[u] = k.sleep[u]
                                         /\ k2.frame[u] = k.frame[u]
                                         /\ k2.count[u] = k.count[u]
    PROVE  SoundAt(k2, pres2)
<1> DEFINE q == k.queue
           q2 == Tail(k.queue)
<1>1. q \in Seq(Record) /\ q # <<>>
  BY DEF KType
<1>2. Len(q) \in Nat /\ Len(q) >= 1 /\ Len(q2) = Len(q) - 1 /\ q[1].pid = p
      /\ \A i \in 1 .. Len(q2) : q2[i] = q[i + 1] /\ i + 1 \in 1 .. Len(q)
  BY <1>1
<1>3. \A i \in 1 .. Len(q) : q[i].pid \in UserSlots
  <2> TAKE i \in 1 .. Len(q)
  <2>1. q[i] \in Record
    BY <1>1, ElementOfSeq
  <2> QED BY <2>1 DEF Record
<1> HIDE DEF q, q2
<1>4. MatchAt(q, k.sleep, k.frame, k.count, pres) /\ UniqueAt(q) /\ WaitsAt(q, k.sleep, pres)
  BY DEF SoundAt, q
<1>5. \A i \in 1 .. Len(q2) : q2[i].pid # p /\ q2[i].pid \in UserSlots
  <2> TAKE i \in 1 .. Len(q2)
  <2>1. q2[i] = q[i + 1] /\ i + 1 \in 1 .. Len(q) /\ 1 \in 1 .. Len(q) /\ i + 1 # 1
    BY SMTT(40), <1>2
  <2> QED BY <2>1, <1>2, <1>3, <1>4 DEF UniqueAt
<1>6. MatchAt(q2, k2.sleep, k2.frame, k2.count, pres2)
  BY SMTT(40), <1>2, <1>4, <1>5 DEF MatchAt
<1>7. UniqueAt(q2)
  <2> SUFFICES ASSUME NEW i \in 1 .. Len(q2), NEW j \in 1 .. Len(q2), q2[i].pid = q2[j].pid
               PROVE  i = j
    BY DEF UniqueAt
  <2>1. i + 1 = j + 1
    BY SMTT(40), <1>2, <1>4 DEF UniqueAt
  <2> QED BY <2>1
<1>8. WaitsAt(q2, k2.sleep, pres2)
  <2> SUFFICES ASSUME NEW u \in UserSlots, u \in pres2, k2.sleep[u] = Frozen
               PROVE  Has(q2, u)
    BY DEF WaitsAt
  <2>1. u # p
    OBVIOUS
  <2>2. PICK i \in 1 .. Len(q) : q[i].pid = u
    BY <2>1, <1>4 DEF WaitsAt, Has
  <2>3. i # 1 /\ i - 1 \in 1 .. Len(q2) /\ (i - 1) + 1 = i
    BY <2>1, <2>2, <1>2
  <2>4. q2[i - 1] = q[i]
    BY <2>3, <1>2
  <2> QED BY <2>2, <2>3, <2>4 DEF Has
<1> QED BY <1>6, <1>7, <1>8 DEF SoundAt, q2

LEMMA RefreshSound ==
    ASSUME NEW k \in KType, NEW pres, SoundAt(k, pres), NEW f \in Frame,
           NEW p \in UserSlots, p \in pres, k.sleep[p] # Frozen
    PROVE  SoundAt(Refresh(k, p, f), pres)
<1> DEFINE c == Least(k.count[p] + 1, U8Max)
           r == [pid |-> p, kind |-> "hang", frame |-> f, count |-> c]
<1>1. Refresh(k, p, f) \in KType
  BY RefreshTyped
<1>2. CASE Hung(k, p, f)
  <2>1. c \in 1 .. U8Max
    <3>1. k.count[p] \in 0 .. U8Max
      BY DEF KType
    <3> QED BY <3>1 DEF Least, U8Max
  <2>2. r \in Record
    BY SMTT(40), <2>1 DEF Record, Kinds
  <2>3. /\ Refresh(k, p, f).queue = IF Len(k.queue) >= FaultQueueLen THEN k.queue
                                                                      ELSE Append(k.queue, r)
        /\ Refresh(k, p, f).sleep = [k.sleep EXCEPT ![p] = Frozen]
        /\ Refresh(k, p, f).frame = [k.frame EXCEPT ![p] = f]
        /\ Refresh(k, p, f).count = [k.count EXCEPT ![p] = c]
    BY <1>2 DEF Refresh, FreezeTask, Publish, KType
  <2> HIDE DEF c
  <2>4. r.pid = p /\ r.frame = f /\ r.count = c
    OBVIOUS
  <2> HIDE DEF r
  <2> DEFINE k2 == Refresh(k, p, f)
  <2>5. /\ k2 \in KType
        /\ k2.queue = IF Len(k.queue) >= FaultQueueLen THEN k.queue ELSE Append(k.queue, r)
        /\ k2.sleep = [k.sleep EXCEPT ![p] = Frozen]
        /\ k2.frame = [k.frame EXCEPT ![p] = r.frame]
        /\ k2.count = [k.count EXCEPT ![p] = r.count]
    BY <1>1, <2>3, <2>4
  <2> HIDE DEF k2
  <2>6. SoundAt(k2, pres)
    BY SMTT(40), <2>2, <2>4, <2>5, AddRecord
  <2> QED BY SMTT(40), <2>6 DEF k2
<1>3. CASE ~ Hung(k, p, f)
  <2>1. /\ Refresh(k, p, f).queue = k.queue
        /\ Refresh(k, p, f).sleep = k.sleep
        /\ Refresh(k, p, f).frame = [k.frame EXCEPT ![p] = f]
        /\ Refresh(k, p, f).count = k.count
    BY <1>3 DEF Refresh, KType
  <2> DEFINE k2 == Refresh(k, p, f)
  <2>2. /\ k2 \in KType /\ k2.queue = k.queue /\ k2.sleep[p] # Frozen
        /\ \A u \in UserSlots : u # p => /\ k2.sleep[u] = k.sleep[u]
                                        /\ k2.frame[u] = k.frame[u]
                                        /\ k2.count[u] = k.count[u]
    BY <1>1, <2>1 DEF KType
  <2> HIDE DEF k2
  <2>3. SoundAt(k2, pres)
    BY <2>2, TouchAwake
  <2> QED BY <2>3 DEF k2
<1> QED BY <1>2, <1>3

-----------------------------------------------------------------------------
(* What schedule() guarantees about the task it switches to. *)

Ready(k) == \A s \in KernelSlots : k.sleep[s] = 0

LEMMA RotateRunnable ==
    ASSUME TypeOK, KernelSlots \subseteq present,
           NEW k \in KType, Ready(k), Rotate(k)
    PROVE  /\ cur' \in Slots \cup {-1}
           /\ cur' \in UserSlots => cur' \in present /\ k.sleep[cur'] = 0
<1>1. CASE Runnable(k) = {} /\ cur' = cur
  <2>1. cur \notin UserSlots
    <3>1. SUFFICES ASSUME cur \in UserSlots PROVE FALSE
      OBVIOUS
    <3>2. 0 \in Slots /\ 0 \in KernelSlots /\ 0 \notin UserSlots
      BY SlotFacts DEF KernelSlots
    <3>3. 0 \in Runnable(k)
      BY <3>1, <3>2 DEF Runnable, Ready
    <3> QED BY <1>1, <3>3
  <2> QED BY <1>1, <2>1 DEF TypeOK
<1>2. CASE \E next \in Runnable(k) : cur' = next
  BY <1>2 DEF Runnable
<1> QED BY <1>1, <1>2 DEF Rotate

LEMMA RefreshReady ==
    ASSUME NEW k \in KType, Ready(k), NEW p \in UserSlots, NEW f \in Frame
    PROVE  Ready(Refresh(k, p, f))
<1>1. Refresh(k, p, f).sleep = k.sleep \/ Refresh(k, p, f).sleep = [k.sleep EXCEPT ![p] = Frozen]
  BY DEF Refresh, FreezeTask, Publish, KType
<1>2. \A s \in KernelSlots : s # p /\ s \in Slots
  BY SlotFacts
<1>3. k.sleep \in [Slots -> 0 .. Frozen]
  BY DEF KType
<1> QED BY <1>1, <1>2, <1>3 DEF Ready

LEMMA ScheduleStep ==
    ASSUME TypeOK, KernelSlots \subseteq present,
           NEW k \in KType, Ready(k), NEW f \in Frame, Schedule(k, f)
    PROVE  /\ Kernel' \in KType
           /\ Ready(Kernel')
           /\ Kernel' = IF cur \in UserSlots THEN Refresh(k, cur, f) ELSE k
           /\ cur' \in Slots \cup {-1}
           /\ cur' \in UserSlots => cur' \in present /\ sleep'[cur'] = 0
<1> DEFINE out == IF cur \in UserSlots THEN Refresh(k, cur, f) ELSE k
<1>1. out \in KType /\ Ready(out)
  BY RefreshTyped, RefreshReady
<1>2. Commit(out) /\ Rotate(out)
  BY DEF Schedule
<1> HIDE DEF out
<1>3. Kernel' = out /\ sleep' = out.sleep
  BY <1>1, <1>2, CommitTyped DEF Commit
<1>4. cur' \in Slots \cup {-1} /\ (cur' \in UserSlots => cur' \in present /\ out.sleep[cur'] = 0)
  BY <1>1, <1>2, RotateRunnable
<1> QED BY <1>1, <1>3, <1>4 DEF out

-----------------------------------------------------------------------------
(* The inductive invariant, and that every action preserves it. *)

Inv == TypeOK /\ KernelTasksReady /\ CurrentIsRunnable /\ QueueSound

(* Inv in terms of the kernel state the handlers pass along. *)
InvAt ==
    /\ Kernel \in KType /\ Ready(Kernel)
    /\ present \subseteq Slots /\ KernelSlots \subseteq present
    /\ cur \in Slots \cup {-1}
    /\ cur \in UserSlots => cur \in present /\ sleep[cur] = 0
    /\ sinceSwitch \in 0 .. SwitchDivider - 1
    /\ thermal \in Thermal /\ overlap \in BOOLEAN
    /\ overlap \/ SoundAt(Kernel, present)

LEMMA InvIsInvAt == Inv <=> InvAt
<1>1. TypeOK <=> /\ Kernel \in KType
                 /\ present \subseteq Slots
                 /\ cur \in Slots \cup {-1}
                 /\ sinceSwitch \in 0 .. SwitchDivider - 1
                 /\ thermal \in Thermal /\ overlap \in BOOLEAN
  BY DEF TypeOK, Kernel, KType
<1>2. KernelTasksReady <=> Ready(Kernel) /\ KernelSlots \subseteq present
  BY DEF KernelTasksReady, Ready, Kernel
<1>3. TypeOK => (QueueSound <=> (overlap \/ SoundAt(Kernel, present)))
  BY SoundIsQueueSound
<1> QED BY <1>1, <1>2, <1>3 DEF Inv, InvAt, CurrentIsRunnable

LEMMA InitInv == Init => Inv
<1> SUFFICES ASSUME Init PROVE Inv
  OBVIOUS
<1>1. TypeOK
  <2>1. present \subseteq Slots
    BY KernelAssumption DEF Init, Slots
  <2>2. sinceSwitch \in 0 .. SwitchDivider - 1
    BY KernelAssumption DEF Init
  <2>3. 0 \in 0 .. U8Max
    BY DEF U8Max
  <2>4. queue \in Seq(Record) /\ events \in Seq(Event)
    BY DEF Init
  <2> QED BY Zenon, <2>1, <2>2, <2>3, <2>4, SlotFacts DEF Init, TypeOK
<1>2. KernelTasksReady
  BY KernelAssumption, SlotFacts DEF Init, KernelTasksReady, KernelSlots
<1>3. CurrentIsRunnable
  BY DEF Init, CurrentIsRunnable, UserSlots
<1>4. QueueSound
  <2>1. queue = <<>> /\ Len(queue) = 0 /\ 1 .. Len(queue) = {}
    BY DEF Init
  <2>2. \A p \in UserSlots : sleep[p] # Frozen
    BY SlotFacts DEF Init
  <2> QED BY <2>1, <2>2, KernelAssumption
      DEF QueueSound, RecordsMatchTasks, RecordsUnique, FrozenIsQueued, FaultQueueLen
<1> QED BY <1>1, <1>2, <1>3, <1>4 DEF Inv

LEMMA ElapseReady ==
    ASSUME NEW k \in KType, Ready(k)
    PROVE  Ready(Elapse(k))
<1>1. \A s \in KernelSlots : Elapse(k).sleep[s] = 0
  BY SMTT(40), SlotFacts DEF Elapse, Ready, KType
<1> QED BY <1>1 DEF Ready

LEMMA ElapseSound ==
    ASSUME NEW k \in KType, NEW pres, SoundAt(k, pres)
    PROVE  SoundAt(Elapse(k), pres)
<1>1. /\ Elapse(k).queue = k.queue
      /\ Elapse(k).frame = k.frame
      /\ Elapse(k).count = k.count
  BY DEF Elapse, KType
<1>2. \A s \in Slots : Elapse(k).sleep[s] = Frozen <=> k.sleep[s] = Frozen
  <2> TAKE s \in Slots
  <2>1. Elapse(k).sleep[s] = IF k.sleep[s] \in 1 .. MaxSleep THEN k.sleep[s] - 1 ELSE k.sleep[s]
    BY DEF Elapse, KType
  <2>2. k.sleep[s] \in 0 .. Frozen
    BY DEF KType
  <2> QED BY <2>1, <2>2, KernelAssumption DEF Frozen
<1>3. \A i \in 1 .. Len(k.queue) : k.queue[i].pid \in Slots
  <2> TAKE i \in 1 .. Len(k.queue)
  <2>1. k.queue[i] \in Record
    BY SMTT(40), ElementOfSeq DEF KType
  <2> QED BY <2>1, SlotFacts DEF Record
<1>4. MatchAt(k.queue, Elapse(k).sleep, k.frame, k.count, pres)
  BY <1>2, <1>3 DEF SoundAt, MatchAt
<1>5. WaitsAt(k.queue, Elapse(k).sleep, pres)
  BY <1>2, SlotFacts DEF SoundAt, WaitsAt
<1> QED BY <1>1, <1>4, <1>5 DEF SoundAt

LEMMA TimerTickInv ==
    ASSUME InvAt, NEW f \in Frame, TimerTick(f)
    PROVE  InvAt'
<1> DEFINE k == Elapse(Kernel)
<1>1. k \in KType /\ Ready(k) /\ (overlap \/ SoundAt(k, present))
  BY ElapseTyped, ElapseReady, ElapseSound DEF InvAt
<1>2. sinceSwitch' \in 0 .. SwitchDivider - 1
  BY KernelAssumption DEF InvAt, TimerTick
<1>3. UNCHANGED <<present, thermal, overlap>>
  BY DEF TimerTick
<1>4. TypeOK
  BY InvIsInvAt DEF Inv
<1>5. cur \in UserSlots => k.sleep[cur] = 0
  BY SlotFacts DEF InvAt, Elapse, Kernel, KType
<1>6. (Commit(k) /\ cur' = cur) \/ (cur \notin KernelSlots /\ Schedule(k, f))
  BY DEF TimerTick
<1> HIDE DEF k
<1>7. CASE Commit(k) /\ cur' = cur
  <2>1. Kernel' = k /\ sleep' = k.sleep
    BY <1>1, <1>7, CommitTyped DEF Commit
  <2> QED BY <1>1, <1>2, <1>3, <1>5, <1>7, <2>1 DEF InvAt
<1>8. CASE Schedule(k, f)
  <2>1. /\ Kernel' \in KType /\ Ready(Kernel')
        /\ Kernel' = IF cur \in UserSlots THEN Refresh(k, cur, f) ELSE k
        /\ cur' \in Slots \cup {-1}
        /\ cur' \in UserSlots => cur' \in present /\ sleep'[cur'] = 0
    BY SMTT(40), <1>1, <1>4, <1>8, ScheduleStep DEF InvAt
  <2>2. overlap \/ SoundAt(Kernel', present)
    <3>1. Frozen # 0
      BY SlotFacts
    <3> QED BY <1>1, <1>5, <2>1, <3>1, RefreshSound DEF InvAt
  <2> QED BY <1>2, <1>3, <2>1, <2>2 DEF InvAt
<1> QED BY <1>6, <1>7, <1>8

LEMMA YieldKernelInv ==
    ASSUME InvAt, YieldKernel
    PROVE  InvAt'
<1>1. PICK f \in Frame : Schedule(Kernel, f)
  BY DEF YieldKernel
<1>2. TypeOK
  BY InvIsInvAt DEF Inv
<1>3. /\ Kernel' \in KType /\ Ready(Kernel') /\ Kernel' = Kernel
      /\ cur' \in Slots \cup {-1}
      /\ cur' \in UserSlots => cur' \in present /\ sleep'[cur'] = 0
  BY <1>1, <1>2, ScheduleStep DEF InvAt, YieldKernel
<1>4. UNCHANGED <<present, sinceSwitch, thermal, overlap>>
  BY DEF YieldKernel
<1> QED BY <1>3, <1>4 DEF InvAt

(* A syscall that only notes activity, whatever it does to the event ring. *)
LEMMA HeartbeatInv ==
    ASSUME InvAt, cur \in UserSlots,
           NEW k \in KType, Commit(k), k.queue = queue, k.sleep = sleep,
           k.frame = frame, k.count = count,
           UNCHANGED <<present, cur, sinceSwitch, thermal, overlap>>
    PROVE  InvAt'
<1>1. Kernel' = k /\ sleep' = sleep
  BY SMTT(40), CommitTyped DEF Commit
<1>2. Ready(k)
  BY SMTT(40) DEF InvAt, Ready, Kernel
<1>3. overlap \/ SoundAt(k, present)
  BY DEF InvAt, SoundAt, Kernel
<1> QED BY <1>1, <1>2, <1>3 DEF InvAt

LEMMA SyscallInv ==
    ASSUME InvAt, Syscall
    PROVE  InvAt'
<1> DEFINE k == NoteActivity(Kernel, cur)
<1>1. k \in KType
  BY NoteActivityTyped DEF InvAt, Syscall
<1>2. k.queue = queue /\ k.sleep = sleep /\ k.frame = frame /\ k.count = count
  BY DEF NoteActivity, Kernel
<1>3. Commit(k) /\ cur \in UserSlots /\ UNCHANGED <<present, cur, sinceSwitch, thermal, overlap>>
  BY DEF Syscall
<1> HIDE DEF k
<1> QED BY <1>1, <1>2, <1>3, HeartbeatInv

LEMMA FaultPollInv ==
    ASSUME InvAt, FaultPoll
    PROVE  InvAt'
<1> DEFINE k1 == NoteActivity(Kernel, cur)
           k == [k1 EXCEPT !.events = Tail(@)]
<1>1. k1 \in KType
  BY NoteActivityTyped DEF InvAt, FaultPoll
<1>2. k1.queue = queue /\ k1.sleep = sleep /\ k1.frame = frame /\ k1.count = count
      /\ k1.events = events /\ events # <<>>
  BY DEF NoteActivity, Kernel, FaultPoll
<1>3. Commit(k) /\ cur \in UserSlots /\ UNCHANGED <<present, cur, sinceSwitch, thermal, overlap>>
  BY DEF FaultPoll
<1> HIDE DEF k1
<1>4. Tail(k1.events) \in Seq(Event)
  BY <1>1, <1>2 DEF KType
<1>5. k \in KType
  BY Zenon, <1>1, <1>4 DEF KType
<1>6. k.queue = queue /\ k.sleep = sleep /\ k.frame = frame /\ k.count = count
  BY <1>1, <1>2 DEF KType
<1> HIDE DEF k
<1> QED BY <1>3, <1>5, <1>6, HeartbeatInv

LEMMA SleepInv ==
    ASSUME InvAt, NEW n \in 0 .. MaxSleep, NEW f \in Frame, Sleep(n, f)
    PROVE  InvAt'
<1> DEFINE k == NoteActivity(Kernel, cur)
           d == IF n < 1 THEN 1 ELSE n
           asleep == [k EXCEPT !.sleep = [@ EXCEPT ![cur] = d]]
<1>1. k \in KType /\ cur \in UserSlots /\ cur \in Slots
  BY NoteActivityTyped, SlotFacts DEF InvAt, Sleep
<1>2. d \in 0 .. Frozen /\ d # Frozen
  BY KernelAssumption DEF Frozen
<1>3. k.queue = queue /\ k.sleep = sleep /\ k.frame = frame /\ k.count = count
  BY DEF NoteActivity, Kernel
<1>4. Schedule(asleep, f) /\ UNCHANGED <<present, sinceSwitch, thermal, overlap>>
  BY DEF Sleep
<1>5. TypeOK
  BY InvIsInvAt DEF Inv
<1> HIDE DEF k, d
<1>6. asleep \in KType
  BY Zenon, <1>1, <1>2 DEF KType
<1>7. /\ asleep.queue = Kernel.queue
      /\ asleep.sleep = [Kernel.sleep EXCEPT ![cur] = d]
      /\ asleep.frame = Kernel.frame
      /\ asleep.count = Kernel.count
  BY <1>1, <1>3 DEF KType, Kernel
<1> HIDE DEF asleep
<1>8. Ready(asleep) /\ asleep.sleep[cur] # Frozen
  <2>1. \A s \in KernelSlots : s # cur /\ s \in Slots
    BY <1>1, SlotFacts
  <2> QED BY <1>1, <1>2, <1>7, <2>1 DEF InvAt, Ready, KType
<1>9. overlap \/ SoundAt(asleep, present)
  <2>1. Kernel.sleep[cur] # Frozen /\ Kernel \in KType
    BY <1>1, SlotFacts DEF InvAt, Kernel
  <2>2. \A u \in UserSlots : u # cur => /\ asleep.sleep[u] = Kernel.sleep[u]
                                        /\ asleep.frame[u] = Kernel.frame[u]
                                        /\ asleep.count[u] = Kernel.count[u]
    BY <1>7, <2>1, SlotFacts DEF KType
  <2> QED BY ZenonT(40), <1>1, <1>6, <1>7, <1>8, <2>1, <2>2, TouchAwake DEF InvAt
<1>10. /\ Kernel' \in KType /\ Ready(Kernel')
       /\ Kernel' = Refresh(asleep, cur, f)
       /\ cur' \in Slots \cup {-1}
       /\ cur' \in UserSlots => cur' \in present /\ sleep'[cur'] = 0
  BY <1>1, <1>4, <1>5, <1>6, <1>8, ScheduleStep DEF InvAt
<1>11. overlap \/ SoundAt(Kernel', present)
  BY SMTT(40), <1>1, <1>6, <1>8, <1>9, <1>10, RefreshSound DEF InvAt
<1> QED BY <1>4, <1>10, <1>11 DEF InvAt

LEMMA InterceptInv ==
    ASSUME InvAt, NEW f \in Frame, Intercept(f)
    PROVE  InvAt'
<1> DEFINE c == Least(Kernel.count[cur] + 1, U8Max)
           r == [pid |-> cur, kind |-> "exception", frame |-> f, count |-> c]
           published == Publish(Kernel, cur, "exception", f)
           k == FreezeTask(published, cur)
<1>1. cur \in UserSlots /\ cur \in Slots /\ cur \in present
      /\ Kernel \in KType /\ Kernel.sleep[cur] # Frozen /\ TypeOK
  BY SlotFacts, InvIsInvAt DEF InvAt, Intercept, Kernel, Inv
<1>2. k \in KType
  BY <1>1, PublishTyped, FreezeTyped DEF Kinds
<1>3. /\ Schedule(k, f) /\ overlap' = (overlap \/ Hung(k, cur, f))
      /\ UNCHANGED <<present, sinceSwitch, thermal>>
  BY DEF Intercept
<1>4. r \in Record
  <2>1. Kernel.count[cur] \in 0 .. U8Max
    BY SMTT(40), <1>1 DEF KType
  <2>2. c \in 1 .. U8Max
    BY <2>1 DEF Least, U8Max
  <2> QED BY <1>1, <2>2 DEF Record, Kinds
<1>5. /\ k.queue = IF Len(Kernel.queue) >= FaultQueueLen THEN Kernel.queue
                                                        ELSE Append(Kernel.queue, r)
      /\ k.sleep = [Kernel.sleep EXCEPT ![cur] = Frozen]
      /\ k.frame = Kernel.frame
      /\ k.count = [Kernel.count EXCEPT ![cur] = c]
  BY <1>1 DEF FreezeTask, Publish, KType
<1> HIDE DEF c
<1>6. r.pid = cur /\ r.frame = f /\ r.count = c
  BY SMTT(40)
<1> HIDE DEF r, k
<1>7. Ready(k)
  <2>1. \A s \in KernelSlots : s # cur /\ s \in Slots
    BY SMTT(40), <1>1, SlotFacts
  <2> QED BY SMTT(40), <1>1, <1>5, <2>1 DEF InvAt, Ready, KType
<1>8. /\ Kernel' \in KType /\ Ready(Kernel')
      /\ Kernel' = Refresh(k, cur, f)
      /\ cur' \in Slots \cup {-1}
      /\ cur' \in UserSlots => cur' \in present /\ sleep'[cur'] = 0
  BY <1>1, <1>2, <1>3, <1>7, ScheduleStep DEF InvAt
<1>9. ASSUME ~ overlap, ~ Hung(k, cur, f)
      PROVE  SoundAt(Kernel', present)
  <2>1. /\ Kernel'.queue = k.queue
        /\ Kernel'.sleep = k.sleep
        /\ Kernel'.frame = [k.frame EXCEPT ![cur] = f]
        /\ Kernel'.count = k.count
    BY <1>2, <1>8, <1>9 DEF Refresh, KType
  <2>2. SoundAt(Kernel, present)
    BY SMTT(40), <1>9 DEF InvAt
  <2> DEFINE k2 == Kernel'
             k1 == Kernel
  <2>3. /\ k2 \in KType
        /\ k2.queue = IF Len(k1.queue) >= FaultQueueLen THEN k1.queue ELSE Append(k1.queue, r)
        /\ k2.sleep = [k1.sleep EXCEPT ![cur] = Frozen]
        /\ k2.frame = [k1.frame EXCEPT ![cur] = r.frame]
        /\ k2.count = [k1.count EXCEPT ![cur] = r.count]
    BY <1>5, <1>6, <1>8, <2>1
  <2>4. k1 \in KType /\ SoundAt(k1, present) /\ k1.sleep[cur] # Frozen
    BY SMTT(40), <1>1, <2>2
  <2> HIDE DEF k1, k2
  <2>5. SoundAt(k2, present)
    BY SMTT(40), <1>1, <1>4, <1>6, <2>3, <2>4, AddRecord
  <2> QED BY <2>5 DEF k2
<1>10. overlap' \in BOOLEAN /\ (overlap' \/ SoundAt(Kernel', present))
  BY Zenon, <1>3, <1>9 DEF InvAt
<1> QED BY SMTT(40), <1>3, <1>8, <1>10 DEF InvAt

LEMMA ThermalPollInv ==
    ASSUME InvAt, ThermalPoll
    PROVE  InvAt'
<1>1. Kernel' = Kernel
  BY DEF ThermalPoll, Kernel
<1>2. UNCHANGED <<present, sleep, cur, sinceSwitch, overlap>> /\ thermal' \in Thermal
  BY DEF ThermalPoll, Thermal
<1> QED BY <1>1, <1>2 DEF InvAt

(* What resolving the front record leaves behind.  Removal, Resume and        *)
(* Rollback differ only in present and in the record's task's own entries.    *)
Resolved(record, p) ==
    /\ Kernel' \in KType
    /\ queue' = Tail(queue)
    /\ record \in Record /\ p \in UserSlots
    /\ present' \subseteq present
    /\ \A u \in present : u # p => u \in present'
    /\ p \in present' => /\ sleep'[p] = 0
                         /\ frame'[p] = record.frame
                         /\ record.count <= MaxFaults
    /\ \A s \in Slots : s # p => sleep'[s] = sleep[s]
    /\ \A u \in UserSlots : u # p => frame'[u] = frame[u] /\ count'[u] = count[u]
    /\ UNCHANGED <<cur, sinceSwitch, thermal, overlap>>

LEMMA ResolveEffect ==
    ASSUME InvAt, NEW action \in Recoveries, Resolve(action)
    PROVE  queue # <<>> /\ Resolved(Head(queue), Head(queue).pid)
<1> DEFINE record == Head(queue)
           p == record.pid
           popped == [Kernel EXCEPT !.queue = Tail(@)]
           removes == action = "Terminate" \/ (action = "Resume" /\ ~ Intact(record))
           out == CASE removes -> RemoveTask(popped, p)
                    [] action = "Rollback" -> RestoreTask(popped, p, record.frame)
                    [] OTHER -> UnfreezeTask(popped, p)
<1>1. /\ queue # <<>>
      /\ action = "Terminate" \/ ~ OverBudget(record)
      /\ present' = IF removes THEN present \ {p} ELSE present
      /\ Commit(out)
      /\ UNCHANGED <<cur, sinceSwitch, thermal, overlap>>
  BY DEF Resolve
<1>2. queue # <<>> /\ queue \in Seq(Record) /\ Kernel \in KType
  BY DEF Resolve, InvAt, Kernel, KType
<1>3. record \in Record /\ Tail(queue) \in Seq(Record)
  BY <1>2
<1>4. p \in UserSlots /\ p \in Slots /\ record.frame \in Frame /\ record.count \in Nat
  BY <1>3, SlotFacts DEF Record
<1>5. /\ popped \in KType /\ popped.queue = Tail(queue) /\ popped.sleep = sleep
      /\ popped.frame = frame /\ popped.count = count
  BY Zenon, <1>2, <1>3 DEF Kernel, KType
<1> HIDE DEF popped, record
<1>6. CASE removes
  <2> DEFINE gone == [popped EXCEPT !.sleep = [@ EXCEPT ![p] = 0]]
             k1 == IF p \in present THEN ResetStall(gone, p) ELSE popped
  <2>1. gone \in KType
    BY Zenon, <1>4, <1>5, WakeTyped
  <2>2. k1 \in KType
    BY <2>1, <1>4, <1>5, ResetStallTyped
  <2>3. /\ k1.queue = popped.queue /\ k1.frame = popped.frame /\ k1.count = popped.count
        /\ k1.sleep = popped.sleep \/ k1.sleep = [popped.sleep EXCEPT ![p] = 0]
    BY <1>5 DEF ResetStall, KType
  <2>4. out = [k1 EXCEPT !.count = [@ EXCEPT ![p] = 0]]
    BY <1>6 DEF RemoveTask
  <2> HIDE DEF k1, gone, out
  <2>5. /\ out \in KType /\ out.queue = k1.queue /\ out.sleep = k1.sleep
        /\ out.frame = k1.frame /\ out.count = [k1.count EXCEPT ![p] = 0]
    <3>1. 0 \in 0 .. U8Max
      BY DEF U8Max
    <3> QED BY Zenon, <2>2, <2>4, <1>4, <3>1 DEF KType
  <2>6. Kernel' = out /\ sleep' = out.sleep /\ frame' = out.frame /\ count' = out.count
        /\ queue' = out.queue
    BY <1>1, <2>5, CommitTyped DEF Commit
  <2>7. sleep \in [Slots -> 0 .. Frozen] /\ count \in [UserSlots -> 0 .. U8Max]
    BY <1>2 DEF Kernel, KType
  <2>8. present' = present \ {p}
    BY SMTT(40), <1>1, <1>6
  <2>9. Resolved(record, p)
    <3> HIDE DEF p
    <3> QED BY Zenon, <1>1, <1>3, <1>4, <1>5, <2>3, <2>5, <2>6, <2>7, <2>8 DEF Resolved
  <2> QED BY <1>2, <2>9 DEF record
<1>7. CASE ~ removes
  <2>1. action # "Terminate" /\ record.count <= MaxFaults
    BY <1>1, <1>4, <1>7, KernelAssumption DEF OverBudget
  <2>2. present' = present
    BY <1>1, <1>7
  <2> DEFINE base == IF action = "Rollback" THEN [popped EXCEPT !.frame = [@ EXCEPT ![p] = record.frame]]
                                            ELSE popped
             woken == [base EXCEPT !.sleep = [@ EXCEPT ![p] = 0]]
  <2>3. base \in KType /\ base.queue = Tail(queue) /\ base.sleep = sleep /\ base.count = count
        /\ base.frame = IF action = "Rollback" THEN [frame EXCEPT ![p] = record.frame] ELSE frame
    BY Zenon, <1>4, <1>5 DEF KType
  <2>4. out = IF p \in present THEN ResetStall(woken, p) ELSE popped
    <3>1. CASE action = "Rollback"
      <4>1. out = RestoreTask(popped, p, record.frame)
        BY <3>1, <1>7
      <4> QED BY <3>1, <4>1 DEF RestoreTask, UnfreezeTask
    <3>2. CASE action # "Rollback"
      <4>1. out = UnfreezeTask(popped, p)
        BY <3>2, <1>7
      <4> QED BY <3>2, <4>1 DEF UnfreezeTask
    <3> QED BY <3>1, <3>2
  <2> HIDE DEF base
  <2>5. woken \in KType
    BY ZenonT(40), <2>3, <1>4, WakeTyped
  <2>6. ResetStall(woken, p) \in KType
    BY <2>5, <1>4, ResetStallTyped
  <2>7. /\ ResetStall(woken, p).queue = Tail(queue)
        /\ ResetStall(woken, p).sleep = [sleep EXCEPT ![p] = 0]
        /\ ResetStall(woken, p).frame = base.frame
        /\ ResetStall(woken, p).count = count
    BY <2>3 DEF ResetStall, KType
  <2> HIDE DEF woken
  <2>8. out \in KType /\ out.queue = Tail(queue) /\ out.count = count
        /\ (out.sleep = sleep \/ out.sleep = [sleep EXCEPT ![p] = 0])
        /\ (out.frame = frame \/ out.frame = [frame EXCEPT ![p] = record.frame])
        /\ (p \in present => out.sleep = [sleep EXCEPT ![p] = 0] /\ out.frame = base.frame)
    BY <1>5, <2>3, <2>4, <2>6, <2>7
  <2> HIDE DEF out
  <2>9. Kernel' = out /\ sleep' = out.sleep /\ frame' = out.frame /\ count' = out.count
        /\ queue' = out.queue
    BY <1>1, <2>8, CommitTyped DEF Commit
  <2>10. sleep \in [Slots -> 0 .. Frozen] /\ frame \in [UserSlots -> Frame]
    BY <1>2 DEF Kernel, KType
  <2>11. p \in present => frame'[p] = record.frame
    <3>1. CASE action = "Rollback"
      BY Zenon, <3>1, <1>4, <2>3, <2>8, <2>9, <2>10
    <3>2. CASE action = "Resume"
      BY <3>2, <1>7, <2>3, <2>8, <2>9 DEF Intact
    <3> QED BY SMTT(40), <2>1, <3>1, <3>2 DEF Recoveries
  <2>12. Resolved(record, p)
    <3> HIDE DEF p
    <3> QED BY Zenon, <1>1, <1>3, <1>4, <2>1, <2>2, <2>8, <2>9, <2>10, <2>11 DEF Resolved
  <2> QED BY <1>2, <2>12 DEF record
<1> QED BY <1>6, <1>7

LEMMA ResolveInv ==
    ASSUME InvAt, NEW action \in Recoveries, Resolve(action)
    PROVE  InvAt'
<1> DEFINE p == Head(queue).pid
<1>1. /\ Kernel' \in KType
      /\ queue # <<>> /\ queue' = Tail(queue)
      /\ Head(queue) \in Record /\ p \in UserSlots
      /\ present' \subseteq present
      /\ \A u \in present : u # p => u \in present'
      /\ p \in present' => sleep'[p] = 0
      /\ \A s \in Slots : s # p => sleep'[s] = sleep[s]
      /\ \A u \in UserSlots : u # p => frame'[u] = frame[u] /\ count'[u] = count[u]
      /\ UNCHANGED <<cur, sinceSwitch, thermal, overlap>>
  BY ResolveEffect DEF Resolved
<1>2. cur = 0
  BY SMTT(40) DEF Resolve
<1> HIDE DEF p
<1>3. KernelSlots \subseteq present' /\ Ready(Kernel')
  <2>1. \A s \in KernelSlots : s # p /\ s \in Slots
    BY <1>1, SlotFacts
  <2> QED BY Zenon, <1>1, <2>1 DEF InvAt, Ready, Kernel
<1>4. overlap \/ SoundAt(Kernel', present')
  <2>1. SUFFICES ASSUME ~ overlap PROVE SoundAt(Kernel', present')
    BY SMTT(40)
  <2> DEFINE k == Kernel
             k2 == Kernel'
  <2>2. k \in KType /\ SoundAt(k, present) /\ k.queue # <<>> /\ p = Head(k.queue).pid
    BY SMTT(40), <1>1, <2>1 DEF InvAt, Kernel, p
  <2>3. /\ k2 \in KType /\ k2.queue = Tail(k.queue)
        /\ p \notin present' \/ k2.sleep[p] # Frozen
        /\ \A u \in UserSlots : u # p => /\ k2.sleep[u] = k.sleep[u]
                                         /\ k2.frame[u] = k.frame[u]
                                         /\ k2.count[u] = k.count[u]
    <3>1. k2 \in KType /\ k2.queue = Tail(k.queue)
      BY ZenonT(40), <1>1 DEF Kernel
    <3>2. p \notin present' \/ k2.sleep[p] # Frozen
      <4>1. k2.sleep = sleep'
        BY SMTT(40) DEF Kernel
      <4>2. Frozen # 0
        BY SlotFacts
      <4> HIDE DEF k2
      <4> QED BY SMTT(40), <1>1, <4>1, <4>2
    <3>3. \A u \in UserSlots : u # p => k2.sleep[u] = k.sleep[u]
      <4>1. k2.sleep = sleep' /\ k.sleep = sleep
        BY DEF Kernel
      <4>2. \A u \in UserSlots : u \in Slots
        BY SMTT(40), SlotFacts
      <4> HIDE DEF k, k2
      <4> QED BY SMTT(40), <1>1, <4>1, <4>2
    <3>4. \A u \in UserSlots : u # p => k2.frame[u] = k.frame[u] /\ k2.count[u] = k.count[u]
      BY SMTT(40), <1>1 DEF Kernel
    <3> QED BY SMTT(40), <3>1, <3>2, <3>3, <3>4
  <2> HIDE DEF k, k2
  <2>4. SoundAt(k2, present')
    <3>1. p \in UserSlots /\ present' \subseteq present /\ \A u \in present : u # p => u \in present'
      BY <1>1
    <3> QED BY <2>2, <2>3, <3>1, PopRecord
  <2> QED BY <2>4 DEF k2
<1>5. cur \notin UserSlots
  BY <1>2, SlotFacts DEF KernelSlots
<1> QED BY <1>1, <1>3, <1>4, <1>5 DEF InvAt

-----------------------------------------------------------------------------
LEMMA NextInv ==
    ASSUME Inv, [Next]_vars
    PROVE  Inv'
<1>0. InvAt
  BY InvIsInvAt
<1>1. InvAt'
  <2>1. ASSUME NEW f \in Frame, TimerTick(f) PROVE InvAt'
    BY <1>0, <2>1, TimerTickInv
  <2>2. CASE YieldKernel
    BY <1>0, <2>2, YieldKernelInv
  <2>3. CASE Syscall
    BY <1>0, <2>3, SyscallInv
  <2>4. CASE FaultPoll
    BY <1>0, <2>4, FaultPollInv
  <2>5. ASSUME NEW n \in 0 .. MaxSleep, NEW f \in Frame, Sleep(n, f) PROVE InvAt'
    BY SMTT(40), <1>0, <2>5, SleepInv
  <2>6. ASSUME NEW f \in Frame, Intercept(f) PROVE InvAt'
    BY <1>0, <2>6, InterceptInv
  <2>7. CASE ThermalPoll
    BY <1>0, <2>7, ThermalPollInv
  <2>8. ASSUME NEW action \in Recoveries, Resolve(action) PROVE InvAt'
    BY <1>0, <2>8, ResolveInv
  <2>9. CASE UNCHANGED vars
    <3>1. Kernel' = Kernel
      BY <2>9 DEF vars, Kernel
    <3> QED BY SMTT(40), <1>0, <2>9, <3>1 DEF vars, InvAt
  <2> QED BY SMTT(40), <2>1, <2>2, <2>3, <2>4, <2>5, <2>6, <2>7, <2>8, <2>9 DEF Next
<1>2. InvAt' => Inv'
  BY InvIsInvAt, PTL
<1> QED BY <1>1, <1>2

(* The state of every slot, frame, watchdog clock, fault record and event    *)
(* stays well typed: no handler of sched.rs or fault.rs writes a value        *)
(* outside its range, for any number of tasks.                                *)
THEOREM TypeCorrect == Spec => []TypeOK
<1>1. Inv => TypeOK
  BY DEF Inv
<1> QED BY <1>1, InitInv, NextInv, PTL DEF Spec

(* After every interrupt the CPU runs a kernel task or a present task that is *)
(* neither frozen nor asleep.                                                *)
THEOREM CpuNeverRunsAFrozenTask == Spec => []CurrentIsRunnable
<1>1. Inv => CurrentIsRunnable
  BY DEF Inv
<1> QED BY <1>1, InitInv, NextInv, PTL DEF Spec

(* Until an exception coincides with a hang report, the fault queue is in     *)
(* one-to-one correspondence with the frozen tasks and is never full.         *)
THEOREM FaultQueueIsSound == Spec => []QueueSound
<1>1. Inv => QueueSound
  BY DEF Inv
<1> QED BY <1>1, InitInv, NextInv, PTL DEF Spec

(* Only fault::resolve ends a freeze. *)
LEMMA OnlyResolveThaws ==
    ASSUME InvAt, [Next]_vars, NEW p \in UserSlots, Thaws(p)
    PROVE  \E action \in Recoveries : Resolve(action)
<1>0. /\ TypeOK /\ p \in Slots /\ sleep[p] = Frozen /\ sleep'[p] # Frozen
      /\ Kernel \in KType /\ Ready(Kernel) /\ KernelSlots \subseteq present
      /\ sleep \in [Slots -> 0 .. Frozen] /\ Frozen # 0
      /\ cur \in UserSlots => cur # p
  BY SMTT(40), InvIsInvAt, SlotFacts DEF Thaws, Inv, InvAt, TypeOK
<1>1. \A k \in KType, f \in Frame :
         Ready(k) /\ k.sleep[p] = Frozen /\ Schedule(k, f) => sleep'[p] = Frozen
  <2> SUFFICES ASSUME NEW k \in KType, NEW f \in Frame,
                      Ready(k), k.sleep[p] = Frozen, Schedule(k, f)
               PROVE  sleep'[p] = Frozen
    BY SMTT(40)
  <2>1. Kernel' = IF cur \in UserSlots THEN Refresh(k, cur, f) ELSE k
    BY <1>0, ScheduleStep
  <2>2. ASSUME cur \in UserSlots
        PROVE  \/ Refresh(k, cur, f).sleep = k.sleep
               \/ Refresh(k, cur, f).sleep = [k.sleep EXCEPT ![cur] = Frozen]
    BY SMTT(40) DEF Refresh, FreezeTask, Publish, KType
  <2>3. Kernel'.sleep[p] = Frozen
    BY Zenon, <1>0, <2>1, <2>2 DEF KType
  <2> QED BY SMTT(40), <2>3 DEF Kernel
<1>2. ASSUME NEW f \in Frame, TimerTick(f) PROVE FALSE
  <2> DEFINE k == Elapse(Kernel)
  <2>1. k \in KType /\ Ready(k)
    BY <1>0, ElapseTyped, ElapseReady
  <2>2. k.sleep[p] = Frozen
    <3>1. k.sleep[p] = IF sleep[p] \in 1 .. MaxSleep THEN sleep[p] - 1 ELSE sleep[p]
      BY <1>0 DEF Elapse, Kernel
    <3>2. Frozen \notin 1 .. MaxSleep
      BY KernelAssumption DEF Frozen
    <3> QED BY <1>0, <3>1, <3>2
  <2>3. Commit(k) \/ Schedule(k, f)
    BY SMTT(40), <1>2 DEF TimerTick
  <2> HIDE DEF k
  <2> QED BY <1>0, <1>1, <2>1, <2>2, <2>3 DEF Commit
<1>3. CASE YieldKernel
  BY SMTT(40), <1>0, <1>1, <1>3 DEF YieldKernel, Kernel
<1>4. CASE Syscall \/ FaultPoll
  BY SMTT(40), <1>0, <1>4 DEF Syscall, FaultPoll, Commit, NoteActivity, Kernel
<1>5. ASSUME NEW n \in 0 .. MaxSleep, NEW f \in Frame, Sleep(n, f) PROVE FALSE
  <2> DEFINE k == NoteActivity(Kernel, cur)
             d == IF n < 1 THEN 1 ELSE n
             asleep == [k EXCEPT !.sleep = [@ EXCEPT ![cur] = d]]
  <2>1. k \in KType /\ cur \in UserSlots /\ k.sleep = sleep /\ Schedule(asleep, f)
    BY <1>0, <1>5, NoteActivityTyped DEF Sleep, NoteActivity, Kernel
  <2>2. d \in 0 .. Frozen
    BY KernelAssumption DEF Frozen
  <2> HIDE DEF k, d
  <2>3. asleep \in KType /\ asleep.sleep = [sleep EXCEPT ![cur] = d]
    BY ZenonT(40), <2>1, <2>2, SlotFacts DEF KType
  <2> HIDE DEF asleep
  <2>4. Ready(asleep) /\ asleep.sleep[p] = Frozen
    BY <1>0, <2>1, <2>3, SlotFacts DEF Ready, Kernel
  <2> QED BY Zenon, <1>0, <1>1, <2>1, <2>3, <2>4
<1>6. ASSUME NEW f \in Frame, Intercept(f) PROVE FALSE
  <2> DEFINE k == FreezeTask(Publish(Kernel, cur, "exception", f), cur)
  <2>1. k \in KType /\ cur \in UserSlots /\ Schedule(k, f)
    BY <1>0, <1>6, PublishTyped, FreezeTyped DEF Intercept, Kinds
  <2>2. k.sleep = [sleep EXCEPT ![cur] = Frozen]
    BY SMTT(40), <1>0 DEF FreezeTask, Publish, Kernel, KType
  <2> HIDE DEF k
  <2>3. Ready(k) /\ k.sleep[p] = Frozen
    BY SMTT(40), <1>0, <2>1, <2>2, SlotFacts DEF Ready, Kernel
  <2> QED BY Zenon, <1>0, <1>1, <2>1, <2>3
<1>7. CASE ThermalPoll \/ UNCHANGED vars
  BY <1>0, <1>7 DEF ThermalPoll, vars
<1> QED BY SMTT(40), <1>2, <1>3, <1>4, <1>5, <1>6, <1>7 DEF Next

(* Resume and Rollback bring a frozen task back exactly as its record sealed  *)
(* it, and nothing else brings it back.                                       *)
THEOREM ThawIsExact == Spec => ThawRestoresSnapshot
<1>1. ASSUME Inv, [Next]_vars
      PROVE  [\A p \in UserSlots : Thaws(p) =>
                /\ queue # <<>>
                /\ Head(queue).pid = p
                /\ frame'[p] = Head(queue).frame]_vars
  <2> SUFFICES ASSUME NEW p \in UserSlots, Thaws(p)
               PROVE  queue # <<>> /\ Head(queue).pid = p /\ frame'[p] = Head(queue).frame
    OBVIOUS
  <2>1. InvAt
    BY SMTT(40), <1>1, InvIsInvAt
  <2>2. queue # <<>> /\ Resolved(Head(queue), Head(queue).pid)
    BY <1>1, <2>1, OnlyResolveThaws, ResolveEffect
  <2> QED BY Zenon, <2>2, SlotFacts DEF Resolved, Thaws
<1> QED BY <1>1, InitInv, NextInv, PTL DEF Spec, ThawRestoresSnapshot

(* Until an exception coincides with a hang report, a task charged more than  *)
(* MaxFaults faults is never given back to the scheduler.                     *)
THEOREM BudgetIsFinal == Spec => BudgetLocks
<1>1. ASSUME Inv, [Next]_vars
      PROVE  [\A p \in UserSlots : Thaws(p) => overlap \/ count[p] <= MaxFaults]_vars
  <2> SUFFICES ASSUME NEW p \in UserSlots, Thaws(p), ~ overlap
               PROVE  count[p] <= MaxFaults
    OBVIOUS
  <2>1. InvAt
    BY <1>1, InvIsInvAt
  <2>2. queue # <<>> /\ Resolved(Head(queue), Head(queue).pid)
    BY SMTT(40), <1>1, <2>1, OnlyResolveThaws, ResolveEffect
  <2>3. Head(queue).pid = p /\ Head(queue).count <= MaxFaults
    BY <2>2, SlotFacts DEF Resolved, Thaws
  <2>4. queue \in Seq(Record) /\ RecordsMatchTasks
    BY <1>1 DEF Inv, QueueSound, TypeOK
  <2>5. 1 \in 1 .. Len(queue) /\ queue[1] = Head(queue)
    BY <2>2, <2>4
  <2> QED BY <2>3, <2>4, <2>5 DEF RecordsMatchTasks
<1> QED BY <1>1, InitInv, NextInv, PTL DEF Spec, BudgetLocks

=============================================================================
