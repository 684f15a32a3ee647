------------------------------- MODULE IpcBus -------------------------------
(***************************************************************************)
(* aios-ipc bus.rs and the state transfer of aios-live-update: a bounded   *)
(* queue of packets with priority insertion, backpressure, deduplication   *)
(* and the freeze/unfreeze protocol of a hot swap.  Every call holds the   *)
(* bus exclusively (a &mut borrow, or the mutex of SharedIpcBus), so a     *)
(* call is one action; what interleaves is which caller comes next.        *)
(*                                                                         *)
(* Beside it the ring transport (ring_transport.rs): one ring per (source, *)
(* target) pair carries serialised heavy packets.  The ring is the bounded *)
(* byte stream that RingBuffer implements, seen here through the packets   *)
(* whose bytes it holds.  Bus and transport share no state.                *)
(***************************************************************************)
EXTENDS Naturals, Sequences, SequencesExt, FiniteSets

CONSTANTS MaxQueue,      \* max_queue_size
          DropOldest,    \* BackpressurePolicy::DropOldest rather than Reject
          Dedup,         \* with_dedup
          PlainSends,    \* whether callers of send and of send_priority mix
          Ids,           \* packet ids; a retry reuses the id of its first try
          Priorities,    \* header.priority
          Blocks,        \* target blocks
          Pairs,         \* (source_block, target_block) of the rings
          RingCapacity,  \* ring_capacity, in units of packet size
          Sizes,         \* serialised sizes of heavy packets
          MaxSends       \* bound: packets accepted in one behaviour

BusAssumption ==
  /\ MaxQueue \in Nat \ {0} /\ MaxSends \in Nat
  /\ {DropOldest, Dedup, PlainSends} \subseteq BOOLEAN
  /\ Priorities \subseteq Nat /\ Blocks \subseteq Nat \ {0}
  /\ RingCapacity \in Nat \ {0} /\ Sizes \subseteq Nat \ {0}

VARIABLES queue,      \* VecDeque of packets; at is a history tag, the
                      \* packet's place in the order of acceptance
          seen,       \* seen_packet_ids
          frozen,
          held,       \* the packets freeze() returned to the updater
          received,   \* history: packets handed to a receiver, in order
          gone,       \* history: packets evicted or flushed
          ring,       \* per pair: the packets whose bytes are in the ring;
                      \* a pair without an entry in rings has none
          sent,       \* history: number of sends so far, a packet's tag
          accepted,   \* history: tags send_via_ring answered Ok(true) for
          delivered   \* history, per pair: tags try_receive returned, in order

busVars == <<queue, seen, frozen, held, received, gone>>
ringVars == <<ring, sent, accepted, delivered>>
vars == <<queue, seen, frozen, held, received, gone, ring, sent, accepted, delivered>>

Packet == [id : Ids, priority : Priorities, target : Blocks, at : 1..MaxSends]

Accepted == Len(queue) + Len(held) + Len(received) + Cardinality(gone)
Headers == [id : Ids, priority : Priorities, target : Blocks]
Stamp(h) == [id |-> h.id, priority |-> h.priority, target |-> h.target,
             at |-> Accepted + 1]
IdsOf(s) == {s[i].id : i \in DOMAIN s}

\* A send that every early return lets through: not frozen, not a duplicate,
\* and either room or an eviction.
IsDuplicate(h) == Dedup /\ h.id \in seen
Admitted(h) ==
  /\ ~frozen
  /\ ~IsDuplicate(h)
  /\ Len(queue) < MaxQueue \/ DropOldest
Full == Len(queue) >= MaxQueue

\* The rest of the queue once a packet is evicted at one end, and that packet.
WithoutFront == IF Full THEN Tail(queue) ELSE queue
WithoutBack  == IF Full THEN Front(queue) ELSE queue
Forget(s, p) == s \ {p.id}

----------------------------------------------------------------------------
\* send: appended; DropOldest evicts the front.
Send(h) ==
  /\ Accepted < MaxSends
  /\ Admitted(h)
  /\ queue' = Append(WithoutFront, Stamp(h))
  /\ seen' = (IF Full THEN Forget(seen, Head(queue)) ELSE seen) \cup {h.id}
  /\ gone' = IF Full THEN gone \cup {Head(queue)} ELSE gone
  /\ UNCHANGED <<frozen, held, received>>

\* Before the first packet of lower priority, else at the end.
Position(q, priority) ==
  LET lower == {i \in DOMAIN q : q[i].priority < priority}
  IN IF lower = {} THEN Len(q) + 1 ELSE CHOOSE i \in lower : \A j \in lower : i <= j

\* send_priority: inserted by priority; DropOldest evicts the back.
SendPriority(h) ==
  /\ Accepted < MaxSends
  /\ Admitted(h)
  /\ queue' = InsertAt(WithoutBack, Position(WithoutBack, h.priority), Stamp(h))
  /\ seen' = (IF Full THEN Forget(seen, Last(queue)) ELSE seen) \cup {h.id}
  /\ gone' = IF Full THEN gone \cup {Last(queue)} ELSE gone
  /\ UNCHANGED <<frozen, held, received>>

Receive ==
  /\ queue # <<>>
  /\ queue' = Tail(queue)
  /\ seen' = Forget(seen, Head(queue))
  /\ received' = Append(received, Head(queue))
  /\ UNCHANGED <<frozen, held, gone>>

Flush ==
  /\ queue' = <<>>
  /\ seen' = {}
  /\ gone' = gone \cup Range(queue)
  /\ UNCHANGED <<frozen, held, received>>

\* reroute: every queued packet for one block now goes to another.
Reroute(old, new) ==
  /\ old # new
  /\ queue' = [i \in DOMAIN queue |->
                 IF queue[i].target = old THEN [queue[i] EXCEPT !.target = new]
                 ELSE queue[i]]
  /\ UNCHANGED <<seen, frozen, held, received, gone>>

----------------------------------------------------------------------------
(* The hot swap: extract_state freezes and takes the packets, the updater  *)
(* may redirect them, restore_state puts them back in front.               *)

\* freeze that refuses no sender afterwards.
FreezeOpen ==
  /\ ~frozen
  /\ frozen' = FALSE
  /\ held' = queue
  /\ queue' = <<>>
  /\ seen' = {}
  /\ UNCHANGED <<received, gone>>

Freeze ==
  /\ ~frozen
  /\ frozen' = TRUE
  /\ held' = queue
  /\ queue' = <<>>
  /\ seen' = {}
  /\ UNCHANGED <<received, gone>>

RerouteSnapshot(old, new) ==
  /\ frozen /\ old # new
  /\ held' = [i \in DOMAIN held |->
                IF held[i].target = old THEN [held[i] EXCEPT !.target = new]
                ELSE held[i]]
  /\ UNCHANGED <<queue, seen, frozen, received, gone>>

Unfreeze ==
  /\ frozen
  /\ frozen' = FALSE
  /\ queue' = held \o queue
  /\ seen' = seen \cup IdsOf(held)
  /\ held' = <<>>
  /\ UNCHANGED <<received, gone>>

----------------------------------------------------------------------------
(* The ring transport.                                                     *)

Bytes(q) == FoldSeq(LAMBDA p, n : p.size + n, 0, q)

\* send_via_ring of a heavy packet: written whole, or Ok(false) when the ring
\* has too little room; the caller then uses the bus.  (A light payload never
\* reaches a ring and changes nothing.)
SendViaRing(pair, size) ==
  /\ sent < MaxSends
  /\ sent' = sent + 1
  /\ IF Bytes(ring[pair]) + size <= RingCapacity - 1
     THEN /\ ring' = [ring EXCEPT ![pair] =
                        Append(@, [tag |-> sent + 1, size |-> size])]
          /\ accepted' = accepted \cup {sent + 1}
     ELSE UNCHANGED <<ring, accepted>>
  /\ UNCHANGED delivered

\* What bincode::deserialize makes of the bytes of one or more packets: the
\* first packet; bytes after it are ignored.
Deserialize(q) == Head(q)

\* try_receive_from_ring that leaves the bytes it has read in the ring.
TryReceiveKeeps(pair) ==
  /\ ring[pair] # <<>>
  /\ delivered' = [delivered EXCEPT ![pair] = Append(@, Deserialize(ring[pair]).tag)]
  /\ UNCHANGED <<ring, sent, accepted>>

\* try_receive_from_ring: reads every available byte and deserialises it as one
\* packet.
TryReceiveFromRing(pair) ==
  /\ ring[pair] # <<>>
  /\ delivered' = [delivered EXCEPT ![pair] = Append(@, Deserialize(ring[pair]).tag)]
  /\ ring' = [ring EXCEPT ![pair] = <<>>]
  /\ UNCHANGED <<sent, accepted>>

----------------------------------------------------------------------------
BusInit ==
  /\ queue = <<>> /\ seen = {} /\ frozen = FALSE
  /\ held = <<>> /\ received = <<>> /\ gone = {}

RingInit ==
  /\ ring = [pair \in Pairs |-> <<>>] /\ delivered = [pair \in Pairs |-> <<>>]
  /\ sent = 0 /\ accepted = {}

Init == BusInit /\ RingInit

BusNext ==
  /\ \/ \E h \in Headers : (PlainSends /\ Send(h)) \/ SendPriority(h)
     \/ Receive \/ Flush \/ Freeze \/ Unfreeze
     \/ \E old, new \in Blocks : Reroute(old, new) \/ RerouteSnapshot(old, new)
  /\ UNCHANGED ringVars

RingNext ==
  /\ \E pair \in Pairs : TryReceiveFromRing(pair) \/ \E size \in Sizes : SendViaRing(pair, size)
  /\ UNCHANGED busVars

Next == BusNext \/ RingNext

Spec == Init /\ [][Next]_vars

----------------------------------------------------------------------------
\* The shapes of the bus and of the updater's snapshot.
TypeOK ==
  /\ queue \in Seq(Packet) /\ held \in Seq(Packet) /\ received \in Seq(Packet)
  /\ seen \subseteq Ids
  /\ frozen \in BOOLEAN
  /\ gone \subseteq Packet

\* Backpressure bounds the memory of the bus through a hot swap too: what is
\* queued and what the updater holds together never exceed max_queue_size
\* (send, send_priority, freeze, unfreeze).
Bounded == Len(queue) + Len(held) <= MaxQueue

\* The duplicate filter and the queue agree: with deduplication on, the ids
\* remembered are exactly those queued and no id is queued twice, so a resend is
\* dropped only while its first copy is still there to be handled.
FilterMatchesQueue ==
  Dedup => /\ seen = IdsOf(queue)
           /\ \A i, j \in DOMAIN queue : queue[i].id = queue[j].id => i = j

\* "IPC bus freeze prevents message loss during hot-swap": every packet the bus
\* ever accepted is in exactly one place, queued, held by the updater, received,
\* or evicted, and none is there twice.
NoPacketLost ==
  LET Tags(s) == {s[i].at : i \in DOMAIN s}
  IN /\ Tags(queue) \cup Tags(held) \cup Tags(received)
          \cup {p.at : p \in gone} = 1..Accepted
     /\ Cardinality(Tags(queue)) = Len(queue)

\* One packet goes before another: higher priority, or the same and older.
Before(p, q) == \/ p.priority > q.priority
                \/ p.priority = q.priority /\ p.at < q.at

\* Senders that all use send_priority are served by priority, first come first
\* served within one (send_priority's position, unfreeze's order).
ServedByPriority ==
  ~PlainSends =>
    /\ \A i, j \in DOMAIN queue : i < j => Before(queue[i], queue[j])
    /\ \A i, j \in DOMAIN held : i < j => Before(held[i], held[j])

InRing(pair) == {ring[pair][i].tag : i \in DOMAIN ring[pair]}

\* Whatever the sizes and the refusals, a pair sees its own packets only, each
\* at most once, in the order they were sent, and none that is still in the
\* ring (one ring per pair; write and read of the whole stream).
DeliveredInOrder ==
  /\ \A pair \in Pairs :
       /\ \A i, j \in DOMAIN delivered[pair] :
            i < j => delivered[pair][i] < delivered[pair][j]
       /\ Range(delivered[pair]) \subseteq accepted \ InRing(pair)
  /\ \A p, q \in Pairs : p # q => Range(delivered[p]) \cap Range(delivered[q]) = {}
=============================================================================
