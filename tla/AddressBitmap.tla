----------------------------- MODULE AddressBitmap -----------------------------
(***************************************************************************)
(* SegmentedAddressBitmap (utils/segmented_address_bitmap.h): a set of     *)
(* addresses as bits of segments that are allocated on demand, found       *)
(* through a map and, before it, through a small direct-mapped cache.  The *)
(* cache also remembers that a segment does not exist.                     *)
(*                                                                         *)
(* Operations only; HeapWalks composes them with the scans that mark.  An  *)
(* address is its slot number, address / SLOT_GRANULARITY.  A pointer to a *)
(* segment is the index under which it was created.                        *)
(***************************************************************************)
EXTENDS Integers, FiniteSets

CONSTANTS
  SegmentBits,  \* kSegmentBitCount
  CacheSize     \* SEGMENT_CACHE_SIZE

ASSUME BitmapAssumption == SegmentBits \in Nat \ {0} /\ CacheSize \in Nat \ {0}

VARIABLES
  segments,     \* _segment_map with what it points to: segment index -> bits set
  cache         \* _segment_cache

bitmapVars == <<segments, cache>>

Invalid == -1   \* kInvalidSegmentIndex
NullSegment == -1

SegmentOf(a) == a \div SegmentBits
BitOf(a) == a % SegmentBits

BitmapInit ==
  /\ segments = [s \in {} |-> {}]
  /\ cache = [k \in 0 .. CacheSize - 1 |-> [index |-> Invalid, segment |-> NullSegment]]

CacheSlot(s) == s % CacheSize

(* update_cache_entry *)
Cached(s, p) == [cache EXCEPT ![CacheSlot(s)] = [index |-> s, segment |-> p]]

(* get_segment: what the entry says if it is for s, else what the map says *)
Segment(s) ==
  IF cache[CacheSlot(s)].index = s THEN cache[CacheSlot(s)].segment
  ELSE IF s \in DOMAIN segments THEN s ELSE NullSegment

HasBit(a) == Segment(SegmentOf(a)) # NullSegment /\ BitOf(a) \in segments[Segment(SegmentOf(a))]

(* is_marked; it changes the cache alone *)
IsMarked(a) ==
  /\ cache' = Cached(SegmentOf(a), Segment(SegmentOf(a)))
  /\ UNCHANGED segments

MarkExisting(a) ==
  /\ Segment(SegmentOf(a)) # NullSegment
  /\ segments' = [segments EXCEPT ![Segment(SegmentOf(a))] = @ \cup {BitOf(a)}]
  /\ cache' = Cached(SegmentOf(a), Segment(SegmentOf(a)))

(* Mutant: create_segment leaves the entry that says there is no segment.  *)
MarkNewKeepsMiss(a) ==
  /\ Segment(SegmentOf(a)) = NullSegment
  /\ segments' = [s \in DOMAIN segments \cup {SegmentOf(a)} |->
                    IF s = SegmentOf(a) THEN {BitOf(a)} ELSE segments[s]]
  /\ cache' = Cached(SegmentOf(a), NullSegment)

(* A segment that was not found is created, zeroed, and filed in cache and *)
(* map, whatever the map held there.                                       *)
MarkNew(a) ==
  /\ Segment(SegmentOf(a)) = NullSegment
  /\ segments' = [s \in DOMAIN segments \cup {SegmentOf(a)} |->
                    IF s = SegmentOf(a) THEN {BitOf(a)} ELSE segments[s]]
  /\ cache' = Cached(SegmentOf(a), SegmentOf(a))

(* mark; its result is TRUE exactly when HasBit(a) was FALSE.              *)
Mark(a) == MarkExisting(a) \/ MarkNew(a)
================================================================================
