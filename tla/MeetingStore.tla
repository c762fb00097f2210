---------------------------- MODULE MeetingStore ----------------------------
(***************************************************************************)
(* The canonical meeting transcript of parliant-context: a bounded,        *)
(* in-memory log of finalized segments.  Segments get consecutive ids      *)
(* within a session; a bounded memory of provider ids rejects duplicates;  *)
(* the oldest segments are evicted when a count or a byte bound is         *)
(* exceeded.                                                               *)
(*                                                                         *)
(* A text is a member of Texts with its UTF-8 length in TextLen: no        *)
(* operation of the store looks at anything else of it but `search`,       *)
(* whose substring test is the relation Mentions.  Timestamps and speaker  *)
(* labels are carried along unread and left out.                           *)
(***************************************************************************)
EXTENDS Naturals, Sequences, SequencesExt, FiniteSetsExt

CONSTANTS
  ProviderIds,      (* provider segment ids                                *)
  Texts,            (* finalized texts                                     *)
  TextLen,          (* text.len() of every text                            *)
  Mentions,         (* Mentions[text]: the queries the text contains       *)
  MaxSegments,      (* MeetingStoreConfig.max_segments                     *)
  MaxTextBytes,     (* MeetingStoreConfig.max_text_bytes                   *)
  DuplicateMemory,  (* MeetingStoreConfig.duplicate_memory                 *)
  SessionCap,       (* bound of the model: sessions started                *)
  SegmentCap        (* bound of the model: segments accepted per session   *)

\* MeetingStoreConfig::validate.  TranscriptSegment::new rejects empty text.
ASSUME StoreConfig ==
  /\ MaxSegments \in Nat \ {0}
  /\ MaxTextBytes \in Nat \ {0}
  /\ DuplicateMemory \in Nat \ {0}
  /\ TextLen \in [Texts -> Nat \ {0}]

ASSUME ModelBounds ==
  /\ SessionCap \in Nat
  /\ SegmentCap \in Nat

VARIABLES
  sessionId, active, nextSegmentId, retainedTextBytes,
  segments,         (* the retained segments, oldest first                 *)
  seenIds,          (* seen_provider_ids, the hash set                     *)
  seenOrder         (* seen_provider_order, its insertion order            *)

vars == <<sessionId, active, nextSegmentId, retainedTextBytes, segments,
          seenIds, seenOrder>>

Segments == [id : Nat \ {0}, pid : ProviderIds, text : Texts]

SaturatingSub(m, n) == IF m > n THEN m - n ELSE 0

\* PrefixBytes(s)[n]: the total text length of the first n segments of s.
PrefixBytes(s) ==
  LET sum[n \in 0..Len(s)] ==
        IF n = 0 THEN 0 ELSE sum[n - 1] + TextLen[s[n].text]
  IN  sum

TextBytes(s) == PrefixBytes(s)[Len(s)]

DropFirst(s, n) == SubSeq(s, n + 1, Len(s))

\* The elements of s at the positions in P, in their order.
Subsequence(s, P) ==
  LET kept[n \in 0..Len(s)] ==
        IF n = 0 THEN << >>
        ELSE IF n \in P THEN Append(kept[n - 1], s[n]) ELSE kept[n - 1]
  IN  kept[Len(s)]

----------------------------------------------------------------------------
(* Operators whose name ends in _Fault are broken variants of the next      *)
(* definition; no specification uses them.  Each shows that a property     *)
(* notices the mistake it stands for.                                      *)

\* The id is queued but does not enter the set that is asked.
Remember_Fault(pid) ==
  LET order == Append(seenOrder, pid)
      drop  == SaturatingSub(Len(order), DuplicateMemory)
  IN  /\ seenOrder' = DropFirst(order, drop)
      /\ seenIds' = seenIds \ {order[i] : i \in 1..drop}

(* remember_provider_id: the id enters the set and the queue; ids beyond   *)
(* the duplicate memory leave both, oldest first.                          *)
Remember(pid) ==
  LET order == Append(seenOrder, pid)
      drop  == SaturatingSub(Len(order), DuplicateMemory)
  IN  /\ seenOrder' = DropFirst(order, drop)
      /\ seenIds' = (seenIds \union {pid}) \ {order[i] : i \in 1..drop}

(* enforce_bounds: how many segments the loop pops from the front of `s`,  *)
(* whose bytes are `bytes` by the running counter.  The loop also ends     *)
(* when nothing is left to pop.                                            *)
Evictions(s, bytes) ==
  Min({n \in 0..Len(s) :
         \/ n = Len(s)
         \/ /\ Len(s) - n <= MaxSegments
            /\ SaturatingSub(bytes, PrefixBytes(s)[n]) <= MaxTextBytes})

\* The byte counter is not reduced by what is evicted.
EnforceBounds_StaleCount_Fault(s, bytes) ==
  /\ segments' = DropFirst(s, Evictions(s, bytes))
  /\ retainedTextBytes' = bytes

\* Eviction pops the back of the deque.
EnforceBounds_Back_Fault(s, bytes) ==
  LET n == Evictions(s, bytes)
      kept == SubSeq(s, 1, Len(s) - n)
  IN  segments' = kept /\ retainedTextBytes' = TextBytes(kept)

EnforceBounds(s, bytes) ==
  LET n == Evictions(s, bytes)
  IN  /\ segments' = DropFirst(s, n)
      /\ retainedTextBytes' = SaturatingSub(bytes, PrefixBytes(s)[n])

\* Ids restart but the segments of the previous session stay.
ClearSessionState_Keep_Fault ==
  /\ nextSegmentId' = 1
  /\ seenIds' = {}
  /\ seenOrder' = << >>
  /\ UNCHANGED <<retainedTextBytes, segments>>

ClearSessionState ==
  /\ nextSegmentId' = 1
  /\ retainedTextBytes' = 0
  /\ segments' = << >>
  /\ seenIds' = {}
  /\ seenOrder' = << >>

----------------------------------------------------------------------------
Init ==
  /\ sessionId = 0
  /\ active = FALSE
  /\ nextSegmentId = 1
  /\ retainedTextBytes = 0
  /\ segments = << >>
  /\ seenIds = {}
  /\ seenOrder = << >>

\* A new session keeps the number of the one before.
StartSession_Fault ==
  /\ active' = TRUE
  /\ ClearSessionState
  /\ UNCHANGED sessionId

StartSession ==
  /\ sessionId < SessionCap
  /\ sessionId' = sessionId + 1
  /\ active' = TRUE
  /\ ClearSessionState

StopSession ==
  /\ active' = FALSE
  /\ UNCHANGED <<sessionId, nextSegmentId, retainedTextBytes, segments,
                 seenIds, seenOrder>>

Reset ==
  /\ active' = FALSE
  /\ ClearSessionState
  /\ UNCHANGED sessionId

(* The three outcomes of ingest_final. *)
IsDuplicate(pid) == pid \in seenIds

IsTooLarge_Fault(text) == FALSE

IsTooLarge(text) == TextLen[text] > MaxTextBytes

IsAccepted(pid, text) == ~IsDuplicate(pid) /\ ~IsTooLarge(text)

(* ingest_final does not look at `active`: a stopped store still accepts.  *)
Accept(pid, text) ==
  /\ IsAccepted(pid, text)
  /\ nextSegmentId <= SegmentCap
  /\ Remember(pid)
  /\ nextSegmentId' = nextSegmentId + 1
  /\ EnforceBounds(
       Append(segments, [id |-> nextSegmentId, pid |-> pid, text |-> text]),
       retainedTextBytes + TextLen[text])
  /\ UNCHANGED <<sessionId, active>>

(* InsertOutcome::Duplicate and Err(SegmentTooLarge) leave no trace: the   *)
(* id of a segment that is too large is not remembered.                    *)
Refuse(pid, text) ==
  /\ ~IsAccepted(pid, text)
  /\ UNCHANGED vars

IngestFinal(pid, text) == Accept(pid, text) \/ Refuse(pid, text)

Next ==
  \/ StartSession
  \/ StopSession
  \/ Reset
  \/ \E pid \in ProviderIds, text \in Texts : IngestFinal(pid, text)

Spec == Init /\ [][Next]_vars

----------------------------------------------------------------------------
(* The queries, used by the assembler and the MCP tools. *)

Recent(limit) == DropFirst(segments, SaturatingSub(Len(segments), limit))

\* The last `limit` segments that contain the query, oldest first.
Search(query, limit) ==
  LET hits == Subsequence(segments, {i \in 1..Len(segments) :
                                       query \in Mentions[segments[i].text]})
  IN  DropFirst(hits, SaturatingSub(Len(hits), limit))

\* The segments get_segment may return for an id: at most one.
GetSegment(id) == {segments[i] : i \in {j \in 1..Len(segments) :
                                          segments[j].id = id}}

----------------------------------------------------------------------------
TypeOK ==
  /\ sessionId \in Nat
  /\ active \in BOOLEAN
  /\ nextSegmentId \in Nat \ {0}
  /\ retainedTextBytes \in Nat
  /\ segments \in Seq(Segments)
  /\ seenIds \subseteq ProviderIds
  /\ seenOrder \in Seq(ProviderIds)

(* Segment ids are the positions in the session's log of accepted finals:  *)
(* the retained window ends at the last id given out and has no gap, so an *)
(* id a client holds either still names its segment or names nothing.      *)
IdsAreContiguous ==
  /\ Len(segments) < nextSegmentId
  /\ \A i \in 1..Len(segments) :
       segments[i].id = nextSegmentId - 1 - Len(segments) + i

(* Both memory bounds hold between operations, and the running byte count  *)
(* that enforce_bounds keeps by additions and subtractions is exact.       *)
BoundsHold ==
  /\ Len(segments) <= MaxSegments
  /\ retainedTextBytes <= MaxTextBytes
  /\ retainedTextBytes = TextBytes(segments)

(* The hash set and the FIFO of provider ids describe the same memory: no  *)
(* id is queued twice (popping one copy would forget the other), and the   *)
(* queue is as full as the accepted finals of the session allow.           *)
SeenInSync ==
  /\ seenIds = Range(seenOrder)
  /\ IsInjective(seenOrder)
  /\ Len(seenOrder) = Min({DuplicateMemory, nextSegmentId - 1})

(* The remembered ids are those of the latest accepted finals, in order:   *)
(* the k-th newest segment was remembered as the k-th newest id.           *)
SeenMatchesSegments ==
  \A k \in 0..(Min({Len(segments), Len(seenOrder)}) - 1) :
    segments[Len(segments) - k].pid = seenOrder[Len(seenOrder) - k]

(* No provider segment is retained twice.  It needs the duplicate memory   *)
(* to be at least as long as the transcript, which the defaults (4000 and  *)
(* 2000) respect and `validate` does not enforce.                          *)
NoDuplicateRetained ==
  DuplicateMemory >= MaxSegments =>
    \A i, j \in 1..Len(segments) :
      segments[i].pid = segments[j].pid => i = j

(* Eviction is from the front only, never takes the segment just accepted, *)
(* and takes no more than the bounds require: one segment fewer evicted    *)
(* would break a bound.                                                    *)
EvictionIsMinimal ==
  [][\A pid \in ProviderIds, text \in Texts :
       Accept(pid, text) =>
         LET new  == [id |-> nextSegmentId, pid |-> pid, text |-> text]
             full == Append(segments, new)
             n    == Len(full) - Len(segments')
         IN  /\ segments' # << >>
             /\ segments' = DropFirst(full, n)
             /\ n > 0 => LET more == DropFirst(full, n - 1)
                         IN  \/ Len(more) > MaxSegments
                             \/ TextBytes(more) > MaxTextBytes]_vars

----------------------------------------------------------------------------
(* The abstract specification: a window that slides over a numbered,       *)
(* append-only log.                                                        *)
Window == INSTANCE TranscriptWindow WITH
  Contents <- [pid : ProviderIds, text : Texts],
  first    <- nextSegmentId - Len(segments),
  next     <- nextSegmentId,
  at       <- [n \in (nextSegmentId - Len(segments))..(nextSegmentId - 1) |->
                 LET s == segments[n - (nextSegmentId - Len(segments)) + 1]
                 IN  [pid |-> s.pid, text |-> s.text]]

(* The store implements the window: what an id names never changes while   *)
(* it is retained, ids are handed out in order, and only the oldest leave. *)
ImplementsWindow == Window!Spec
============================================================================
