-------------------------- MODULE ContextAssembler --------------------------
(***************************************************************************)
(* ContextAssembler::build of parliant-orchestrator: the bounded prompt    *)
(* for a question, from the newest segments of the store, earlier segments *)
(* that contain words of the question, and configured read-only sources.   *)
(*                                                                         *)
(* build reads the store once, under its read lock, and keeps no state:    *)
(* everything here is an operator on the state of MeetingStore.  A prompt  *)
(* is a sequence of pieces, each with the part it belongs to, the text of  *)
(* the store it quotes, if any, and its length in characters.              *)
(***************************************************************************)
EXTENDS TextSizes, FiniteSets

CONSTANTS
  Questions,        (* questions: [len, words]                             *)
  Searchable,       (* words of 4 bytes or more that are no stop words     *)
  SourceLists,      (* configured sources: sequences of [readOnly, result] *)
  MaxTerms,         (* search_terms: take(4)                               *)
  RecentSegments,   (* DEFAULT_RECENT_SEGMENTS                             *)
  SearchHits,       (* DEFAULT_SEARCH_HITS                                 *)
  HitsPerTerm,      (* build: state.search(&term, 3)                       *)
  MaxContext,       (* DEFAULT_CONTEXT_CHARS                               *)
  PieceFrame,       (* characters of a heading, a speaker, a bracket       *)
  NoText            (* what a piece quotes that is not a segment           *)

ASSUME AssemblerConfig ==
  /\ {MaxTerms, RecentSegments, SearchHits, HitsPerTerm} \subseteq Nat \ {0}
  /\ {MaxContext, PieceFrame} \subseteq Nat
  /\ \A q \in Questions : q.len \in Nat /\ q.words \in Seq(Range(q.words))
  /\ \A sources \in SourceLists : sources \in Seq(Range(sources))
  /\ NoText \notin Texts

Take(s, n) == SubSeq(s, 1, Min({n, Len(s)}))

\* The elements of a sequence by first occurrence.
Distinct(s) ==
  Subsequence(s, {i \in 1..Len(s) : \A j \in 1..(i - 1) : s[j] # s[i]})

SearchTerms(question) ==
  LET words == question.words
  IN  Take(Distinct(Subsequence(words, {i \in 1..Len(words) :
                                          words[i] \in Searchable})),
           MaxTerms)

RecentContext == Recent(RecentSegments)

(* The inner loop of build: up to HitsPerTerm hits of a term, without      *)
(* those of the recent window and those already listed, until the list is  *)
(* full.                                                                   *)
AddHits(list, term) ==
  LET hits == Search(term, HitsPerTerm)
      new  == {i \in 1..Len(hits) :
                 hits[i] \notin Range(RecentContext) \union Range(list)}
  IN  Take(list \o Subsequence(hits, new), SearchHits)

\* The list ends with the first term that is found.
EarlierContext_FirstTerm_Fault(question) ==
  LET terms == SearchTerms(question)
      listed[t \in 0..Len(terms)] ==
        IF t = 0 THEN << >>
        ELSE IF listed[t - 1] # << >> THEN listed[t - 1]
             ELSE AddHits(<< >>, terms[t])
  IN  listed[Len(terms)]

\* The loop over the terms.
EarlierContext(question) ==
  LET terms == SearchTerms(question)
      listed[t \in 0..Len(terms)] ==
        IF t = 0 THEN << >> ELSE AddHits(listed[t - 1], terms[t])
  IN  listed[Len(terms)]

(* The loop over the sources: a source that may write is never asked, one  *)
(* that fails is only reported as degraded.                                *)
Fetched(sources) ==
  Subsequence(sources, {i \in 1..Len(sources) :
                          sources[i].readOnly /\ sources[i].result = "text"})

----------------------------------------------------------------------------
(* build_input, push_segment, push_bounded. *)

Piece(part, text, len) == [part |-> part, text |-> text, len |-> len]

Heading(part) == <<Piece(part, NoText, PieceFrame)>>

SegmentPieces(part, list) ==
  [i \in 1..Len(list) |->
     Piece(part, list[i].text, PieceFrame + TextChars[list[i].text])]

\* What would be written without a bound, in order.
Pieces(question, sources) ==
  LET earlier == EarlierContext(question)
      blocks  == Fetched(sources)
  IN  <<Piece("question", NoText, PieceFrame + question.len)>>
      \o Heading("recent") \o SegmentPieces("recent", RecentContext)
      \o (IF earlier = << >> THEN << >>
          ELSE Heading("earlier") \o SegmentPieces("earlier", earlier))
      \o (IF blocks = << >> THEN << >>
          ELSE Heading("source")
               \o [i \in 1..Len(blocks) |->
                     Piece("source", NoText, PieceFrame + 1)])

Written(out) ==
  LET chars[n \in 0..Len(out)] ==
        IF n = 0 THEN 0 ELSE chars[n - 1] + out[n].len
  IN  chars[Len(out)]

\* What is written so far is counted in bytes.
PushBounded_Fault(out, piece) ==
  LET more(p) == IF p.text = NoText THEN 0
                                    ELSE TextLen[p.text] - TextChars[p.text]
      bytes[n \in 0..Len(out)] ==
        IF n = 0 THEN 0 ELSE bytes[n - 1] + out[n].len + more(out[n])
      used == bytes[Len(out)]
  IN  IF used >= MaxContext THEN out
      ELSE Append(out, [piece EXCEPT !.len = Min({@, MaxContext - used})])

PushBounded(out, piece) ==
  IF Written(out) >= MaxContext THEN out
  ELSE Append(out, [piece EXCEPT !.len = Min({@, MaxContext - Written(out)})])

Prompt(question, sources) ==
  LET all == Pieces(question, sources)
      out[n \in 0..Len(all)] ==
        IF n = 0 THEN << >> ELSE PushBounded(out[n - 1], all[n])
  IN  out[Len(all)]

----------------------------------------------------------------------------
\* Segments older than the recent window.
Older == SubSeq(segments, 1, Len(segments) - Len(RecentContext))

(* Nothing is given to the provider twice: what is called earlier was said *)
(* before everything that is called recent, and contains a word of the     *)
(* question.  And it is found: an older segment that contains a term is in *)
(* the list, unless that is full or HitsPerTerm newer segments contain the *)
(* term as well.  These may all be recent ones, which are in the prompt    *)
(* already and still use up the hits of the term.                          *)
EarlierContextHolds ==
  \A q \in Questions :
    LET earlier == EarlierContext(q)
        terms   == Range(SearchTerms(q))
    IN  /\ IsInjective(earlier)
        /\ Len(earlier) <= SearchHits
        /\ \A e \in Range(earlier) :
             e \in Range(Older) /\ terms \intersect Mentions[e.text] # {}
        /\ \A old \in Range(Older) : \A t \in terms \intersect Mentions[old.text] :
             \/ old \in Range(earlier)
             \/ Len(earlier) = SearchHits
             \/ Cardinality({s \in Range(segments) :
                   s.id > old.id /\ t \in Mentions[s.text]}) >= HitsPerTerm

(* A prompt is the unbounded text cut at MaxContext characters, however    *)
(* many bytes these take: the bound holds and is used up before anything   *)
(* is cut, nothing is missing before the cut and nothing is written after  *)
(* it.  So the question comes whole or alone, sources are the first to be  *)
(* dropped, and among the recent segments the newest.                      *)
PromptIsCutOnce ==
  \A q \in Questions, sources \in SourceLists :
    LET all == Pieces(q, sources)
        out == Prompt(q, sources)
    IN  /\ Written(out) = Min({MaxContext, Written(all)})
        /\ \A i \in 1..Len(out) :
             /\ out[i].part = all[i].part /\ out[i].text = all[i].text
             /\ out[i].len = all[i].len \/ i = Len(out)
============================================================================
