---------------------------- MODULE MeetingTools ----------------------------
(***************************************************************************)
(* The read-only meeting tools of parliant-mcp on a live MeetingStore:     *)
(* `handle_json` with its five tools, and `serve_lines`, which answers the *)
(* requests of one client and ends with the first that fails.              *)
(*                                                                         *)
(* A tool reads the store once, under its read lock, so a call is one      *)
(* step; sessions and finals change the store between the calls.  What is  *)
(* measured of a response is its size: the payload is sent twice, as text  *)
(* and as structured content.                                              *)
(***************************************************************************)
EXTENDS TextSizes, FiniteSets

CONSTANTS
  Queries,          (* the queries clients search for                      *)
  SpeakerOf,        (* the speaker of a final with the text, or NoSpeaker  *)
  CharBytes,        (* bytes a character of the text takes in a response   *)
  MaxCharBytes,     (* the most it takes: of an escaped control character  *)
  LimitArgs,        (* unsigned integers given as "limit"                  *)
  MaxResults,       (* McpService.max_results                              *)
  DefaultResults,   (* the limit of a call that names none: 8              *)
  MaxShown,         (* MAX_SEGMENT_TEXT_CHARS                              *)
  MaxResponse,      (* MAX_RESPONSE_BYTES                                  *)
  Envelope,         (* bytes of a response beside its segments             *)
  SegmentFrame,     (* bytes of a segment beside its text                  *)
  Ellipsis,         (* bytes of the mark of a truncated text               *)
  NoSpeaker, NoLimit, Blank, NotAnId, Nobody

ASSUME ToolsConfig ==
  /\ {MaxResults, DefaultResults, MaxCharBytes} \subseteq Nat \ {0}
  /\ {MaxShown, MaxResponse, Envelope, SegmentFrame, Ellipsis} \subseteq Nat
  /\ LimitArgs \subseteq Nat
  /\ CharBytes \in [Texts -> 1..MaxCharBytes]

\* Bytes of a segment in a response, whatever it says.
MaxSegmentBytes == SegmentFrame + Ellipsis + MaxShown * MaxCharBytes

Fits(n) == Envelope + 2 * n * MaxSegmentBytes <= MaxResponse

(* 64 KiB are room for two copies of 2000 characters of at most 7 bytes    *)
(* each, or of 20 speakers, whose labels are taken to be short.            *)
ASSUME ResponseConfig ==
  /\ Fits(1)
  /\ Envelope + 2 * MaxResults <= MaxResponse

VARIABLES
  loop,   (* serve_lines: "open", "ended" (end of input) or "failed"       *)
  held    (* external: a segment the client was told of, with the session  *)
          (* it was told in; or Nobody                                     *)

toolVars == <<sessionId, active, nextSegmentId, retainedTextBytes, segments,
              seenIds, seenOrder, loop, held>>

----------------------------------------------------------------------------
(* The requests, told apart as far as handle_json does. *)

Calls ==
  [tool : {"recent"}, limit : LimitArgs \union {NoLimit}]
  \union [tool : {"search"}, query : Queries \union {Blank},
          limit : LimitArgs \union {NoLimit}]
  \union [tool : {"segment"}, id : (0..SegmentCap) \union {NotAnId}]
  \union [tool : {"speakers", "status"}]

Plain == [tool : {"oversized", "malformed", "notification", "initialize",
                  "list", "unknown_method", "no_params", "no_name",
                  "unknown_tool"}]

Requests == Calls \union Plain

(* bounded_limit: clamp(1, max_results); a limit that is absent or is not  *)
(* an unsigned integer is the default.                                     *)
BoundedLimit(arg) ==
  LET wanted == IF arg = NoLimit THEN Min({MaxResults, DefaultResults}) ELSE arg
  IN  Max({1, Min({wanted, MaxResults})})

\* The text is sent whole.
ShownBytes_Fault(text) == TextChars[text] * CharBytes[text]

(* truncate_chars: the bytes of a text as it is shown.  The bound counts   *)
(* characters, the bound of the response counts bytes.                     *)
ShownBytes(text) ==
  IF TextChars[text] > MaxShown
  THEN MaxShown * CharBytes[text] + Ellipsis
  ELSE TextChars[text] * CharBytes[text]

\* MeetingState::speakers: whoever spoke, once each.
Speakers ==
  {SpeakerOf[segments[i].text] : i \in 1..Len(segments)} \ {NoSpeaker}

\* The segments a call returns.
Found(req) ==
  CASE req.tool = "recent"  -> Recent(BoundedLimit(req.limit))
    [] req.tool = "search"  -> Search(req.query, BoundedLimit(req.limit))
    [] req.tool = "segment" -> Subsequence(segments,
                                 {i \in 1..Len(segments) : segments[i].id = req.id})
    [] OTHER                -> << >>

\* Rows of a response without text: the speakers that are let through.
Rows(req) ==
  IF req.tool = "speakers" THEN Min({Cardinality(Speakers), MaxResults}) ELSE 0

ResponseBytes(req) ==
  LET found == Found(req)
      bytes[n \in 0..Len(found)] ==
        IF n = 0 THEN 0
        ELSE bytes[n - 1] + SegmentFrame + ShownBytes(found[n].text)
  IN  Envelope + 2 * (bytes[Len(found)] + Rows(req))

IsToolError(req) ==
  \/ req.tool \in {"unknown_method", "no_params", "no_name", "unknown_tool"}
  \/ req.tool = "search" /\ req.query = Blank
  \/ req.tool = "segment" /\ req.id = NotAnId

(* handle_json.  A tool error is an answer; "failed" is an Err, for which  *)
(* the client is sent nothing at all.                                      *)
HandleJson(req) ==
  CASE req.tool \in {"oversized", "malformed"} -> "failed"
    [] req.tool = "notification"               -> "silent"
    [] IsToolError(req)                        -> "error"
    [] OTHER -> IF ResponseBytes(req) > MaxResponse THEN "failed" ELSE "answer"

----------------------------------------------------------------------------
ToolsInit == Init /\ loop = "open" /\ held = Nobody

(* One line of serve_lines.  `handle_json(..)?` ends the loop.             *)
ServeLine(req) ==
  /\ loop = "open"
  /\ loop' = IF HandleJson(req) = "failed" THEN "failed" ELSE "open"
  /\ IF HandleJson(req) = "answer" /\ Found(req) # << >>
     THEN \E seg \in Range(Found(req)) :
            held' = [id |-> seg.id, text |-> seg.text,
                     session |-> sessionId, active |-> active]
     ELSE UNCHANGED held
  /\ UNCHANGED vars

EndOfInput ==
  /\ loop = "open"
  /\ loop' = "ended"
  /\ UNCHANGED <<vars, held>>

\* The pipeline, which holds the write lock for each of its operations.
StoreStep == Next /\ UNCHANGED <<loop, held>>

ToolsNext ==
  \/ StoreStep
  \/ \E req \in Requests : ServeLine(req)
  \/ EndOfInput

ToolsSpec == ToolsInit /\ [][ToolsNext]_toolVars

----------------------------------------------------------------------------
(* An id a client was told names the same text for as long as the status   *)
(* shows an active session with the same number, and names nothing once    *)
(* that text is evicted, although every session, and every reset, starts   *)
(* its ids at 1 again.                                                     *)
IdsResolve ==
  held # Nobody /\ held.active /\ active /\ held.session = sessionId =>
    \A seg \in GetSegment(held.id) : seg.text = held.text

(* The bound on responses is never met by a call for one segment, or for   *)
(* as many as fit, however long the texts: only a larger limit, given or   *)
(* by default, can cost the client its connection.  And no call returns    *)
(* more than MaxResults segments.                                          *)
SmallCallsAreAnswered ==
  \A req \in Calls :
    /\ Len(Found(req)) <= MaxResults
    /\ \/ req.tool \in {"recent", "search"} /\ ~Fits(BoundedLimit(req.limit))
       \/ HandleJson(req) # "failed"
============================================================================
