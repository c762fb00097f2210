--------------------------- MODULE RemoteRequest ---------------------------
(***************************************************************************)
(* One request to the bridge of parliant-remote-mcp: what                  *)
(* read_http_request makes of the bytes that have arrived, and the checks  *)
(* of route_request in their order.                                        *)
(*                                                                         *)
(* A request is how many bytes its head has, blank line included, how long *)
(* a body it declares, how many bytes the client sends before it closes or *)
(* pauses for longer than IO_TIMEOUT, and the checks that it fails.        *)
(***************************************************************************)
EXTENDS Naturals, Sequences, SequencesExt

CONSTANTS
  MaxHeader,        (* MAX_HEADER_BYTES                                    *)
  MaxBody           (* max_request_bytes                                   *)

ASSUME RequestLimits == MaxHeader \in Nat /\ MaxBody \in Nat

\* The checks of route_request before it looks at the revocation ...
AddressChecks == <<"method", "path">>

(* ... and behind it.  "origins" is a repeated origin, "typed" a content   *)
(* type that is missing or repeated, "response" the bound on responses.    *)
RequestChecks ==
  <<"token", "origins", "origin", "typed", "type", "protocol", "body",
    "exposed", "name", "tool", "response">>

\* What may be wrong with a request.  "head" stands for a head that is not HTTP,
\* "text" for a body that is not UTF-8.
Faults == {"head", "text"} \union Range(AddressChecks) \union Range(RequestChecks)

\* A head has at least the blank line that ends it.
Requests ==
  [head : Nat \ {0}, declared : Nat, sent : Nat, faults : SUBSET Faults]

\* The status an answer has when the check fails.
StatusOf(check) ==
  CASE check = "method" -> "405"
    [] check \in {"path", "exposed"} -> "404"
    [] check = "token" -> "401"
    [] check \in {"origin", "tool"} -> "403"
    [] check = "type" -> "415"
    [] check = "response" -> "500"
    [] check \in {"origins", "typed", "protocol", "body", "name"} -> "400"

\* The statuses of an answer.  A 503 comes from the accept thread.
Statuses == {"200", "400", "401", "403", "404", "405", "413", "415", "431",
             "500", "503"}

Passes(req, checks) == \A i \in 1..Len(checks) : checks[i] \notin req.faults

\* The status of the first check that fails.
Refusal(req, checks) ==
  StatusOf(checks[Min({i \in 1..Len(checks) : checks[i] \in req.faults})])

Whole(req) == req.head + req.declared

\* A request within the limit on the head is read to its end.
ReadOn(req, got) ==
  IF got < req.head THEN "more"
  ELSE IF "head" \in req.faults THEN "400"
  ELSE IF req.declared > MaxBody THEN "413"
  ELSE IF got < Whole(req) THEN "more"
  ELSE IF got > Whole(req) \/ "text" \in req.faults THEN "400"
  ELSE "whole"

\* The limit on the head is applied to whatever was read with it.
Verdict_Fault(req, got) == IF got > MaxHeader THEN "431" ELSE ReadOn(req, got)

(* What read_http_request does with `got` bytes in its buffer: read more,  *)
(* refuse the request or return it.  The limit on the head is looked at    *)
(* while the head is incomplete, and once more when it is complete; bytes  *)
(* behind the body are refused if they came with it ("pipelining").        *)
Verdict(req, got) ==
  IF Min({got, req.head}) > MaxHeader THEN "431" ELSE ReadOn(req, got)
============================================================================
