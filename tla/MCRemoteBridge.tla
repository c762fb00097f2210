--------------------------- MODULE MCRemoteBridge ---------------------------
(* Instances of RemoteBridge for TLC. *)
EXTENDS RemoteBridge, TLC

CONSTANTS c1, c2

Sends(head, declared, sent, faults) ==
  [head |-> head, declared |-> declared, sent |-> sent, faults |-> faults]

\* One client sends a proper request, or a byte too many; the other one fails
\* two checks, or sends a head that is too long or a body that is too short.
MCRequestsOf ==
  c1 :> {Sends(2, 1, 3, {}), Sends(1, 1, 3, {})}
    @@ c2 :> {Sends(2, 0, 2, {"token", "tool"}), Sends(3, 0, 3, {}),
              Sends(1, 1, 1, {})}
============================================================================
