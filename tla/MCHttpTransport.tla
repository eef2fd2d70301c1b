-------------------------- MODULE MCHttpTransport --------------------------
(* HttpTransport with two polls and two handshakes under way, two messages *)
(* each way, and up to two disturbances.                                   *)
EXTENDS HttpTransport, TLC

CONSTANTS p1, p2, h1, h2

MCPoll == {p1, p2}
MCHandshake == {h1, h2}
=============================================================================
