---------------------------- MODULE MCPollTransport ----------------------------
(* An instance of PollTransport for TLC: two requests, so that an answer can   *)
(* be taken for that of another request, two blocks and two contents, and up   *)
(* to two disk operations for a request, so that one can overtake another.     *)
EXTENDS PollTransport
===============================================================================
