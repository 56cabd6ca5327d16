--------------------------- MODULE MCUintrTransport ---------------------------
(* An instance of UintrTransport for TLC, with the bounds of MCPollTransport. *)
EXTENDS UintrTransport
===============================================================================
