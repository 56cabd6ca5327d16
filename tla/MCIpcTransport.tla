---------------------------- MODULE MCIpcTransport ----------------------------
(* An instance of IpcTransport for TLC: two requests, two blocks and two       *)
(* contents, so that one can be taken for another.                             *)
EXTENDS IpcTransport
===============================================================================
