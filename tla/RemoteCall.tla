------------------------------ MODULE RemoteCall ------------------------------
(***************************************************************************)
(* What a link between a client and a server of the system promises: the   *)
(* client asks, the server carries the request out once, the client gets    *)
(* the answer to the request it made, and every request is answered.  Both  *)
(* links (application to xv6fs, xv6fs to ramdisk) and all transports are    *)
(* meant to be this.                                                        *)
(***************************************************************************)
CONSTANTS
    Request,        \* what a client can ask
    None,           \* no request
    Effect(_, _),   \* Effect(store, r): the server's state after request r
    Answer(_, _, _) \* Answer(store, r, last): what the client has after r

VARIABLES
    phase,          \* "idle", "asked" or "served"
    request,        \* the request under way, or None
    store,          \* the server's state
    result          \* what the client got last

vars == <<phase, request, store, result>>

Init ==
    /\ phase = "idle"
    /\ request = None

Ask(r) ==
    /\ phase = "idle"
    /\ phase' = "asked"
    /\ request' = r
    /\ UNCHANGED <<store, result>>

Serve ==
    /\ phase = "asked"
    /\ phase' = "served"
    /\ store' = Effect(store, request)
    /\ UNCHANGED <<request, result>>

Return ==
    /\ phase = "served"
    /\ phase' = "idle"
    /\ request' = None
    /\ result' = Answer(store, request, result)
    /\ UNCHANGED store

Next == (\E r \in Request : Ask(r)) \/ Serve \/ Return

Fairness == WF_vars(Serve) /\ WF_vars(Return)

Spec == Init /\ [][Next]_vars /\ Fairness
===============================================================================
