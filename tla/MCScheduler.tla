----------------------------- MODULE MCScheduler -----------------------------
(* An exit, an account read that is repeated for ever and a new entry, in the *)
(* priorities the callers give them, on buckets of one request per window.    *)
EXTENDS KisRequestScheduler

MCKind == [exit |-> "EXIT", read |-> "READ", entry |-> "ENTRY"]
MCPriority == [exit |-> 1, read |-> 4, entry |-> 6]
=============================================================================
