------------------------- MODULE MCPendingRequests -------------------------
(* An instance of PendingRequests for TLC: system callers, which may pass    *)
(* RESOLV_TRY_ALL_USABLE_SERVERS without a flag that bypasses the cache.     *)
EXTENDS PendingRequests, TLC

CONSTANTS n1, c1, c2, q1, h1

MCHash      == q1 :> h1
SystemFlags == {{}, {TryAll}}
============================================================================
