---------------------------- MODULE MCRedisAccess ----------------------------
(* Three threads, so that two can hold failures of old clients; or as many   *)
(* tasks, two of which queue for the probe lock of one loop.  Four clients   *)
(* are enough to tell every handle and the current client apart.             *)
EXTENDS RedisAccess, TLC

CONSTANTS a1, a2, b1, c1, c2, c3, c4
MCThreads == {a1, a2, b1}
MCLoop == (a1 :> "a") @@ (a2 :> "a") @@ (b1 :> "b")
MCClients == {c1, c2, c3, c4}
=============================================================================
