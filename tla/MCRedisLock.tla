----------------------------- MODULE MCRedisLock -----------------------------
(* The instance of RedisLock that TLC checks.                              *)
EXTENDS RedisLock, TLC

CONSTANTS h1, h2

MCUses == h1 :> {"Lock", "AutoRefresh"} @@ h2 :> {"TryLock", "Lock", "Refresh"}
=============================================================================
