----------------------------- MODULE LeaseLock -----------------------------
(***************************************************************************)
(* What the distributed lock of cache/redis_lock.go promises: at any time  *)
(* at most one handle owns the lock, only an owner releases it, a lease    *)
(* may run out, and a caller is told that it holds the lock only after its *)
(* handle has owned it.                                                    *)
(***************************************************************************)
CONSTANTS Handles, None

VARIABLES
  owner,     \* the handle that owns the lock, or None
  granted,   \* the handles that have owned it
  told       \* the handles whose callers were told that they hold it

leaseVars == <<owner, granted, told>>

LeaseInit == owner = None /\ granted = {} /\ told = {}

\* A handle is granted the lock at most once: no refresh brings it back.
Grant(h) ==
  /\ owner = None /\ h \notin granted /\ owner' = h /\ granted' = granted \cup {h}
  /\ UNCHANGED told

Tell(h) ==
  /\ h \in granted /\ told' = told \cup {h}
  /\ UNCHANGED <<owner, granted>>

\* Only a handle that was told it holds the lock gives it back.
Release(h) ==
  /\ owner = h /\ h \in told /\ owner' = None
  /\ UNCHANGED <<granted, told>>

Lapse ==
  /\ owner # None /\ owner' = None
  /\ UNCHANGED <<granted, told>>

LeaseNext == Lapse \/ \E h \in Handles : Grant(h) \/ Tell(h) \/ Release(h)

LeaseSpec == LeaseInit /\ [][LeaseNext]_leaseVars
=============================================================================
