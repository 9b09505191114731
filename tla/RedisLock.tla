----------------------------- MODULE RedisLock -----------------------------
(***************************************************************************)
(* The distributed lock of cache/redis_lock.go on one key: TryLock, Lock   *)
(* with its RetryStrategy, Unlock, Refresh and AutoRefresh, with the lua   *)
(* scripts that run in Redis.                                              *)
(*                                                                         *)
(* A handle stands for one call of TryLock or Lock, its uuid and the Lock  *)
(* it may return.  A command travels to Redis and its reply back: a caller *)
(* whose context ends, or whose connection breaks, stops waiting, and the  *)
(* command may still be executed later or never.  Time is abstracted: the  *)
(* key may expire whenever it exists.                                      *)
(***************************************************************************)
EXTENDS Integers

CONSTANTS
  Handles, None,
  MaxCnt,      \* FixedRetryStrategy.MaxCnt
  Uses         \* what each handle is used for: subsets of Calls

Calls == {"TryLock", "Lock", "Refresh", "AutoRefresh"}

ASSUME LockConstants == None \notin Handles /\ MaxCnt \in Nat /\ Uses \in [Handles -> SUBSET Calls]

VARIABLES
  key,       \* the value of the key in Redis: the uuid of a handle, or None
  pc,        \* the goroutine that uses the handle; in a call, the command it waits for
  reply,     \* "req" while that command is on its way, then the reply
  late,      \* the commands of the handle that nobody waits for any more
  auto,      \* the goroutine that runs AutoRefresh, or the state of its command
  cnt,       \* FixedRetryStrategy.Cnt
  unlocked,  \* the handles whose unlockedChan has been closed
  said,      \* what the last Unlock returned
  granted, told, lapsed, released    \* history: the handles that have ...

redis   == <<key, granted, lapsed, released>>
handle  == <<cnt, unlocked, said, told>>
vars == <<key, pc, reply, late, auto, cnt, unlocked, said, granted, told, lapsed, released>>

Init ==
  /\ key = None
  /\ pc = [h \in Handles |-> "new"] /\ reply = [h \in Handles |-> "none"]
  /\ late = [h \in Handles |-> {}] /\ auto = [h \in Handles |-> "off"]
  /\ cnt = [h \in Handles |-> 0] /\ unlocked = {}
  /\ said = [h \in Handles |-> "nothing"]
  /\ granted = {} /\ told = {} /\ lapsed = {} /\ released = {}

-----------------------------------------------------------------------------
(* Redis *)

\* Redis runs a command of h and answers r, if anybody still waits.
Executes(op, h, r) ==
  \/ /\ pc[h] = op /\ reply[h] = "req" /\ reply' = [reply EXCEPT ![h] = r] /\ UNCHANGED late
  \/ op \in late[h] /\ late' = [late EXCEPT ![h] = @ \ {op}] /\ UNCHANGED reply

Granted(h) == key' = h /\ granted' = granted \cup {h}

SetNX(h) ==
  /\ \/ key = None /\ Executes("setnx", h, "OK") /\ Granted(h)
     \/ key # None /\ Executes("setnx", h, "") /\ UNCHANGED <<key, granted>>
  /\ UNCHANGED <<pc, auto, handle, lapsed, released>>

\* The script takes the key whoever has it.
luaLock_Steal(h) ==
  /\ Executes("lock", h, "OK") /\ Granted(h)
  /\ UNCHANGED <<pc, auto, handle, lapsed, released>>

luaLock(h) ==
  /\ \/ key = h    /\ Executes("lock", h, "OK") /\ UNCHANGED <<key, granted>>
     \/ key = None /\ Executes("lock", h, "OK") /\ Granted(h)
     \/ key \notin {h, None} /\ Executes("lock", h, "") /\ UNCHANGED <<key, granted>>
  /\ UNCHANGED <<pc, auto, handle, lapsed, released>>

luaUnlock(h) ==
  /\ \/ key = h /\ Executes("unlock", h, "1") /\ key' = None /\ released' = released \cup {h}
     \/ key # h /\ Executes("unlock", h, "0") /\ UNCHANGED <<key, released>>
  /\ UNCHANGED <<pc, auto, handle, granted, lapsed>>

\* A key that has expired is set again.
luaRefresh_Set(h) ==
  LET r == IF key \in {h, None} THEN "1" ELSE "0"
  IN  /\ \/ Executes("refresh", h, r) /\ UNCHANGED auto
         \/ auto[h] = "req" /\ auto' = [auto EXCEPT ![h] = r] /\ UNCHANGED <<reply, late>>
      /\ key' = IF key = None THEN h ELSE key
      /\ UNCHANGED <<pc, handle, granted, lapsed, released>>

\* For Refresh or for AutoRefresh.
luaRefresh(h) ==
  LET r == IF key = h THEN "1" ELSE "0"
  IN  /\ \/ Executes("refresh", h, r) /\ UNCHANGED auto
         \/ auto[h] = "req" /\ auto' = [auto EXCEPT ![h] = r] /\ UNCHANGED <<reply, late>>
      /\ UNCHANGED <<redis, pc, handle>>

Expire ==
  /\ key # None /\ key' = None /\ lapsed' = lapsed \cup {key}
  /\ UNCHANGED <<pc, reply, late, auto, handle, granted, released>>

\* A command never reaches Redis.
Lost(h) ==
  /\ \E op \in late[h] : late' = [late EXCEPT ![h] = @ \ {op}]
  /\ UNCHANGED <<redis, pc, reply, auto, handle>>

-----------------------------------------------------------------------------
(* Callers *)

To(h, l) == pc' = [pc EXCEPT ![h] = l]
Send(op, h) == To(h, op) /\ reply' = [reply EXCEPT ![h] = "req"] /\ UNCHANGED late

\* The call for op goes on with the reply r; or its context ends or the
\* connection breaks, while the command may be on its way.
Reads(op, h, r) ==
  pc[h] = op /\ reply[h] = r /\ reply' = [reply EXCEPT ![h] = "none"] /\ UNCHANGED late
GivesUp(op, h) ==
  /\ pc[h] = op /\ reply' = [reply EXCEPT ![h] = "none"]
  /\ late' = [late EXCEPT ![h] = IF reply[h] = "req" THEN @ \cup {op} ELSE @]

TryLock(h) ==
  /\ pc[h] = "new" /\ "TryLock" \in Uses[h] /\ Send("setnx", h)
  /\ UNCHANGED <<redis, auto, handle>>

TryLockEnd(h) ==
  /\ \/ Reads("setnx", h, "OK") /\ To(h, "held") /\ told' = told \cup {h}
     \/ (Reads("setnx", h, "") \/ GivesUp("setnx", h)) /\ To(h, "over") /\ UNCHANGED told
  /\ UNCHANGED <<redis, auto, cnt, unlocked, said>>

\* Lock, and every further turn of its loop.
Lock(h) ==
  /\ pc[h] \in {"new", "backoff"} /\ "Lock" \in Uses[h] /\ Send("lock", h)
  /\ UNCHANGED <<redis, auto, handle>>

\* A reply, an error other than a deadline, or a deadline: then there is no
\* result whose type could be asserted, and the goroutine panics.
LockEnd(h) ==
  /\ \/ Reads("lock", h, "OK") /\ To(h, "held") /\ told' = told \cup {h} /\ UNCHANGED cnt
     \/ /\ Reads("lock", h, "") /\ cnt[h] >= MaxCnt /\ To(h, "over")
        /\ UNCHANGED <<cnt, told>>
     \/ /\ Reads("lock", h, "") /\ cnt[h] < MaxCnt /\ To(h, "backoff")
        /\ cnt' = [cnt EXCEPT ![h] = @ + 1] /\ UNCHANGED told
     \/ GivesUp("lock", h) /\ (To(h, "over") \/ To(h, "panicked")) /\ UNCHANGED <<cnt, told>>
  /\ UNCHANGED <<redis, auto, unlocked, said>>

\* ctx.Done while Lock waits for its timer.
LockGiveUp(h) ==
  /\ pc[h] = "backoff" /\ To(h, "over")
  /\ UNCHANGED <<redis, reply, late, auto, handle>>

\* Unlock; after an error it may be called again.
Unlock(h) ==
  /\ pc[h] = "held" \/ (pc[h] = "unlocked" /\ said[h] = "error")
  /\ Send("unlock", h)
  /\ UNCHANGED <<redis, auto, handle>>

\* The channel is closed only when the key was deleted.
UnlockEnd_KeepOpen(h) ==
  /\ \/ /\ Reads("unlock", h, "1") /\ said' = [said EXCEPT ![h] = "ok"]
        /\ unlocked' = unlocked \cup {h}
     \/ Reads("unlock", h, "0") /\ said' = [said EXCEPT ![h] = "notHold"] /\ UNCHANGED unlocked
     \/ GivesUp("unlock", h) /\ UNCHANGED unlocked /\ said' = [said EXCEPT ![h] = "error"]
  /\ To(h, "unlocked") /\ UNCHANGED <<redis, auto, cnt, told>>

\* The result of the script is not looked at.
UnlockEnd_Ignore(h) ==
  /\ \E r \in {"0", "1"} : Reads("unlock", h, r)
  /\ said' = [said EXCEPT ![h] = "ok"] /\ To(h, "unlocked") /\ unlocked' = unlocked \cup {h}
  /\ UNCHANGED <<redis, auto, cnt, told>>

\* The deferred close of unlockedChan comes with every return of Unlock, and
\* panics the second time.
UnlockEnd(h) ==
  /\ \/ Reads("unlock", h, "1") /\ said' = [said EXCEPT ![h] = "ok"]
     \/ Reads("unlock", h, "0") /\ said' = [said EXCEPT ![h] = "notHold"]
     \/ GivesUp("unlock", h) /\ said' = [said EXCEPT ![h] = "error"]
  /\ To(h, IF h \in unlocked THEN "panicked" ELSE "unlocked")
  /\ unlocked' = unlocked \cup {h}
  /\ UNCHANGED <<redis, auto, cnt, told>>

Refresh(h) ==
  /\ pc[h] = "held" /\ "Refresh" \in Uses[h] /\ Send("refresh", h)
  /\ UNCHANGED <<redis, auto, handle>>

\* ErrLockNotHold and other errors leave the Lock as it is.
RefreshEnd(h) ==
  /\ Reads("refresh", h, "1") \/ Reads("refresh", h, "0") \/ GivesUp("refresh", h)
  /\ To(h, "held")
  /\ UNCHANGED <<redis, auto, handle>>

-----------------------------------------------------------------------------
(* AutoRefresh, started once by the holder.  Its retries after a deadline are *)
(* never reached, since an error of Refresh has already returned; a refresh    *)
(* that is executed late changes nothing.                                      *)

AutoTo(h, l) == auto' = [auto EXCEPT ![h] = l] /\ UNCHANGED <<redis, pc, reply, late, handle>>

AutoRefresh(h) ==
  pc[h] = "held" /\ "AutoRefresh" \in Uses[h] /\ auto[h] = "off" /\ AutoTo(h, "select")

AutoTick(h) == auto[h] = "select" /\ AutoTo(h, "req")

AutoRefreshed(h) ==
  \/ auto[h] = "1" /\ AutoTo(h, "select")
  \/ auto[h] \in {"req", "0", "1"} /\ AutoTo(h, "ended")      \* an error, or no reply

AutoUnlocked(h) == auto[h] = "select" /\ h \in unlocked /\ AutoTo(h, "ended")

-----------------------------------------------------------------------------
Redis(h) == SetNX(h) \/ luaLock(h) \/ luaUnlock(h) \/ luaRefresh(h)

\* A call in progress goes on.
Progress(h) ==
  \/ TryLockEnd(h) \/ LockEnd(h) \/ UnlockEnd(h) \/ RefreshEnd(h)
  \/ pc[h] = "backoff" /\ Lock(h)

Next ==
  \/ Expire
  \/ \E h \in Handles :
       \/ Redis(h) \/ Lost(h) \/ Progress(h)
       \/ TryLock(h) \/ Lock(h) \/ LockGiveUp(h) \/ Unlock(h) \/ Refresh(h)
       \/ AutoRefresh(h) \/ AutoTick(h) \/ AutoRefreshed(h) \/ AutoUnlocked(h)

Spec == Init /\ [][Next]_vars

\* Calls in progress go on: a reply or an error comes.  select takes the
\* closed channel, since every turn of AutoRefresh starts a new ticker.
FairSpec ==
  /\ Spec
  /\ \A h \in Handles : /\ WF_vars(Progress(h)) /\ WF_vars(AutoRefreshed(h))
                        /\ SF_vars(AutoUnlocked(h))

-----------------------------------------------------------------------------
Commands == {"setnx", "lock", "unlock", "refresh"}

TypeOK ==
  /\ key \in Handles \cup {None}
  /\ pc \in [Handles -> Commands \cup {"new", "backoff", "held", "unlocked", "over", "panicked"}]
  /\ reply \in [Handles -> {"none", "req", "OK", "", "1", "0"}]
  /\ late \in [Handles -> SUBSET Commands]
  /\ auto \in [Handles -> {"off", "select", "req", "1", "0", "ended"}]
  /\ cnt \in [Handles -> 0..MaxCnt] /\ unlocked \subseteq Handles
  /\ said \in [Handles -> {"nothing", "ok", "notHold", "error"}]
  /\ granted \subseteq Handles /\ told \subseteq Handles
  /\ lapsed \subseteq Handles /\ released \subseteq Handles

\* Redis has granted h the lock, and h has neither been unlocked nor lapsed.
Entitled(h) ==
  /\ h \notin lapsed /\ h \notin released
  /\ pc[h] \in {"held", "refresh", "unlock", "unlocked"} \/ reply[h] = "OK"

\* A caller that holds a Lock whose lease has not run out and that has not
\* been unlocked is the owner of the key, whatever commands of others,
\* repeated by retries, lost or late, Redis executes: so there is one such
\* caller at a time.
Exclusive == \A h \in Handles : Entitled(h) => key = h

\* Unlock tells the truth: nil when this handle's key was deleted by it, and
\* ErrLockNotHold only when the lease had run out or an earlier Unlock of the
\* handle, reported as an error, had deleted the key after all.
UnlockTruth ==
  TypeOK /\ \A h \in Handles : /\ said[h] = "ok" => h \in released
                               /\ said[h] = "notHold" => h \in lapsed \cup released

\* The scripts and the commands around them implement the abstract lock: one
\* owner, granted at most once per handle, released by nobody else.
Lease == INSTANCE LeaseLock WITH owner <- key
LeaseSpec == Lease!LeaseSpec

\* Lock returns: with a lock, with an error, or by its panic.
LockReturns == \A h \in Handles : pc[h] = "lock" ~> pc[h] \notin {"lock", "backoff"}

\* Once Unlock has returned, however it ended, AutoRefresh returns.
AutoRefreshEnds ==
  \A h \in Handles : pc[h] = "unlocked" /\ auto[h] # "off" ~> auto[h] = "ended"

\* Lock and AutoRefresh come to an end.
LockCallsEnd == LockReturns /\ AutoRefreshEnds
=============================================================================
