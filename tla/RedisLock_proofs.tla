-------------------------- MODULE RedisLock_proofs --------------------------
(***************************************************************************)
(* RedisLock implements LeaseLock, and a caller entitled to the lock owns  *)
(* the key, for any number of handles and retries.                         *)
(***************************************************************************)
EXTENDS RedisLock, TLAPS

Acquires == {"setnx", "lock"}
Holds    == {"held", "refresh", "unlock", "unlocked"}

(***************************************************************************)
(* The inductive invariant.  A handle has at most one command that can     *)
(* acquire the lock, waited for or late; while it has not been executed,   *)
(* or was answered by "", the handle has not been granted the lock.        *)
(***************************************************************************)
Acquiring(h) ==
  /\ pc[h] \in {"new", "backoff", "setnx", "lock"} => "setnx" \notin late[h] /\ "lock" \notin late[h]
  /\ pc[h] \in {"new", "backoff"} => h \notin granted
  /\ pc[h] \in Acquires /\ reply[h] \in {"req", ""} => h \notin granted
  /\ "setnx" \in late[h] => h \notin granted /\ "lock" \notin late[h]
  /\ "lock" \in late[h] => h \notin granted
  /\ reply[h] = "OK" => pc[h] \in Acquires /\ h \in granted

(* Only a handle whose caller holds a Lock sends an unlock. *)
Releasing(h) == pc[h] \in Holds \/ "unlock" \in late[h] => h \in told

(* The owner of the key was granted the lock. *)
Owned == key # None => key \in granted

IInv == TypeOK /\ Exclusive /\ Owned /\ \A h \in Handles : Acquiring(h) /\ Releasing(h)

-----------------------------------------------------------------------------
(* What the steps of commands do to reply and late. *)
Answers == {"none", "req", "OK", "", "1", "0"}
Books(r, l) == r \in [Handles -> Answers] /\ l \in [Handles -> SUBSET Commands]

\* Redis runs a command, waited for or late, and answers the one waited for.
LEMMA ExecutesFacts ==
  ASSUME Books(reply, late), NEW h \in Handles, NEW op \in Commands, NEW r \in Answers,
         Executes(op, h, r)
  PROVE  /\ Books(reply', late')
         /\ \A g \in Handles : g # h => reply'[g] = reply[g] /\ late'[g] = late[g]
         /\ \/ pc[h] = op /\ reply[h] = "req" /\ reply'[h] = r /\ late'[h] = late[h]
            \/ op \in late[h] /\ reply'[h] = reply[h] /\ late'[h] = late[h] \ {op}
<1>1. CASE pc[h] = op /\ reply[h] = "req" /\ reply' = [reply EXCEPT ![h] = r] /\ UNCHANGED late
  BY <1>1 DEF Books
<1>2. CASE op \in late[h] /\ late' = [late EXCEPT ![h] = @ \ {op}] /\ UNCHANGED reply
  <2>1. late[h] \ {op} \in SUBSET Commands
    BY DEF Books
  <2> QED
    BY <1>2, <2>1 DEF Books
<1> QED
  BY <1>1, <1>2 DEF Executes

\* A caller reads an answer and waits no more.
LEMMA ReadsFacts ==
  ASSUME Books(reply, late), NEW h \in Handles, NEW op, NEW r, Reads(op, h, r)
  PROVE  /\ Books(reply', late') /\ pc[h] = op /\ reply[h] = r /\ reply'[h] = "none"
         /\ \A g \in Handles : late'[g] = late[g] /\ (g # h => reply'[g] = reply[g])
BY Zenon DEF Reads, Books, Answers

\* A caller gives up, and leaves a command that has not been run late.
LEMMA GivesUpFacts ==
  ASSUME Books(reply, late), NEW h \in Handles, NEW op \in Commands, GivesUp(op, h)
  PROVE  /\ Books(reply', late') /\ pc[h] = op /\ reply'[h] = "none"
         /\ \A g \in Handles : g # h => reply'[g] = reply[g] /\ late'[g] = late[g]
         /\ late'[h] = late[h] \/ (reply[h] = "req" /\ late'[h] = late[h] \cup {op})
<1> DEFINE L == IF reply[h] = "req" THEN late[h] \cup {op} ELSE late[h]
<1>1. L \in SUBSET Commands
  BY DEF Books
<1>2. late' = [late EXCEPT ![h] = L] /\ reply' = [reply EXCEPT ![h] = "none"] /\ pc[h] = op
  BY DEF GivesUp
<1>3. L = late[h] \/ (reply[h] = "req" /\ L = late[h] \cup {op})
  OBVIOUS
<1> HIDE DEF L
<1> QED
  BY Zenon, <1>1, <1>2, <1>3 DEF Books, Answers

\* A late command is lost.
LEMMA LostFacts ==
  ASSUME Books(reply, late), NEW h \in Handles, Lost(h)
  PROVE  /\ Books(reply', late') /\ UNCHANGED reply
         /\ \A g \in Handles : g # h => late'[g] = late[g]
         /\ late'[h] \subseteq late[h]
<1>1. PICK op \in late[h] : late' = [late EXCEPT ![h] = @ \ {op}]
  BY ZenonT(30) DEF Lost
<1>2. late[h] \ {op} \in SUBSET Commands
  BY DEF Books
<1> QED
  BY <1>1, <1>2 DEF Books, Lost

-----------------------------------------------------------------------------
(* Types are kept by every step (the shape of the state of redis_lock.go). *)
LEMMA TypeStep == TypeOK /\ [Next]_vars => TypeOK'
<1> SUFFICES ASSUME TypeOK, [Next]_vars PROVE TypeOK'
  OBVIOUS
<1>b. Books(reply, late)
  BY Zenon DEF TypeOK, Books, Answers
<1>c. {"setnx", "lock", "unlock", "refresh"} = Commands /\ {"none", "req", "OK", "", "1", "0"} = Answers
  BY DEF Commands, Answers
<1>1. CASE Expire
  BY Zenon, <1>1 DEF Expire, TypeOK, handle
<1>2. ASSUME NEW h \in Handles, SetNX(h) PROVE TypeOK'
  <2>1. Books(reply', late')
    BY Zenon, <1>2, <1>b, <1>c, ExecutesFacts DEF SetNX
  <2> QED
    BY Zenon, <1>2, <2>1 DEF SetNX, Granted, handle, TypeOK, Books, Answers, Commands
<1>3. ASSUME NEW h \in Handles, luaLock(h) PROVE TypeOK'
  <2>1. Books(reply', late')
    BY Zenon, <1>3, <1>b, <1>c, ExecutesFacts DEF luaLock
  <2> QED
    BY Zenon, <1>3, <2>1 DEF luaLock, Granted, handle, TypeOK, Books, Answers, Commands
<1>4. ASSUME NEW h \in Handles, luaUnlock(h) PROVE TypeOK'
  <2>1. Books(reply', late')
    BY Zenon, <1>4, <1>b, <1>c, ExecutesFacts DEF luaUnlock
  <2> QED
    BY Zenon, <1>4, <2>1 DEF luaUnlock, handle, TypeOK, Books, Answers, Commands
<1>5. ASSUME NEW h \in Handles, luaRefresh(h) PROVE TypeOK'
  <2> DEFINE r == IF key = h THEN "1" ELSE "0"
  <2>1. Books(reply', late')
    <3>1. CASE Executes("refresh", h, r)
      BY Zenon, <3>1, <1>b, <1>c, ExecutesFacts
    <3>2. CASE UNCHANGED <<reply, late>>
      BY <3>2, <1>b
    <3> QED
      BY <1>5, <3>1, <3>2 DEF luaRefresh
  <2>2. auto' \in [Handles -> {"off", "select", "req", "1", "0", "ended"}]
    BY Zenon, <1>5 DEF luaRefresh, TypeOK
  <2> QED
    BY Zenon, <1>5, <2>1, <2>2 DEF luaRefresh, redis, handle, TypeOK, Books, Answers
<1>6. ASSUME NEW h \in Handles, Lost(h) PROVE TypeOK'
  BY Zenon, <1>6, <1>b, LostFacts DEF Lost, redis, handle, TypeOK, Books, Answers
<1>7. ASSUME NEW h \in Handles, TryLock(h) \/ Lock(h) \/ LockGiveUp(h) \/ Unlock(h) \/ Refresh(h)
      PROVE TypeOK'
  BY Zenon, <1>7 DEF TryLock, Lock, LockGiveUp, Unlock, Refresh, Send, To, redis, handle, TypeOK, Commands
<1>8. ASSUME NEW h \in Handles, TryLockEnd(h) PROVE TypeOK'
  <2>1. Books(reply', late')
    BY Zenon, <1>8, <1>b, <1>c, ReadsFacts, GivesUpFacts DEF TryLockEnd
  <2> QED
    BY Zenon, <1>8, <2>1 DEF TryLockEnd, To, redis, TypeOK, Books, Answers, Commands
<1>9. ASSUME NEW h \in Handles, LockEnd(h) PROVE TypeOK'
  <2>1. Books(reply', late')
    BY Zenon, <1>9, <1>b, <1>c, ReadsFacts, GivesUpFacts DEF LockEnd
  <2>2. cnt' \in [Handles -> 0..MaxCnt]
    <3>1. cnt' = cnt \/ (cnt[h] < MaxCnt /\ cnt' = [cnt EXCEPT ![h] = @ + 1])
      BY <1>9, Zenon DEF LockEnd
    <3>2. cnt \in [Handles -> 0..MaxCnt]
      BY Zenon DEF TypeOK
    <3>3. CASE cnt[h] < MaxCnt /\ cnt' = [cnt EXCEPT ![h] = @ + 1]
      <4>1. cnt[h] + 1 \in 0..MaxCnt
        BY <3>2, <3>3, LockConstants
      <4> QED
        BY <3>2, <3>3, <4>1
    <3> QED
      BY <3>1, <3>2, <3>3
  <2>3. \E l \in {"held", "over", "backoff", "panicked"} : pc' = [pc EXCEPT ![h] = l]
    BY Zenon, <1>9 DEF LockEnd, To
  <2>4. told' \subseteq Handles /\ UNCHANGED <<redis, auto, unlocked, said>>
    BY Zenon, <1>9 DEF LockEnd, TypeOK
  <2>5. pc' \in [Handles -> Commands \cup {"new", "backoff", "held", "unlocked", "over", "panicked"}]
    BY Zenon, <2>3 DEF TypeOK
  <2> QED
    BY Zenon, <2>1, <2>2, <2>4, <2>5 DEF redis, TypeOK, Books, Answers
<1>10. ASSUME NEW h \in Handles, UnlockEnd(h) PROVE TypeOK'
  <2>1. Books(reply', late')
    BY Zenon, <1>10, <1>b, <1>c, ReadsFacts, GivesUpFacts DEF UnlockEnd
  <2> QED
    BY Zenon, <1>10, <2>1 DEF UnlockEnd, To, redis, TypeOK, Books, Answers, Commands
<1>11. ASSUME NEW h \in Handles, RefreshEnd(h) PROVE TypeOK'
  <2>1. Books(reply', late')
    BY Zenon, <1>11, <1>b, <1>c, ReadsFacts, GivesUpFacts DEF RefreshEnd
  <2> QED
    BY Zenon, <1>11, <2>1 DEF RefreshEnd, To, redis, handle, TypeOK, Books, Answers, Commands
<1>12. ASSUME NEW h \in Handles, AutoRefresh(h) \/ AutoTick(h) \/ AutoRefreshed(h) \/ AutoUnlocked(h)
       PROVE TypeOK'
  BY Zenon, <1>12 DEF AutoRefresh, AutoTick, AutoRefreshed, AutoUnlocked, AutoTo, redis, handle, TypeOK
<1>13. CASE UNCHANGED vars
  BY Zenon, <1>13 DEF vars, TypeOK
<1> QED
  BY <1>1, <1>2, <1>3, <1>4, <1>5, <1>6, <1>7, <1>8, <1>9, <1>10, <1>11, <1>12, <1>13, Zenon
  DEF Next, Progress, Redis

-----------------------------------------------------------------------------
Labels == Commands \cup {"new", "backoff", "held", "unlocked", "over", "panicked"}

(* A step of h leaves the other handles alone. *)
Others(h) ==
  \A g \in Handles : g # h =>
    /\ pc'[g] = pc[g] /\ reply'[g] = reply[g] /\ late'[g] = late[g]
    /\ g \in told' <=> g \in told
    /\ g \in granted' <=> g \in granted
    /\ g \in lapsed' <=> g \in lapsed
    /\ g \in released' <=> g \in released

\* A step of one handle keeps what the invariant says of the others.
LEMMA Frame ==
  ASSUME NEW h \in Handles, Others(h), NEW g \in Handles, g # h, Acquiring(g), Releasing(g)
  PROVE  Acquiring(g)' /\ Releasing(g)' /\ (Entitled(g)' <=> Entitled(g))
BY Zenon DEF Others, Acquiring, Releasing, Entitled

(* The invariant after a step of h that keeps the rest of the state apart. *)
LEMMA StepOf ==
  ASSUME IInv, TypeOK', NEW h \in Handles, Others(h), Acquiring(h)', Releasing(h)', Owned',
         Entitled(h)' => key' = h,
         \A g \in Handles : g # h /\ key = g => key' = g
  PROVE  IInv'
<1>1. ASSUME NEW g \in Handles PROVE Acquiring(g)' /\ Releasing(g)' /\ (Entitled(g)' => key' = g)
  <2>1. CASE g = h
    BY <2>1
  <2>2. CASE g # h
    BY <2>2, Frame DEF IInv, Exclusive
  <2> QED
    BY <2>1, <2>2
<1> QED
  BY <1>1 DEF IInv, Exclusive

(* A call ends: with a reply, or because nobody waits any more. *)
LEMMA EndInv ==
  ASSUME IInv, TypeOK', NEW h \in Handles, NEW op \in Commands, NEW r, NEW l,
         Reads(op, h, r) \/ (GivesUp(op, h) /\ r = "error"), To(h, l),
         UNCHANGED redis, told' \in {told, told \cup {h}},
         \/ l \in {"over", "panicked"}
         \/ l = "held" /\ op \in Acquires /\ r = "OK" /\ h \in told'
         \/ l = "backoff" /\ op = "lock" /\ r = ""
         \/ l \in {"held", "unlocked"} /\ op \in {"unlock", "refresh"}
  PROVE  IInv'
<1>b. Books(reply, late) /\ pc \in [Handles -> Labels]
  BY Zenon DEF IInv, TypeOK, Books, Answers, Labels
<1>1. pc'[h] = l /\ \A g \in Handles : g # h => pc'[g] = pc[g]
  BY Zenon, <1>b DEF To
<1>2. /\ pc[h] = op /\ reply'[h] = "none"
      /\ \A g \in Handles : g # h => reply'[g] = reply[g] /\ late'[g] = late[g]
      /\ \/ reply[h] = r /\ late'[h] = late[h]
         \/ r = "error" /\ late'[h] = late[h]
         \/ r = "error" /\ reply[h] = "req" /\ late'[h] = late[h] \cup {op}
  <2>1. CASE Reads(op, h, r)
    <3>1. /\ pc[h] = op /\ reply[h] = r /\ reply'[h] = "none"
          /\ \A g \in Handles : late'[g] = late[g] /\ (g # h => reply'[g] = reply[g])
      BY Zenon, <2>1, <1>b, ReadsFacts
    <3> QED
      BY Zenon, <3>1
  <2>2. CASE GivesUp(op, h) /\ r = "error"
    <3>1. /\ pc[h] = op /\ reply'[h] = "none"
          /\ \A g \in Handles : g # h => reply'[g] = reply[g] /\ late'[g] = late[g]
          /\ late'[h] = late[h] \/ (reply[h] = "req" /\ late'[h] = late[h] \cup {op})
      BY Zenon, <2>2, <1>b, GivesUpFacts
    <3> QED
      BY Zenon, <2>2, <3>1
  <2> QED
    BY Zenon, <2>1, <2>2
<1>3. UNCHANGED <<key, granted, lapsed, released>>
  BY Zenon DEF redis
<1>4. Others(h)
  <2>1. \A g \in Handles : g # h => (g \in told' <=> g \in told)
    BY Zenon
  <2> QED
    BY Zenon, <1>1, <1>2, <1>3, <2>1 DEF Others
<1>5. Acquiring(h) /\ Releasing(h) /\ (Entitled(h) => key = h) /\ Owned
  BY Zenon DEF IInv, Exclusive
<1>6. Acquiring(h)'
  <2> USE <1>1, <1>2, <1>3, <1>5 DEF Acquires, Commands
  <2>1. CASE op \in Acquires
    BY Zenon, <2>1 DEF Acquiring
  <2>2. CASE op \in {"unlock", "refresh"}
    BY Zenon, <2>2 DEF Acquiring
  <2> QED
    BY Zenon, <2>1, <2>2
<1>7. Releasing(h)'
  BY Zenon, <1>1, <1>2, <1>5 DEF Releasing, Holds, Acquires
<1>8. Entitled(h)' => key' = h
  BY Zenon, <1>1, <1>2, <1>3, <1>5 DEF Entitled, Acquires
<1>9. Owned'
  BY Zenon, <1>3, <1>5 DEF Owned
<1> QED
  BY Zenon, <1>3, <1>4, <1>6, <1>7, <1>8, <1>9, StepOf

(* Redis executes a command. *)
LEMMA ExecInv ==
  ASSUME IInv, TypeOK', NEW h \in Handles, NEW op \in Commands, NEW r \in {"OK", "", "1", "0"},
         Executes(op, h, r), UNCHANGED <<pc, told, lapsed>>,
         \/ op \in Acquires /\ key = None /\ r = "OK" /\ Granted(h) /\ UNCHANGED released
         \/ op \in Acquires /\ key = h /\ UNCHANGED <<key, granted, released>>
         \/ r # "OK" /\ UNCHANGED <<key, granted, released>>
         \/ op = "unlock" /\ key = h /\ r # "OK" /\ key' = None /\ released' = released \cup {h}
            /\ UNCHANGED granted
  PROVE  IInv'
<1>b. Books(reply, late) /\ r \in Answers
  BY Zenon DEF IInv, TypeOK, Books, Answers
<1>1. /\ \A g \in Handles : g # h => reply'[g] = reply[g] /\ late'[g] = late[g]
      /\ \/ pc[h] = op /\ reply[h] = "req" /\ reply'[h] = r /\ late'[h] = late[h]
         \/ op \in late[h] /\ reply'[h] = reply[h] /\ late'[h] = late[h] \ {op}
  BY Zenon, <1>b, ExecutesFacts
<1>2. Acquiring(h) /\ Releasing(h) /\ (Entitled(h) => key = h) /\ Owned /\ h # None
  BY Zenon, LockConstants DEF IInv, Exclusive
<1>3. ASSUME op \in Acquires, key = h PROVE FALSE
  BY Zenon, <1>1, <1>2, <1>3 DEF Acquiring, Acquires, Owned
<1>4. CASE op \in Acquires /\ key = None /\ r = "OK" /\ Granted(h) /\ UNCHANGED released
  <2>1. key' = h /\ granted' = granted \cup {h}
    BY <1>4 DEF Granted
  <2>2. Others(h)
    BY <1>1, <1>4, <2>1 DEF Others
  <2>3. Acquiring(h)'
    BY Zenon, <1>1, <1>2, <1>4, <2>1 DEF Acquiring, Acquires
  <2>4. Releasing(h)'
    BY Zenon, <1>1, <1>2 DEF Releasing
  <2> QED
    BY <1>2, <1>4, <2>1, <2>2, <2>3, <2>4, StepOf, LockConstants DEF Owned
<1>5. CASE r # "OK" /\ UNCHANGED <<key, granted, released>>
  <2>1. Others(h)
    BY Zenon, <1>1, <1>5 DEF Others
  <2>2. Acquiring(h)'
    BY Zenon, <1>1, <1>2, <1>5 DEF Acquiring, Acquires
  <2>3. Releasing(h)'
    BY Zenon, <1>1, <1>2 DEF Releasing
  <2>4. Entitled(h)' => key' = h
    BY Zenon, <1>1, <1>2, <1>5 DEF Entitled
  <2> QED
    BY Zenon, <1>2, <1>5, <2>1, <2>2, <2>3, <2>4, StepOf DEF Owned
<1>6. CASE op = "unlock" /\ key = h /\ r # "OK" /\ key' = None /\ released' = released \cup {h}
           /\ UNCHANGED granted
  <2>1. Others(h)
    BY Zenon, <1>1, <1>6 DEF Others
  <2>2. Acquiring(h)'
    BY Zenon, <1>1, <1>2, <1>6 DEF Acquiring, Acquires
  <2>3. Releasing(h)'
    BY Zenon, <1>1, <1>2 DEF Releasing
  <2>4. ~Entitled(h)'
    BY Zenon, <1>6 DEF Entitled
  <2> QED
    BY Zenon, <1>2, <1>6, <2>1, <2>2, <2>3, <2>4, StepOf DEF Owned
<1> QED
  BY Zenon, <1>3, <1>4, <1>5, <1>6

-----------------------------------------------------------------------------
\* Every step of the callers, of the network and of Redis keeps the
\* invariant.
LEMMA InvStep == IInv /\ [Next]_vars => IInv'
<1> SUFFICES ASSUME IInv, [Next]_vars PROVE IInv'
  OBVIOUS
<1>t. TypeOK'
  BY TypeStep DEF IInv
<1>b. Books(reply, late) /\ pc \in [Handles -> Labels]
  BY Zenon DEF IInv, TypeOK, Books, Answers, Labels
<1>c. {"setnx", "lock", "unlock", "refresh"} \subseteq Commands /\ {"setnx", "lock"} \subseteq Acquires
  BY DEF Commands, Acquires
<1>i. Exclusive /\ Owned /\ \A g \in Handles : Acquiring(g) /\ Releasing(g)
  BY DEF IInv
<1>1. ASSUME NEW h \in Handles, NEW op \in Commands, Send(op, h), UNCHANGED <<redis, told>>,
             \/ pc[h] \in {"new", "backoff"} /\ op \in Acquires
             \/ pc[h] \in {"held", "unlocked"} /\ op \in {"unlock", "refresh"}
      PROVE  IInv'
  <2>1. /\ pc'[h] = op /\ reply'[h] = "req" /\ UNCHANGED late
        /\ \A g \in Handles : g # h => pc'[g] = pc[g] /\ reply'[g] = reply[g]
    BY <1>1, <1>b DEF Send, To, Books
  <2>2. Others(h)
    BY <1>1, <2>1 DEF Others, redis
  <2>3. Acquiring(h)'
    BY Zenon, <1>1, <1>i, <2>1 DEF Acquiring, redis, Acquires
  <2>4. Releasing(h)'
    BY <1>1, <1>i, <2>1 DEF Releasing, Holds, Acquires
  <2>5. Entitled(h)' => key' = h
    BY <1>1, <1>i, <2>1 DEF Entitled, Exclusive, redis, Acquires
  <2> QED
    BY <1>1, <1>i, <1>t, <2>2, <2>3, <2>4, <2>5, StepOf DEF Owned, redis
<1>2. ASSUME NEW h \in Handles, TryLock(h) \/ Lock(h) \/ Unlock(h) \/ Refresh(h) PROVE IInv'
  BY <1>1, <1>2, <1>c DEF TryLock, Lock, Unlock, Refresh, handle
<1>3. ASSUME NEW h \in Handles, TryLockEnd(h) PROVE IInv'
  BY Zenon, <1>3, <1>t, <1>c, EndInv DEF TryLockEnd
<1>4. ASSUME NEW h \in Handles, LockEnd(h) PROVE IInv'
  BY Zenon, <1>4, <1>t, <1>c, EndInv DEF LockEnd
<1>5. ASSUME NEW h \in Handles, UnlockEnd(h) PROVE IInv'
  BY Zenon, <1>5, <1>t, <1>c, EndInv DEF UnlockEnd
<1>6. ASSUME NEW h \in Handles, RefreshEnd(h) PROVE IInv'
  BY Zenon, <1>6, <1>t, <1>c, EndInv DEF RefreshEnd, handle
<1>7. ASSUME NEW h \in Handles, SetNX(h) PROVE IInv'
  BY Zenon, <1>7, <1>t, <1>c, ExecInv DEF SetNX, handle
<1>8. ASSUME NEW h \in Handles, luaLock(h) PROVE IInv'
  BY Zenon, <1>8, <1>t, <1>c, ExecInv DEF luaLock, handle
<1>9. ASSUME NEW h \in Handles, luaUnlock(h) PROVE IInv'
  BY Zenon, <1>9, <1>t, <1>c, ExecInv DEF luaUnlock, handle
<1>10. ASSUME NEW h \in Handles, luaRefresh(h) PROVE IInv'
  <2> DEFINE r == IF key = h THEN "1" ELSE "0"
  <2>1. CASE Executes("refresh", h, r)
    BY Zenon, <1>10, <2>1, <1>t, <1>c, ExecInv DEF luaRefresh, handle, redis
  <2>2. CASE UNCHANGED <<reply, late>>
    BY Zenon, <1>10, <2>2, <1>t, <1>i DEF luaRefresh, handle, redis, IInv, Acquiring, Releasing, Exclusive,
       Entitled, Owned
  <2> QED
    BY <1>10, <2>1, <2>2 DEF luaRefresh
<1>11. ASSUME NEW h \in Handles, Lost(h) PROVE IInv'
  <2>1. /\ UNCHANGED <<key, granted, lapsed, released, pc, told>>
        /\ UNCHANGED reply /\ late'[h] \subseteq late[h]
        /\ \A g \in Handles : g # h => late'[g] = late[g]
    BY <1>11, <1>b, LostFacts DEF Lost, redis, handle
  <2>2. Others(h)
    BY <2>1 DEF Others
  <2>3. Acquiring(h)' /\ Releasing(h)' /\ (Entitled(h)' => key' = h) /\ Owned'
    BY Zenon, <2>1, <1>i DEF Acquiring, Releasing, Entitled, Exclusive, Owned
  <2> QED
    BY <1>t, <2>1, <2>2, <2>3, StepOf
<1>12. ASSUME NEW h \in Handles, LockGiveUp(h) PROVE IInv'
  <2>1. /\ UNCHANGED <<key, granted, lapsed, released, reply, late, told>>
        /\ pc'[h] = "over" /\ pc[h] = "backoff" /\ \A g \in Handles : g # h => pc'[g] = pc[g]
    BY <1>12, <1>b DEF LockGiveUp, To, redis, handle
  <2>2. Others(h)
    BY Zenon, <2>1 DEF Others
  <2>3. Acquiring(h)' /\ Releasing(h)' /\ (Entitled(h)' => key' = h) /\ Owned'
    BY Zenon, <2>1, <1>i DEF Acquiring, Acquires, Releasing, Holds, Entitled, Exclusive, Owned
  <2> QED
    BY <1>t, <2>1, <2>2, <2>3, StepOf
<1>13. ASSUME NEW h \in Handles, AutoRefresh(h) \/ AutoTick(h) \/ AutoRefreshed(h) \/ AutoUnlocked(h)
       PROVE IInv'
  BY ZenonT(30), <1>13, <1>t, <1>i DEF AutoRefresh, AutoTick, AutoRefreshed, AutoUnlocked, AutoTo, redis, handle,
     IInv, Acquiring, Releasing, Exclusive, Entitled, Owned
<1>14. CASE Expire
  BY Zenon, <1>14, <1>t, <1>i DEF Expire, handle, IInv, Acquiring, Releasing, Exclusive, Entitled, Owned
<1>15. CASE UNCHANGED vars
  BY Zenon, <1>15, <1>t, <1>i DEF vars, IInv, Acquiring, Releasing, Exclusive, Entitled, Owned
<1> QED
  BY <1>2, <1>3, <1>4, <1>5, <1>6, <1>7, <1>8, <1>9, <1>10, <1>11, <1>12, <1>13, <1>14, <1>15, Zenon
  DEF Next, Progress, Redis

\* No call has been made and nobody has the lock.
LEMMA InvInit == Init => IInv
BY LockConstants DEF Init, IInv, TypeOK, Commands, Exclusive, Entitled,
   Acquiring, Releasing, Acquires, Holds, Owned

(***************************************************************************)
(* A caller that holds a Lock whose lease has not run out and that has not *)
(* been unlocked owns the key: TryLock, Lock, the retries, lost and late   *)
(* commands and the scripts keep callers apart, for any number of them.    *)
(***************************************************************************)
THEOREM ExclusiveTheorem == Spec => []Exclusive
<1>1. IInv => Exclusive
  BY DEF IInv
<1> QED
  BY InvInit, InvStep, <1>1, PTL DEF Spec

-----------------------------------------------------------------------------
(* Every step is a step of the abstract lock, or leaves it alone. *)
LEMMA LeaseStep == IInv /\ [Next]_vars => [Lease!LeaseNext]_(Lease!leaseVars)
<1> SUFFICES ASSUME IInv, [Next]_vars PROVE [Lease!LeaseNext]_(Lease!leaseVars)
  OBVIOUS
<1> USE DEF Lease!LeaseNext, Lease!leaseVars
<1>1. ASSUME NEW h \in Handles, SetNX(h) PROVE Lease!Grant(h) \/ UNCHANGED Lease!leaseVars
  BY Zenon, <1>1 DEF SetNX, Executes, Granted, Lease!Grant, handle, IInv, Acquiring, Acquires
<1>2. ASSUME NEW h \in Handles, luaLock(h) PROVE Lease!Grant(h) \/ UNCHANGED Lease!leaseVars
  BY Zenon, <1>2 DEF luaLock, Executes, Granted, Lease!Grant, handle, IInv, Acquiring, Acquires
<1>3. ASSUME NEW h \in Handles, luaUnlock(h) PROVE Lease!Release(h) \/ UNCHANGED Lease!leaseVars
  BY Zenon, <1>3 DEF luaUnlock, Executes, Lease!Release, handle, IInv, Releasing, Holds
<1>4. ASSUME NEW h \in Handles, TryLockEnd(h) \/ LockEnd(h)
      PROVE Lease!Tell(h) \/ UNCHANGED Lease!leaseVars
  BY Zenon, <1>4 DEF TryLockEnd, LockEnd, Reads, GivesUp, Lease!Tell, redis, IInv, Acquiring
<1>5. ASSUME NEW h \in Handles, TryLock(h) \/ Lock(h) \/ Unlock(h) \/ Refresh(h) \/ LockGiveUp(h)
                                \/ UnlockEnd(h) \/ RefreshEnd(h) \/ luaRefresh(h) \/ Lost(h)
      PROVE UNCHANGED Lease!leaseVars
  BY Zenon, <1>5 DEF TryLock, Lock, Unlock, Refresh, LockGiveUp, UnlockEnd, RefreshEnd, luaRefresh, Lost,
     redis, handle
<1>6. ASSUME NEW h \in Handles, AutoRefresh(h) \/ AutoTick(h) \/ AutoRefreshed(h) \/ AutoUnlocked(h)
      PROVE UNCHANGED Lease!leaseVars
  BY <1>6 DEF AutoRefresh, AutoTick, AutoRefreshed, AutoUnlocked, AutoTo, redis, handle
<1>7. CASE Expire
  BY <1>7 DEF Expire, Lease!Lapse, handle
<1>8. CASE UNCHANGED vars
  BY <1>8 DEF vars
<1> QED
  BY <1>1, <1>2, <1>3, <1>4, <1>5, <1>6, <1>7, <1>8 DEF Next, Progress, Redis

(***************************************************************************)
(* redis_lock.go with its scripts implements the abstract lock: one owner  *)
(* at a time, granted at most once to a handle, told only to a caller that *)
(* was granted it, and released only by such a caller or by its lease.     *)
(***************************************************************************)
THEOREM Implements == Spec => LeaseSpec
<1>1. Init => Lease!LeaseInit
  BY DEF Init, Lease!LeaseInit
<1> QED
  BY <1>1, InvInit, InvStep, LeaseStep, PTL DEF Spec, LeaseSpec, Lease!LeaseSpec

-----------------------------------------------------------------------------
(***************************************************************************)
(* What Unlock says.  The reply that a caller of Unlock waits for, and     *)
(* what it has been told, agree with what happened to the key.             *)
(***************************************************************************)
Truthful(h) ==
  /\ pc[h] = "unlock" /\ reply[h] = "1" => h \in released
  /\ pc[h] = "unlock" /\ reply[h] = "0" => h \in lapsed \cup released
  /\ said[h] = "ok" => h \in released
  /\ said[h] = "notHold" => h \in lapsed \cup released

Truth == \A h \in Handles : Truthful(h)

(* Leases that ran out and locks that were released stay so. *)
Growing == lapsed \subseteq lapsed' /\ released \subseteq released'

(* A step of h that says nothing new to the others. *)
LEMMA TruthOf ==
  ASSUME Truth, Growing, NEW h \in Handles, Truthful(h)',
         \A g \in Handles : g # h => pc'[g] = pc[g] /\ reply'[g] = reply[g] /\ said'[g] = said[g]
  PROVE  Truth'
<1>1. ASSUME NEW g \in Handles, g # h PROVE Truthful(g)'
  BY Zenon, <1>1 DEF Truth, Truthful, Growing
<1> QED
  BY Zenon, <1>1 DEF Truth

(* Redis executes a command: an unlock finds the key, or it is gone. *)
LEMMA TruthExec ==
  ASSUME IInv, Truth, Growing, NEW h \in Handles, NEW op \in Commands, NEW r \in {"OK", "", "1", "0"},
         Executes(op, h, r), UNCHANGED <<pc, said>>,
         op = "unlock" /\ r = "1" => h \in released',
         op = "unlock" /\ r = "0" => key # h
  PROVE  Truth'
<1>b. Books(reply, late) /\ r \in Answers
  BY Zenon DEF IInv, TypeOK, Books, Answers
<1>1. /\ \A g \in Handles : g # h => reply'[g] = reply[g]
      /\ \/ pc[h] = op /\ reply[h] = "req" /\ reply'[h] = r
         \/ reply'[h] = reply[h]
  BY Zenon, <1>b, ExecutesFacts
<1>2. pc[h] = "unlock" => h \in lapsed \/ h \in released \/ key = h
  BY Zenon DEF IInv, Exclusive, Entitled
<1>3. Truthful(h)'
  <2>1. CASE pc[h] = op /\ reply[h] = "req" /\ reply'[h] = r
    BY Zenon, <1>2, <2>1 DEF Truth, Truthful, Growing
  <2>2. CASE reply'[h] = reply[h]
    BY Zenon, <2>2 DEF Truth, Truthful, Growing
  <2> QED
    BY Zenon, <1>1, <2>1, <2>2
<1> QED
  BY Zenon, <1>1, <1>3, TruthOf

\* Every step keeps what the answers of unlock.lua, read or not, say.
LEMMA TruthStep == IInv /\ Truth /\ [Next]_vars => Truth'
<1> SUFFICES ASSUME IInv, Truth, [Next]_vars PROVE Truth'
  OBVIOUS
<1>b. Books(reply, late) /\ pc \in [Handles -> Labels]
  BY Zenon DEF IInv, TypeOK, Books, Answers, Labels
<1>c. {"setnx", "lock", "unlock", "refresh"} \subseteq Commands
  BY DEF Commands
<1>p. ASSUME NEW h \in Handles, NEW l, To(h, l)
      PROVE  pc'[h] = l /\ \A g \in Handles : g # h => pc'[g] = pc[g]
  BY <1>b, <1>p DEF To
<1>1. ASSUME NEW h \in Handles, SetNX(h) PROVE Truth'
  BY Zenon, <1>1, <1>c, TruthExec DEF SetNX, Growing, handle
<1>2. ASSUME NEW h \in Handles, luaLock(h) PROVE Truth'
  BY Zenon, <1>2, <1>c, TruthExec DEF luaLock, Growing, handle
<1>3. ASSUME NEW h \in Handles, luaUnlock(h) PROVE Truth'
  <2>1. Growing /\ UNCHANGED <<pc, said>>
    BY <1>3 DEF luaUnlock, Growing, handle
  <2>2. CASE key = h /\ Executes("unlock", h, "1") /\ released' = released \cup {h}
    BY Zenon, <1>c, <2>1, <2>2, TruthExec
  <2>3. CASE key # h /\ Executes("unlock", h, "0")
    BY Zenon, <1>c, <2>1, <2>3, TruthExec
  <2> QED
    BY <1>3, <2>2, <2>3 DEF luaUnlock
<1>4. ASSUME NEW h \in Handles, luaRefresh(h) PROVE Truth'
  <2> DEFINE r == IF key = h THEN "1" ELSE "0"
  <2>1. Growing /\ UNCHANGED <<pc, said>>
    BY <1>4 DEF luaRefresh, Growing, redis, handle
  <2>2. CASE Executes("refresh", h, r)
    BY Zenon, <1>c, <2>1, <2>2, TruthExec
  <2>3. CASE UNCHANGED reply
    BY <2>1, <2>3 DEF Truth, Truthful, Growing
  <2> QED
    BY <1>4, <2>2, <2>3 DEF luaRefresh
<1>5. CASE Expire
  BY <1>5 DEF Expire, handle, Truth, Truthful
<1>6. ASSUME NEW h \in Handles,
             \/ Lost(h) \/ AutoRefresh(h) \/ AutoTick(h) \/ AutoRefreshed(h) \/ AutoUnlocked(h)
      PROVE  Truth'
  <2>1. UNCHANGED <<pc, reply, said, lapsed, released>>
    BY <1>6 DEF Lost, AutoRefresh, AutoTick, AutoRefreshed, AutoUnlocked, AutoTo, redis, handle
  <2> QED
    BY Zenon, <2>1 DEF Truth, Truthful
<1>7. ASSUME NEW h \in Handles, TryLock(h) \/ Lock(h) \/ Unlock(h) \/ Refresh(h) PROVE Truth'
  <2>1. PICK op : Send(op, h) /\ UNCHANGED <<said, lapsed, released>>
    BY <1>7 DEF TryLock, Lock, Unlock, Refresh, redis, handle
  <2>2. /\ reply'[h] = "req"
        /\ \A g \in Handles : g # h => pc'[g] = pc[g] /\ reply'[g] = reply[g]
    BY Zenon, <1>b, <1>p, <2>1 DEF Send, Books
  <2>3. Truthful(h)' /\ Growing
    BY <2>1, <2>2 DEF Truth, Truthful, Growing
  <2> QED
    BY Zenon, <2>1, <2>2, <2>3, TruthOf
<1>8. ASSUME NEW h \in Handles, LockGiveUp(h) PROVE Truth'
  <2>1. /\ pc'[h] = "over" /\ UNCHANGED <<said, lapsed, released, reply>>
        /\ \A g \in Handles : g # h => pc'[g] = pc[g]
    BY <1>8, <1>p DEF LockGiveUp, redis, handle
  <2>2. Truthful(h)' /\ Growing
    BY <2>1 DEF Truth, Truthful, Growing
  <2> QED
    BY Zenon, <2>1, <2>2, TruthOf
<1>9. ASSUME NEW h \in Handles, TryLockEnd(h) \/ LockEnd(h) \/ RefreshEnd(h) PROVE Truth'
  <2>1. /\ \E op \in Commands : (\E r : Reads(op, h, r)) \/ GivesUp(op, h)
        /\ \E l \in {"held", "over", "backoff", "panicked"} : To(h, l)
        /\ UNCHANGED <<said, lapsed, released>>
    BY ZenonT(30), <1>9, <1>c DEF TryLockEnd, LockEnd, RefreshEnd, redis, handle
  <2>2. /\ pc'[h] # "unlock" /\ \A g \in Handles : g # h => pc'[g] = pc[g]
        /\ \A g \in Handles : g # h => reply'[g] = reply[g]
    BY <1>b, <1>p, <2>1, ReadsFacts, GivesUpFacts
  <2>3. Truthful(h)' /\ Growing
    BY <2>1, <2>2 DEF Truth, Truthful, Growing
  <2> QED
    BY Zenon, <2>1, <2>2, <2>3, TruthOf
<1>10. ASSUME NEW h \in Handles, UnlockEnd(h) PROVE Truth'
  <2>1. /\ \/ Reads("unlock", h, "1") /\ said' = [said EXCEPT ![h] = "ok"]
           \/ Reads("unlock", h, "0") /\ said' = [said EXCEPT ![h] = "notHold"]
           \/ GivesUp("unlock", h) /\ said' = [said EXCEPT ![h] = "error"]
        /\ \E l \in {"panicked", "unlocked"} : To(h, l)
        /\ UNCHANGED <<lapsed, released>>
    BY <1>10 DEF UnlockEnd, redis
  <2>2. /\ pc'[h] # "unlock" /\ \A g \in Handles : g # h => pc'[g] = pc[g]
        /\ \A g \in Handles : g # h => reply'[g] = reply[g] /\ said'[g] = said[g]
    <3>1. pc'[h] # "unlock" /\ \A g \in Handles : g # h => pc'[g] = pc[g]
      BY Zenon, <1>p, <2>1
    <3>2. \A g \in Handles : g # h => reply'[g] = reply[g]
      BY Zenon, <2>1 DEF Reads, GivesUp, IInv, TypeOK
    <3>3. \A g \in Handles : g # h => said'[g] = said[g]
      BY Zenon, <2>1 DEF IInv, TypeOK
    <3> QED
      BY Zenon, <3>1, <3>2, <3>3
  <2>3. /\ said'[h] = "ok" => h \in released
        /\ said'[h] = "notHold" => h \in lapsed \cup released
    BY ZenonT(30), <2>1 DEF Reads, Truth, Truthful, IInv, TypeOK
  <2>4. Truthful(h)' /\ Growing
    BY ZenonT(30), <2>1, <2>2, <2>3 DEF Truthful, Growing
  <2> QED
    BY Zenon, <2>2, <2>4, TruthOf
<1>11. CASE UNCHANGED vars
  BY <1>11 DEF vars, Truth, Truthful
<1> QED
  BY <1>1, <1>2, <1>3, <1>4, <1>5, <1>6, <1>7, <1>8, <1>9, <1>10, <1>11, Zenon
  DEF Next, Progress, Redis

(***************************************************************************)
(* Unlock answers nil only when this handle's key was deleted by it, and   *)
(* ErrLockNotHold only when the lease had run out or an earlier Unlock of  *)
(* the handle had deleted the key: it never denies a lock that is held.    *)
(***************************************************************************)
THEOREM UnlockTellsTheTruth == Spec => []UnlockTruth
<1>1. Init => Truth
  BY Zenon DEF Init, Truth, Truthful
<1>2. IInv /\ Truth => UnlockTruth
  BY DEF IInv, Truth, Truthful, UnlockTruth
<1> QED
  BY <1>1, <1>2, InvInit, InvStep, TruthStep, PTL DEF Spec
=============================================================================
