------------------------------ MODULE ConnPool ------------------------------
(***************************************************************************)
(* The connection pool of micro/pool/pool.go: a mutex, a condition         *)
(* variable, a LIFO of idle connections, the map of connections in use, an *)
(* atomic counter of connections, and PoolConn wrappers that are recycled  *)
(* through a sync.Pool.                                                    *)
(*                                                                         *)
(* A critical section is one action when it neither unlocks nor races with *)
(* a lock-free step; the mutex is a variable because Get reads the counter *)
(* and goes to sleep inside one critical section while connCnt and the     *)
(* condition variable are also touched without the mutex.  Timestamps are  *)
(* abstracted: a connection may be found expired whenever the code tests.  *)
(***************************************************************************)
EXTENDS Integers, FiniteSets, Slices

CONSTANTS
  Callers,      \* goroutines that Get, use and return connections
  Wrappers,     \* PoolConn objects
  Conns,        \* net.Conn objects
  Cleaner,      \* the goroutine of backgroundCleanup
  NoProc, NoWrapper, NoConn,
  InitConnCnt, MaxIdleCnt, MaxConnCap,
  Envs          \* the surroundings to consider, a set of subsets of EnvChoices

\* ping: a ping function is configured; factory: dialling may fail; cancel:
\* a Get's context may end; reclose: a caller may close a handle it has already
\* returned; foreign: Put may be given a connection the pool did not make;
\* release: Release may be called.
EnvChoices == {"ping", "factory", "cancel", "reclose", "foreign", "release"}

ASSUME ConstantsAssumption ==
  /\ Cleaner \notin Callers /\ NoProc \notin Callers \cup {Cleaner}
  /\ NoWrapper \notin Wrappers
  /\ NoConn \notin Conns
  /\ InitConnCnt \in Nat /\ MaxIdleCnt \in Nat /\ MaxConnCap \in Nat
  /\ InitConnCnt <= MaxIdleCnt /\ MaxIdleCnt <= MaxConnCap
  /\ Envs \subseteq SUBSET EnvChoices

VARIABLES
  mutex,      \* the goroutine that holds the mutex across a step, or NoProc
  waitq,      \* the notify list of the sync.Cond, oldest first
  idle,       \* Pool.idleConns; the end of the sequence is taken first
  active,     \* Pool.activeConns
  connCnt,    \* Pool.connCnt
  closed,     \* Pool.closed
  conn,       \* PoolConn.conn of every wrapper
  returned,   \* PoolConn.returned of every wrapper
  free,       \* Pool.connPool, a bag: how often each wrapper is in it
  open,       \* the connections that are open
  pc,         \* where each caller is
  ref,        \* the wrapper each caller refers to
  cancelled,  \* whether the context of a caller's Get has ended
  afterFn,    \* context.AfterFunc goroutines that have not broadcast yet
  cleanerPc,  \* where backgroundCleanup is
  toClose,    \* the wrappers backgroundCleanup took out of idle
  releaserPc, \* where the call of Release is
  env         \* what the surroundings of this pool may do

lockVars   == <<mutex, waitq>>
connVars   == <<connCnt, conn, free, open>>
callerVars == <<pc, ref, cancelled, afterFn>>
poolVars   == <<lockVars, idle, active, closed, returned, connVars, callerVars,
                cleanerPc, toClose, releaserPc>>
vars == <<poolVars, env>>

-----------------------------------------------------------------------------
(* Helpers: the condition variable, the sync.Pool, closing a connection.   *)

Signal    == waitq' = IF waitq = <<>> THEN waitq ELSE Tail(waitq)
Broadcast == waitq' = <<>>

\* The callers that are responsible for the wrapper they refer to.
Owning(p) == pc[p] \in {"pingGet", "dialed", "dialClose", "hold", "putting",
                        "pingPut", "marking"}

Referenced == Range(idle) \cup active \cup Range(toClose) \cup {ref[p] : p \in Callers}

\* sync.Pool.Get: one of the wrappers put into it, or a new one.
Obtainable(w) == free[w] > 0 \/ w \notin Referenced

\* A new connection: those that are not open are all alike.
NewConn == CHOOSE c \in Conns : c \notin open

\* wrapConn: wrapper w, taken from the sync.Pool, now carries the fresh c.
wrapConn(w, c) ==
  /\ Obtainable(w)
  /\ c = NewConn /\ c \notin open
  /\ open' = open \cup {c}
  /\ conn' = [conn EXCEPT ![w] = c]
  /\ returned' = [returned EXCEPT ![w] = FALSE]
  /\ free' = [free EXCEPT ![w] = IF @ > 0 THEN @ - 1 ELSE 0]

closeConnLocked(w) ==
  /\ open' = open \ {conn[w]}
  /\ conn' = [conn EXCEPT ![w] = NoConn]
  /\ free' = [free EXCEPT ![w] = @ + 1]
  /\ connCnt' = connCnt - 1

Goto(p, l) == pc' = [pc EXCEPT ![p] = l]

\* Caller p's operation ends and p keeps no reference to a wrapper.
Leave(p) == /\ Goto(p, "out")
            /\ ref' = [ref EXCEPT ![p] = NoWrapper]

\* Caller p has given its wrapper back.  A careless caller keeps the handle.
Return(p) == /\ Goto(p, "out")
             /\ ref' = IF "reclose" \in env THEN ref
                       ELSE [ref EXCEPT ![p] = NoWrapper]

-----------------------------------------------------------------------------
(* NewPool: the pool as it is once the constructor has succeeded.          *)

Init ==
  /\ mutex = NoProc
  /\ waitq = <<>>
  /\ idle \in [1..InitConnCnt -> Wrappers]
  /\ IsInjective(idle)
  /\ active = {}
  /\ connCnt = InitConnCnt
  /\ closed = FALSE
  /\ conn \in [Wrappers -> Conns \cup {NoConn}]
  /\ \A w \in Wrappers : conn[w] = NoConn <=> w \notin Range(idle)
  /\ \A v, w \in Range(idle) : v # w => conn[v] # conn[w]
  /\ returned = [w \in Wrappers |-> FALSE]
  /\ free = [w \in Wrappers |-> 0]
  /\ open = {conn[w] : w \in Range(idle)}
  /\ pc = [p \in Callers |-> "out"]
  /\ ref = [p \in Callers |-> NoWrapper]
  /\ cancelled = [p \in Callers |-> FALSE]
  /\ afterFn = {}
  /\ cleanerPc = "select"
  /\ toClose = <<>>
  /\ releaserPc = "none"
  /\ env \in Envs

-----------------------------------------------------------------------------
(* Get, waitWithContext and getIdleConnLocked.                             *)

\* Lock, then the closed check.
GetBegin(p) ==
  /\ pc[p] = "out"
  /\ mutex = NoProc
  /\ IF closed
     THEN UNCHANGED <<mutex, pc, ref, cancelled>>
     ELSE /\ mutex' = p
          /\ Goto(p, "locked")
          /\ ref' = [ref EXCEPT ![p] = NoWrapper]
          /\ cancelled' = [cancelled EXCEPT ![p] = FALSE]
  /\ UNCHANGED <<waitq, idle, active, closed, returned, connVars, afterFn,
                 cleanerPc, toClose, releaserPc>>

\* getIdleConnLocked: the newest idle connection has expired.
PopExpired(p) ==
  /\ pc[p] = "locked"
  /\ idle # <<>>
  /\ closeConnLocked(Last(idle))
  /\ idle' = Front(idle)
  /\ UNCHANGED <<lockVars, active, closed, returned, callerVars, cleanerPc,
                 toClose, releaserPc>>

PopIdle_Peek(p) ==   \* mutant: the entry stays in idleConns during the probe
  /\ pc[p] = "locked"
  /\ idle # <<>>
  /\ ref' = [ref EXCEPT ![p] = Last(idle)]
  /\ Goto(p, "pingGet")
  /\ mutex' = NoProc
  /\ UNCHANGED <<waitq, idle, active, closed, returned, connVars, cancelled,
                 afterFn, cleanerPc, toClose, releaserPc>>

\* getIdleConnLocked: the newest idle connection is usable; with a ping
\* function it is probed outside the mutex first.
PopIdle(p) ==
  /\ pc[p] = "locked"
  /\ idle # <<>>
  /\ LET w == Last(idle) IN
       /\ ref' = [ref EXCEPT ![p] = w]
       /\ IF "ping" \in env
          THEN /\ Goto(p, "pingGet")
               /\ UNCHANGED <<active, returned>>
          ELSE /\ Goto(p, "hold")
               /\ active' = active \cup {w}
               /\ returned' = [returned EXCEPT ![w] = FALSE]
  /\ idle' = Front(idle)
  /\ mutex' = NoProc
  /\ UNCHANGED <<waitq, closed, connVars, cancelled, afterFn, cleanerPc,
                 toClose, releaserPc>>

\* getIdleConnLocked after the probe: pool closed, probe failed, probe passed.
PingGetDone(p) ==
  /\ pc[p] = "pingGet"
  /\ mutex = NoProc
  /\ \/ /\ closed
        /\ closeConnLocked(ref[p])
        /\ Leave(p)
        /\ UNCHANGED <<mutex, active, returned>>
     \/ /\ ~closed
        /\ closeConnLocked(ref[p])
        /\ mutex' = p
        /\ Goto(p, "locked")
        /\ ref' = [ref EXCEPT ![p] = NoWrapper]
        /\ UNCHANGED <<active, returned>>
     \/ /\ ~closed
        /\ active' = active \cup {ref[p]}
        /\ returned' = [returned EXCEPT ![ref[p]] = FALSE]
        /\ Goto(p, "hold")
        /\ UNCHANGED <<mutex, ref, connVars>>
  /\ UNCHANGED <<waitq, idle, closed, cancelled, afterFn, cleanerPc, toClose,
                 releaserPc>>

\* No idle connection and room for one more: reserve it and unlock to dial.
Reserve(p) ==
  /\ pc[p] = "locked"
  /\ idle = <<>>
  /\ connCnt < MaxConnCap
  /\ connCnt' = connCnt + 1
  /\ mutex' = NoProc
  /\ Goto(p, "dial")
  /\ UNCHANGED <<waitq, idle, active, closed, returned, conn, free, open, ref,
                 cancelled, afterFn, cleanerPc, toClose, releaserPc>>

DialOk(p) ==
  /\ pc[p] = "dial"
  /\ \E w \in Wrappers, c \in Conns :
       /\ wrapConn(w, c)
       /\ ref' = [ref EXCEPT ![p] = w]
  /\ Goto(p, "dialed")
  /\ UNCHANGED <<lockVars, idle, active, closed, connCnt, cancelled, afterFn,
                 cleanerPc, toClose, releaserPc>>

DialFail_KeepSlot(p) ==   \* mutant: the reservation is not undone
  /\ "factory" \in env
  /\ pc[p] = "dial"
  /\ Goto(p, "dialFailed")
  /\ UNCHANGED <<lockVars, idle, active, closed, returned, connVars, ref,
                 cancelled, afterFn, cleanerPc, toClose, releaserPc>>

\* The factory fails: the reservation is undone without the mutex.
DialFail(p) ==
  /\ "factory" \in env
  /\ pc[p] = "dial"
  /\ connCnt' = connCnt - 1
  /\ Goto(p, "dialFailed")
  /\ UNCHANGED <<lockVars, idle, active, closed, returned, conn, free, open,
                 ref, cancelled, afterFn, cleanerPc, toClose, releaserPc>>

\* ... and waiters are told, again without the mutex.
DialFailBroadcast(p) ==
  /\ pc[p] = "dialFailed"
  /\ Broadcast
  /\ Leave(p)
  /\ UNCHANGED <<mutex, idle, active, closed, returned, connVars, cancelled,
                 afterFn, cleanerPc, toClose, releaserPc>>

DialRegister_NoCheck(p) ==   \* mutant: closed is not checked again
  /\ pc[p] = "dialed"
  /\ mutex = NoProc
  /\ Goto(p, "hold")
  /\ active' = active \cup {ref[p]}
  /\ UNCHANGED <<lockVars, idle, closed, returned, connVars, ref, cancelled,
                 afterFn, cleanerPc, toClose, releaserPc>>

\* The dialled connection is registered, unless the pool closed meanwhile.
DialRegister(p) ==
  /\ pc[p] = "dialed"
  /\ mutex = NoProc
  /\ IF closed
     THEN Goto(p, "dialClose") /\ UNCHANGED active
     ELSE Goto(p, "hold") /\ active' = active \cup {ref[p]}
  /\ UNCHANGED <<lockVars, idle, closed, returned, connVars, ref, cancelled,
                 afterFn, cleanerPc, toClose, releaserPc>>

DialClose(p) ==
  /\ pc[p] = "dialClose"
  /\ mutex = NoProc
  /\ closeConnLocked(ref[p])
  /\ Leave(p)
  /\ UNCHANGED <<lockVars, idle, active, closed, returned, cancelled, afterFn,
                 cleanerPc, toClose, releaserPc>>

\* No idle connection and no room: waitWithContext up to cond.Wait.  The
\* mutex stays held; the AfterFunc is registered.
Park(p) ==
  /\ pc[p] = "locked"
  /\ idle = <<>>
  /\ connCnt >= MaxConnCap
  /\ IF cancelled[p]
     THEN Goto(p, "out") /\ mutex' = NoProc
     ELSE Goto(p, "parking") /\ UNCHANGED mutex
  /\ UNCHANGED <<waitq, idle, active, closed, returned, connVars, ref,
                 cancelled, afterFn, cleanerPc, toClose, releaserPc>>

\* cond.Wait: join the notify list, then unlock.
Sleep(p) ==
  /\ pc[p] = "parking"
  /\ waitq' = Append(waitq, p)
  /\ mutex' = NoProc
  /\ Goto(p, "wait")
  /\ UNCHANGED <<idle, active, closed, returned, connVars, ref, cancelled,
                 afterFn, cleanerPc, toClose, releaserPc>>

\* cond.Wait returns with the mutex; closed, then the context, are checked.
Wake(p) ==
  /\ pc[p] = "wait"
  /\ p \notin Range(waitq)
  /\ mutex = NoProc
  /\ IF closed \/ cancelled[p]
     THEN Goto(p, "out") /\ UNCHANGED mutex
     ELSE Goto(p, "locked") /\ mutex' = p
  /\ UNCHANGED <<waitq, idle, active, closed, returned, connVars, ref,
                 cancelled, afterFn, cleanerPc, toClose, releaserPc>>

\* The context of p's Get ends; a registered AfterFunc starts its goroutine.
Cancel(p) ==
  /\ "cancel" \in env
  /\ pc[p] \in {"locked", "pingGet", "parking", "wait"}
  /\ ~cancelled[p]
  /\ cancelled' = [cancelled EXCEPT ![p] = TRUE]
  /\ afterFn' = IF pc[p] \in {"parking", "wait"} THEN afterFn \cup {p}
                ELSE afterFn
  /\ UNCHANGED <<lockVars, idle, active, closed, returned, connVars, pc, ref,
                 cleanerPc, toClose, releaserPc>>

\* The AfterFunc goroutine broadcasts, without the mutex.
AfterFunc(p) ==
  /\ p \in afterFn
  /\ afterFn' = afterFn \ {p}
  /\ Broadcast
  /\ UNCHANGED <<mutex, idle, active, closed, returned, connVars, pc, ref,
                 cancelled, cleanerPc, toClose, releaserPc>>

-----------------------------------------------------------------------------
(* Returning a connection: Close, Put, MarkUnhealthy.                      *)

\* The caller has a handle: its own, or one it has already returned.
HasHandle(p) == pc[p] = "hold" \/ (pc[p] = "out" /\ ref[p] # NoWrapper)

\* The compare-and-swap on returned that putConn and markUnhealthy begin with.
GiveBack(p) ==
  /\ HasHandle(p)
  /\ IF returned[ref[p]]
     THEN Leave(p) /\ UNCHANGED returned
     ELSE /\ returned' = [returned EXCEPT ![ref[p]] = TRUE]
          /\ \E l \in {"putting", "marking"} : Goto(p, l)
          /\ UNCHANGED ref
  /\ UNCHANGED <<lockVars, idle, active, closed, connVars, cancelled, afterFn,
                 cleanerPc, toClose, releaserPc>>

KeepOrClose_NoSignal(w) ==   \* mutant: no waiter is told of the idle entry
  \/ /\ Len(idle) < MaxIdleCnt
     /\ idle' = Append(idle, w)
     /\ UNCHANGED <<waitq, connVars>>
  \/ /\ Len(idle) >= MaxIdleCnt
     /\ closeConnLocked(w)
     /\ Broadcast
     /\ UNCHANGED idle

\* putConn's tail: keep the connection if there is room among the idle ones.
KeepOrClose(w) ==
  \/ /\ Len(idle) < MaxIdleCnt
     /\ idle' = Append(idle, w)
     /\ Signal
     /\ UNCHANGED connVars
  \/ /\ Len(idle) >= MaxIdleCnt
     /\ closeConnLocked(w)
     /\ Broadcast
     /\ UNCHANGED idle

\* putConn after the compare-and-swap.
PutConn(p) ==
  /\ pc[p] = "putting"
  /\ mutex = NoProc
  /\ \/ /\ closed
        /\ closeConnLocked(ref[p])
        /\ Return(p)
        /\ UNCHANGED <<waitq, idle, active>>
     \/ /\ ~closed              \* past its lifetime
        /\ active' = active \ {ref[p]}
        /\ closeConnLocked(ref[p])
        /\ Broadcast
        /\ Return(p)
        /\ UNCHANGED idle
     \/ /\ ~closed
        /\ active' = active \ {ref[p]}
        /\ IF "ping" \in env
           THEN Goto(p, "pingPut") /\ UNCHANGED <<ref, waitq, idle, connVars>>
           ELSE KeepOrClose(ref[p]) /\ Return(p)
  /\ UNCHANGED <<mutex, closed, returned, cancelled, afterFn, cleanerPc, toClose,
                 releaserPc>>

\* putConn after the probe; the code does not look at closed again.
PingPutDone(p) ==
  /\ pc[p] = "pingPut"
  /\ mutex = NoProc
  /\ \/ closeConnLocked(ref[p]) /\ Broadcast /\ UNCHANGED idle
     \/ KeepOrClose(ref[p])
  /\ Return(p)
  /\ UNCHANGED <<mutex, active, closed, returned, cancelled, afterFn, cleanerPc,
                 toClose, releaserPc>>

\* markUnhealthy after the compare-and-swap.
MarkUnhealthy(p) ==
  /\ pc[p] = "marking"
  /\ mutex = NoProc
  /\ active' = active \ {ref[p]}
  /\ closeConnLocked(ref[p])
  /\ Broadcast
  /\ Return(p)
  /\ UNCHANGED <<mutex, idle, closed, returned, cancelled, afterFn, cleanerPc,
                 toClose, releaserPc>>

\* Put of a connection the pool did not make: counted, wrapped, kept or closed.
PutForeign ==
  /\ "foreign" \in env
  /\ mutex = NoProc
  /\ ~closed
  /\ IF Len(idle) < MaxIdleCnt
     THEN /\ \E w \in Wrappers, c \in Conns :
               wrapConn(w, c) /\ idle' = Append(idle, w)
          /\ connCnt' = connCnt + 1
          /\ Signal
     ELSE /\ \E w \in Wrappers :
               /\ Obtainable(w)
               /\ returned' = [returned EXCEPT ![w] = FALSE]
               /\ free' = [free EXCEPT ![w] = IF @ > 0 THEN @ ELSE 1]
          /\ UNCHANGED <<idle, connCnt, conn, open, waitq>>
  /\ UNCHANGED <<mutex, active, closed, callerVars, cleanerPc, toClose, releaserPc>>

-----------------------------------------------------------------------------
(* backgroundCleanup and Release.                                          *)

\* A tick: lock, then the closed check.
CleanTick ==
  /\ cleanerPc = "select"
  /\ mutex = NoProc
  /\ IF closed
     THEN cleanerPc' = "done" /\ UNCHANGED mutex
     ELSE cleanerPc' = "scan" /\ mutex' = Cleaner
  /\ UNCHANGED <<waitq, idle, active, closed, returned, connVars, callerVars,
                 toClose, releaserPc>>

\* The loop over idleConns takes out an expired connection.
CleanTake ==
  /\ cleanerPc = "scan"
  /\ \E i \in DOMAIN idle : /\ toClose' = Append(toClose, idle[i])
                            /\ idle' = RemoveAt(idle, i)
  /\ UNCHANGED <<lockVars, active, closed, returned, connVars, callerVars,
                 cleanerPc, releaserPc>>

CleanUnlock ==
  /\ cleanerPc = "scan"
  /\ mutex' = NoProc
  /\ cleanerPc' = IF toClose = <<>> THEN "select" ELSE "closing"
  /\ UNCHANGED <<waitq, idle, active, closed, returned, connVars, callerVars,
                 toClose, releaserPc>>

\* closeConn of one of them; each takes the mutex anew.
CleanClose ==
  /\ cleanerPc = "closing"
  /\ mutex = NoProc
  /\ toClose # <<>>
  /\ closeConnLocked(Last(toClose))
  /\ toClose' = Front(toClose)
  /\ UNCHANGED <<lockVars, idle, active, closed, returned, callerVars,
                 cleanerPc, releaserPc>>

\* All closed: tell the waiters, without the mutex.
CleanBroadcast ==
  /\ cleanerPc = "closing"
  /\ toClose = <<>>
  /\ Broadcast
  /\ cleanerPc' = "select"
  /\ UNCHANGED <<mutex, idle, active, closed, returned, connVars, callerVars,
                 toClose, releaserPc>>

\* closeCh is closed.
CleanStop ==
  /\ cleanerPc = "select"
  /\ releaserPc \in {"waiting", "done"}
  /\ cleanerPc' = "done"
  /\ UNCHANGED <<lockVars, idle, active, closed, returned, connVars,
                 callerVars, toClose, releaserPc>>

ReleaseBegin ==
  /\ "release" \in env
  /\ releaserPc = "none"
  /\ mutex = NoProc
  /\ closed' = TRUE
  /\ releaserPc' = "closing"
  /\ UNCHANGED <<lockVars, idle, active, returned, connVars, callerVars,
                 cleanerPc, toClose>>

\* close(closeCh) and the broadcast, without the mutex.
ReleaseBroadcast ==
  /\ releaserPc = "closing"
  /\ Broadcast
  /\ releaserPc' = "waiting"
  /\ UNCHANGED <<mutex, idle, active, closed, returned, connVars, callerVars,
                 cleanerPc, toClose>>

\* wg.Wait has returned: close what is idle and what is in use.
ReleaseCloseAll ==
  /\ releaserPc = "waiting"
  /\ cleanerPc = "done"
  /\ mutex = NoProc
  /\ LET all == Range(idle) \cup active IN
       /\ open' = open \ {conn[w] : w \in all}
       /\ conn' = [w \in Wrappers |-> IF w \in all THEN NoConn ELSE conn[w]]
       /\ free' = [w \in Wrappers |->
                     free[w] + Cardinality({i \in DOMAIN idle : idle[i] = w})
                             + (IF w \in active THEN 1 ELSE 0)]
  /\ idle' = <<>>
  /\ active' = {}
  /\ connCnt' = 0
  /\ releaserPc' = "done"
  /\ UNCHANGED <<lockVars, closed, returned, callerVars, cleanerPc, toClose>>

-----------------------------------------------------------------------------

GetStep(p) ==
  \/ PopExpired(p) \/ PopIdle(p) \/ PingGetDone(p) \/ Reserve(p)
  \/ DialOk(p) \/ DialFail(p) \/ DialFailBroadcast(p) \/ DialRegister(p)
  \/ DialClose(p) \/ Park(p) \/ Sleep(p) \/ Wake(p)

PutStep(p) ==
  GiveBack(p) \/ PutConn(p) \/ PingPutDone(p) \/ MarkUnhealthy(p)

CleanStep == CleanTake \/ CleanUnlock \/ CleanClose \/ CleanBroadcast \/ CleanStop

ReleaseStep == ReleaseBroadcast \/ ReleaseCloseAll

PoolStep ==
  \/ \E p \in Callers :
       GetBegin(p) \/ GetStep(p) \/ PutStep(p) \/ Cancel(p) \/ AfterFunc(p)
  \/ PutForeign
  \/ CleanTick \/ CleanStep
  \/ ReleaseBegin \/ ReleaseStep

Next == PoolStep /\ UNCHANGED env

Spec == Init /\ [][Next]_vars

\* Go's scheduler runs every runnable goroutine and its mutex, in starvation
\* mode, hands itself to the longest waiter, so the steps that need the mutex
\* are strongly fair; dialling and probing end.
PoolFairness ==
  /\ \A p \in Callers :
       /\ SF_poolVars(GetStep(p))
       /\ SF_poolVars(PutConn(p) \/ PingPutDone(p) \/ MarkUnhealthy(p))
       /\ WF_poolVars(AfterFunc(p))
  /\ SF_poolVars(CleanStep)
  /\ SF_poolVars(ReleaseStep)

\* In addition every caller returns the connection it was given.
CallersReturn == \A p \in Callers : WF_poolVars(GiveBack(p))

FairSpec == Spec /\ PoolFairness

-----------------------------------------------------------------------------
(* Properties.                                                             *)

\* The variables have their types and the idle list respects maxIdleCnt.
TypeOK ==
  /\ mutex \in Callers \cup {Cleaner, NoProc}
  /\ waitq \in Seq(Callers)
  /\ idle \in Seq(Wrappers) /\ Len(idle) <= MaxIdleCnt
  /\ active \subseteq Wrappers
  /\ connCnt \in Int
  /\ closed \in BOOLEAN
  /\ conn \in [Wrappers -> Conns \cup {NoConn}]
  /\ returned \in [Wrappers -> BOOLEAN]
  /\ free \in [Wrappers -> Nat]
  /\ open \subseteq Conns
  /\ pc \in [Callers -> {"out", "locked", "pingGet", "dial", "dialed",
                         "dialFailed", "dialClose", "parking", "wait", "hold",
                         "putting", "pingPut", "marking"}]
  /\ ref \in [Callers -> Wrappers \cup {NoWrapper}]
  /\ cancelled \in [Callers -> BOOLEAN]
  /\ afterFn \subseteq Callers
  /\ cleanerPc \in {"select", "scan", "closing", "done"}
  /\ toClose \in Seq(Wrappers)
  /\ releaserPc \in {"none", "closing", "waiting", "done"}

\* Release has not yet closed what is left, and callers return a handle once.
InService == releaserPc # "done" /\ "reclose" \notin env

\* Until Release closes what is left, and unless a caller closes a handle it has
\* returned, a wrapper is in one place: no two goroutines work with the same
\* PoolConn, and one that somebody works with is neither idle nor waiting in the
\* sync.Pool to be recycled, although Get and putConn give up the mutex while
\* they dial and probe.
Exclusive ==
  InService =>
    /\ IsInjective(idle)
    /\ \A p \in Callers : Owning(p) =>
         /\ ref[p] \in Wrappers
         /\ ref[p] \notin Range(idle) \cup Range(toClose)
         /\ free[ref[p]] = 0
         /\ \A q \in Callers \ {p} : Owning(q) => ref[p] # ref[q]

\* Under the same conditions a caller between Get and Close has a connection
\* that is open, that no other wrapper carries, and that the pool lists in
\* activeConns.
HeldUsable ==
  InService =>
    \A p \in Callers : pc[p] = "hold" =>
      /\ ref[p] \in active
      /\ conn[ref[p]] \in open
      /\ \A w \in Wrappers \ {ref[p]} : conn[w] # conn[ref[p]]

\* Under the same conditions connCnt is the number of connections in existence:
\* idle, being removed by backgroundCleanup, with a caller, or being dialled.
CountExact ==
  InService =>
    connCnt = Len(idle) + Len(toClose)
              + Cardinality({p \in Callers : Owning(p) \/ pc[p] = "dial"})

\* maxConnCap bounds both the counter and the connections that really are open,
\* if every connection is made by the pool and returned once.
CapRespected ==
  env \cap {"foreign", "reclose"} = {} =>
    /\ connCnt <= MaxConnCap
    /\ Cardinality(open) <= MaxConnCap

\* After Release, once no call is in progress, every connection is closed: the
\* idle ones, those still with a caller (pool_test.go
\* TestReleaseClosesAllConnections), and those that were being dialled or
\* probed.  Two exceptions are the code's.  putConn, which does not look at
\* closed again after its probe, leaves one in the idle list of the dead pool.
\* And a caller that returns a connection Release has closed puts its wrapper
\* into the sync.Pool a second time; two Gets still dialling may then be given
\* that one wrapper, and the connection of the first is lost.
ReleaseClosesAllConnections ==
  /\ releaserPc = "done" /\ "reclose" \notin env
  /\ \A p \in Callers : pc[p] \in {"out", "hold"}
  /\ \A w \in Wrappers : free[w] <= 1
  => open \subseteq {conn[w] : w \in Range(idle)}

\* Every connection is accounted for: it is usable while a caller holds it, counted
\* once, within the capacity, and closed by Release or by who held it then.
ConnsAccounted ==
  TypeOK /\ HeldUsable /\ CountExact /\ CapRespected /\ ReleaseClosesAllConnections

\* Once Release has set activeConns to nil no Get enters a connection into it
\* (the write would panic).
NoEntryAfterTeardown ==
  [][releaserPc = "done" => active' \subseteq active]_vars

\* If callers return what they are given, and no Get fails to dial or gives up
\* (it may have taken the wakeup of another), a sleeping Get is woken: putConn's
\* Signal, and the broadcasts of the paths that close a connection instead of
\* keeping it, lose nobody.
WaiterWoken ==
  (CallersReturn /\ env \cap {"factory", "cancel", "reclose"} = {}) =>
    \A p \in Callers : (p \in Range(waitq)) ~> (p \notin Range(waitq))

\* Release ends, and no Get is left sleeping or will ever sleep again, even if
\* nobody returns a connection.
ReleaseWakesBlockedRequests ==
  (releaserPc # "none")
    ~> [](releaserPc = "done" /\ \A p \in Callers : pc[p] # "wait")

\* A Get that sleeps is told what it waits for: a connection that comes back, or
\* that the pool was released.
SleepersWoken == ReleaseWakesBlockedRequests /\ WaiterWoken
=============================================================================
