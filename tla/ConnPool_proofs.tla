-------------------------- MODULE ConnPool_proofs ---------------------------
(***************************************************************************)
(* Theorems about the connection pool, for every number of callers,        *)
(* wrappers and connections and every environment.  The invariants are in  *)
(* ConnPool_inv, most step lemmas in ConnPool_owners and ConnPool_books;   *)
(* the rest, the facts about data that they assume, and the theorems are   *)
(* here.                                                                   *)
(***************************************************************************)
EXTENDS ConnPool_owners, ConnPool_books

-----------------------------------------------------------------------------
(* After Release has closed what is left.                                  *)

\* Release's loop leaves open only what callers are dialling, registering or
\* probing.
LEMMA LoopLeaves ==
  ASSUME Counting, TypeOK, RefOK, StockPlaced, OwnersPlaced, Books, toClose = <<>>,
         ReleaseCloseAll
  PROVE  Leftover'
<1>1. /\ open' = open \ {conn[w] : w \in Range(idle) \cup active}
      /\ conn' = [w \in Wrappers |-> IF w \in Range(idle) \cup active THEN NoConn
                                     ELSE conn[w]]
      /\ idle' = <<>> /\ UNCHANGED <<pc, ref, toClose>>
  BY DEF ReleaseCloseAll, callerVars
<1>2. Range(idle') = {} /\ Range(toClose) = {}
  BY <1>1 DEF Range
<1>3. Carry /\ Listed
  BY DEF Books
<1>4. ASSUME NEW p \in Callers, pc[p] = "pingPut"
      PROVE  /\ free'[ref[p]] = 0
             /\ \A q \in Callers : q # p /\ Owning(q) => ref[q] # ref[p]
  <2>1. Owning(p)
    BY <1>4 DEF Owning
  <2>2. ref[p] \in Wrappers /\ ref[p] \notin Range(idle) /\ ref[p] \notin active
        /\ free[ref[p]] = 0
    BY <1>3, <1>4, <2>1 DEF RefOK, OwnersPlaced, Listed
  <2>3. {i \in DOMAIN idle : idle[i] = ref[p]} = {}
    BY SMTT(30), <2>2 DEF Range
  <2>4. free'[ref[p]] = free[ref[p]] + Cardinality({}) + 0
    BY <2>2, <2>3 DEF ReleaseCloseAll
  <2>5. Cardinality({}) = 0
    BY DEF Counting
  <2>6. QED
    BY <2>1, <2>2, <2>4, <2>5 DEF OwnersPlaced
<1>5. Alone'
  BY <1>1, <1>2, <1>4 DEF Alone, Owning
<1>6. Kept'
  <2> SUFFICES ASSUME NEW c \in open'
               PROVE  \E w \in Wrappers : conn'[w] = c
                        /\ \E p \in Callers : Carrier(p)' /\ ref'[p] = w
    BY DEF Kept
  <2>1. PICK w \in Wrappers : conn[w] = c
    BY <1>1, <1>3 DEF Carry
  <2>2. c \in Conns /\ c # NoConn
    BY <1>1, ConstantsAssumption DEF TypeOK
  <2>3. w \in Places /\ w \notin Range(idle) \cup active
    BY <1>1, <1>3, <2>1, <2>2 DEF Carry
  <2>4. PICK p \in Callers : Owning(p) /\ ref[p] = w
    BY <1>2, <2>3 DEF Places, Owned
  <2>5. Carrier(p)
    BY <1>3, <2>3, <2>4 DEF Listed, Owning, Carrier
  <2>6. Carrier(p)' /\ ref'[p] = w /\ conn'[w] = c
    BY SMTT(30), <1>1, <2>1, <2>3, <2>4, <2>5 DEF Carrier
  <2>7. QED
    BY <2>6
<1>7. QED
  BY <1>5, <1>6 DEF Leftover

\* Afterwards, a step that leaves the connections and the sync.Pool alone.
LEMMA LeftoverSame ==
  ASSUME Leftover, UNCHANGED <<idle, free, conn, open>>,
         \A q \in Callers :
           /\ Owning(q)' => Owning(q) /\ ref'[q] = ref[q]
           /\ Carrier(q) <=> Carrier(q)'
           /\ pc'[q] = "pingPut" => pc[q] = "pingPut"
  PROVE  Leftover'
<1>0. \A q \in Callers : Carrier(q)' => Owning(q)'
  BY SMTT(30) DEF Carrier, Owning
<1>1. \A q \in Callers : Carrier(q)' <=> Carrier(q)
  BY ZenonT(30)
<1>2. \A q \in Callers : Carrier(q) => ref'[q] = ref[q]
  BY SMTT(30), <1>0, <1>1
<1>3. \A w \in Wrappers : Twice(w) => Twice(w)'
  BY SMTT(30), <1>1, <1>2 DEF Twice
<1>4. Kept => Kept'
  BY <1>1, <1>2 DEF Kept
<1>5. \A p \in Callers : pc'[p] = "pingPut" => Owning(p)'
  BY SMTT(30) DEF Owning
<1>6. Alone'
  BY SMTT(30), <1>5 DEF Leftover, Alone
<1>7. QED
  BY SMTT(30), <1>3, <1>4, <1>6 DEF Leftover

\* Afterwards, an owner closes its connection and goes.
LEMMA LeftoverClose ==
  ASSUME TypeOK, RefOK, Leftover, NEW p \in Callers, Owning(p),
         closeConnLocked(ref[p]), UNCHANGED idle,
         pc' = [pc EXCEPT ![p] = "out"], \A q \in Callers : q # p => ref'[q] = ref[q]
  PROVE  Leftover'
<1> DEFINE w == ref[p]
<1>1. /\ w \in Wrappers
      /\ open' = open \ {conn[w]} /\ free'[w] = free[w] + 1 /\ free[w] \in Nat
      /\ \A v \in Wrappers : v # w => free'[v] = free[v] /\ conn'[v] = conn[v]
  BY DEF closeConnLocked, RefOK, TypeOK
<1>2. /\ \A q \in Callers : q # p => pc'[q] = pc[q] /\ ref'[q] = ref[q]
      /\ ~Owning(p)' /\ ~Carrier(p)' /\ pc'[p] # "pingPut"
  BY DEF TypeOK, Owning, Carrier
<1>3. \A q \in Callers : q # p => /\ Owning(q)' <=> Owning(q)
                                  /\ Carrier(q)' <=> Carrier(q)
  BY SMTT(30), <1>2 DEF Owning, Carrier
<1>4. Range(idle) \subseteq Wrappers
  BY SMTT(30) DEF TypeOK, Range
<1>5. Alone'
  <2>1. ASSUME NEW v \in Range(idle)
        PROVE  free'[v] = 0 /\ \A q \in Callers : Owning(q)' => ref'[q] # v
    <3>1. v # w /\ free[v] = 0 /\ v \in Wrappers
          /\ \A q \in Callers : Owning(q) => ref[q] # v
      BY ZenonT(30), <1>4, <2>1 DEF Leftover, Alone
    <3>2. QED
      BY SMTT(30), <1>1, <1>2, <1>3, <3>1
  <2>2. ASSUME NEW q \in Callers, pc'[q] = "pingPut"
        PROVE  /\ free'[ref'[q]] = 0
               /\ \A r \in Callers : r # q /\ Owning(r)' => ref'[r] # ref'[q]
    <3>1. q # p /\ pc[q] = "pingPut" /\ ref'[q] = ref[q]
      BY ZenonT(30), <1>2, <2>2
    <3>2. /\ free[ref[q]] = 0 /\ ref[q] # w
          /\ \A r \in Callers : r # q /\ Owning(r) => ref[r] # ref[q]
      BY ZenonT(30), <3>1 DEF Leftover, Alone
    <3>3. ref[q] \in Wrappers
      BY <3>1 DEF RefOK, Owning
    <3>4. QED
      BY ZenonT(30), <1>1, <1>2, <1>3, <3>1, <3>2, <3>3
  <2>3. QED
    BY SMTT(30), <2>1, <2>2 DEF Alone
<1>6. ASSUME NEW v \in Wrappers, Twice(v) PROVE Twice(v)'
  <2>1. CASE v # w
    <3>1. \A q \in Callers : Carrier(q) /\ ref[q] = v => Carrier(q)' /\ ref'[q] = v
      BY SMTT(30), <1>2, <1>3, <2>1
    <3>2. free'[v] = free[v]
      BY <1>1, <2>1
    <3>3. QED
      BY SMTT(30), <1>6, <3>1, <3>2 DEF Twice
  <2>2. CASE v = w
    <3>1. CASE free[w] > 0
      BY SMTT(30), <1>1, <2>2, <3>1 DEF Twice
    <3>2. CASE ~(free[w] > 0)
      <4>1. PICK q \in Callers, r \in Callers :
              q # r /\ Carrier(q) /\ Carrier(r) /\ ref[q] = w /\ ref[r] = w
        BY SMTT(30), <1>1, <1>6, <2>2, <3>2 DEF Twice
      <4>2. PICK t \in Callers : t # p /\ Carrier(t) /\ ref[t] = w
        BY SMTT(30), <4>1
      <4>3. Carrier(t)' /\ ref'[t] = w /\ free'[w] > 0
        BY SMTT(30), <1>1, <1>2, <1>3, <4>2
      <4>4. QED
        BY ZenonT(30), <2>2, <4>3 DEF Twice
    <3>3. QED
      BY SMTT(30), <3>1, <3>2
  <2>3. QED
    BY SMTT(30), <2>1, <2>2
<1>7. ASSUME Kept PROVE Kept'
  <2> SUFFICES ASSUME NEW c \in open'
               PROVE  \E v \in Wrappers :
                        /\ conn'[v] = c
                        /\ \/ v \in Range(idle')
                           \/ \E q \in Callers : Carrier(q)' /\ ref'[q] = v
    BY SMTT(30) DEF Kept
  <2>1. PICK v \in Wrappers :
          /\ conn[v] = c
          /\ v \in Range(idle) \/ \E q \in Callers : Carrier(q) /\ ref[q] = v
    BY SMTT(30), <1>1, <1>7 DEF Kept
  <2>2. v # w /\ conn'[v] = c
    BY ZenonT(30), <1>1, <2>1
  <2>3. \A q \in Callers : Carrier(q) /\ ref[q] = v => Carrier(q)' /\ ref'[q] = v
    BY ZenonT(30), <1>2, <1>3, <2>2
  <2>4. QED
    BY ZenonT(30), <2>1, <2>2, <2>3
<1>8. QED
  BY SMTT(30), <1>5, <1>6, <1>7 DEF Leftover

\* Afterwards, putConn's probe passes and the connection is put among the idle.
LEMMA LeftoverKeep ==
  ASSUME Slicing, TypeOK, RefOK, Leftover, NEW p \in Callers, pc[p] = "pingPut",
         idle' = Append(idle, ref[p]), UNCHANGED <<free, conn, open>>,
         pc' = [pc EXCEPT ![p] = "out"], \A q \in Callers : q # p => ref'[q] = ref[q]
  PROVE  Leftover'
<1> DEFINE w == ref[p]
<1>1. w \in Wrappers /\ Owning(p) /\ Carrier(p)
  BY DEF RefOK, Owning, Carrier
<1>2. /\ \A q \in Callers : q # p => pc'[q] = pc[q] /\ ref'[q] = ref[q]
      /\ ~Owning(p)' /\ ~Carrier(p)' /\ pc'[p] # "pingPut"
  BY DEF TypeOK, Owning, Carrier
<1>3. \A q \in Callers : q # p => /\ Owning(q)' <=> Owning(q)
                                  /\ Carrier(q)' <=> Carrier(q)
  BY SMTT(30), <1>2 DEF Owning, Carrier
<1>4. Range(idle') = Range(idle) \cup {w}
  BY SMTT(30), <1>1 DEF TypeOK, Slicing
<1>5. free[w] = 0 /\ \A q \in Callers : q # p /\ Owning(q) => ref[q] # w
  BY DEF Leftover, Alone
<1>6. \A q \in Callers : Carrier(q) => Owning(q)
  BY DEF Carrier, Owning
<1>7. Alone'
  <2>1. ASSUME NEW v \in Range(idle')
        PROVE  free'[v] = 0 /\ \A q \in Callers : Owning(q)' => ref'[q] # v
    <3>1. v = w \/ (v \in Range(idle) /\ free[v] = 0
                    /\ \A q \in Callers : Owning(q) => ref[q] # v)
      BY SMTT(30), <1>4, <2>1 DEF Leftover, Alone
    <3>2. QED
      BY SMTT(30), <1>2, <1>3, <1>5, <3>1
  <2>2. ASSUME NEW q \in Callers, pc'[q] = "pingPut"
        PROVE  /\ free'[ref'[q]] = 0
               /\ \A r \in Callers : r # q /\ Owning(r)' => ref'[r] # ref'[q]
    <3>1. q # p /\ pc[q] = "pingPut" /\ ref'[q] = ref[q]
      BY <1>2, <2>2
    <3>2. /\ free[ref[q]] = 0
          /\ \A r \in Callers : r # q /\ Owning(r) => ref[r] # ref[q]
      BY <3>1 DEF Leftover, Alone
    <3>3. QED
      BY <1>2, <1>3, <3>1, <3>2
  <2>3. QED
    BY SMTT(30), <2>1, <2>2 DEF Alone
<1>8. ASSUME NEW v \in Wrappers, Twice(v) PROVE Twice(v)'
  <2>1. CASE v = w
    BY SMTT(30), <1>1, <1>5, <1>6, <1>8, <2>1 DEF Twice
  <2>2. CASE v # w
    <3>1. \A q \in Callers : Carrier(q) /\ ref[q] = v => Carrier(q)' /\ ref'[q] = v
      BY SMTT(30), <1>2, <1>3, <2>2
    <3>2. QED
      BY SMTT(30), <1>8, <3>1 DEF Twice
  <2>3. QED
    BY SMTT(30), <2>1, <2>2
<1>9. ASSUME Kept PROVE Kept'
  <2> SUFFICES ASSUME NEW c \in open
               PROVE  \E v \in Wrappers :
                        /\ conn'[v] = c
                        /\ \/ v \in Range(idle')
                           \/ \E q \in Callers : Carrier(q)' /\ ref'[q] = v
    BY SMTT(30) DEF Kept
  <2>1. PICK v \in Wrappers :
          /\ conn[v] = c
          /\ v \in Range(idle) \/ \E q \in Callers : Carrier(q) /\ ref[q] = v
    BY SMTT(30), <1>9 DEF Kept
  <2>2. v # w => \A q \in Callers : Carrier(q) /\ ref[q] = v => Carrier(q)' /\ ref'[q] = v
    BY <1>2, <1>3
  <2>3. QED
    BY SMTT(30), <1>4, <2>1, <2>2
<1>10. QED
  BY <1>7, <1>8, <1>9 DEF Leftover

\* Afterwards, a dial that was in flight ends.
LEMMA LeftoverDial ==
  ASSUME TypeOK, RefOK, NoHandle, Leftover, NEW p \in Callers, pc[p] = "dial",
         NEW w \in Wrappers, NEW c \in Conns, wrapConn(w, c),
         ref' = [ref EXCEPT ![p] = w], pc' = [pc EXCEPT ![p] = "dialed"],
         UNCHANGED idle
  PROVE  Leftover'
<1>1. /\ Obtainable(w) /\ open' = open \cup {c} /\ conn'[w] = c
      /\ \A v \in Wrappers : v # w => free'[v] = free[v] /\ conn'[v] = conn[v]
      /\ free[w] \in Nat /\ free'[w] = IF free[w] > 0 THEN free[w] - 1 ELSE 0
  BY DEF wrapConn, TypeOK
<1>2. /\ \A q \in Callers : q # p => pc'[q] = pc[q] /\ ref'[q] = ref[q]
      /\ pc'[p] = "dialed" /\ ref'[p] = w
  BY DEF TypeOK
<1>3. /\ \A q \in Callers : q # p => /\ Owning(q)' <=> Owning(q)
                                     /\ Carrier(q)' <=> Carrier(q)
      /\ Carrier(p)' /\ ~Carrier(p) /\ ~Owning(p)
  BY SMTT(30), <1>2 DEF Owning, Carrier
<1>4. /\ Range(idle) \subseteq Wrappers
      /\ \A q \in Callers : Owning(q) => ref[q] \in Wrappers
  BY SMTT(30) DEF TypeOK, RefOK, Range
<1>5. /\ w \notin Range(idle)
      /\ \A q \in Callers : pc[q] = "pingPut" => ref[q] # w
  BY SMTT(30), <1>1 DEF Obtainable, Referenced, Leftover, Alone
<1>6. Alone'
  <2>1. ASSUME NEW v \in Range(idle)
        PROVE  free'[v] = 0 /\ \A q \in Callers : Owning(q)' => ref'[q] # v
    <3>1. v # w /\ free[v] = 0 /\ v \in Wrappers
          /\ \A q \in Callers : Owning(q) => ref[q] # v
      BY <1>4, <1>5, <2>1 DEF Leftover, Alone
    <3>2. QED
      BY ZenonT(30), <1>1, <1>2, <1>3, <3>1
  <2>2. ASSUME NEW q \in Callers, pc'[q] = "pingPut"
        PROVE  /\ free'[ref'[q]] = 0
               /\ \A r \in Callers : r # q /\ Owning(r)' => ref'[r] # ref'[q]
    <3>1. q # p /\ pc[q] = "pingPut" /\ ref'[q] = ref[q]
      BY <1>2, <2>2
    <3>2. /\ free[ref[q]] = 0 /\ ref[q] # w
          /\ \A r \in Callers : r # q /\ Owning(r) => ref[r] # ref[q]
      BY <1>5, <3>1 DEF Leftover, Alone
    <3>3. ref[q] \in Wrappers
      BY <1>4, <3>1 DEF Owning
    <3>4. QED
      BY ZenonT(30), <1>1, <1>2, <1>3, <3>1, <3>2, <3>3
  <2>3. QED
    BY <2>1, <2>2 DEF Alone
<1>7. \A q \in Callers : Carrier(q) => q # p /\ Carrier(q)' /\ ref'[q] = ref[q]
  BY <1>2, <1>3
<1>8. ASSUME NEW v \in Wrappers, Twice(v) PROVE Twice(v)'
  <2>1. CASE v # w
    <3>1. free'[v] = free[v]
      BY ZenonT(30), <1>1, <2>1
    <3>2. QED
      BY ZenonT(30), <1>7, <1>8, <3>1 DEF Twice
  <2>2. CASE v = w
    <3>1. CASE free[w] > 1
      <4>1. free'[w] > 0
        BY SMTT(30), <1>1, <3>1
      <4>2. QED
        BY SMTT(30), <1>2, <1>3, <2>2, <4>1 DEF Twice
    <3>2. CASE ~(free[w] > 1)
      <4>1. PICK q \in Callers : Carrier(q) /\ ref[q] = w
        BY <1>8, <2>2, <3>2 DEF Twice
      <4>2. q # p /\ Carrier(q)' /\ ref'[q] = w /\ Carrier(p)' /\ ref'[p] = w
        BY <1>2, <1>3, <1>7, <4>1
      <4>3. QED
        BY <2>2, <4>2 DEF Twice
    <3>3. QED
      BY <3>1, <3>2
  <2>3. QED
    BY SMTT(30), <2>1, <2>2
<1>9. ASSUME Kept PROVE Twice(w)' \/ Kept'
  <2>1. CASE \E q \in Callers : Carrier(q) /\ ref[q] = w
    <3>1. PICK q \in Callers : Carrier(q) /\ ref[q] = w
      BY <2>1
    <3>2. q # p /\ Carrier(q)' /\ ref'[q] = w /\ Carrier(p)' /\ ref'[p] = w
      BY SMTT(30), <1>2, <1>3, <1>7, <3>1
    <3>3. QED
      BY <3>2 DEF Twice
  <2>2. CASE ~\E q \in Callers : Carrier(q) /\ ref[q] = w
    <3> SUFFICES ASSUME NEW d \in open'
                 PROVE  \E v \in Wrappers :
                          /\ conn'[v] = d
                          /\ \/ v \in Range(idle')
                             \/ \E q \in Callers : Carrier(q)' /\ ref'[q] = v
      BY SMTT(30) DEF Kept
    <3>1. CASE d = c
      BY ZenonT(30), <1>1, <1>2, <1>3, <3>1
    <3>2. CASE d # c
      <4>1. PICK v \in Wrappers :
              /\ conn[v] = d
              /\ v \in Range(idle) \/ \E q \in Callers : Carrier(q) /\ ref[q] = v
        BY ZenonT(30), <1>1, <1>9, <3>2 DEF Kept
      <4>2. v # w /\ conn'[v] = d
        BY ZenonT(30), <1>1, <1>5, <2>2, <4>1
      <4>3. QED
        BY ZenonT(30), <1>7, <4>1, <4>2
    <3>3. QED
      BY <3>1, <3>2
  <2>3. QED
    BY <2>1, <2>2
<1>10. QED
  BY SMTT(30), <1>6, <1>8, <1>9 DEF Leftover

\* Every step keeps it so.
LEMMA CleanerOutStep ==
  ASSUME TypeOK, CleanerOut, [Next]_vars
  PROVE  CleanerOut'
<1>0. ASSUME UNCHANGED <<toClose, cleanerPc, releaserPc>> PROVE CleanerOut'
  BY SMTT(30), <1>0 DEF CleanerOut
<1>1. ASSUME NEW p \in Callers, GetBegin(p) \/ Cancel(p) \/ AfterFunc(p)
      PROVE  CleanerOut'
  BY <1>0, <1>1 DEF GetBegin, Cancel, AfterFunc
<1>2. ASSUME NEW p \in Callers, GetStep(p) PROVE CleanerOut'
  BY Zenon, <1>0, <1>2 DEF GetStep, PopExpired, PopIdle, PingGetDone, Reserve, DialOk,
     DialFail, DialFailBroadcast, DialRegister, DialClose, Park, Sleep, Wake
<1>3. ASSUME NEW p \in Callers, PutStep(p) PROVE CleanerOut'
  BY Zenon, <1>0, <1>3 DEF PutStep, GiveBack, PutConn, PingPutDone, MarkUnhealthy
<1>4. CASE PutForeign \/ UNCHANGED vars
  BY <1>0, <1>4 DEF PutForeign, vars, poolVars
<1>5. CASE CleanTick
  BY <1>5 DEF CleanTick, CleanerOut
<1>6. CASE CleanStep
  <2>1. CASE CleanTake
    BY <2>1 DEF CleanTake, CleanerOut
  <2>2. CASE CleanUnlock \/ CleanBroadcast \/ CleanStop
    BY <2>2 DEF CleanUnlock, CleanBroadcast, CleanStop, CleanerOut
  <2>3. CASE CleanClose
    BY SMTT(30), <2>3 DEF CleanClose, CleanerOut
  <2>4. QED
    BY <1>6, <2>1, <2>2, <2>3 DEF CleanStep
<1>7. CASE ReleaseBegin \/ ReleaseStep
  BY <1>7 DEF ReleaseBegin, ReleaseStep, ReleaseBroadcast, ReleaseCloseAll, CleanerOut
<1>8. QED
  BY <1>1, <1>2, <1>3, <1>4, <1>5, <1>6, <1>7 DEF Next, PoolStep

\* Every step of a pool that Release is done with.
LEMMA LeftoverStep ==
  ASSUME Slicing, TypeOK, RefOK, NoHandle, LockInv, CleanerOut, Leftover,
         releaserPc = "done", [Next]_vars
  PROVE  Leftover'
<1> USE DEF Goto, Leave, connVars, lockVars, callerVars
<1>0. /\ closed /\ cleanerPc = "done"
      /\ \A p \in Callers : pc[p] \notin {"locked", "parking"}
  BY SMTT(30) DEF LockInv, CleanerOut
<1>a. ASSUME UNCHANGED <<idle, free, conn, open, pc, ref>> PROVE Leftover'
  BY <1>a, LeftoverSame DEF Owning, Carrier
<1>b. ASSUME NEW p \in Callers, NEW l, pc' = [pc EXCEPT ![p] = l],
             \A q \in Callers : q # p => ref'[q] = ref[q],
             UNCHANGED <<idle, free, conn, open>>,
             \/ /\ pc[p] \in {"dial", "dialFailed", "wait", "hold"}
                /\ l \in {"out", "dialFailed"}
             \/ pc[p] = "dialed" /\ l = "dialClose" /\ ref' = ref
             \/ pc[p] = "hold" /\ l \in {"putting", "marking"} /\ ref' = ref
      PROVE  Leftover'
  <2>1. pc'[p] = l /\ \A q \in Callers : q # p => pc'[q] = pc[q]
    BY <1>b DEF TypeOK
  <2>2. \A q \in Callers : /\ Owning(q)' => Owning(q) /\ ref'[q] = ref[q]
                           /\ Carrier(q) <=> Carrier(q)'
                           /\ pc'[q] = "pingPut" => pc[q] = "pingPut"
    BY <1>b, <2>1 DEF Owning, Carrier
  <2>3. QED
    BY SMTT(30), <1>b, <2>2, LeftoverSame
<1>c. ASSUME NEW p \in Callers, Leave(p) \/ Return(p)
      PROVE  /\ pc' = [pc EXCEPT ![p] = "out"]
             /\ \A q \in Callers : q # p => ref'[q] = ref[q]
  BY SMTT(30), <1>c DEF Return, TypeOK
<1>1. ASSUME NEW p \in Callers, GetBegin(p) \/ Cancel(p) \/ AfterFunc(p)
      PROVE  Leftover'
  BY ZenonT(30), <1>0, <1>1, <1>a DEF GetBegin, Cancel, AfterFunc
<1>2. ASSUME NEW p \in Callers, GetStep(p) PROVE Leftover'
  <2>1. CASE PopExpired(p) \/ PopIdle(p) \/ Reserve(p) \/ Park(p) \/ Sleep(p)
    BY Zenon, <1>0, <2>1 DEF PopExpired, PopIdle, Reserve, Park, Sleep
  <2>2. CASE PingGetDone(p) \/ DialClose(p)
    <3>1. Owning(p) /\ closeConnLocked(ref[p]) /\ UNCHANGED idle /\ Leave(p)
      BY ZenonT(30), <1>0, <2>2 DEF PingGetDone, DialClose, Owning
    <3>2. QED
      BY ZenonT(30), <1>c, <3>1, LeftoverClose
  <2>3. CASE DialOk(p)
    <3>1. PICK w \in Wrappers, c \in Conns :
            wrapConn(w, c) /\ ref' = [ref EXCEPT ![p] = w]
      BY Zenon, <2>3 DEF DialOk
    <3>2. pc[p] = "dial" /\ pc' = [pc EXCEPT ![p] = "dialed"] /\ UNCHANGED idle
      BY <2>3 DEF DialOk
    <3>3. QED
      BY ZenonT(30), <3>1, <3>2, LeftoverDial
  <2>4. CASE DialFail(p) \/ DialFailBroadcast(p) \/ Wake(p)
    <3>1. /\ pc[p] \in {"dial", "dialFailed", "wait"}
          /\ \E l \in {"out", "dialFailed"} : pc' = [pc EXCEPT ![p] = l]
          /\ ref' = ref \/ ref' = [ref EXCEPT ![p] = NoWrapper]
          /\ UNCHANGED <<idle, free, conn, open>>
      BY ZenonT(30), <1>0, <2>4 DEF DialFail, DialFailBroadcast, Wake
    <3>2. \A q \in Callers : q # p => ref'[q] = ref[q]
      BY <3>1 DEF TypeOK
    <3>3. QED
      BY ZenonT(30), <1>b, <3>1, <3>2
  <2>5. CASE DialRegister(p)
    <3>1. /\ pc[p] = "dialed" /\ pc' = [pc EXCEPT ![p] = "dialClose"]
          /\ UNCHANGED <<idle, free, conn, open, ref>>
      BY <1>0, <2>5 DEF DialRegister
    <3>2. QED
      BY ZenonT(30), <1>b, <3>1
  <2>6. QED
    BY <1>2, <2>1, <2>2, <2>3, <2>4, <2>5 DEF GetStep
<1>3. ASSUME NEW p \in Callers, PutStep(p) PROVE Leftover'
  <2>1. CASE GiveBack(p)
    <3>1. pc[p] = "hold"
      BY <2>1 DEF GiveBack, HasHandle, NoHandle, Owning
    <3>2. UNCHANGED <<idle, free, conn, open>>
      BY <2>1 DEF GiveBack
    <3>3. CASE returned[ref[p]]
      <4>1. Leave(p)
        BY <2>1, <3>3 DEF GiveBack
      <4>2. QED
        BY ZenonT(30), <1>b, <1>c, <3>1, <3>2, <4>1
    <3>4. CASE ~returned[ref[p]]
      <4>1. ref' = ref /\ \E l \in {"putting", "marking"} : pc' = [pc EXCEPT ![p] = l]
        BY <2>1, <3>4 DEF GiveBack
      <4>2. QED
        BY ZenonT(30), <1>b, <3>1, <3>2, <4>1
    <3>5. QED
      BY <3>3, <3>4
  <2>2. CASE PutConn(p) \/ MarkUnhealthy(p)
    <3>1. Owning(p) /\ closeConnLocked(ref[p]) /\ UNCHANGED idle /\ Return(p)
      BY ZenonT(30), <1>0, <2>2 DEF PutConn, MarkUnhealthy, Owning
    <3>2. QED
      BY <1>c, <3>1, LeftoverClose
  <2>3. CASE PingPutDone(p)
    <3>1. /\ Owning(p) /\ pc[p] = "pingPut" /\ Return(p)
          /\ \/ closeConnLocked(ref[p]) /\ UNCHANGED idle
             \/ idle' = Append(idle, ref[p]) /\ UNCHANGED <<free, conn, open>>
      BY ZenonT(30), <2>3 DEF PingPutDone, KeepOrClose, Owning
    <3>2. QED
      BY <1>c, <3>1, LeftoverClose, LeftoverKeep
  <2>4. QED
    BY <1>3, <2>1, <2>2, <2>3 DEF PutStep
<1>4. CASE PutForeign \/ CleanTick \/ CleanStep \/ ReleaseBegin \/ ReleaseStep
  BY ZenonT(30), <1>0, <1>4 DEF PutForeign, CleanTick, CleanStep, CleanTake,
     CleanUnlock, CleanClose,
     CleanBroadcast, CleanStop, ReleaseBegin, ReleaseStep, ReleaseBroadcast,
     ReleaseCloseAll
<1>5. CASE UNCHANGED vars
  BY <1>5, <1>a DEF vars, poolVars
<1>6. QED
  BY <1>1, <1>2, <1>3, <1>4, <1>5 DEF Next, PoolStep

-----------------------------------------------------------------------------
(* Types.                                                                  *)

\* Closing a connection and wrapping a fresh one keep the types.
LEMMA CloseTypeOK ==
  ASSUME NEW w \in Wrappers, TypeOK, closeConnLocked(w)
  PROVE  /\ open' \subseteq Conns
         /\ conn' \in [Wrappers -> Conns \cup {NoConn}]
         /\ free' \in [Wrappers -> Nat]
         /\ connCnt' \in Int
BY DEF TypeOK, closeConnLocked

\* wrapConn yields a wrapper that is well typed.
LEMMA WrapTypeOK ==
  ASSUME NEW w \in Wrappers, NEW c \in Conns, TypeOK, wrapConn(w, c)
  PROVE  /\ open' \subseteq Conns
         /\ conn' \in [Wrappers -> Conns \cup {NoConn}]
         /\ free' \in [Wrappers -> Nat]
         /\ returned' \in [Wrappers -> BOOLEAN]
BY DEF TypeOK, wrapConn

\* The condition variable's list stays a list of callers.
LEMMA NotifyTypeOK ==
  ASSUME TypeOK
  PROVE  Signal \/ Broadcast => waitq' \in Seq(Callers)
<1>1. waitq # <<>> => Tail(waitq) \in Seq(Callers)
  BY DEF TypeOK
<1>2. <<>> \in Seq(Callers)
  OBVIOUS
<1>3. QED
  BY Zenon, <1>1, <1>2 DEF TypeOK, Signal, Broadcast

\* NewPool builds a well-typed pool.
LEMMA InitTypeOK == Init => TypeOK /\ RefOK
<1> SUFFICES ASSUME Init PROVE TypeOK /\ RefOK
  OBVIOUS
<1>1. idle \in Seq(Wrappers) /\ Len(idle) = InitConnCnt
  <2>1. idle \in [1..InitConnCnt -> Wrappers] /\ InitConnCnt \in Nat
    BY ConstantsAssumption DEF Init
  <2>2. QED
    BY <2>1
<1>2. open \subseteq Conns
  <2>1. \A w \in Range(idle) : w \in Wrappers /\ conn[w] # NoConn
    BY <1>1 DEF Init, Range
  <2>2. QED
    BY <2>1 DEF Init
<1>3. /\ mutex \in Callers \cup {Cleaner, NoProc}
      /\ waitq \in Seq(Callers)
      /\ active \subseteq Wrappers
      /\ connCnt \in Int
      /\ afterFn \subseteq Callers
      /\ toClose \in Seq(Wrappers)
  <2>1. \A S : <<>> \in Seq(S)
    OBVIOUS
  <2>2. QED
    BY <2>1, ConstantsAssumption DEF Init
<1>4. Len(idle) <= MaxIdleCnt
  BY <1>1, ConstantsAssumption
<1>5. RefOK
  BY DEF Init, RefOK, Owning
<1>6. QED
  BY Zenon, <1>1, <1>2, <1>3, <1>4, <1>5 DEF Init, TypeOK

\* The steps of Get and waitWithContext keep the types.
LEMMA GetTypeOK ==
  ASSUME Slicing, TypeOK, RefOK, NEW p \in Callers, GetBegin(p) \/ GetStep(p)
  PROVE  TypeOK' /\ RefOK'
<1>a. /\ waitq \in Seq(Callers) /\ <<>> \in Seq(Callers)
      /\ Append(waitq, p) \in Seq(Callers)
      /\ connCnt + 1 \in Int /\ connCnt - 1 \in Int
  BY DEF TypeOK
<1>b. ASSUME idle # <<>>
      PROVE  /\ Last(idle) \in Wrappers /\ Front(idle) \in Seq(Wrappers)
             /\ Len(Front(idle)) <= MaxIdleCnt
  <2>1. idle \in Seq(Wrappers) /\ Len(idle) \in Nat /\ Len(idle) <= MaxIdleCnt
    BY DEF TypeOK
  <2>2. /\ Last(idle) \in Wrappers /\ Front(idle) \in Seq(Wrappers)
        /\ Len(Front(idle)) = Len(idle) - 1
    BY <1>b, <2>1 DEF Slicing
  <2>3. QED
    BY <2>1, <2>2, ConstantsAssumption
<1> USE DEF Goto, Leave, connVars, lockVars, callerVars
<1>1. CASE GetBegin(p)
  <2>1. TypeOK'
    BY ZenonT(30), <1>1 DEF GetBegin, TypeOK
  <2>2. \A q \in Callers : Owning(q)' => Owning(q) /\ ref'[q] = ref[q]
    BY Zenon, <1>1 DEF GetBegin, TypeOK, Owning
  <2>3. QED
    BY <2>1, <2>2 DEF RefOK
<1>2. CASE PopExpired(p)
  <2>1. Last(idle) \in Wrappers
    BY Zenon, <1>2, <1>b DEF PopExpired
  <2>2. QED
    <3>1. /\ open' \subseteq Conns
          /\ conn' \in [Wrappers -> Conns \cup {NoConn}]
          /\ free' \in [Wrappers -> Nat]
          /\ connCnt' \in Int
      BY <1>2, <2>1, CloseTypeOK DEF PopExpired
    <3>2. idle' \in Seq(Wrappers) /\ Len(idle') <= MaxIdleCnt
      BY <1>2, <1>b DEF PopExpired
    <3>3. QED
      BY Zenon, <1>2, <3>1, <3>2 DEF PopExpired, TypeOK, RefOK, Owning
<1>3. CASE PopIdle(p)
  <2>1. idle' \in Seq(Wrappers) /\ Len(idle') <= MaxIdleCnt
    BY Zenon, <1>3, <1>b DEF PopIdle
  <2>2. ref' = [ref EXCEPT ![p] = Last(idle)] /\ Last(idle) \in Wrappers
    BY <1>3, <1>b DEF PopIdle
  <2>3. /\ active' \subseteq Wrappers
        /\ returned' \in [Wrappers -> BOOLEAN]
    <3>1. CASE "ping" \in env
      BY Zenon, <1>3, <3>1 DEF PopIdle, TypeOK
    <3>2. CASE "ping" \notin env
      <4>1. /\ active' = active \cup {Last(idle)}
            /\ returned' = [returned EXCEPT ![Last(idle)] = FALSE]
        BY Zenon, <1>3, <3>2 DEF PopIdle
      <4>2. active' \subseteq Wrappers
        BY Zenon, <2>2, <4>1 DEF TypeOK
      <4>3. returned' \in [Wrappers -> BOOLEAN]
        BY ZenonT(30), <4>1 DEF TypeOK
      <4>4. QED
        BY Zenon, <4>2, <4>3
    <3>3. QED
      BY Zenon, <3>1, <3>2
  <2>4. \E l \in {"pingGet", "hold"} : pc' = [pc EXCEPT ![p] = l]
    BY Zenon, <1>3 DEF PopIdle
  <2>5. RefOK'
    BY Zenon, <2>2, <2>4 DEF RefOK, Owning, TypeOK
  <2>6. ref' \in [Callers -> Wrappers \cup {NoWrapper}]
    BY Zenon, <2>2 DEF TypeOK
  <2>7. QED
    BY ZenonT(30), <1>3, <2>1, <2>3, <2>4, <2>5, <2>6 DEF PopIdle, TypeOK
<1>4. CASE PingGetDone(p)
  <2>1. ref[p] \in Wrappers
    BY <1>4 DEF PingGetDone, RefOK, Owning
  <2>2. /\ open' \subseteq Conns /\ free' \in [Wrappers -> Nat]
        /\ conn' \in [Wrappers -> Conns \cup {NoConn}] /\ connCnt' \in Int
    BY ZenonT(30), <1>4, <2>1, CloseTypeOK DEF PingGetDone, TypeOK
  <2>3. active' \subseteq Wrappers /\ returned' \in [Wrappers -> BOOLEAN]
    BY ZenonT(30), <1>4, <2>1 DEF PingGetDone, TypeOK
  <2>4. TypeOK'
    BY ZenonT(30), <1>4, <2>2, <2>3 DEF PingGetDone, TypeOK
  <2>5. \A q \in Callers : Owning(q)' => Owning(q) /\ ref'[q] = ref[q]
    BY Zenon, <1>4 DEF PingGetDone, TypeOK, Owning
  <2>6. QED
    BY <2>4, <2>5 DEF RefOK
<1>5. CASE Reserve(p)
  BY ZenonT(30), <1>5, <1>a DEF Reserve, TypeOK, RefOK, Owning
<1>6. CASE DialOk(p)
  <2>1. PICK w \in Wrappers, c \in Conns :
          wrapConn(w, c) /\ ref' = [ref EXCEPT ![p] = w]
    BY ZenonT(30), <1>6 DEF DialOk
  <2>2. /\ open' \subseteq Conns
        /\ conn' \in [Wrappers -> Conns \cup {NoConn}]
        /\ free' \in [Wrappers -> Nat]
        /\ returned' \in [Wrappers -> BOOLEAN]
    BY Zenon, <2>1, WrapTypeOK
  <2>3. QED
    BY Zenon, <1>6, <2>1, <2>2 DEF DialOk, TypeOK, RefOK, Owning
<1>7. CASE DialFail(p)
  BY ZenonT(30), <1>7, <1>a DEF DialFail, TypeOK, RefOK, Owning
<1>8. CASE DialFailBroadcast(p)
  BY Zenon, <1>8, <1>a DEF DialFailBroadcast, Broadcast, TypeOK, RefOK, Owning
<1>9. CASE DialRegister(p)
  <2>0. /\ ref[p] \in Wrappers /\ active \subseteq Wrappers
        /\ active' = active \/ active' = active \cup {ref[p]}
    BY Zenon, <1>9 DEF DialRegister, TypeOK, RefOK, Owning
  <2>1. ref[p] \in Wrappers /\ active' \subseteq Wrappers
    BY <2>0
  <2>2. \E l \in {"dialClose", "hold"} : pc' = [pc EXCEPT ![p] = l]
    BY Zenon, <1>9 DEF DialRegister
  <2>3. RefOK'
    BY Zenon, <1>9, <2>1, <2>2 DEF DialRegister, RefOK, Owning, TypeOK
  <2>4. QED
    BY Zenon, <1>9, <2>1, <2>2, <2>3 DEF DialRegister, TypeOK
<1>10. CASE DialClose(p)
  <2>1. ref[p] \in Wrappers
    BY <1>10 DEF DialClose, RefOK, Owning
  <2>2. QED
    BY ZenonT(30), <1>10, <2>1, CloseTypeOK DEF DialClose, TypeOK, RefOK, Owning
<1>11. CASE Park(p)
  <2>1. TypeOK'
    BY ZenonT(30), <1>11 DEF Park, TypeOK
  <2>2. \A q \in Callers : Owning(q)' => Owning(q) /\ ref'[q] = ref[q]
    BY Zenon, <1>11 DEF Park, TypeOK, Owning
  <2>3. QED
    BY <2>1, <2>2 DEF RefOK
<1>12. CASE Sleep(p)
  BY Zenon, <1>12, <1>a DEF Sleep, TypeOK, RefOK, Owning
<1>13. CASE Wake(p)
  <2>1. TypeOK'
    BY ZenonT(30), <1>13 DEF Wake, TypeOK
  <2>2. \A q \in Callers : Owning(q)' => Owning(q) /\ ref'[q] = ref[q]
    BY <1>13 DEF Wake, TypeOK, Owning
  <2>3. QED
    BY <2>1, <2>2 DEF RefOK
<1>14. QED
  BY Zenon, <1>1, <1>2, <1>3, <1>4, <1>5, <1>6, <1>7, <1>8, <1>9, <1>10, <1>11,
     <1>12, <1>13 DEF GetStep

\* The steps of Put, Close and MarkUnhealthy on a PoolConn keep the types.
LEMMA PutTypeOK ==
  ASSUME Slicing, TypeOK, RefOK, NEW p \in Callers, PutStep(p)
  PROVE  TypeOK' /\ RefOK'
<1> DEFINE w == ref[p]
<1>a. PutConn(p) \/ PingPutDone(p) \/ MarkUnhealthy(p) =>
        /\ w \in Wrappers
        /\ Append(idle, w) \in Seq(Wrappers)
        /\ Len(idle) < MaxIdleCnt => Len(Append(idle, w)) <= MaxIdleCnt
  <2> SUFFICES ASSUME PutConn(p) \/ PingPutDone(p) \/ MarkUnhealthy(p)
               PROVE  /\ w \in Wrappers
                      /\ Append(idle, w) \in Seq(Wrappers)
                      /\ Len(idle) < MaxIdleCnt =>
                           Len(Append(idle, w)) <= MaxIdleCnt
    BY Zenon
  <2>1. w \in Wrappers
    BY Zenon DEF PutConn, PingPutDone, MarkUnhealthy, RefOK, Owning
  <2>2. idle \in Seq(Wrappers)
    BY Zenon DEF TypeOK
  <2>3. Append(idle, w) \in Seq(Wrappers) /\ Len(Append(idle, w)) = Len(idle) + 1
    BY Zenon, <2>1, <2>2 DEF Slicing
  <2>4. Len(idle) \in Nat /\ MaxIdleCnt \in Nat
    BY <2>2, ConstantsAssumption
  <2>5. QED
    BY <2>1, <2>3, <2>4
<1>b. ASSUME w \in Wrappers, closeConnLocked(w)
      PROVE  /\ open' \subseteq Conns
             /\ conn' \in [Wrappers -> Conns \cup {NoConn}]
             /\ free' \in [Wrappers -> Nat]
             /\ connCnt' \in Int
  BY <1>b, CloseTypeOK
<1>c. ASSUME w \in Wrappers, KeepOrClose(w), Append(idle, w) \in Seq(Wrappers),
             Len(idle) < MaxIdleCnt => Len(Append(idle, w)) <= MaxIdleCnt
      PROVE  /\ open' \subseteq Conns
             /\ conn' \in [Wrappers -> Conns \cup {NoConn}]
             /\ free' \in [Wrappers -> Nat]
             /\ connCnt' \in Int
             /\ waitq' \in Seq(Callers)
             /\ idle' \in Seq(Wrappers) /\ Len(idle') <= MaxIdleCnt
  BY Zenon, <1>b, <1>c, NotifyTypeOK DEF KeepOrClose, TypeOK, connVars
<1>d. ASSUME Return(p)
      PROVE  /\ pc' = [pc EXCEPT ![p] = "out"]
             /\ ref' = ref \/ ref' = [ref EXCEPT ![p] = NoWrapper]
  BY <1>d DEF Return, Goto
<1>e. ASSUME pc' = [pc EXCEPT ![p] = "out"],
             ref' = ref \/ ref' = [ref EXCEPT ![p] = NoWrapper]
      PROVE  /\ RefOK'
             /\ ref' \in [Callers -> Wrappers \cup {NoWrapper}]
  BY Zenon, <1>e DEF RefOK, Owning, TypeOK
<1>1. CASE GiveBack(p)
  <2>1. CASE returned[ref[p]]
    <3>1. /\ pc' = [pc EXCEPT ![p] = "out"]
          /\ ref' = [ref EXCEPT ![p] = NoWrapper]
          /\ returned' = returned
      BY Zenon, <1>1, <2>1 DEF GiveBack, Leave, Goto
    <3>2. QED
      BY Zenon, <1>1, <3>1, <1>e DEF GiveBack, lockVars, connVars, TypeOK
  <2>2. CASE ~returned[ref[p]]
    <3>1. /\ returned' = [returned EXCEPT ![ref[p]] = TRUE]
          /\ ref' = ref
          /\ \E l \in {"putting", "marking"} : pc' = [pc EXCEPT ![p] = l]
      BY Zenon, <1>1, <2>2 DEF GiveBack, Goto
    <3>2. ref[p] \in Wrappers
      BY <1>1 DEF GiveBack, HasHandle, RefOK, Owning, TypeOK
    <3>3. returned' \in [Wrappers -> BOOLEAN]
      BY Zenon, <3>1 DEF TypeOK
    <3>4. RefOK'
      BY Zenon, <3>1, <3>2 DEF RefOK, Owning, TypeOK
    <3>5. QED
      BY Zenon, <1>1, <3>1, <3>3, <3>4 DEF GiveBack, lockVars, connVars, TypeOK
  <2>3. QED
    BY Zenon, <2>1, <2>2
<1>2. CASE PutConn(p)
  <2>1. CASE closed
    BY Zenon, <1>2, <2>1, <1>a, <1>b, <1>d, <1>e DEF PutConn, TypeOK
  <2>2. CASE ~closed /\ closeConnLocked(w) /\ Broadcast /\ Return(p)
             /\ active' = active \ {w} /\ UNCHANGED idle
    BY ZenonT(30), <1>2, <2>2, <1>a, <1>b, <1>d, <1>e, NotifyTypeOK DEF PutConn, TypeOK
  <2>3. CASE Goto(p, "pingPut") /\ UNCHANGED <<ref, waitq, idle, connVars>>
             /\ active' = active \ {w}
    <3>1. RefOK' /\ pc' = [pc EXCEPT ![p] = "pingPut"]
      BY Zenon, <1>2, <2>3, <1>a DEF PutConn, Goto, RefOK, Owning, TypeOK
    <3>2. QED
      BY ZenonT(30), <1>2, <2>3, <3>1 DEF PutConn, TypeOK, connVars
  <2>4. CASE KeepOrClose(w) /\ Return(p) /\ active' = active \ {w}
    BY Zenon, <1>2, <2>4, <1>a, <1>c, <1>d, <1>e DEF PutConn, TypeOK
  <2>5. QED
    BY ZenonT(30), <1>2, <2>1, <2>2, <2>3, <2>4 DEF PutConn
<1>3. CASE PingPutDone(p)
  <2>1. CASE closeConnLocked(w) /\ Broadcast /\ UNCHANGED idle
    BY Zenon, <1>3, <2>1, <1>a, <1>b, <1>d, <1>e, NotifyTypeOK
       DEF PingPutDone, TypeOK
  <2>2. CASE KeepOrClose(w)
    BY Zenon, <1>3, <2>2, <1>a, <1>c, <1>d, <1>e DEF PingPutDone, TypeOK
  <2>3. QED
    BY Zenon, <1>3, <2>1, <2>2 DEF PingPutDone
<1>4. CASE MarkUnhealthy(p)
  BY ZenonT(30), <1>4, <1>a, <1>b, <1>d, <1>e, NotifyTypeOK DEF MarkUnhealthy, TypeOK
<1>5. QED
  BY Zenon, <1>1, <1>2, <1>3, <1>4 DEF PutStep

\* So do the steps of a Put of a foreign connection, of contexts, of
\* backgroundCleanup and, up to the closing of all connections, of Release.
LEMMA OthersTypeOK ==
  ASSUME Slicing, TypeOK, RefOK,
         \/ \E p \in Callers : Cancel(p) \/ AfterFunc(p)
         \/ PutForeign
         \/ CleanTick \/ CleanStep
         \/ ReleaseBegin \/ ReleaseBroadcast
  PROVE  TypeOK' /\ RefOK'
<1> USE DEF lockVars, connVars, callerVars
<1>0. /\ idle \in Seq(Wrappers) /\ Len(idle) \in Nat /\ Len(idle) <= MaxIdleCnt
      /\ MaxIdleCnt \in Nat /\ connCnt + 1 \in Int
  BY ConstantsAssumption DEF TypeOK
<1>1. ASSUME NEW p \in Callers, Cancel(p)
      PROVE  TypeOK' /\ RefOK'
  BY Zenon, <1>1 DEF Cancel, TypeOK, RefOK, Owning
<1>2. ASSUME NEW p \in Callers, AfterFunc(p)
      PROVE  TypeOK' /\ RefOK'
  BY Zenon, <1>2, NotifyTypeOK DEF AfterFunc, TypeOK, RefOK, Owning
<1>3. CASE PutForeign
  <2>1. CASE Len(idle) < MaxIdleCnt
    <3>1. PICK w \in Wrappers, c \in Conns :
            wrapConn(w, c) /\ idle' = Append(idle, w)
      BY Zenon, <1>3, <2>1 DEF PutForeign
    <3>2. idle' \in Seq(Wrappers) /\ Len(idle') <= MaxIdleCnt
      BY <1>0, <2>1, <3>1 DEF Slicing
    <3>3. connCnt' \in Int /\ waitq' \in Seq(Callers)
      BY ZenonT(30), <1>0, <1>3, <2>1, NotifyTypeOK DEF PutForeign, TypeOK
    <3>4. QED
      BY ZenonT(30), <1>3, <2>1, <3>1, <3>2, <3>3, WrapTypeOK
         DEF PutForeign, TypeOK, RefOK, Owning
  <2>2. CASE ~(Len(idle) < MaxIdleCnt)
    <3>1. PICK w \in Wrappers :
            /\ returned' = [returned EXCEPT ![w] = FALSE]
            /\ free' = [free EXCEPT ![w] = IF @ > 0 THEN @ ELSE 1]
      BY Zenon, <1>3, <2>2 DEF PutForeign
    <3>2. returned' \in [Wrappers -> BOOLEAN]
      BY Zenon, <3>1 DEF TypeOK
    <3>3. free' \in [Wrappers -> Nat]
      BY Zenon, <3>1 DEF TypeOK
    <3>4. QED
      BY Zenon, <1>3, <2>2, <3>2, <3>3 DEF PutForeign, TypeOK, RefOK, Owning
  <2>3. QED
    BY <2>1, <2>2
<1>4. CASE CleanTick
  BY <1>4 DEF CleanTick, TypeOK, RefOK, Owning
<1>5. CASE CleanTake
  <2>1. PICK i \in DOMAIN idle : /\ toClose' = Append(toClose, idle[i])
                                 /\ idle' = RemoveAt(idle, i)
    BY Zenon, <1>5 DEF CleanTake
  <2>2. idle \in Seq(Wrappers) /\ toClose \in Seq(Wrappers)
    BY Zenon DEF TypeOK
  <2>3. /\ RemoveAt(idle, i) \in Seq(Wrappers)
        /\ Len(RemoveAt(idle, i)) = Len(idle) - 1
        /\ idle[i] \in Wrappers
    BY <2>2 DEF Slicing
  <2>4. Append(toClose, idle[i]) \in Seq(Wrappers)
    BY SMTT(30), <2>2, <2>3
  <2>5. Len(idle') <= MaxIdleCnt
    BY <1>0, <2>1, <2>2, <2>3
  <2>6. QED
    BY Zenon, <1>5, <2>1, <2>3, <2>4, <2>5 DEF CleanTake, TypeOK, RefOK, Owning
<1>6. CASE CleanUnlock
  BY <1>6 DEF CleanUnlock, TypeOK, RefOK, Owning
<1>7. CASE CleanClose
  <2>1. Last(toClose) \in Wrappers /\ Front(toClose) \in Seq(Wrappers)
    BY ZenonT(30), <1>7 DEF CleanClose, TypeOK, Slicing
  <2>2. QED
    BY Zenon, <1>7, <2>1, CloseTypeOK DEF CleanClose, TypeOK, RefOK, Owning
<1>8. CASE CleanBroadcast
  BY Zenon, <1>8, NotifyTypeOK DEF CleanBroadcast, TypeOK, RefOK, Owning
<1>9. CASE CleanStop
  BY Zenon, <1>9 DEF CleanStop, TypeOK, RefOK, Owning
<1>10. CASE ReleaseBegin
  BY Zenon, <1>10 DEF ReleaseBegin, TypeOK, RefOK, Owning
<1>11. CASE ReleaseBroadcast
  BY Zenon, <1>11, NotifyTypeOK DEF ReleaseBroadcast, TypeOK, RefOK, Owning
<1>12. QED
  BY Zenon, <1>1, <1>2, <1>3, <1>4, <1>5, <1>6, <1>7, <1>8, <1>9, <1>10, <1>11
     DEF CleanStep

-----------------------------------------------------------------------------
(* The theorems, with the library's facts about cardinalities.             *)

INSTANCE FiniteSetTheorems

\* The facts about slices and cardinalities that the step lemmas assume.
LEMMA DataFacts == Slicing /\ Counting
<1>1. Slicing
  <2> SUFFICES ASSUME NEW s \in Seq(Wrappers)
               PROVE  Slicing!(s)
    BY Zenon DEF Slicing
  <2>1. s # <<>> =>
          /\ Front(s) \in Seq(Wrappers) /\ Len(Front(s)) = Len(s) - 1
          /\ Last(s) \in Range(s) /\ Last(s) \in Wrappers
          /\ Range(s) = Range(Front(s)) \cup {Last(s)}
          /\ IsInjective(s) => IsInjective(Front(s)) /\ Last(s) \notin Range(Front(s))
    BY Zenon, FrontFacts
  <2>2. \A i \in DOMAIN s :
          /\ RemoveAt(s, i) \in Seq(Wrappers) /\ Len(RemoveAt(s, i)) = Len(s) - 1
          /\ s[i] \in Wrappers
          /\ Range(s) = Range(RemoveAt(s, i)) \cup {s[i]}
          /\ IsInjective(s) =>
               IsInjective(RemoveAt(s, i)) /\ s[i] \notin Range(RemoveAt(s, i))
    BY Zenon, RemoveAtFacts
  <2>3. \A w \in Wrappers :
          /\ Append(s, w) \in Seq(Wrappers) /\ Len(Append(s, w)) = Len(s) + 1
          /\ Range(Append(s, w)) = Range(s) \cup {w}
          /\ IsInjective(s) /\ w \notin Range(s) => IsInjective(Append(s, w))
    BY AppendFacts
  <2>4. QED
    BY Zenon, <2>1, <2>2, <2>3
<1>2. Counting
  BY Zenon, FS_EmptySet, FS_CardinalityType, FS_Subset, FS_AddElement, FS_RemoveElement
     DEF Counting
<1>3. QED
  BY Zenon, <1>1, <1>2

\* Release closing what is left keeps the types: every close of a wrapper
\* puts it into the sync.Pool once more.
LEMMA ReleaseTypeOK ==
  ASSUME TypeOK, RefOK, ReleaseCloseAll
  PROVE  TypeOK' /\ RefOK'
<1>0. idle \in Seq(Wrappers) /\ free \in [Wrappers -> Nat]
  BY Zenon DEF TypeOK
<1>1. <<>> \in Seq(Wrappers) /\ Len(<<>>) = 0 /\ 0 \in Int
  OBVIOUS
<1>2. free' \in [Wrappers -> Nat]
  <2> DEFINE n(w) == Cardinality({i \in DOMAIN idle : idle[i] = w})
  <2>1. \A w \in Wrappers : n(w) \in Nat
    <3> TAKE w \in Wrappers
    <3>1. IsFiniteSet(1..Len(idle)) /\ DOMAIN idle = 1..Len(idle)
      BY <1>0, FS_Interval
    <3>2. QED
      BY Zenon, <3>1, FS_Subset, FS_CardinalityType
  <2>2. free' = [w \in Wrappers |->
                   free[w] + n(w) + (IF w \in active THEN 1 ELSE 0)]
    BY Zenon DEF ReleaseCloseAll
  <2> HIDE DEF n
  <2>3. QED
    BY <1>0, <2>1, <2>2
<1>3. /\ open' \subseteq Conns
      /\ conn' \in [Wrappers -> Conns \cup {NoConn}]
  BY Zenon DEF ReleaseCloseAll, TypeOK
<1>4. idle' = <<>>
  BY DEF ReleaseCloseAll
<1>5. idle' \in Seq(Wrappers) /\ Len(idle') <= MaxIdleCnt
  BY <1>1, <1>4, ConstantsAssumption
<1>6. active' \subseteq Wrappers /\ connCnt' \in Int
  BY Zenon, <1>1 DEF ReleaseCloseAll
<1>7. releaserPc' \in {"none", "closing", "waiting", "done"}
  BY Zenon DEF ReleaseCloseAll
<1>8. UNCHANGED <<mutex, waitq, closed, returned, pc, ref, cancelled, afterFn,
                  cleanerPc, toClose>>
  BY DEF ReleaseCloseAll, lockVars, callerVars
<1>9. QED
  BY Zenon, <1>2, <1>3, <1>5, <1>6, <1>7, <1>8 DEF TypeOK, RefOK, Owning

\* Type correctness of the pool, whatever the environment does.
THEOREM TypeCorrect == Spec => [](TypeOK /\ RefOK)
<1>1. TypeOK /\ RefOK /\ [Next]_vars => TypeOK' /\ RefOK'
  <2> SUFFICES ASSUME TypeOK, RefOK, [Next]_vars
               PROVE  TypeOK' /\ RefOK'
    BY Zenon
  <2>1. CASE UNCHANGED vars
    BY Zenon, <2>1 DEF vars, poolVars, lockVars, connVars, callerVars, TypeOK, RefOK, Owning
  <2>2. CASE Next
    BY Zenon, <2>2, DataFacts, GetTypeOK, PutTypeOK, OthersTypeOK,
       ReleaseTypeOK DEF Next, PoolStep, ReleaseStep
  <2>3. QED
    BY Zenon, <2>1, <2>2
<1>2. QED
  BY InitTypeOK, <1>1, PTL DEF Spec

\* The mutex and the program counters agree in every reachable state.
LEMMA LockInvariant == Spec => []LockInv
<1>1. Init => LockInv
  BY DEF Init, LockInv
<1>2. TypeOK /\ LockInv /\ [Next]_vars => LockInv'
  BY LockStep
<1>3. QED
  BY <1>1, <1>2, TypeCorrect, PTL DEF Spec

\* Once Release has set activeConns to nil no step enters a connection into
\* it, so no Get that was dialling, probing or waiting panics.
THEOREM TeardownFinal == Spec => NoEntryAfterTeardown
<1>1. LockInv /\ [Next]_vars => [releaserPc = "done" => active' \subseteq active]_vars
  BY EntryStep DEF LockInv
<1>2. QED
  BY <1>1, LockInvariant, PTL DEF Spec, NoEntryAfterTeardown

\* The pool starts with its wrappers in one place.
LEMMA InitPlaced == Init => Placed
<1> SUFFICES ASSUME Init PROVE StockPlaced /\ OwnersPlaced
                               /\ \A w \in Wrappers : free[w] <= 1
  BY DEF Placed
<1>1. Range(idle) \subseteq Wrappers /\ toClose = <<>> /\ IsInjective(idle)
  BY Zenon DEF Init, Range
<1>2. Range(toClose) = {} /\ IsInjective(toClose)
  BY <1>1 DEF Range, IsInjective
<1>3. free = [w \in Wrappers |-> 0] /\ \A p \in Callers : ~Owning(p)
  BY Zenon DEF Init, Owning
<1>4. StockPlaced
  BY Zenon, <1>1, <1>2, <1>3 DEF StockPlaced
<1>5. OwnersPlaced
  BY <1>3 DEF OwnersPlaced
<1>6. QED
  BY <1>3, <1>4, <1>5

\* Ownership holds in every reachable state.
LEMMA OwnershipInvariant == Spec => []Ownership
<1>1. Init => Ownership
  BY Zenon, InitPlaced DEF Init, Ownership, NoHandle, Owning
<1>2. TypeOK /\ RefOK /\ LockInv /\ Ownership /\ [Next]_vars => Ownership'
  <2> SUFFICES ASSUME TypeOK, RefOK, LockInv, Ownership, [Next]_vars,
                      "reclose" \notin env'
               PROVE  NoHandle' /\ Placed'
    BY DEF Ownership
  <2>1. "reclose" \notin env
    BY DEF Next, vars
  <2>2. QED
    BY Zenon, <2>1, DataFacts, NoHandleStep, PlacedStep DEF Ownership
<1>3. QED
  BY <1>1, <1>2, TypeCorrect, LockInvariant, PTL DEF Spec

\* When no caller closes a handle it has already returned, a wrapper is in one
\* place until Release closes what is left: getIdleConnLocked and putConn never
\* let two goroutines work with one PoolConn and never recycle one that is in
\* use, however many callers there are and whatever fails.
THEOREM ExclusiveOwnership == Spec => []Exclusive
<1>1. TypeOK /\ RefOK /\ Ownership => Exclusive
  BY PlacedExclusive DEF Ownership, Exclusive, InService
<1>2. QED
  BY <1>1, OwnershipInvariant, TypeCorrect, PTL

-----------------------------------------------------------------------------
(* The accounts.                                                           *)

\* NewPool's connections are all idle, distinct and counted.
LEMMA InitBooks == Init => Books /\ CleanerOut /\ Capped
<1> SUFFICES ASSUME Init PROVE Books /\ CleanerOut /\ Capped
  BY Zenon
<1>1. /\ \A p \in Callers : pc[p] = "out" /\ ~Owning(p)
      /\ toClose = <<>> /\ cleanerPc = "select" /\ releaserPc = "none"
  BY Zenon DEF Init, Owning
<1>2. Users = {} /\ Dialling = {} /\ Owned = {} /\ Range(toClose) = {}
  BY <1>1 DEF Users, Dialling, Owned, Range
<1>3. Range(idle) \subseteq Wrappers /\ Places = Range(idle)
  BY Zenon, <1>2 DEF Init, Range, Places
<1>4. Carry
  <2>1. /\ open = {conn[w] : w \in Range(idle)}
        /\ conn \in [Wrappers -> Conns \cup {NoConn}]
        /\ \A w \in Wrappers : conn[w] = NoConn <=> w \notin Range(idle)
        /\ \A v, w \in Range(idle) : v # w => conn[v] # conn[w]
    BY Zenon DEF Init
  <2>2. QED
    BY Zenon, <1>3, <2>1 DEF Carry
<1>5. Listed
  BY Zenon, <1>1 DEF Listed
<1>6. IsFiniteSet(open) /\ Cardinality(open) = InitConnCnt
  <2> DEFINE f == [i \in 1..InitConnCnt |-> conn[idle[i]]]
  <2>1. /\ idle \in [1..InitConnCnt -> Wrappers] /\ IsInjective(idle)
        /\ Range(idle) = {idle[i] : i \in 1..InitConnCnt}
    BY Zenon DEF Init, Range
  <2>2. \A i, j \in 1..InitConnCnt : i # j => idle[i] # idle[j]
    BY Zenon, <2>1 DEF IsInjective
  <2>a. open = {conn[w] : w \in Range(idle)}
    BY Zenon DEF Init
  <2>3. open = {conn[idle[i]] : i \in 1..InitConnCnt}
    BY Zenon, <2>1, <2>a
  <2>4. \A i, j \in 1..InitConnCnt : i # j => conn[idle[i]] # conn[idle[j]]
    BY Zenon, <2>1, <2>2 DEF Init
  <2>5. f \in [1..InitConnCnt -> open]
    BY Zenon, <2>3
  <2>6. \A i, j \in 1..InitConnCnt : f[i] = f[j] => i = j
    BY Zenon, <2>4
  <2>7. \A c \in open : \E i \in 1..InitConnCnt : f[i] = c
    BY Zenon, <2>3
  <2> HIDE DEF f
  <2>8. f \in Bijection(1..InitConnCnt, open)
    BY Zenon, <2>5, <2>6, <2>7 DEF Bijection, Injection, Surjection, IsInjective
  <2>9. ExistsBijection(1..InitConnCnt, open) /\ InitConnCnt \in Nat
    BY Zenon, <2>8, ConstantsAssumption DEF ExistsBijection
  <2>10. QED
    BY Zenon, <2>9, FS_NatBijection, FS_CountingElements
<1>7. Len(idle) = InitConnCnt /\ Len(toClose) = 0 /\ connCnt = InitConnCnt
      /\ InitConnCnt \in Nat /\ MaxConnCap \in Nat /\ InitConnCnt <= MaxConnCap
  <2>1. idle \in [1..InitConnCnt -> Wrappers] /\ connCnt = InitConnCnt
    BY Zenon DEF Init
  <2>2. QED
    BY <1>1, <2>1, ConstantsAssumption
<1>8. IsFiniteSet(Users) /\ IsFiniteSet(Dialling)
      /\ Cardinality(Users) = 0 /\ Cardinality(Dialling) = 0
  BY Zenon, <1>2, FS_EmptySet
<1>9. Sums
  BY <1>6, <1>7, <1>8 DEF Sums
<1>10. Capped
  BY <1>6, <1>7, <1>8 DEF Capped
<1>11. CleanerOut
  BY Zenon, <1>1 DEF CleanerOut
<1>12. QED
  BY Zenon, <1>4, <1>5, <1>9, <1>10, <1>11 DEF Books

\* Every step keeps the accounts.
LEMMA AccountsStep ==
  ASSUME TypeOK, RefOK, LockInv, Ownership, Accounts, [Next]_vars,
         TypeOK'
  PROVE  Accounts'
<1>0. env' = env
  BY DEF Next, vars
<1>1. CleanerOut /\ CleanerOut'
  BY Zenon, CleanerOutStep DEF Accounts
<1>2. ASSUME "reclose" \notin env, releaserPc # "done", releaserPc' # "done"
      PROVE  Books'
  <2>1. NoHandle /\ StockPlaced /\ OwnersPlaced /\ Books
    BY Zenon, <1>2 DEF Ownership, Placed, Accounts
  <2>2. ~ReleaseCloseAll
    BY <1>2 DEF ReleaseCloseAll
  <2>3. QED
    BY Zenon, <2>1, <2>2, DataFacts, GetBooks, PutBooks,
       OthersBooks DEF Next, PoolStep, ReleaseStep
<1>3. ASSUME "reclose" \notin env, releaserPc # "done", releaserPc' = "done"
      PROVE  Leftover' /\ closed
  <2>1. StockPlaced /\ OwnersPlaced /\ Books
    BY <1>3 DEF Ownership, Placed, Accounts
  <2>2. ReleaseCloseAll
    BY Zenon, <1>3, DoneStays
  <2>3. toClose = <<>> /\ releaserPc = "waiting"
    BY Zenon, <1>1, <2>2 DEF ReleaseCloseAll, CleanerOut
  <2>4. QED
    BY Zenon, <2>1, <2>2, <2>3, DataFacts, LoopLeaves DEF LockInv
<1>4. ASSUME "reclose" \notin env, releaserPc = "done"
      PROVE  Leftover' /\ closed /\ releaserPc' = "done"
  <2>1. NoHandle /\ Leftover
    BY <1>4 DEF Ownership, Accounts
  <2>2. QED
    BY Zenon, <1>1, <1>4, <2>1, DataFacts, LeftoverStep, DoneStays DEF LockInv
<1>5. ASSUME env \cap {"foreign", "reclose"} = {} PROVE Capped'
  <2>1. "foreign" \notin env /\ "reclose" \notin env /\ Capped
    BY <1>5 DEF Accounts
  <2>2. closed \/ Books'
    BY Zenon, <1>2, <1>3, <1>4, <2>1
  <2>3. connCnt' \in Int
    BY DEF TypeOK
  <2>4. QED
    BY Zenon, <2>1, <2>2, <2>3, DataFacts, CapStep
<1>6. QED
  BY Zenon, <1>0, <1>1, <1>2, <1>3, <1>4, <1>5 DEF Accounts

\* What the invariants say of a state.
LEMMA AccountsTell ==
  ASSUME TypeOK, RefOK, Ownership, Accounts
  PROVE  ConnsAccounted
<1>1. HeldUsable
  <2> SUFFICES ASSUME InService, NEW p \in Callers, pc[p] = "hold"
               PROVE  /\ ref[p] \in active
                      /\ conn[ref[p]] \in open
                      /\ \A w \in Wrappers \ {ref[p]} : conn[w] # conn[ref[p]]
    BY DEF HeldUsable
  <2>1. Carry /\ Listed
    BY Zenon DEF InService, Accounts, Books
  <2>2. ref[p] \in Wrappers /\ ref[p] \in Places
    BY Zenon DEF Owning, RefOK, Places, Owned
  <2>3. ref[p] \in active /\ conn[ref[p]] \in open
    BY Zenon, <2>1, <2>2 DEF Listed, Carry
  <2>4. conn[ref[p]] # NoConn
    BY Zenon, <2>3, ConstantsAssumption DEF TypeOK
  <2>5. QED
    BY <2>1, <2>2, <2>3, <2>4 DEF Carry
<1>2. CountExact
  BY DEF CountExact, InService, Accounts, Books, Sums, Users
<1>3. CapRespected
  <2> SUFFICES ASSUME env \cap {"foreign", "reclose"} = {}
               PROVE  connCnt <= MaxConnCap /\ Cardinality(open) <= MaxConnCap
    BY DEF CapRespected
  <2>1. /\ connCnt <= MaxConnCap /\ IsFiniteSet(open) /\ IsFiniteSet(Dialling)
        /\ Cardinality(open) + Cardinality(Dialling) <= MaxConnCap
    BY Zenon DEF Accounts, Capped
  <2>2. Cardinality(open) \in Nat /\ Cardinality(Dialling) \in Nat /\ MaxConnCap \in Nat
    BY Zenon, <2>1, FS_CardinalityType, ConstantsAssumption
  <2>3. QED
    BY <2>1, <2>2
<1>4. ReleaseClosesAllConnections
  <2> SUFFICES ASSUME releaserPc = "done", "reclose" \notin env,
                      \A p \in Callers : pc[p] \in {"out", "hold"},
                      \A w \in Wrappers : free[w] <= 1
               PROVE  open \subseteq {conn[w] : w \in Range(idle)}
    BY DEF ReleaseClosesAllConnections
  <2>1. Leftover
    BY DEF Accounts
  <2>2. \A p \in Callers : ~Carrier(p)
    BY Zenon DEF Carrier
  <2>3. \A w \in Wrappers : ~(free[w] > 1)
    <3>1. free \in [Wrappers -> Nat]
      BY Zenon DEF TypeOK
    <3>2. QED
      BY <3>1
  <2>4. \A w \in Wrappers : ~Twice(w)
    BY Zenon, <2>2, <2>3 DEF Twice
  <2>5. Kept
    BY Zenon, <2>1, <2>4 DEF Leftover
  <2>6. QED
    BY Zenon, <2>2, <2>5 DEF Kept
<1>5. QED
  BY Zenon, <1>1, <1>2, <1>3, <1>4 DEF ConnsAccounted

\* Every connection is accounted for, in a pool of any size and with any number of
\* callers: between Get and Close it is open, in activeConns and nobody else's;
\* connCnt, although Get and putConn change it outside the mutex, counts each
\* connection and each dial in flight once; maxConnCap bounds it and what is
\* really open, also while Release runs and after it; and what Release leaves
\* open is closed by the call that had it, up to the two exceptions of the code.
THEOREM AllConnsAccounted == Spec => []ConnsAccounted
<1>1. Init => Accounts
  BY InitBooks DEF Accounts, Init
<1>2. /\ TypeOK /\ RefOK /\ LockInv /\ Ownership /\ Accounts /\ [Next]_vars /\ TypeOK'
      => Accounts'
  BY AccountsStep
<1>3. TypeOK /\ RefOK /\ Ownership /\ Accounts => ConnsAccounted
  BY AccountsTell
<1>4. QED
  BY <1>1, <1>2, <1>3, TypeCorrect, LockInvariant, OwnershipInvariant, PTL DEF Spec
=============================================================================
