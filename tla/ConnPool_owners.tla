-------------------------- MODULE ConnPool_owners ---------------------------
(***************************************************************************)
(* Every step of the connection pool keeps a wrapper in one place and the  *)
(* discipline of the mutex; what the operations on slices do.              *)
(***************************************************************************)
EXTENDS ConnPool_inv, TLAPS

-----------------------------------------------------------------------------
(* Ownership.                                                              *)

\* Without careless callers nobody keeps a handle it has returned.
LEMMA NoHandleStep ==
  ASSUME "reclose" \notin env, TypeOK, NoHandle, [Next]_vars
  PROVE  NoHandle'
<1>0. ASSUME UNCHANGED <<pc, ref>> PROVE NoHandle'
  BY <1>0 DEF NoHandle, Owning
<1>1. ASSUME NEW p \in Callers, pc' = [pc EXCEPT ![p] = "out"],
             ref' = [ref EXCEPT ![p] = NoWrapper]
      PROVE  NoHandle'
  BY <1>1 DEF NoHandle, Owning, TypeOK
<1>2. ASSUME NEW p \in Callers, NEW l, pc' = [pc EXCEPT ![p] = l],
             \/ ref' = ref /\ ref[p] = NoWrapper
             \/ ref' = [ref EXCEPT ![p] = NoWrapper]
      PROVE  NoHandle'
  BY <1>2 DEF NoHandle, Owning, TypeOK
<1>3. ASSUME NEW p \in Callers, NEW w,
             NEW l \in {"pingGet", "dialed", "dialClose", "hold", "putting",
                        "pingPut", "marking"},
             pc' = [pc EXCEPT ![p] = l], ref' = [ref EXCEPT ![p] = w]
      PROVE  NoHandle'
  BY <1>3 DEF NoHandle, Owning, TypeOK
<1>4. ASSUME NEW p \in Callers, NEW l \in {"dialClose", "hold", "putting",
                                           "pingPut", "marking"},
             pc' = [pc EXCEPT ![p] = l], ref' = ref
      PROVE  NoHandle'
  BY <1>4 DEF NoHandle, Owning, TypeOK
<1>5. ASSUME NEW p \in Callers, GetBegin(p) PROVE NoHandle'
  BY <1>5, <1>0, <1>2 DEF GetBegin, Goto
<1>6. ASSUME NEW p \in Callers, GetStep(p) PROVE NoHandle'
  <2>1. CASE PopExpired(p)
    BY <2>1, <1>0 DEF PopExpired, callerVars
  <2>2. CASE PopIdle(p)
    <3>1. \/ pc' = [pc EXCEPT ![p] = "pingGet"]
          \/ pc' = [pc EXCEPT ![p] = "hold"]
      BY <2>2 DEF PopIdle, Goto
    <3>2. ref' = [ref EXCEPT ![p] = Last(idle)]
      BY <2>2 DEF PopIdle
    <3>3. QED
      BY Zenon, <3>1, <3>2, <1>3
  <2>3. CASE PingGetDone(p)
    BY <2>3, <1>1, <1>2, <1>4 DEF PingGetDone, Goto, Leave
  <2>4. CASE Reserve(p)
    BY <2>4, <1>2 DEF Reserve, Goto, NoHandle, Owning
  <2>5. CASE DialOk(p)
    BY Zenon, <2>5, <1>3 DEF DialOk, Goto
  <2>6. CASE DialFail(p)
    BY <2>6, <1>2 DEF DialFail, Goto, NoHandle, Owning
  <2>7. CASE DialFailBroadcast(p)
    BY Zenon, <2>7, <1>1 DEF DialFailBroadcast, Goto, Leave
  <2>8. CASE DialRegister(p)
    BY <2>8, <1>4 DEF DialRegister, Goto
  <2>9. CASE DialClose(p)
    BY Zenon, <2>9, <1>1 DEF DialClose, Goto, Leave
  <2>10. CASE Park(p)
    BY <2>10, <1>2 DEF Park, Goto, NoHandle, Owning
  <2>11. CASE Sleep(p)
    BY <2>11, <1>2 DEF Sleep, Goto, NoHandle, Owning
  <2>12. CASE Wake(p)
    BY <2>12, <1>2 DEF Wake, Goto, NoHandle, Owning
  <2>13. QED
    BY <1>6, <2>1, <2>2, <2>3, <2>4, <2>5, <2>6, <2>7, <2>8, <2>9, <2>10,
       <2>11, <2>12 DEF GetStep
<1>7. ASSUME NEW p \in Callers, PutStep(p) PROVE NoHandle'
  <2>1. CASE GiveBack(p)
    BY <2>1, <1>1, <1>4 DEF GiveBack, Goto, Leave
  <2>2. CASE PutConn(p)
    BY <2>2, <1>1, <1>4 DEF PutConn, Goto, Return
  <2>3. CASE PingPutDone(p)
    BY Zenon, <2>3, <1>1 DEF PingPutDone, Goto, Return
  <2>4. CASE MarkUnhealthy(p)
    BY Zenon, <2>4, <1>1 DEF MarkUnhealthy, Goto, Return
  <2>5. QED
    BY <1>7, <2>1, <2>2, <2>3, <2>4 DEF PutStep
<1>8. ASSUME NEW p \in Callers, Cancel(p) \/ AfterFunc(p) PROVE NoHandle'
  BY <1>0, <1>8 DEF Cancel, AfterFunc
<1>9. CASE PutForeign \/ CleanTick \/ UNCHANGED vars
  BY <1>0, <1>9 DEF PutForeign, CleanTick, vars, poolVars, callerVars
<1>10. CASE CleanStep
  BY <1>0, <1>10 DEF CleanStep, CleanTake, CleanUnlock, CleanClose,
     CleanBroadcast, CleanStop, callerVars
<1>11. CASE ReleaseBegin \/ ReleaseStep
  BY <1>0, <1>11 DEF ReleaseBegin, ReleaseStep, ReleaseBroadcast,
     ReleaseCloseAll, callerVars
<1>12. QED
  BY <1>5, <1>6, <1>7, <1>8, <1>9, <1>10, <1>11 DEF Next, PoolStep

\* Closing a wrapper that is in stock and has left it.
LEMMA CloseStock ==
  ASSUME TypeOK, Placed, releaserPc # "done", UNCHANGED <<pc, ref, releaserPc>>,
         NEW w \in Wrappers, closeConnLocked(w),
         w \in Range(idle) \cup Range(toClose),
         w \notin Range(idle') \cup Range(toClose'),
         Range(idle') \subseteq Range(idle),
         Range(toClose') \subseteq Range(toClose),
         IsInjective(idle'), IsInjective(toClose')
  PROVE  Placed'
<1>1. StockPlaced /\ OwnersPlaced /\ \A v \in Wrappers : free[v] <= 1
  BY DEF Placed
<1>a. free[w] = 0
  BY <1>1 DEF StockPlaced
<1>b. free' = [free EXCEPT ![w] = free[w] + 1]
  BY DEF closeConnLocked
<1>2. free' = [free EXCEPT ![w] = 1] /\ free \in [Wrappers -> Nat]
  BY <1>a, <1>b DEF TypeOK
<1>3. Range(idle) \subseteq Wrappers /\ Range(toClose) \subseteq Wrappers
  BY DEF TypeOK, Range
<1>4. StockPlaced'
  BY <1>1, <1>2, <1>3 DEF StockPlaced
<1>5. OwnersPlaced'
  <2>1. ASSUME NEW p \in Callers, Owning(p)
        PROVE  ref[p] # w /\ free'[ref[p]] = free[ref[p]]
    BY SMTT(30), <1>1, <1>2, <2>1 DEF OwnersPlaced, TypeOK
  <2>2. QED
    BY <1>1, <2>1 DEF OwnersPlaced, Owning
<1>6. QED
  BY SMTT(30), <1>1, <1>2, <1>4, <1>5 DEF Placed, TypeOK

\* An owner closes its wrapper and is an owner no longer.
LEMMA CloseOwned ==
  ASSUME TypeOK, RefOK, Placed, releaserPc # "done", NEW p \in Callers, Owning(p),
         closeConnLocked(ref[p]), UNCHANGED <<idle, toClose, releaserPc>>,
         NEW l \in {"out", "locked"}, pc' = [pc EXCEPT ![p] = l],
         ref' = ref \/ ref' = [ref EXCEPT ![p] = NoWrapper]
  PROVE  Placed'
<1>1. StockPlaced /\ OwnersPlaced /\ \A v \in Wrappers : free[v] <= 1
  BY DEF Placed
<1>2. ref[p] \in Wrappers
  BY DEF RefOK
<1>a. free[ref[p]] = 0
  BY <1>1 DEF OwnersPlaced
<1>b. free' = [free EXCEPT ![ref[p]] = free[ref[p]] + 1]
  BY DEF closeConnLocked
<1>3. free' = [free EXCEPT ![ref[p]] = 1] /\ free \in [Wrappers -> Nat]
  BY <1>a, <1>b DEF TypeOK
<1>4. Range(idle) \subseteq Wrappers /\ Range(toClose) \subseteq Wrappers
  BY DEF TypeOK, Range
<1>5. StockPlaced'
  BY <1>1, <1>2, <1>3, <1>4 DEF StockPlaced, OwnersPlaced
<1>6. \A q \in Callers : Owning(q)' =>
        q # p /\ Owning(q) /\ ref'[q] = ref[q] /\ ref[q] \in Wrappers
  BY DEF Owning, TypeOK, RefOK
<1>7. OwnersPlaced'
  <2>1. ASSUME NEW q \in Callers, Owning(q)'
        PROVE  /\ ref'[q] \notin Range(idle') \cup Range(toClose')
               /\ free'[ref'[q]] = 0
    <3>1. q # p /\ Owning(q) /\ ref'[q] = ref[q] /\ ref[q] \in Wrappers
      BY <1>6, <2>1
    <3>2. ref[q] # ref[p] /\ free[ref[q]] = 0
          /\ ref[q] \notin Range(idle) \cup Range(toClose)
      BY <1>1, <3>1 DEF OwnersPlaced
    <3>3. QED
      BY <1>3, <3>1, <3>2
  <2>2. QED
    BY <1>1, <1>6, <2>1 DEF OwnersPlaced
<1>8. QED
  BY SMTT(30), <1>1, <1>2, <1>3, <1>5, <1>7 DEF Placed, TypeOK

\* An owner puts its wrapper back among the idle ones.
LEMMA KeepOwned ==
  ASSUME Slicing, TypeOK, RefOK, Placed, releaserPc # "done",
         NEW p \in Callers, Owning(p),
         idle' = Append(idle, ref[p]), UNCHANGED <<toClose, releaserPc, free>>,
         pc' = [pc EXCEPT ![p] = "out"],
         ref' = ref \/ ref' = [ref EXCEPT ![p] = NoWrapper]
  PROVE  Placed'
<1>1. StockPlaced /\ OwnersPlaced /\ \A v \in Wrappers : free[v] <= 1
  BY DEF Placed
<1>2. ref[p] \in Wrappers /\ idle \in Seq(Wrappers)
  BY DEF RefOK, TypeOK
<1>3. Range(idle') = Range(idle) \cup {ref[p]} /\ IsInjective(idle')
  BY <1>1, <1>2 DEF StockPlaced, OwnersPlaced, Slicing
<1>4. StockPlaced'
  BY <1>1, <1>3 DEF StockPlaced, OwnersPlaced
<1>5. \A q \in Callers : Owning(q)' =>
        q # p /\ Owning(q) /\ ref'[q] = ref[q]
  BY DEF Owning, TypeOK
<1>6. OwnersPlaced'
  BY <1>1, <1>3, <1>5 DEF OwnersPlaced
<1>7. QED
  BY <1>1, <1>4, <1>6 DEF Placed

\* A fresh wrapper goes to a caller that owned none, or among the idle ones.
LEMMA WrapFresh ==
  ASSUME TypeOK, Placed, releaserPc # "done",
         NEW w \in Wrappers, NEW c \in Conns, wrapConn(w, c)
  PROVE  /\ w \notin Range(idle) \cup Range(toClose)
         /\ \A q \in Callers : Owning(q) => ref[q] # w
         /\ free'[w] = 0
         /\ \A v \in Wrappers : v # w => free'[v] = free[v]
BY DEF wrapConn, Obtainable, Referenced, Placed, StockPlaced, OwnersPlaced,
       TypeOK

\* A step that leaves the owners, the stock and the sync.Pool alone.
LEMMA PlaceUnchanged ==
  ASSUME Placed, UNCHANGED <<idle, toClose, free, releaserPc, ref>>,
         \A q \in Callers : Owning(q)' => Owning(q)
  PROVE  Placed'
<1>1. CASE releaserPc = "done"
  BY <1>1 DEF Placed
<1>2. CASE releaserPc # "done"
  BY <1>2 DEF Placed, StockPlaced, OwnersPlaced
<1>3. QED
  BY <1>1, <1>2

\* A step of Release before it closes what is left.
LEMMA StillPlaced ==
  ASSUME Placed, releaserPc # "done", UNCHANGED <<idle, toClose, free, pc, ref>>
  PROVE  Placed'
BY DEF Placed, StockPlaced, OwnersPlaced, Owning

\* What append does to a slice without duplicates.
LEMMA AddLast ==
  ASSUME Slicing, NEW s \in Seq(Wrappers), NEW w \in Wrappers, IsInjective(s), w \notin Range(s)
  PROVE  Range(Append(s, w)) = Range(s) \cup {w} /\ IsInjective(Append(s, w))
BY DEF Slicing

\* What the cut of the last wrapper leaves of a slice without duplicates.
LEMMA CutLast ==
  ASSUME Slicing, NEW s \in Seq(Wrappers), s # <<>>, IsInjective(s)
  PROVE  /\ Last(s) \in Wrappers /\ Last(s) \in Range(s)
         /\ Last(s) \notin Range(Front(s)) /\ IsInjective(Front(s))
         /\ Range(Front(s)) \subseteq Range(s)
<1>1. /\ Last(s) \in Wrappers /\ Last(s) \in Range(s)
      /\ Last(s) \notin Range(Front(s)) /\ IsInjective(Front(s))
      /\ Range(s) = Range(Front(s)) \cup {Last(s)}
  BY Zenon DEF Slicing
<1>2. QED
  BY <1>1

\* What the removal of a wrapper leaves of a slice without duplicates.
LEMMA CutAt ==
  ASSUME Slicing, NEW s \in Seq(Wrappers), NEW i \in DOMAIN s, IsInjective(s)
  PROVE  /\ s[i] \in Wrappers /\ s[i] \notin Range(RemoveAt(s, i))
         /\ IsInjective(RemoveAt(s, i)) /\ Range(RemoveAt(s, i)) \subseteq Range(s)
<1>1. /\ s[i] \in Wrappers /\ s[i] \notin Range(RemoveAt(s, i))
      /\ IsInjective(RemoveAt(s, i)) /\ Range(s) = Range(RemoveAt(s, i)) \cup {s[i]}
  BY Zenon DEF Slicing
<1>2. QED
  BY <1>1

\* The steps of Get keep every wrapper in one place.
LEMMA GetPlaced ==
  ASSUME Slicing, TypeOK, RefOK, Placed, releaserPc # "done", NEW p \in Callers,
         GetBegin(p) \/ GetStep(p)
  PROVE  Placed'
<1>a. idle \in Seq(Wrappers) /\ toClose \in Seq(Wrappers)
  BY DEF TypeOK
<1>b. StockPlaced /\ OwnersPlaced /\ \A v \in Wrappers : free[v] <= 1
  BY DEF Placed
<1> USE DEF Goto, Leave, connVars, lockVars, callerVars
<1>1. CASE GetBegin(p)
  <2>1. /\ pc[p] = "out"
        /\ \/ /\ pc' = [pc EXCEPT ![p] = "locked"]
              /\ ref' = [ref EXCEPT ![p] = NoWrapper]
           \/ UNCHANGED <<pc, ref>>
        /\ UNCHANGED <<idle, toClose, free, releaserPc>>
    BY <1>1 DEF GetBegin
  <2>2. \A q \in Callers : Owning(q)' => Owning(q) /\ ref'[q] = ref[q]
    BY <2>1 DEF Owning, TypeOK
  <2>3. QED
    BY <1>b, <2>1, <2>2 DEF Placed, StockPlaced, OwnersPlaced
<1>2. CASE PopExpired(p)
  <2>1. /\ Last(idle) \in Wrappers /\ Last(idle) \in Range(idle)
        /\ Last(idle) \notin Range(Front(idle)) /\ IsInjective(Front(idle))
        /\ Range(Front(idle)) \subseteq Range(idle)
    <3>1. idle # <<>> /\ IsInjective(idle)
      BY Zenon, <1>2, <1>b DEF PopExpired, StockPlaced
    <3>2. QED
      BY Zenon, <1>a, <3>1, CutLast
  <2>2. Last(idle) \notin Range(toClose) /\ IsInjective(toClose)
    BY <1>b, <2>1 DEF StockPlaced
  <2>3. /\ closeConnLocked(Last(idle)) /\ idle' = Front(idle)
        /\ UNCHANGED <<pc, ref, releaserPc, toClose>>
    BY <1>2 DEF PopExpired
  <2>4. QED
    BY <2>1, <2>2, <2>3, CloseStock
<1>3. CASE PopIdle(p)
  <2> DEFINE w == Last(idle)
  <2>1. /\ w \in Wrappers /\ w \in Range(idle)
        /\ w \notin Range(Front(idle)) /\ IsInjective(Front(idle))
        /\ Range(Front(idle)) \subseteq Range(idle)
    <3>1. idle # <<>> /\ IsInjective(idle)
      BY Zenon, <1>3, <1>b DEF PopIdle, StockPlaced
    <3>2. QED
      BY Zenon, <1>a, <3>1, CutLast
  <2>2. /\ idle' = Front(idle) /\ ref' = [ref EXCEPT ![p] = w]
        /\ UNCHANGED <<toClose, free, releaserPc>>
        /\ \E l \in {"pingGet", "hold"} : pc' = [pc EXCEPT ![p] = l]
    BY <1>3 DEF PopIdle
  <2> HIDE DEF w
  <2>3. StockPlaced'
    BY <1>b, <2>1, <2>2 DEF StockPlaced
  <2>4. ref'[p] = w /\ \A q \in Callers : q # p /\ Owning(q)' =>
                          Owning(q) /\ ref'[q] = ref[q]
    BY <2>2 DEF Owning, TypeOK
  <2>5. w \notin Range(toClose) /\ free[w] = 0
        /\ \A q \in Callers : Owning(q) => ref[q] # w
    BY <1>b, <2>1 DEF StockPlaced, OwnersPlaced
  <2>6. OwnersPlaced'
    <3>1. ASSUME NEW q \in Callers, Owning(q)'
          PROVE  /\ ref'[q] \notin Range(idle') \cup Range(toClose')
                 /\ free'[ref'[q]] = 0
      BY Zenon, <1>b, <2>1, <2>2, <2>4, <2>5, <3>1 DEF OwnersPlaced
    <3>2. ASSUME NEW q \in Callers, NEW r \in Callers, q # r,
                 Owning(q)', Owning(r)'
          PROVE  ref'[q] # ref'[r]
      BY <1>b, <2>4, <2>5, <3>2 DEF OwnersPlaced
    <3>3. QED
      BY SMTT(30), <3>1, <3>2 DEF OwnersPlaced
  <2>7. QED
    BY <1>b, <2>2, <2>3, <2>6 DEF Placed
<1>4. CASE PingGetDone(p)
  <2>1. Owning(p)
    BY <1>4 DEF PingGetDone, Owning
  <2>2. \/ /\ closeConnLocked(ref[p])
           /\ \E l \in {"out", "locked"} : pc' = [pc EXCEPT ![p] = l]
           /\ ref' = [ref EXCEPT ![p] = NoWrapper]
        \/ /\ pc' = [pc EXCEPT ![p] = "hold"]
           /\ UNCHANGED <<ref, free>>
    BY <1>4 DEF PingGetDone
  <2>3. UNCHANGED <<idle, toClose, releaserPc>>
    BY <1>4 DEF PingGetDone
  <2>4. pc' = [pc EXCEPT ![p] = "hold"] =>
          \A q \in Callers : Owning(q)' => Owning(q)
    BY <2>1 DEF Owning, TypeOK
  <2>5. QED
    BY <2>1, <2>2, <2>3, <2>4, CloseOwned, PlaceUnchanged
<1>5. CASE Reserve(p)
  BY <1>5, PlaceUnchanged DEF Reserve, Owning, TypeOK
<1>6. CASE DialOk(p)
  <2>1. PICK w \in Wrappers, c \in Conns :
          wrapConn(w, c) /\ ref' = [ref EXCEPT ![p] = w]
    BY Zenon, <1>6 DEF DialOk
  <2>2. /\ w \notin Range(idle) \cup Range(toClose)
        /\ \A q \in Callers : Owning(q) => ref[q] # w
        /\ free'[w] = 0
        /\ \A v \in Wrappers : v # w => free'[v] = free[v]
    BY <2>1, WrapFresh
  <2>3. UNCHANGED <<idle, toClose, releaserPc>> /\ pc' = [pc EXCEPT ![p] = "dialed"]
    BY <1>6 DEF DialOk
  <2>4. ref'[p] = w /\ \A q \in Callers : q # p /\ Owning(q)' =>
                          Owning(q) /\ ref'[q] = ref[q] /\ ref[q] \in Wrappers
    BY <2>1, <2>3 DEF Owning, TypeOK, RefOK
  <2>5. Range(idle) \subseteq Wrappers /\ Range(toClose) \subseteq Wrappers
    BY <1>a DEF Range
  <2>6. StockPlaced'
    BY <1>b, <2>2, <2>3, <2>5 DEF StockPlaced
  <2>7. OwnersPlaced'
    <3>1. ASSUME NEW q \in Callers, Owning(q)'
          PROVE  /\ ref'[q] \notin Range(idle') \cup Range(toClose')
                 /\ free'[ref'[q]] = 0
      BY <1>b, <2>2, <2>3, <2>4, <3>1 DEF OwnersPlaced
    <3>2. ASSUME NEW q \in Callers, NEW r \in Callers, q # r,
                 Owning(q)', Owning(r)'
          PROVE  ref'[q] # ref'[r]
      BY <1>b, <2>2, <2>4, <3>2 DEF OwnersPlaced
    <3>3. QED
      BY <3>1, <3>2 DEF OwnersPlaced
  <2>8. \A v \in Wrappers : free'[v] <= 1
    BY SMTT(30), <1>b, <2>2
  <2>9. QED
    BY <2>6, <2>7, <2>8 DEF Placed
<1>7. CASE DialFail(p)
  BY Zenon, <1>7, PlaceUnchanged DEF DialFail, Owning, TypeOK
<1>8. CASE DialFailBroadcast(p)
  <2>1. pc[p] = "dialFailed" /\ pc' = [pc EXCEPT ![p] = "out"]
        /\ ref' = [ref EXCEPT ![p] = NoWrapper]
        /\ UNCHANGED <<idle, toClose, free, releaserPc>>
    BY <1>8 DEF DialFailBroadcast
  <2>2. \A q \in Callers : Owning(q)' => Owning(q) /\ ref'[q] = ref[q]
    BY <2>1 DEF Owning, TypeOK
  <2>3. QED
    BY <1>b, <2>1, <2>2 DEF Placed, StockPlaced, OwnersPlaced
<1>9. CASE DialRegister(p)
  BY <1>9, PlaceUnchanged DEF DialRegister, Owning, TypeOK
<1>10. CASE DialClose(p)
  <2>1. Owning(p)
    BY <1>10 DEF DialClose, Owning
  <2>2. QED
    BY Zenon, <1>10, <2>1, CloseOwned DEF DialClose
<1>11. CASE Park(p)
  BY <1>11, PlaceUnchanged DEF Park, Owning, TypeOK
<1>12. CASE Sleep(p)
  BY <1>12, PlaceUnchanged DEF Sleep, Owning, TypeOK
<1>13. CASE Wake(p)
  BY SMTT(30), <1>13, PlaceUnchanged DEF Wake, Owning, TypeOK
<1>14. QED
  BY <1>1, <1>2, <1>3, <1>4, <1>5, <1>6, <1>7, <1>8, <1>9, <1>10, <1>11,
     <1>12, <1>13 DEF GetStep

\* The steps of putConn keep every wrapper in one place.
LEMMA PutPlaced ==
  ASSUME Slicing, TypeOK, RefOK, Placed, NoHandle, releaserPc # "done",
         NEW p \in Callers,
         PutStep(p)
  PROVE  Placed'
<1> USE DEF Goto, Leave, Return, connVars, lockVars, callerVars
<1>0. ASSUME Owning(p), KeepOrClose(ref[p]), Return(p),
             UNCHANGED <<toClose, releaserPc>>
      PROVE  Placed'
  <2>1. /\ pc' = [pc EXCEPT ![p] = "out"]
        /\ ref' = ref \/ ref' = [ref EXCEPT ![p] = NoWrapper]
    BY <1>0
  <2>2. \/ idle' = Append(idle, ref[p]) /\ UNCHANGED free
        \/ closeConnLocked(ref[p]) /\ UNCHANGED idle
    BY <1>0 DEF KeepOrClose
  <2>3. QED
    BY Zenon, <1>0, <2>1, <2>2, KeepOwned, CloseOwned
<1>1. CASE GiveBack(p)
  <2>1. Owning(p)
    BY <1>1 DEF GiveBack, HasHandle, NoHandle, Owning
  <2>2. UNCHANGED <<idle, toClose, free, releaserPc>>
    BY <1>1 DEF GiveBack
  <2>3. \/ /\ pc' = [pc EXCEPT ![p] = "out"]
           /\ ref' = [ref EXCEPT ![p] = NoWrapper]
        \/ /\ \E l \in {"putting", "marking"} : pc' = [pc EXCEPT ![p] = l]
           /\ UNCHANGED ref
    BY Zenon, <1>1 DEF GiveBack
  <2>4. \A q \in Callers : Owning(q)' => Owning(q) /\ ref'[q] = ref[q]
    BY <2>1, <2>3 DEF Owning, TypeOK
  <2>5. QED
    BY Zenon, <2>2, <2>4 DEF Placed, StockPlaced, OwnersPlaced
<1>2. CASE PutConn(p)
  <2>1. Owning(p) /\ UNCHANGED <<toClose, releaserPc>>
    BY <1>2 DEF PutConn, Owning
  <2>2. \/ closeConnLocked(ref[p]) /\ Return(p) /\ UNCHANGED idle
        \/ pc' = [pc EXCEPT ![p] = "pingPut"] /\ UNCHANGED <<ref, idle, free>>
        \/ KeepOrClose(ref[p]) /\ Return(p)
    BY Zenon, <1>2 DEF PutConn
  <2>3. CASE closeConnLocked(ref[p]) /\ Return(p) /\ UNCHANGED idle
    BY Zenon, <2>1, <2>3, CloseOwned
  <2>4. CASE pc' = [pc EXCEPT ![p] = "pingPut"] /\ UNCHANGED <<ref, idle, free>>
    BY <2>1, <2>4, PlaceUnchanged DEF Owning, TypeOK
  <2>5. QED
    BY Zenon, <1>0, <2>1, <2>2, <2>3, <2>4
<1>3. CASE PingPutDone(p)
  <2>1. Owning(p) /\ UNCHANGED <<toClose, releaserPc>> /\ Return(p)
    BY <1>3 DEF PingPutDone, Owning
  <2>2. \/ closeConnLocked(ref[p]) /\ UNCHANGED idle
        \/ KeepOrClose(ref[p])
    BY <1>3 DEF PingPutDone
  <2>3. CASE closeConnLocked(ref[p]) /\ UNCHANGED idle
    BY Zenon, <2>1, <2>3, CloseOwned
  <2>4. QED
    BY <1>0, <2>1, <2>2, <2>3
<1>4. CASE MarkUnhealthy(p)
  <2>1. Owning(p) /\ UNCHANGED <<idle, toClose, releaserPc>> /\ Return(p)
        /\ closeConnLocked(ref[p])
    BY <1>4 DEF MarkUnhealthy, Owning
  <2>2. QED
    BY Zenon, <2>1, CloseOwned
<1>5. QED
  BY <1>1, <1>2, <1>3, <1>4 DEF PutStep

\* A Put of a connection the pool did not make keeps every wrapper in one
\* place.
LEMMA ForeignPlaced ==
  ASSUME Slicing, TypeOK, RefOK, Placed, releaserPc # "done", PutForeign
  PROVE  Placed'
<1>1. StockPlaced /\ OwnersPlaced /\ \A v \in Wrappers : free[v] <= 1
  BY DEF Placed
<1>2. UNCHANGED <<pc, ref, toClose, releaserPc>>
  BY DEF PutForeign, callerVars
<1>3. idle \in Seq(Wrappers) /\ Range(idle) \subseteq Wrappers
      /\ Range(toClose) \subseteq Wrappers /\ free \in [Wrappers -> Nat]
  BY DEF TypeOK, Range
<1>4. \A q \in Callers : Owning(q)' => Owning(q) /\ ref'[q] = ref[q]
                                       /\ ref[q] \in Wrappers
  BY <1>2 DEF Owning, RefOK
<1>5. CASE Len(idle) < MaxIdleCnt
  <2>1. PICK w \in Wrappers, c \in Conns :
          wrapConn(w, c) /\ idle' = Append(idle, w)
    BY Zenon, <1>5 DEF PutForeign
  <2>2. /\ w \notin Range(idle) \cup Range(toClose)
        /\ \A q \in Callers : Owning(q) => ref[q] # w
        /\ free'[w] = 0
        /\ \A v \in Wrappers : v # w => free'[v] = free[v]
    BY <2>1, WrapFresh
  <2>a. idle \in Seq(Wrappers) /\ IsInjective(idle) /\ w \notin Range(idle)
    BY <1>1, <1>3, <2>2 DEF StockPlaced
  <2>3. Range(idle') = Range(idle) \cup {w} /\ IsInjective(idle')
    BY Zenon, <2>1, <2>a, AddLast
  <2>4. StockPlaced'
    BY <1>1, <1>2, <1>3, <2>2, <2>3 DEF StockPlaced
  <2>5. OwnersPlaced'
    BY Zenon, <1>1, <1>2, <1>4, <2>2, <2>3 DEF OwnersPlaced
  <2>6. \A v \in Wrappers : free'[v] <= 1
    BY <1>1, <2>2
  <2>7. QED
    BY <2>4, <2>5, <2>6 DEF Placed
<1>6. CASE ~(Len(idle) < MaxIdleCnt)
  <2>1. PICK w \in Wrappers :
          Obtainable(w) /\ free' = [free EXCEPT ![w] = IF @ > 0 THEN @ ELSE 1]
    BY <1>6 DEF PutForeign
  <2>2. UNCHANGED idle
    BY Zenon, <1>6 DEF PutForeign
  <2>3. /\ w \notin Range(idle) \cup Range(toClose)
        /\ \A q \in Callers : Owning(q) => ref[q] # w
    BY SMTT(30), <1>1, <2>1 DEF Obtainable, Referenced, StockPlaced, OwnersPlaced
  <2>4. /\ free'[w] <= 1
        /\ \A v \in Wrappers : v # w => free'[v] = free[v]
    BY <1>1, <1>3, <2>1
  <2>5. StockPlaced'
    BY SMTT(30), <1>1, <1>2, <1>3, <2>2, <2>3, <2>4 DEF StockPlaced
  <2>6. OwnersPlaced'
    BY Zenon, <1>1, <1>2, <1>4, <2>2, <2>3, <2>4 DEF OwnersPlaced
  <2>7. \A v \in Wrappers : free'[v] <= 1
    BY <1>1, <2>4
  <2>8. QED
    BY <2>5, <2>6, <2>7 DEF Placed
<1>7. QED
  BY <1>5, <1>6

\* The steps of backgroundCleanup keep every wrapper in one place.
LEMMA CleanPlaced ==
  ASSUME Slicing, TypeOK, RefOK, Placed, releaserPc # "done", CleanStep
  PROVE  Placed'
<1> USE DEF connVars, lockVars, callerVars
<1>1. StockPlaced /\ OwnersPlaced /\ \A v \in Wrappers : free[v] <= 1
  BY DEF Placed
<1>2. idle \in Seq(Wrappers) /\ toClose \in Seq(Wrappers)
  BY DEF TypeOK
<1>3. CASE CleanTake
  <2>1. PICK i \in DOMAIN idle : /\ toClose' = Append(toClose, idle[i])
                                 /\ idle' = RemoveAt(idle, i)
    BY <1>3 DEF CleanTake
  <2>2. UNCHANGED <<pc, ref, releaserPc, free>>
    BY SMTT(30), <1>3 DEF CleanTake
  <2>a. idle[i] \in Range(idle)
    BY ZenonT(30) DEF Range
  <2>3. /\ idle[i] \in Wrappers /\ idle[i] \notin Range(idle') /\ IsInjective(idle')
        /\ Range(idle') \subseteq Range(idle)
    <3>1. IsInjective(idle)
      BY Zenon, <1>1 DEF StockPlaced
    <3>2. QED
      BY Zenon, <1>2, <2>1, <3>1, CutAt
  <2>b. IsInjective(toClose) /\ idle[i] \notin Range(toClose)
    BY Zenon, <1>1, <2>a DEF StockPlaced
  <2>4. /\ Range(toClose') = Range(toClose) \cup {idle[i]}
        /\ IsInjective(toClose')
    BY Zenon, <1>2, <2>1, <2>3, <2>b, AddLast
  <2>5. StockPlaced'
    <3>1. \A v \in Range(idle) \cup Range(toClose) : free[v] = 0
      BY Zenon, <1>1 DEF StockPlaced
    <3>2. Range(idle) \cap Range(toClose) = {}
      BY Zenon, <1>1 DEF StockPlaced
    <3>3. Range(idle') \cap Range(toClose') = {}
      BY Zenon, <2>3, <2>4, <3>2
    <3>4. \A v \in Range(idle') \cup Range(toClose') : free[v] = 0
      BY <2>3, <2>4, <2>a, <3>1
    <3>5. QED
      BY Zenon, <2>2, <2>3, <2>4, <3>3, <3>4 DEF StockPlaced
  <2>6. OwnersPlaced'
    BY Zenon, <1>1, <2>2, <2>a, <2>3, <2>4 DEF OwnersPlaced, Owning
  <2>7. QED
    BY <1>1, <2>2, <2>5, <2>6 DEF Placed
<1>4. CASE CleanUnlock
  BY Zenon, <1>4, PlaceUnchanged DEF CleanUnlock, Owning
<1>5. CASE CleanClose
  <2>1. /\ Last(toClose) \in Wrappers /\ Last(toClose) \in Range(toClose)
        /\ Last(toClose) \notin Range(Front(toClose))
        /\ IsInjective(Front(toClose))
        /\ Range(Front(toClose)) \subseteq Range(toClose)
    <3>1. toClose # <<>> /\ IsInjective(toClose)
      BY Zenon, <1>5, <1>1 DEF CleanClose, StockPlaced
    <3>2. QED
      BY Zenon, <1>2, <3>1, CutLast
  <2>2. Last(toClose) \notin Range(idle) /\ IsInjective(idle)
    BY <1>1, <2>1 DEF StockPlaced
  <2>3. /\ closeConnLocked(Last(toClose)) /\ toClose' = Front(toClose)
        /\ UNCHANGED <<pc, ref, releaserPc, idle>>
    BY <1>5 DEF CleanClose
  <2>4. QED
    BY SMTT(30), <2>1, <2>2, <2>3, CloseStock
<1>6. CASE CleanBroadcast
  BY <1>6, PlaceUnchanged DEF CleanBroadcast, Owning
<1>7. CASE CleanStop
  BY <1>7, PlaceUnchanged DEF CleanStop, Owning
<1>8. QED
  BY <1>3, <1>4, <1>5, <1>6, <1>7 DEF CleanStep

\* Only Release moves on in Release.
LEMMA ReleaserStep ==
  ASSUME [Next]_vars
  PROVE  releaserPc' = releaserPc \/ ReleaseBegin \/ ReleaseStep
<1>1. ASSUME NEW p \in Callers, GetBegin(p) \/ Cancel(p) \/ AfterFunc(p)
      PROVE  releaserPc' = releaserPc
  BY <1>1 DEF GetBegin, Cancel, AfterFunc
<1>2. ASSUME NEW p \in Callers, GetStep(p) PROVE releaserPc' = releaserPc
  BY Zenon, <1>2 DEF GetStep, PopExpired, PopIdle, PingGetDone, Reserve, DialOk,
     DialFail, DialFailBroadcast, DialRegister, DialClose, Park, Sleep, Wake
<1>3. ASSUME NEW p \in Callers, PutStep(p) PROVE releaserPc' = releaserPc
  BY Zenon, <1>3 DEF PutStep, GiveBack, PutConn, PingPutDone, MarkUnhealthy
<1>4. ASSUME PutForeign \/ CleanTick \/ CleanStep \/ UNCHANGED vars
      PROVE  releaserPc' = releaserPc
  BY ZenonT(30), <1>4 DEF PutForeign, CleanTick, CleanStep, CleanTake, CleanUnlock,
     CleanClose, CleanBroadcast, CleanStop, vars, poolVars
<1>5. QED
  BY Zenon, <1>1, <1>2, <1>3, <1>4 DEF Next, PoolStep

\* A pool that Release is done with stays so, and it is Release's last step that is
\* done with it.
LEMMA DoneStays ==
  ASSUME [Next]_vars
  PROVE  /\ releaserPc = "done" => releaserPc' = "done"
         /\ releaserPc # "done" /\ releaserPc' = "done" => ReleaseCloseAll
BY ZenonT(30), ReleaserStep DEF ReleaseBegin, ReleaseStep, ReleaseBroadcast,
   ReleaseCloseAll

\* Every step keeps every wrapper in one place.
LEMMA PlacedStep ==
  ASSUME Slicing, TypeOK, RefOK, NoHandle, LockInv, Placed, [Next]_vars
  PROVE  Placed'
<1>1. CASE releaserPc = "done"
  BY <1>1, DoneStays DEF Placed
<1>2. CASE releaserPc # "done"
  <2>1. ASSUME NEW p \in Callers, Cancel(p) \/ AfterFunc(p) PROVE Placed'
    BY <2>1, PlaceUnchanged DEF Cancel, AfterFunc, Owning, connVars
  <2>2. CASE CleanTick
    BY <2>2, PlaceUnchanged DEF CleanTick, Owning, connVars, callerVars
  <2>3. CASE ReleaseStep
    <3>1. CASE ReleaseCloseAll
      BY Zenon, <3>1 DEF ReleaseCloseAll, Placed
    <3>2. CASE ReleaseBroadcast
      <4>1. UNCHANGED <<idle, toClose, free, pc, ref>>
        BY <3>2 DEF ReleaseBroadcast, connVars, callerVars
      <4>2. QED
        BY <1>2, <4>1, StillPlaced
    <3>3. QED
      BY <2>3, <3>1, <3>2 DEF ReleaseStep
  <2>4. CASE ReleaseBegin
    <3>1. UNCHANGED <<idle, toClose, free, pc, ref>>
      BY <2>4 DEF ReleaseBegin, connVars, callerVars
    <3>2. QED
      BY <1>2, <3>1, StillPlaced
  <2>5. CASE UNCHANGED vars
    BY <2>5, PlaceUnchanged DEF vars, poolVars, Owning, connVars, callerVars
  <2>6. QED
    BY Zenon, <1>2, <2>1, <2>2, <2>3, <2>4, <2>5, GetPlaced, PutPlaced,
       ForeignPlaced, CleanPlaced DEF Next, PoolStep
<1>3. QED
  BY <1>1, <1>2

\* A wrapper in one place has one owner.
LEMMA PlacedExclusive ==
  ASSUME TypeOK, RefOK, Placed
  PROVE  Exclusive
BY Zenon DEF Placed, StockPlaced, OwnersPlaced, Exclusive, InService, RefOK

-----------------------------------------------------------------------------
(* The critical sections.  Who is inside one holds the mutex, and Get only *)
(* stays inside one while the pool is not closed.                          *)

\* Every step keeps the mutex and the program counters in agreement.
LEMMA LockStep ==
  ASSUME TypeOK, LockInv, [Next]_vars
  PROVE  LockInv'
<1>c. Cleaner \notin Callers /\ NoProc \notin Callers \cup {Cleaner}
  BY Zenon, ConstantsAssumption
<1> USE <1>c DEF LockInv, Goto, Leave, Return, lockVars, callerVars
<1>0. pc \in [Callers -> {"out", "locked", "pingGet", "dial", "dialed",
                          "dialFailed", "dialClose", "parking", "wait", "hold",
                          "putting", "pingPut", "marking"}]
  BY DEF TypeOK
<1>1. ASSUME NEW p \in Callers, GetBegin(p) PROVE LockInv'
  BY <1>0, <1>1 DEF GetBegin
<1>2. ASSUME NEW p \in Callers, GetStep(p) PROVE LockInv'
  <2>1. CASE PopExpired(p)
    BY Zenon, <2>1 DEF PopExpired
  <2>2. CASE PopIdle(p)
    BY Zenon, <1>0, <2>2 DEF PopIdle
  <2>3. CASE PingGetDone(p)
    BY Zenon, <1>0, <2>3 DEF PingGetDone
  <2>4. CASE Reserve(p)
    BY Zenon, <1>0, <2>4 DEF Reserve
  <2>5. CASE DialOk(p)
    BY Zenon, <1>0, <2>5 DEF DialOk
  <2>6. CASE DialFail(p)
    BY Zenon, <1>0, <2>6 DEF DialFail
  <2>7. CASE DialFailBroadcast(p)
    BY <1>0, <2>7 DEF DialFailBroadcast
  <2>8. CASE DialRegister(p)
    BY Zenon, <1>0, <2>8 DEF DialRegister
  <2>9. CASE DialClose(p)
    BY <1>0, <2>9 DEF DialClose
  <2>10. CASE Park(p)
    BY Zenon, <1>0, <2>10 DEF Park
  <2>11. CASE Sleep(p)
    BY <1>0, <2>11 DEF Sleep
  <2>12. CASE Wake(p)
    BY Zenon, <1>0, <2>12 DEF Wake
  <2>13. QED
    BY ZenonT(30), <1>2, <2>1, <2>2, <2>3, <2>4, <2>5, <2>6, <2>7, <2>8, <2>9, <2>10,
       <2>11, <2>12 DEF GetStep
<1>3. ASSUME NEW p \in Callers, PutStep(p) PROVE LockInv'
  <2>1. CASE GiveBack(p)
    BY Zenon, <1>0, <2>1 DEF GiveBack
  <2>2. CASE PutConn(p)
    BY <1>0, <2>2 DEF PutConn
  <2>3. CASE PingPutDone(p)
    BY <1>0, <2>3 DEF PingPutDone
  <2>4. CASE MarkUnhealthy(p)
    BY Zenon, <1>0, <2>4 DEF MarkUnhealthy
  <2>5. QED
    BY Zenon, <1>3, <2>1, <2>2, <2>3, <2>4 DEF PutStep
<1>4. ASSUME NEW p \in Callers, Cancel(p) \/ AfterFunc(p) PROVE LockInv'
  BY <1>4 DEF Cancel, AfterFunc
<1>5. CASE CleanTick
  BY Zenon, <1>5 DEF CleanTick
<1>6. CASE CleanStep
  <2>1. CASE CleanTake
    BY Zenon, <2>1 DEF CleanTake
  <2>2. CASE CleanUnlock
    BY Zenon, <2>2 DEF CleanUnlock
  <2>3. CASE CleanClose \/ CleanBroadcast \/ CleanStop
    BY <2>3 DEF CleanClose, CleanBroadcast, CleanStop
  <2>4. QED
    BY <1>6, <2>1, <2>2, <2>3 DEF CleanStep
<1>7. CASE ReleaseBegin
  BY Zenon, <1>0, <1>7 DEF ReleaseBegin
<1>8. CASE ReleaseStep
  BY <1>8 DEF ReleaseStep, ReleaseBroadcast, ReleaseCloseAll
<1>9. CASE PutForeign \/ UNCHANGED vars
  BY <1>9 DEF PutForeign, vars, poolVars
<1>10. QED
  BY Zenon, <1>1, <1>2, <1>3, <1>4, <1>5, <1>6, <1>7, <1>8, <1>9 DEF Next, PoolStep

\* Get enters a connection into activeConns only while the pool is open; the
\* other steps never do.
LEMMA EntryStep ==
  ASSUME LockInv, Next, closed
  PROVE  active' \subseteq active
<1>1. \A p \in Callers : pc[p] # "locked"
  BY DEF LockInv
<1>2. ASSUME NEW p \in Callers, GetStep(p) PROVE active' \subseteq active
  <2>1. CASE PopExpired(p) \/ PopIdle(p) \/ Reserve(p) \/ Park(p)
    BY Zenon, <1>1, <2>1 DEF PopExpired, PopIdle, Reserve, Park
  <2>2. CASE PingGetDone(p) \/ DialRegister(p)
    BY Zenon, <2>2 DEF PingGetDone, DialRegister
  <2>3. CASE DialOk(p) \/ DialFail(p) \/ DialFailBroadcast(p) \/ DialClose(p)
    BY Zenon, <2>3 DEF DialOk, DialFail, DialFailBroadcast, DialClose
  <2>4. CASE Sleep(p) \/ Wake(p)
    BY Zenon, <2>4 DEF Sleep, Wake
  <2>5. QED
    BY <1>2, <2>1, <2>2, <2>3, <2>4 DEF GetStep
<1>3. ASSUME NEW p \in Callers, PutStep(p) PROVE active' \subseteq active
  BY Zenon, <1>3 DEF PutStep, GiveBack, PutConn, PingPutDone, MarkUnhealthy
<1>4. ASSUME NEW p \in Callers, GetBegin(p) \/ Cancel(p) \/ AfterFunc(p)
      PROVE  active' \subseteq active
  BY Zenon, <1>4 DEF GetBegin, Cancel, AfterFunc
<1>5. CASE PutForeign \/ CleanTick
  BY <1>5 DEF PutForeign, CleanTick
<1>6. CASE CleanStep
  BY Zenon, <1>6 DEF CleanStep, CleanTake, CleanUnlock,
       CleanClose, CleanBroadcast,
     CleanStop
<1>7. CASE ReleaseBegin \/ ReleaseStep
  BY Zenon, <1>7 DEF ReleaseBegin, ReleaseStep, ReleaseBroadcast, ReleaseCloseAll
<1>8. QED
  BY <1>2, <1>3, <1>4, <1>5, <1>6, <1>7 DEF Next, PoolStep

-----------------------------------------------------------------------------
(* The capacity.                                                           *)

\* Only Get's reservation, which tests the capacity first, raises the counter.
LEMMA CounterStep ==
  ASSUME TypeOK, connCnt <= MaxConnCap, "foreign" \notin env, [Next]_vars
  PROVE  connCnt' <= MaxConnCap
<1> USE DEF connVars
<1>0. connCnt \in Int /\ MaxConnCap \in Nat
  BY ConstantsAssumption DEF TypeOK
<1>a. ASSUME connCnt' = connCnt \/ connCnt' = connCnt - 1 PROVE connCnt' <= MaxConnCap
  BY SMTT(30), <1>0, <1>a
<1>1. ASSUME NEW p \in Callers, GetBegin(p) \/ Cancel(p) \/ AfterFunc(p)
      PROVE  connCnt' = connCnt
  BY <1>1 DEF GetBegin, Cancel, AfterFunc
<1>2. ASSUME NEW p \in Callers, GetStep(p), ~Reserve(p)
      PROVE  connCnt' = connCnt \/ connCnt' = connCnt - 1
  BY ZenonT(30), <1>2 DEF GetStep, PopExpired, PopIdle, PingGetDone, DialOk, DialFail,
     DialFailBroadcast, DialRegister, DialClose, Park, Sleep, Wake, closeConnLocked
<1>3. ASSUME NEW p \in Callers, Reserve(p) PROVE connCnt' <= MaxConnCap
  <2>1. connCnt < MaxConnCap /\ connCnt' = connCnt + 1
    BY Zenon, <1>3 DEF Reserve
  <2>2. QED
    BY <1>0, <2>1
<1>4. ASSUME NEW p \in Callers, PutStep(p)
      PROVE  connCnt' = connCnt \/ connCnt' = connCnt - 1
  BY Zenon, <1>4 DEF PutStep, GiveBack, PutConn, PingPutDone, MarkUnhealthy, KeepOrClose,
     closeConnLocked
<1>5. CASE CleanTick \/ CleanStep \/ ReleaseBegin \/ ReleaseBroadcast \/ UNCHANGED vars
  BY ZenonT(30), <1>5, <1>a DEF CleanTick, CleanStep, CleanTake, CleanUnlock,
       CleanClose, CleanBroadcast,
     CleanStop, ReleaseBegin, ReleaseBroadcast, closeConnLocked, vars, poolVars
<1>6. CASE ReleaseCloseAll
  <2>1. connCnt' = 0
    BY Zenon, <1>6 DEF ReleaseCloseAll
  <2>2. QED
    BY <1>0, <2>1
<1>7. CASE PutForeign
  BY <1>7 DEF PutForeign
<1>8. QED
  BY Zenon, <1>a, <1>1, <1>2, <1>3, <1>4, <1>5, <1>6, <1>7 DEF Next, PoolStep, ReleaseStep

\* In a closed pool nobody reserves: open connections and dials in flight only
\* become fewer, or a dial becomes a connection.
LEMMA ClosedShrinks ==
  ASSUME TypeOK, LockInv, closed, [Next]_vars
  PROVE  \/ open' \subseteq open /\ Dialling' \subseteq Dialling
         \/ \E p \in Dialling, c \in Conns \ open :
              open' = open \cup {c} /\ Dialling' = Dialling \ {p}
<1> USE DEF Goto, Leave, Return, connVars, lockVars, callerVars
<1>0. \A p \in Callers : pc[p] \notin {"locked", "parking"}
  BY DEF LockInv
<1>a. ASSUME NEW p \in Callers, NEW l, l # "dial", pc' = [pc EXCEPT ![p] = l],
             open' \subseteq open
      PROVE  open' \subseteq open /\ Dialling' \subseteq Dialling
  BY <1>a DEF Dialling, TypeOK
<1>b. ASSUME pc' = pc, open' \subseteq open
      PROVE  open' \subseteq open /\ Dialling' \subseteq Dialling
  BY <1>b DEF Dialling
<1>1. ASSUME NEW p \in Callers, GetBegin(p) \/ Cancel(p) \/ AfterFunc(p)
      PROVE  open' \subseteq open /\ Dialling' \subseteq Dialling
  BY ZenonT(30), <1>1, <1>b DEF GetBegin, Cancel, AfterFunc
<1>2. ASSUME NEW p \in Callers, GetStep(p), ~DialOk(p)
      PROVE  open' \subseteq open /\ Dialling' \subseteq Dialling
  <2>1. CASE PopExpired(p) \/ PopIdle(p) \/ Reserve(p) \/ Park(p) \/ Sleep(p)
    BY Zenon, <1>0, <2>1 DEF PopExpired, PopIdle, Reserve, Park, Sleep
  <2>2. CASE PingGetDone(p) \/ DialClose(p) \/ DialFail(p) \/ DialFailBroadcast(p)
             \/ Wake(p) \/ DialRegister(p)
    <3>1. /\ \E l \in {"out", "dialFailed", "dialClose"} : pc' = [pc EXCEPT ![p] = l]
          /\ open' = open \/ open' = open \ {conn[ref[p]]}
      BY ZenonT(30), <2>2 DEF PingGetDone, DialClose, DialFail, DialFailBroadcast, Wake,
         DialRegister, closeConnLocked
    <3>2. QED
      BY ZenonT(30), <1>a, <3>1
  <2>3. QED
    BY <1>2, <2>1, <2>2 DEF GetStep
<1>3. ASSUME NEW p \in Callers, DialOk(p)
      PROVE  \E q \in Dialling, c \in Conns \ open :
               open' = open \cup {c} /\ Dialling' = Dialling \ {q}
  <2>1. PICK w \in Wrappers, c \in Conns : wrapConn(w, c)
    BY Zenon, <1>3 DEF DialOk
  <2>2. c \notin open /\ open' = open \cup {c}
    BY Zenon, <2>1 DEF wrapConn
  <2>3. p \in Dialling /\ Dialling' = Dialling \ {p}
    BY SMTT(30), <1>3 DEF DialOk, Dialling, TypeOK
  <2>4. QED
    BY <2>2, <2>3
<1>4. ASSUME NEW p \in Callers, PutStep(p)
      PROVE  open' \subseteq open /\ Dialling' \subseteq Dialling
  <2>1. /\ \E l \in {"out", "putting", "marking"} : pc' = [pc EXCEPT ![p] = l]
        /\ open' = open \/ open' = open \ {conn[ref[p]]}
    BY ZenonT(30), <1>4 DEF PutStep, GiveBack, PutConn, PingPutDone, MarkUnhealthy,
       KeepOrClose, closeConnLocked
  <2>2. QED
    BY ZenonT(30), <1>a, <2>1
<1>5. CASE CleanTick \/ CleanStep \/ ReleaseBegin \/ ReleaseStep \/ UNCHANGED vars
  <2>1. pc' = pc
    BY ZenonT(30), <1>5 DEF CleanTick, CleanStep, CleanTake, CleanUnlock,
       CleanClose, CleanBroadcast,
       CleanStop, ReleaseBegin, ReleaseStep, ReleaseBroadcast, ReleaseCloseAll,
       vars, poolVars
  <2>2. open' \subseteq open
    BY ZenonT(30), <1>5 DEF CleanTick, CleanStep, CleanTake, CleanUnlock,
       CleanClose, CleanBroadcast,
       CleanStop, ReleaseBegin, ReleaseStep, ReleaseBroadcast, ReleaseCloseAll,
       vars, poolVars, closeConnLocked
  <2>3. QED
    BY <1>b, <2>1, <2>2
<1>6. CASE PutForeign
  BY <1>6 DEF PutForeign
<1>7. QED
  BY <1>1, <1>2, <1>3, <1>4, <1>5, <1>6 DEF Next, PoolStep

\* Every step respects the capacity: while the pool is in service the books say
\* that connCnt counts the connections, and Release only takes away.
LEMMA CapStep ==
  ASSUME Counting, TypeOK, LockInv, Capped, "foreign" \notin env, [Next]_vars,
         connCnt' \in Int, closed \/ Books'
  PROVE  Capped'
<1>1. connCnt' <= MaxConnCap
  BY CounterStep DEF Capped
<1>2. CASE Books'
  <2>1. Sums'
    BY <1>2 DEF Books
  <2>2. /\ IsFiniteSet(open') /\ IsFiniteSet(Dialling')
        /\ connCnt' = Cardinality(open') + Cardinality(Dialling')
    BY <2>1 DEF Sums
  <2>3. QED
    BY <1>1, <2>2 DEF Capped
<1>3. CASE closed
  <2>0. /\ IsFiniteSet(open) /\ IsFiniteSet(Dialling)
        /\ Cardinality(open) + Cardinality(Dialling) <= MaxConnCap
        /\ MaxConnCap \in Nat
    BY Zenon, ConstantsAssumption DEF Capped
  <2>a. PICK a \in Nat : a = Cardinality(open)
    BY Zenon, <2>0 DEF Counting
  <2>b. PICK b \in Nat : b = Cardinality(Dialling)
    BY Zenon, <2>0 DEF Counting
  <2>1. CASE open' \subseteq open /\ Dialling' \subseteq Dialling
    <3>1. /\ IsFiniteSet(open') /\ Cardinality(open') \in Nat
          /\ Cardinality(open') <= a
      BY Zenon, <2>0, <2>1, <2>a DEF Counting
    <3>2. /\ IsFiniteSet(Dialling') /\ Cardinality(Dialling') \in Nat
          /\ Cardinality(Dialling') <= b
      BY Zenon, <2>0, <2>1, <2>b DEF Counting
    <3>3. Cardinality(open') + Cardinality(Dialling') <= MaxConnCap
      BY <2>0, <2>a, <2>b, <3>1, <3>2
    <3>4. QED
      BY Zenon, <1>1, <3>1, <3>2, <3>3 DEF Capped
  <2>2. CASE \E p \in Dialling, c \in Conns \ open :
               open' = open \cup {c} /\ Dialling' = Dialling \ {p}
    <3>1. PICK p \in Dialling, c \in Conns \ open :
            open' = open \cup {c} /\ Dialling' = Dialling \ {p}
      BY Zenon, <2>2
    <3>2. IsFiniteSet(open') /\ Cardinality(open') = a + 1
      BY Zenon, <2>0, <2>a, <3>1 DEF Counting
    <3>3. IsFiniteSet(Dialling') /\ Cardinality(Dialling') = b - 1
      BY Zenon, <2>0, <2>b, <3>1 DEF Counting
    <3>4. Cardinality(open') + Cardinality(Dialling') <= MaxConnCap
      BY <2>0, <2>a, <2>b, <3>2, <3>3
    <3>5. QED
      BY Zenon, <1>1, <3>2, <3>3, <3>4 DEF Capped
  <2>3. QED
    BY <1>3, <2>1, <2>2, ClosedShrinks
<1>4. QED
  BY <1>2, <1>3

-----------------------------------------------------------------------------
(* Sequences.                                                              *)

\* Dropping the last element of a sequence.
LEMMA FrontFacts ==
  ASSUME NEW S, NEW s \in Seq(S), s # <<>>
  PROVE  /\ Front(s) \in Seq(S)
         /\ Len(Front(s)) = Len(s) - 1
         /\ Last(s) \in Range(s) /\ Last(s) \in S
         /\ Range(Front(s)) \subseteq Range(s)
         /\ Range(s) = Range(Front(s)) \cup {Last(s)}
         /\ IsInjective(s) => /\ IsInjective(Front(s))
                              /\ Last(s) \notin Range(Front(s))
<1>1. Len(s) \in Nat /\ Len(s) >= 1 /\ DOMAIN s = 1..Len(s)
  OBVIOUS
<1>2. /\ Front(s) \in Seq(S)
      /\ Len(Front(s)) = Len(s) - 1
      /\ DOMAIN Front(s) = 1..(Len(s) - 1)
      /\ \A i \in 1..(Len(s) - 1) : Front(s)[i] = s[i]
  BY <1>1 DEF Front
<1>3. /\ Last(s) \in Range(s) /\ Last(s) \in S
      /\ Range(Front(s)) \subseteq Range(s)
      /\ IsInjective(s) => /\ IsInjective(Front(s))
                           /\ Last(s) \notin Range(Front(s))
  BY <1>1, <1>2 DEF Last, Range, IsInjective
<1>4. ASSUME NEW x \in Range(s), x # Last(s) PROVE x \in Range(Front(s))
  <2>1. PICK i \in 1..Len(s) : x = s[i]
    BY <1>1 DEF Range
  <2>2. i \in 1..(Len(s) - 1)
    BY <1>1, <1>4, <2>1 DEF Last
  <2>3. QED
    BY Zenon, <1>2, <2>1, <2>2 DEF Range
<1>5. QED
  BY <1>2, <1>3, <1>4

\* One sequence after another.
LEMMA ConcatFacts ==
  ASSUME NEW S, NEW a \in Seq(S), NEW b \in Seq(S)
  PROVE  /\ a \o b \in Seq(S) /\ Len(a \o b) = Len(a) + Len(b)
         /\ \A j \in 1..(Len(a) + Len(b)) :
              (a \o b)[j] = IF j <= Len(a) THEN a[j] ELSE b[j - Len(a)]
<1>1. a \o b \in Seq(S) /\ Len(a \o b) = Len(a) + Len(b)
  OBVIOUS
<1>2. \A j \in 1..(Len(a) + Len(b)) :
        (a \o b)[j] = IF j <= Len(a) THEN a[j] ELSE b[j - Len(a)]
  OBVIOUS
<1>3. QED
  BY <1>1, <1>2

\* Taking one element out of a sequence.
LEMMA RemoveAtFacts ==
  ASSUME NEW S, NEW s \in Seq(S), NEW i \in DOMAIN s
  PROVE  /\ RemoveAt(s, i) \in Seq(S)
         /\ Len(RemoveAt(s, i)) = Len(s) - 1
         /\ s[i] \in S
         /\ Range(RemoveAt(s, i)) \subseteq Range(s)
         /\ Range(s) = Range(RemoveAt(s, i)) \cup {s[i]}
         /\ IsInjective(s) => /\ IsInjective(RemoveAt(s, i))
                              /\ s[i] \notin Range(RemoveAt(s, i))
<1>1. Len(s) \in Nat /\ DOMAIN s = 1..Len(s) /\ i \in 1..Len(s)
  OBVIOUS
<1> DEFINE a == SubSeq(s, 1, i - 1)
           b == SubSeq(s, i + 1, Len(s))
           r == RemoveAt(s, i)
<1>2. /\ a \in Seq(S) /\ Len(a) = i - 1
      /\ \A j \in 1..(i - 1) : a[j] = s[j]
  BY <1>1
<1>3. /\ b \in Seq(S) /\ Len(b) = Len(s) - i
      /\ \A j \in 1..(Len(s) - i) : b[j] = s[i + j]
  BY SMTT(30), <1>1
<1>4. r = a \o b
  BY DEF RemoveAt
<1>5. /\ r \in Seq(S) /\ Len(r) = Len(s) - 1
      /\ \A j \in 1..(Len(s) - 1) : r[j] = IF j < i THEN s[j] ELSE s[j + 1]
  <2> HIDE DEF a, b, r
  <2>1. /\ a \o b \in Seq(S) /\ Len(a \o b) = Len(a) + Len(b)
        /\ \A j \in 1..(Len(a) + Len(b)) :
             (a \o b)[j] = IF j <= Len(a) THEN a[j] ELSE b[j - Len(a)]
    BY ZenonT(30), <1>2, <1>3, ConcatFacts
  <2>2. ASSUME NEW j \in 1..(Len(s) - 1)
        PROVE  r[j] = IF j < i THEN s[j] ELSE s[j + 1]
    <3>1. CASE j < i
      BY <1>1, <1>2, <1>3, <1>4, <2>1, <3>1
    <3>2. CASE j >= i
      <4>0. j \in 1..(Len(a) + Len(b)) /\ ~(j <= Len(a))
        BY <1>1, <1>2, <1>3, <3>2
      <4>1. r[j] = b[j - Len(a)]
        BY <1>4, <2>1, <4>0
      <4>2. j - Len(a) \in 1..(Len(s) - i) /\ i + (j - Len(a)) = j + 1
        BY <1>1, <1>2, <3>2
      <4>3. QED
        BY <1>1, <1>3, <3>2, <4>1, <4>2
    <3>3. QED
      BY <1>1, <3>1, <3>2
  <2>3. QED
    BY SMTT(30), <1>1, <1>2, <1>3, <1>4, <2>1, <2>2
<1>6. QED
  <2> HIDE DEF r
  <2>1. r = RemoveAt(s, i)
    BY DEF r
  <2>2. s[i] \in S
    BY <1>1
  <2>3. DOMAIN r = 1..(Len(s) - 1)
    BY <1>1, <1>5
  <2>4. Range(r) \subseteq Range(s)
    BY <1>1, <1>5, <2>3 DEF Range
  <2>5. ASSUME IsInjective(s)
        PROVE  IsInjective(r) /\ s[i] \notin Range(r)
    <3>1. \A x, y \in 1..Len(s) : s[x] = s[y] => x = y
      BY Zenon, <1>1, <2>5 DEF IsInjective
    <3>2. \A j \in 1..(Len(s) - 1) : r[j] # s[i]
      BY <1>1, <1>5, <3>1
    <3>3. \A j, k \in 1..(Len(s) - 1) : r[j] = r[k] => j = k
      BY <1>1, <1>5, <3>1
    <3>4. QED
      BY Zenon, <2>3, <3>2, <3>3 DEF Range, IsInjective
  <2>6. ASSUME NEW x \in Range(s), x # s[i] PROVE x \in Range(r)
    <3>1. PICK j \in 1..Len(s) : x = s[j]
      BY <1>1 DEF Range
    <3>2. CASE j < i
      <4>1. j \in 1..(Len(s) - 1) /\ r[j] = x
        BY <1>1, <1>5, <3>1, <3>2
      <4>2. QED
        BY Zenon, <2>3, <4>1 DEF Range
    <3>3. CASE j > i
      <4>1. j - 1 \in 1..(Len(s) - 1) /\ ~(j - 1 < i) /\ (j - 1) + 1 = j
        BY <1>1, <3>3
      <4>2. r[j - 1] = x
        BY <1>5, <3>1, <4>1
      <4>3. QED
        BY <2>3, <4>1, <4>2 DEF Range
    <3>4. QED
      BY <1>1, <2>6, <3>1, <3>2, <3>3
  <2>7. s[i] \in Range(s)
    BY DEF Range
  <2>8. QED
    BY <1>5, <2>1, <2>2, <2>4, <2>5, <2>6, <2>7

\* Appending an element to a sequence.
LEMMA AppendFacts ==
  ASSUME NEW S, NEW s \in Seq(S), NEW e \in S
  PROVE  /\ Append(s, e) \in Seq(S)
         /\ Len(Append(s, e)) = Len(s) + 1
         /\ Range(Append(s, e)) = Range(s) \cup {e}
         /\ IsInjective(s) /\ e \notin Range(s) => IsInjective(Append(s, e))
<1> DEFINE t == Append(s, e)
<1>1. /\ Len(s) \in Nat /\ DOMAIN s = 1..Len(s)
      /\ t \in Seq(S) /\ Len(t) = Len(s) + 1 /\ DOMAIN t = 1..(Len(s) + 1)
      /\ \A i \in 1..Len(s) : t[i] = s[i]
      /\ t[Len(s) + 1] = e
  OBVIOUS
<1> HIDE DEF t
<1>2. Range(t) = Range(s) \cup {e}
  <2>1. Range(t) \subseteq Range(s) \cup {e}
    BY <1>1 DEF Range
  <2>2. Range(s) \subseteq Range(t)
    BY <1>1 DEF Range
  <2>3. e \in Range(t)
    BY <1>1 DEF Range
  <2>4. QED
    BY Zenon, <2>1, <2>2, <2>3
<1>3. IsInjective(s) /\ e \notin Range(s) => IsInjective(t)
  BY <1>1 DEF Range, IsInjective
<1>4. QED
  BY <1>1, <1>2, <1>3 DEF t
=============================================================================
