-------------------------- MODULE StreamPool_proofs --------------------------
(***************************************************************************)
(* Proofs about StreamPool: SlotsKept holds of every instance, whatever    *)
(* the number of callers and streams, the limit and the load threshold.    *)
(***************************************************************************)
EXTENDS StreamPool, FiniteSetTheorems, TLAPS

\* The callers whose dial is counted in dialing, and the Calls a stream carries.
Dialers  == {p \in Callers : pc[p] \in {"dial", "dialed"}}
Users(s) == {p \in Callers : pc[p] = "using" /\ ref[p] = s}

\* The counters are exact, and streams and dials share the maxOpen slots.
Counted ==
  /\ IsFiniteSet(Dialers) /\ dialing = Cardinality(Dialers)
  /\ \A s \in Streams : IsFiniteSet(Users(s)) /\ inflight[s] = Cardinality(Users(s))
  /\ IsFiniteSet(streams)
  /\ Cardinality(streams) + dialing <= MaxOpen

\* Somebody is in charge of closing s.
Kept(s) ==
  \/ s \in streams \cup toClose \cup closing
  \/ \E p \in Callers : pc[p] = "dialed" /\ ref[p] = s

\* Every live stream is in somebody's charge, and what Close and background
\* have left behind when they are at a given place.
Charged ==
  /\ \A s \in Streams : alive[s] => Kept(s)
  /\ closed <=> closePc # "none"
  /\ closed => streams = {}
  /\ closePc # "closing" => closing = {}
  /\ closePc = "done" => bgPc = "done"
  /\ bgPc \notin {"closing", "remove"} => toClose = {}
  /\ bgPc = "remove" => \A s \in toClose : ~alive[s]

IInv == TypeOK /\ Counted /\ Charged

-----------------------------------------------------------------------------
(* Lemmas on the operators.                                                *)

Labels == {"out", "pick", "parking", "wait", "dial", "dialed", "hold", "using"}

\* A caller that moves: its own place changes, nobody else's does.
LEMMA Moved ==
  ASSUME TypeOK, NEW p \in Callers, NEW l \in Labels, To(p, l)
  PROVE  /\ pc' \in [Callers -> Labels]
         /\ pc'[p] = l /\ \A q \in Callers : q # p => pc'[q] = pc[q]
BY DEF To, TypeOK, Labels

\* A caller that takes up or drops a stream.
LEMMA Referred ==
  ASSUME TypeOK, NEW p \in Callers, NEW s \in Streams \cup {NoStream},
         ref' = [ref EXCEPT ![p] = s]
  PROVE  /\ ref' \in [Callers -> Streams \cup {NoStream}]
         /\ ref'[p] = s /\ \A q \in Callers : q # p => ref'[q] = ref[q]
BY DEF TypeOK

\* A stream that is opened or closed.
LEMMA Switched ==
  ASSUME TypeOK, NEW s \in Streams, NEW b \in BOOLEAN, alive' = [alive EXCEPT ![s] = b]
  PROVE  /\ alive' \in [Streams -> BOOLEAN]
         /\ alive'[s] = b /\ \A t \in Streams : t # s => alive'[t] = alive[t]
<1>1. DOMAIN alive = Streams
  BY ZenonT(30) DEF TypeOK
<1>2. alive'[s] = b /\ \A t \in Streams : t # s => alive'[t] = alive[t]
  BY <1>1
<1>3. DOMAIN alive' = Streams /\ alive' = [t \in Streams |-> alive'[t]]
  BY ZenonT(30), <1>1
<1>4. \A t \in Streams : alive'[t] \in BOOLEAN
  BY ZenonT(30), <1>2 DEF TypeOK
<1>5. QED
  BY ZenonT(30), <1>2, <1>3, <1>4

\* Callers outside a Call that stay outside: the streams carry what they carried.
LEMMA SameUsers ==
  ASSUME NEW p \in Callers, pc[p] # "using", pc'[p] # "using",
         \A q \in Callers : q # p => pc'[q] = pc[q] /\ ref'[q] = ref[q]
  PROVE  \A s \in Streams : Users(s)' = Users(s)
BY DEF Users

\* Callers that neither begin nor end a dial.
LEMMA SameDialers ==
  ASSUME NEW p \in Callers,
         pc[p] \in {"dial", "dialed"} <=> pc'[p] \in {"dial", "dialed"},
         \A q \in Callers : q # p => pc'[q] = pc[q]
  PROVE  Dialers' = Dialers
BY DEF Dialers

\* Dropping streams: their number is known and no larger.
LEMMA Fewer ==
  ASSUME Counted, TypeOK, streams' \subseteq streams
  PROVE  /\ IsFiniteSet(streams') /\ Cardinality(streams') \in Nat
         /\ Cardinality(streams) \in Nat /\ Cardinality(streams') <= Cardinality(streams)
BY FS_Subset, FS_CardinalityType DEF Counted

\* The counters are untouched and streams only shrinks.
LEMMA CountedKept ==
  ASSUME Counted, TypeOK, Dialers' = Dialers, dialing' = dialing, inflight' = inflight,
         \A s \in Streams : Users(s)' = Users(s),
         streams' \subseteq streams
  PROVE  Counted'
<1>1. /\ IsFiniteSet(streams') /\ Cardinality(streams') \in Nat
      /\ Cardinality(streams) \in Nat /\ Cardinality(streams') <= Cardinality(streams)
  BY Fewer
<1>2. Cardinality(streams') + dialing' <= MaxOpen
  BY <1>1, PoolConstants DEF Counted, TypeOK
<1>3. IsFiniteSet(Dialers') /\ dialing' = Cardinality(Dialers')
  BY ZenonT(30) DEF Counted
<1>4. \A s \in Streams : IsFiniteSet(Users(s)') /\ inflight'[s] = Cardinality(Users(s)')
  BY ZenonT(30) DEF Counted
<1>5. QED
  BY ZenonT(30), <1>1, <1>2, <1>3, <1>4 DEF Counted

-----------------------------------------------------------------------------
(* Types and counters.                                                     *)

\* A counted caller makes its counter positive.
LEMMA Positive ==
  ASSUME Counted, TypeOK, NEW p \in Callers
  PROVE  /\ p \in Dialers => dialing \in Nat \ {0}
         /\ \A s \in Streams : p \in Users(s) => inflight[s] \in Nat \ {0}
<1>1. \A S : IsFiniteSet(S) /\ p \in S => Cardinality(S) \in Nat \ {0}
  BY FS_CardinalityType, FS_EmptySet
<1>2. QED
  BY <1>1 DEF Counted

\* One more or one less of a finite set.
LEMMA OneMore ==
  ASSUME NEW S, IsFiniteSet(S), NEW x, x \notin S
  PROVE  IsFiniteSet(S \cup {x}) /\ Cardinality(S \cup {x}) = Cardinality(S) + 1
BY FS_AddElement

\* Taking an element out of a finite set leaves one less.
LEMMA OneLess ==
  ASSUME NEW S, IsFiniteSet(S), NEW x \in S
  PROVE  IsFiniteSet(S \ {x}) /\ Cardinality(S \ {x}) = Cardinality(S) - 1
BY FS_RemoveElement

\* Get up to the dial, the waiting and the context keep types and counters.
LEMMA GetTypes ==
  ASSUME TypeOK, NEW p \in Callers,
         \/ GetBegin(p) \/ PickExisting(p) \/ Reserve(p) \/ Park(p) \/ Sleep(p)
         \/ Wake(p) \/ DialOk(p) \/ DialFail(p)
  PROVE  TypeOK'
<1> USE DEF bgVars, closeVars, callerVars
<1>l. \A l \in Labels : To(p, l) => pc' \in [Callers -> Labels]
  BY Moved
<1>s. \A s \in Streams : ref' = [ref EXCEPT ![p] = s] => ref' \in [Callers -> Streams \cup {NoStream}]
  BY ZenonT(30), Referred
<1>b. [cancelled EXCEPT ![p] = FALSE] \in [Callers -> BOOLEAN]
  BY ZenonT(30) DEF TypeOK
<1>c. Live(streams) \subseteq Streams
  BY ZenonT(30) DEF TypeOK, Live
<1>d. \A l \in {"out", "pick", "parking", "wait", "dial", "dialed", "hold"} : l \in Labels
  BY DEF Labels
<1>1. CASE GetBegin(p)
  <2>1. pc' \in [Callers -> Labels] /\ mu' \in Callers \cup {NoProc} /\ streams' \subseteq Streams
    BY ZenonT(30), <1>1, <1>l, <1>c, <1>d DEF GetBegin, compactLocked, TypeOK, Labels
  <2>2. QED
    BY ZenonT(30), <1>1, <1>b, <2>1 DEF GetBegin, TypeOK, Labels
<1>2. CASE PickExisting(p)
  <2>1. pc' \in [Callers -> Labels] /\ mu' = NoProc
    BY ZenonT(30), <1>2, <1>l, <1>d DEF PickExisting
  <2>2. ref' \in [Callers -> Streams \cup {NoStream}]
    BY ZenonT(30), <1>2, <1>s, <1>c DEF PickExisting, Best, Live, TypeOK
  <2>3. QED
    BY ZenonT(30), <1>2, <2>1, <2>2 DEF PickExisting, TypeOK, Labels
<1>3. CASE Reserve(p)
  <2>1. pc' \in [Callers -> Labels] /\ mu' = NoProc
    BY ZenonT(30), <1>3, <1>l, <1>d DEF Reserve
  <2>2. dialing' \in Nat
    BY <1>3 DEF Reserve, TypeOK
  <2>3. QED
    BY ZenonT(30), <1>3, <2>1, <2>2 DEF Reserve, TypeOK, Labels
<1>4. CASE Park(p)
  <2>1. pc' \in [Callers -> Labels] /\ mu' \in Callers \cup {NoProc}
    BY ZenonT(30), <1>4, <1>l, <1>d DEF Park, TypeOK
  <2>2. QED
    BY ZenonT(30), <1>4, <2>1 DEF Park, TypeOK, Labels
<1>5. CASE Sleep(p)
  <2>1. pc' \in [Callers -> Labels] /\ mu' = NoProc
    BY ZenonT(30), <1>5, <1>l, <1>d DEF Sleep
  <2>2. asleep' \subseteq Callers
    BY ZenonT(30), <1>5 DEF Sleep, TypeOK
  <2>3. QED
    BY ZenonT(30), <1>5, <2>1, <2>2 DEF Sleep, TypeOK, Labels
<1>6. CASE Wake(p)
  <2>1. pc' \in [Callers -> Labels] /\ mu' \in Callers \cup {NoProc} /\ streams' \subseteq Streams
    BY ZenonT(30), <1>6, <1>l, <1>c, <1>d DEF Wake, Head, compactLocked, TypeOK
  <2>2. QED
    BY ZenonT(30), <1>6, <2>1 DEF Wake, TypeOK, Labels
<1>7. CASE DialOk(p)
  <2>1. PICK s \in Streams : alive' = [alive EXCEPT ![s] = TRUE] /\ ref' = [ref EXCEPT ![p] = s]
    BY ZenonT(30), <1>7 DEF DialOk
  <2>2. alive' \in [Streams -> BOOLEAN]
    BY ZenonT(30), <2>1, Switched
  <2>3. ref' \in [Callers -> Streams \cup {NoStream}] /\ pc' \in [Callers -> Labels]
    BY ZenonT(30), <1>7, <2>1, <1>s, <1>l, <1>d DEF DialOk
  <2>4. QED
    BY ZenonT(30), <1>7, <2>2, <2>3 DEF DialOk, TypeOK, Labels
<1>8. CASE DialFail(p)
  <2>1. lost' \in 0..MaxLost
    BY <1>8, PoolConstants DEF DialFail, TypeOK
  <2>2. pc' \in [Callers -> Labels]
    BY ZenonT(30), <1>8, <1>l, <1>d DEF DialFail
  <2>3. QED
    BY ZenonT(30), <1>8, <2>1, <2>2 DEF DialFail, TypeOK, Labels
<1>9. QED
  BY ZenonT(30), <1>1, <1>2, <1>3, <1>4, <1>5, <1>6, <1>7, <1>8

\* The end of a dial, Calls, contexts and dying streams.
LEMMA UseTypes ==
  ASSUME TypeOK, Counted, NEW p \in Callers,
         DialDone(p) \/ Cancel(p) \/ AfterFunc(p) \/ CallBegin(p) \/ CallEnd(p)
  PROVE  TypeOK'
<1> USE DEF bgVars, closeVars, callerVars
<1>l. \A l \in Labels : To(p, l) => pc' \in [Callers -> Labels]
  BY ZenonT(30), Moved
<1>s. Leave(p) => /\ ref' \in [Callers -> Streams \cup {NoStream}]
                  /\ pc' \in [Callers -> Labels]
  <2>1. "out" \in Labels
    BY DEF Labels
  <2>2. QED
    BY ZenonT(30), <2>1, <1>l, Referred DEF Leave
<1>d. \A l \in {"out", "hold", "using"} : l \in Labels
  BY DEF Labels
<1>1. CASE DialDone(p)
  <2>1. dialing' \in Nat
    <3>1. p \in Dialers
      BY <1>1 DEF DialDone, Dialers
    <3>2. dialing \in Nat \ {0}
      BY <3>1, Positive
    <3>3. dialing' = dialing - 1
      BY ZenonT(30), <1>1 DEF DialDone
    <3>4. QED
      BY <3>2, <3>3
  <2>2. asleep' \subseteq Callers
    BY ZenonT(30), <1>1 DEF DialDone, Broadcast
  <2>3. pc' \in [Callers -> Labels] /\ ref' \in [Callers -> Streams \cup {NoStream}]
    BY ZenonT(30), <1>1, <1>l, <1>s, <1>d DEF DialDone, TypeOK
  <2>4. alive' \in [Streams -> BOOLEAN]
    <3>1. CASE alive' = alive
      BY ZenonT(30), <3>1 DEF TypeOK
    <3>2. CASE ref[p] # NoStream /\ alive' = [alive EXCEPT ![ref[p]] = FALSE]
      <4>1. ref[p] \in Streams
        BY <3>2 DEF TypeOK
      <4>2. QED
        BY ZenonT(30), <3>2, <4>1, Switched
    <3>3. QED
      BY ZenonT(30), <1>1, <3>1, <3>2 DEF DialDone
  <2>5. streams' \subseteq Streams
    <3>1. ref[p] # NoStream => ref[p] \in Streams
      BY DEF TypeOK
    <3>2. QED
      BY ZenonT(30), <1>1, <3>1 DEF DialDone, Live, TypeOK
  <2>6. QED
    BY ZenonT(30), <1>1, <2>1, <2>2, <2>3, <2>4, <2>5 DEF DialDone, TypeOK, Labels
<1>2. CASE Cancel(p)
  <2>1. [cancelled EXCEPT ![p] = TRUE] \in [Callers -> BOOLEAN]
    BY ZenonT(30) DEF TypeOK
  <2>2. afterFn' \subseteq Callers
    BY ZenonT(30), <1>2 DEF Cancel, TypeOK
  <2>3. QED
    BY ZenonT(30), <1>2, <2>1, <2>2 DEF Cancel, TypeOK
<1>3. CASE AfterFunc(p)
  <2>1. afterFn' \subseteq Callers /\ asleep' \subseteq Callers
    BY ZenonT(30), <1>3 DEF AfterFunc, Broadcast, TypeOK
  <2>2. QED
    BY ZenonT(30), <1>3, <2>1 DEF AfterFunc, TypeOK
<1>4. CASE CallBegin(p)
  <2>1. inflight' \in [Streams -> Nat]
    BY <1>4 DEF CallBegin, TypeOK
  <2>2. pc' \in [Callers -> Labels] /\ ref' \in [Callers -> Streams \cup {NoStream}]
    BY ZenonT(30), <1>4, <1>l, <1>s, <1>d DEF CallBegin, TypeOK
  <2>3. QED
    BY ZenonT(30), <1>4, <2>1, <2>2 DEF CallBegin, TypeOK, Labels
<1>5. CASE CallEnd(p)
  <2>1. inflight' \in [Streams -> Nat]
    <3>1. CASE ref[p] \in Streams
      <4>1. p \in Users(ref[p])
        BY Zenon, <1>5 DEF CallEnd, Users
      <4>2. inflight[ref[p]] \in Nat \ {0}
        BY Zenon, <3>1, <4>1, Positive
      <4>3. inflight[ref[p]] - 1 \in Nat
        BY <4>2
      <4>4. QED
        BY Zenon, <1>5, <3>1, <4>3 DEF CallEnd, TypeOK
    <3>2. CASE ref[p] \notin Streams
      BY ZenonT(30), <1>5, <3>2 DEF CallEnd, TypeOK
    <3>3. QED
      BY Zenon, <3>1, <3>2
  <2>2. QED
    BY ZenonT(30), <1>5, <2>1, <1>s DEF CallEnd, TypeOK, Labels
<1>6. QED
  BY ZenonT(30), <1>1, <1>2, <1>3, <1>4, <1>5

\* background, Close, the dying of streams and Stats.
LEMMA OtherTypes ==
  ASSUME TypeOK, Counted,
         (\E s \in Streams : Die(s)) \/ BackgroundStep \/ CloseBegin \/ CloseStep \/ Stats
  PROVE  TypeOK'
<1> USE DEF bgVars, closeVars, callerVars
<1>c. Live(streams) \subseteq Streams
  BY ZenonT(30) DEF TypeOK, Live
<1>a. \A s \in Streams : alive' = [alive EXCEPT ![s] = FALSE] => alive' \in [Streams -> BOOLEAN]
  BY ZenonT(30), Switched
<1>1. ASSUME NEW s \in Streams, Die(s) PROVE TypeOK'
  <2>1. lost' \in 0..MaxLost
    BY <1>1, PoolConstants DEF Die, TypeOK
  <2>2. QED
    BY ZenonT(30), <1>1, <1>a, <2>1 DEF Die, TypeOK
<1>2. CASE Maintain
  <2>1. PICK old \in SUBSET Live(streams) :
           /\ lost' = lost + Cardinality(old) /\ lost' <= MaxLost
           /\ toClose' = old /\ streams' = Live(streams) \ old
           /\ toPing' \in IF "ping" \in Env THEN SUBSET (Live(streams) \ old) ELSE {{}}
    BY ZenonT(30), <1>2 DEF Maintain
  <2>2. Cardinality(old) \in Nat
    <3>1. old \subseteq streams
      BY ZenonT(30) DEF Live
    <3>2. QED
      BY Zenon, <3>1, FS_Subset, FS_CardinalityType DEF Counted
  <2>3. lost' \in 0..MaxLost
    BY <2>1, <2>2, PoolConstants DEF TypeOK
  <2>4. toClose' \subseteq Streams /\ streams' \subseteq Streams /\ toPing' \subseteq Streams
    BY Zenon, <2>1, <1>c
  <2>5. QED
    BY ZenonT(30), <1>2, <2>3, <2>4 DEF Maintain, TypeOK
<1>3. CASE MaintainClose
  <2>1. PICK s \in toClose : /\ alive' = [alive EXCEPT ![s] = FALSE]
                             /\ toClose' = toClose \ {s}
    BY ZenonT(30), <1>3 DEF MaintainClose
  <2>2. alive' \in [Streams -> BOOLEAN] /\ toClose' \subseteq Streams
    BY ZenonT(30), <2>1, <1>a DEF TypeOK
  <2>3. QED
    BY ZenonT(30), <1>3, <2>2 DEF MaintainClose, TypeOK
<1>4. CASE MaintainBroadcast \/ MaintainDone \/ BackgroundStop \/ CloseDone
  BY ZenonT(30), <1>4 DEF MaintainBroadcast, MaintainDone, BackgroundStop, CloseDone,
     Broadcast, TypeOK
<1>5. ASSUME NEW s \in Streams, PingOk(s) PROVE TypeOK'
  BY ZenonT(30), <1>5 DEF PingOk, TypeOK
<1>6. ASSUME NEW s \in Streams, PingFail(s) PROVE TypeOK'
  <2>1. lost' \in 0..MaxLost
    BY <1>6, PoolConstants DEF PingFail, TypeOK
  <2>2. QED
    BY ZenonT(30), <1>6, <1>a, <2>1 DEF PingFail, TypeOK
<1>7. CASE PingRemove
  BY ZenonT(30), <1>7 DEF PingRemove, Broadcast, TypeOK
<1>8. CASE CloseBegin
  BY ZenonT(30), <1>8 DEF CloseBegin, Broadcast, TypeOK
<1>9. CASE CloseOne
  <2>1. PICK s \in closing : /\ alive' = [alive EXCEPT ![s] = FALSE]
                             /\ closing' = closing \ {s}
    BY ZenonT(30), <1>9 DEF CloseOne
  <2>2. alive' \in [Streams -> BOOLEAN] /\ closing' \subseteq Streams
    BY ZenonT(30), <2>1, <1>a DEF TypeOK
  <2>3. QED
    BY ZenonT(30), <1>9, <2>2 DEF CloseOne, TypeOK
<1>10. CASE Stats
  BY ZenonT(30), <1>10, <1>c DEF Stats, compactLocked, TypeOK
<1>11. QED
  BY ZenonT(30), <1>1, <1>2, <1>3, <1>4, <1>5, <1>6, <1>7, <1>8, <1>9, <1>10
     DEF BackgroundStep, CloseStep

\* The callers' steps keep the counters exact.
LEMMA CallerCounted ==
  ASSUME TypeOK, Counted, NEW p \in Callers,
         \/ GetBegin(p) \/ GetStep(p) \/ Cancel(p) \/ AfterFunc(p)
         \/ CallBegin(p) \/ CallEnd(p)
  PROVE  Counted'
<1> USE DEF bgVars, closeVars, callerVars
<1>m. \A l \in Labels : To(p, l) => pc'[p] = l /\ \A q \in Callers : q # p => pc'[q] = pc[q]
  BY ZenonT(30), Moved
<1>r. \A s : ref' = [ref EXCEPT ![p] = s] => \A q \in Callers : q # p => ref'[q] = ref[q]
  BY DEF TypeOK
<1>l. \A l \in {"out", "pick", "parking", "wait", "dial", "dialed", "hold", "using"} : l \in Labels
  BY DEF Labels
<1>v. Live(streams) \subseteq streams
  BY Zenon DEF Live
<1>1. ASSUME NEW l \in {"out", "pick", "parking", "wait", "hold"}, To(p, l),
             pc[p] \notin {"dial", "dialed", "using"},
             \A q \in Callers : q # p => ref'[q] = ref[q],
             UNCHANGED <<dialing, inflight>>, streams' \subseteq streams
      PROVE  Counted'
  <2>1. pc'[p] = l /\ \A q \in Callers : q # p => pc'[q] = pc[q]
    BY Zenon, <1>1, <1>m, <1>l
  <2>2. Dialers' = Dialers
    BY Zenon, <1>1, <2>1, SameDialers
  <2>3. \A s \in Streams : Users(s)' = Users(s)
    BY Zenon, <1>1, <2>1, SameUsers
  <2>4. QED
    BY Zenon, <1>1, <2>2, <2>3, CountedKept
<1>2. ASSUME UNCHANGED <<pc, ref, dialing, inflight>>, streams' \subseteq streams
      PROVE  Counted'
  <2>1. Dialers' = Dialers /\ \A s \in Streams : Users(s)' = Users(s)
    BY <1>2 DEF Dialers, Users
  <2>2. QED
    BY Zenon, <1>2, <2>1, CountedKept
<1>3. CASE GetBegin(p)
  BY ZenonT(30), <1>3, <1>1, <1>2, <1>v DEF GetBegin, compactLocked
<1>4. CASE PickExisting(p)
  BY ZenonT(30), <1>4, <1>1, <1>r DEF PickExisting
<1>5. CASE Park(p) \/ Sleep(p)
  BY ZenonT(30), <1>5, <1>1 DEF Park, Sleep
<1>6. CASE Wake(p)
  BY ZenonT(30), <1>6, <1>1, <1>v DEF Wake, Head, compactLocked
<1>7. CASE Cancel(p) \/ AfterFunc(p)
  BY ZenonT(30), <1>7, <1>2 DEF Cancel, AfterFunc
<1>8. CASE DialOk(p) \/ DialFail(p)
  <2>1. /\ pc[p] = "dial" /\ To(p, "dialed") /\ UNCHANGED <<dialing, inflight, streams>>
        /\ \A q \in Callers : q # p => ref'[q] = ref[q]
    BY ZenonT(30), <1>8, <1>r DEF DialOk, DialFail
  <2>2. pc'[p] = "dialed" /\ \A q \in Callers : q # p => pc'[q] = pc[q]
    BY ZenonT(30), <2>1, <1>m, <1>l
  <2>3. Dialers' = Dialers
    BY Zenon, <2>1, <2>2, SameDialers
  <2>4. \A s \in Streams : Users(s)' = Users(s)
    BY <2>1, <2>2, SameUsers
  <2>5. QED
    BY <2>1, <2>3, <2>4, CountedKept
<1>9. CASE Reserve(p)
  <2>1. /\ pc[p] = "pick" /\ To(p, "dial") /\ UNCHANGED <<inflight, streams, ref>>
        /\ dialing' = dialing + 1 /\ Cardinality(streams) + dialing < MaxOpen
    BY ZenonT(30), <1>9 DEF Reserve, Room
  <2>2. pc'[p] = "dial" /\ \A q \in Callers : q # p => pc'[q] = pc[q]
    BY ZenonT(30), <2>1, <1>m, <1>l
  <2>3. Dialers' = Dialers \cup {p} /\ p \notin Dialers
    BY Zenon, <2>1, <2>2 DEF Dialers
  <2>4. IsFiniteSet(Dialers') /\ Cardinality(Dialers') = Cardinality(Dialers) + 1
    BY Zenon, <2>3, OneMore DEF Counted
  <2>5. \A s \in Streams : Users(s)' = Users(s)
    BY Zenon, <2>1, <2>2, SameUsers
  <2>6. Cardinality(streams) \in Nat
    BY Zenon, FS_CardinalityType DEF Counted
  <2>7. Cardinality(streams) + dialing' <= MaxOpen
    BY <2>1, <2>6, PoolConstants DEF TypeOK
  <2>8. QED
    BY ZenonT(30), <2>1, <2>4, <2>5, <2>7 DEF Counted
<1>10. CASE DialDone(p)
  <2>1. /\ pc[p] = "dialed" /\ dialing' = dialing - 1 /\ inflight' = inflight
        /\ To(p, "out") \/ To(p, "hold")
        /\ \A q \in Callers : q # p => ref'[q] = ref[q]
        /\ streams' = streams \/ streams' = Live(streams) \cup {ref[p]}
    BY ZenonT(30), <1>10, <1>r DEF DialDone, Leave
  <2>2. pc'[p] \in {"out", "hold"} /\ \A q \in Callers : q # p => pc'[q] = pc[q]
    BY ZenonT(30), <2>1, <1>m, <1>l
  <2>3. Dialers' = Dialers \ {p} /\ p \in Dialers
    BY Zenon, <2>1, <2>2 DEF Dialers
  <2>4. IsFiniteSet(Dialers') /\ Cardinality(Dialers') = Cardinality(Dialers) - 1
    BY Zenon, <2>3, OneLess DEF Counted
  <2>5. \A s \in Streams : Users(s)' = Users(s)
    BY Zenon, <2>1, <2>2, SameUsers
  <2>6. /\ IsFiniteSet(streams') /\ Cardinality(streams') \in Nat
        /\ Cardinality(streams) \in Nat /\ Cardinality(streams') <= Cardinality(streams) + 1
    <3>1. IsFiniteSet(streams) /\ Cardinality(streams) \in Nat
      BY FS_CardinalityType DEF Counted
    <3>2. CASE streams' = streams
      BY <3>1, <3>2
    <3>3. CASE streams' = Live(streams) \cup {ref[p]}
      <4>1. /\ IsFiniteSet(Live(streams)) /\ Cardinality(Live(streams)) \in Nat
            /\ Cardinality(Live(streams)) <= Cardinality(streams)
        BY Zenon, <1>v, <3>1, FS_Subset, FS_CardinalityType
      <4>2. /\ IsFiniteSet(streams')
            /\ \/ Cardinality(streams') = Cardinality(Live(streams)) + 1
               \/ Cardinality(streams') = Cardinality(Live(streams))
        BY Zenon, <3>3, <4>1, FS_AddElement
      <4>3. QED
        BY <3>1, <4>1, <4>2
    <3>4. QED
      BY Zenon, <2>1, <3>2, <3>3
  <2>7. Cardinality(streams') + dialing' <= MaxOpen
    BY <2>1, <2>6, PoolConstants DEF TypeOK, Counted
  <2>8. dialing' = Cardinality(Dialers')
    BY Zenon, <2>1, <2>4 DEF Counted
  <2>9. QED
    BY ZenonT(30), <2>1, <2>4, <2>5, <2>6, <2>7, <2>8 DEF Counted
<1>11. CASE CallBegin(p) /\ ~alive[ref[p]]
  BY ZenonT(30), <1>11, <1>1, <1>r DEF CallBegin, Leave
<1>12. CASE CallBegin(p) /\ alive[ref[p]]
  <2>1. /\ pc[p] = "hold" /\ To(p, "using") /\ UNCHANGED <<ref, dialing, streams>>
        /\ inflight' = [inflight EXCEPT ![ref[p]] = @ + 1]
    BY ZenonT(30), <1>12 DEF CallBegin
  <2>2. pc'[p] = "using" /\ \A q \in Callers : q # p => pc'[q] = pc[q]
    BY ZenonT(30), <2>1, <1>m, <1>l
  <2>3. Dialers' = Dialers
    BY Zenon, <2>1, <2>2, SameDialers
  <2>4. ASSUME NEW s \in Streams
        PROVE  IsFiniteSet(Users(s)') /\ inflight'[s] = Cardinality(Users(s)')
    <3>0. IsFiniteSet(Users(s)) /\ inflight[s] = Cardinality(Users(s)) /\ DOMAIN inflight = Streams
      BY Zenon DEF Counted, TypeOK
    <3>1. CASE s = ref[p]
      <4>1. Users(s)' = Users(s) \cup {p} /\ p \notin Users(s)
        BY Zenon, <2>1, <2>2, <3>1 DEF Users
      <4>2. QED
        BY <2>1, <3>0, <3>1, <4>1, OneMore
    <3>2. CASE s # ref[p]
      <4>1. Users(s)' = Users(s)
        BY Zenon, <2>1, <2>2, <3>2 DEF Users
      <4>2. QED
        BY Zenon, <2>1, <3>0, <3>2, <4>1
    <3>3. QED
      BY Zenon, <3>1, <3>2
  <2>5. QED
    BY ZenonT(30), <2>1, <2>3, <2>4 DEF Counted
<1>13. CASE CallEnd(p)
  <2>1. /\ pc[p] = "using" /\ To(p, "out") /\ ref' = [ref EXCEPT ![p] = NoStream]
        /\ UNCHANGED <<dialing, streams>>
        /\ inflight' = [inflight EXCEPT ![ref[p]] = @ - 1]
    BY ZenonT(30), <1>13 DEF CallEnd, Leave
  <2>2. /\ pc'[p] = "out" /\ \A q \in Callers : q # p => pc'[q] = pc[q]
        /\ \A q \in Callers : q # p => ref'[q] = ref[q]
    BY ZenonT(30), <2>1, <1>m, <1>l, <1>r
  <2>3. Dialers' = Dialers
    BY Zenon, <2>1, <2>2, SameDialers
  <2>4. ASSUME NEW s \in Streams
        PROVE  IsFiniteSet(Users(s)') /\ inflight'[s] = Cardinality(Users(s)')
    <3>0. IsFiniteSet(Users(s)) /\ inflight[s] = Cardinality(Users(s)) /\ DOMAIN inflight = Streams
      BY DEF Counted, TypeOK
    <3>1. CASE s = ref[p]
      <4>1. Users(s)' = Users(s) \ {p} /\ p \in Users(s)
        BY Zenon, <2>1, <2>2, <3>1 DEF Users
      <4>2. QED
        BY <2>1, <3>0, <3>1, <4>1, OneLess
    <3>2. CASE s # ref[p]
      <4>1. Users(s)' = Users(s)
        BY Zenon, <2>1, <2>2, <3>2 DEF Users
      <4>2. QED
        BY Zenon, <2>1, <3>0, <3>2, <4>1
    <3>3. QED
      BY Zenon, <3>1, <3>2
  <2>5. QED
    BY ZenonT(30), <2>1, <2>3, <2>4 DEF Counted
<1>14. QED
  BY ZenonT(30), <1>3, <1>4, <1>5, <1>6, <1>7, <1>8, <1>9, <1>10, <1>11, <1>12, <1>13 DEF GetStep

\* background, Close, the dying of streams and Stats only take streams out.
LEMMA OtherCounted ==
  ASSUME TypeOK, Counted,
         (\E s \in Streams : Die(s)) \/ BackgroundStep \/ CloseBegin \/ CloseStep \/ Stats
  PROVE  Counted'
<1> USE DEF bgVars, closeVars, callerVars
<1>v. Live(streams) \subseteq streams
  BY DEF Live
<1>1. UNCHANGED <<pc, ref, dialing, inflight>>
  BY ZenonT(30) DEF Die, BackgroundStep, Maintain, MaintainClose, MaintainBroadcast, PingOk,
     PingFail, PingRemove, MaintainDone, BackgroundStop, CloseBegin, CloseStep, CloseOne,
     CloseDone, Stats
<1>2. streams' \subseteq streams
  BY ZenonT(30), <1>v DEF Die, BackgroundStep, Maintain, MaintainClose, MaintainBroadcast, PingOk,
     PingFail, PingRemove, MaintainDone, BackgroundStop, CloseBegin, CloseStep, CloseOne,
     CloseDone, Stats, compactLocked
<1>3. Dialers' = Dialers /\ \A s \in Streams : Users(s)' = Users(s)
  BY <1>1 DEF Dialers, Users
<1>4. QED
  BY Zenon, <1>1, <1>2, <1>3, CountedKept

-----------------------------------------------------------------------------
(* Every live stream is in somebody's charge.                              *)

\* No stream comes alive, none that is alive leaves a set it is in, and no dial
\* ends.
LEMMA ChargedKept ==
  ASSUME Charged, TypeOK, UNCHANGED <<closed, bgPc, toClose, closePc, closing>>,
         \A s \in Streams : alive'[s] => alive[s],
         \A s \in streams : s \in Streams /\ alive'[s] => s \in streams',
         streams' \subseteq streams \/ ~closed,
         \A q \in Callers : pc[q] = "dialed" => pc'[q] = "dialed" /\ ref'[q] = ref[q]
  PROVE  Charged'
<1>1. ASSUME NEW s \in Streams, alive'[s] PROVE Kept(s)'
  <2>1. Kept(s)
    BY ZenonT(30), <1>1 DEF Charged
  <2>2. CASE s \in streams \cup toClose \cup closing
    BY ZenonT(30), <1>1, <2>2 DEF Kept
  <2>3. CASE \E p \in Callers : pc[p] = "dialed" /\ ref[p] = s
    BY ZenonT(30), <2>3 DEF Kept
  <2>4. QED
    BY ZenonT(30), <2>1, <2>2, <2>3 DEF Kept
<1>2. closed' => streams' = {}
  BY DEF Charged
<1>3. bgPc' = "remove" => \A s \in toClose' : ~alive'[s]
  BY ZenonT(30) DEF Charged, TypeOK
<1>4. QED
  BY ZenonT(30), <1>1, <1>2, <1>3 DEF Charged

\* The callers: what a dial brings in is theirs until it is entered or closed.
LEMMA CallerCharged ==
  ASSUME TypeOK, Charged, NEW p \in Callers,
         \/ GetBegin(p) \/ GetStep(p) \/ Cancel(p) \/ AfterFunc(p)
         \/ CallBegin(p) \/ CallEnd(p)
  PROVE  Charged'
<1> USE DEF bgVars, closeVars, callerVars
<1>m. \A l \in Labels : To(p, l) => pc'[p] = l /\ \A q \in Callers : q # p => pc'[q] = pc[q]
  BY ZenonT(30), Moved
<1>r. \A s : ref' = [ref EXCEPT ![p] = s] => \A q \in Callers : q # p => ref'[q] = ref[q]
  BY DEF TypeOK
<1>l. \A l \in {"out", "pick", "parking", "wait", "dial", "dialed", "hold", "using"} : l \in Labels
  BY DEF Labels
<1>v. Live(streams) \subseteq streams /\ \A s \in streams : alive[s] => s \in Live(streams)
  BY ZenonT(30) DEF Live
<1>1. ASSUME pc[p] # "dialed",
             pc' = pc \/ \E l \in Labels : To(p, l),
             \A q \in Callers : q # p => ref'[q] = ref[q],
             UNCHANGED <<alive, closed, bgPc, toClose, closePc, closing>>,
             streams' = streams \/ streams' = Live(streams)
      PROVE  Charged'
  <2>1. \A q \in Callers : pc[q] = "dialed" => pc'[q] = "dialed" /\ ref'[q] = ref[q]
    BY ZenonT(30), <1>1, <1>m
  <2>2. streams' \subseteq streams /\ \A s \in streams : alive'[s] => s \in streams'
    BY ZenonT(30), <1>1, <1>v
  <2>3. QED
    BY ZenonT(30), <1>1, <2>1, <2>2, ChargedKept
<1>2. CASE GetBegin(p)
  BY ZenonT(30), <1>2, <1>1, <1>l DEF GetBegin, compactLocked
<1>3. CASE PickExisting(p) \/ Reserve(p) \/ Park(p) \/ Sleep(p) \/ DialFail(p)
  BY ZenonT(30), <1>3, <1>1, <1>r, <1>l DEF PickExisting, Reserve, Park, Sleep, DialFail
<1>4. CASE Wake(p)
  BY ZenonT(30), <1>4, <1>1, <1>l DEF Wake, Head, compactLocked
<1>5. CASE CallBegin(p) \/ CallEnd(p)
  BY ZenonT(30), <1>5, <1>1, <1>r, <1>l DEF CallBegin, CallEnd, Leave
<1>6. CASE Cancel(p) \/ AfterFunc(p)
  BY ZenonT(30), <1>6, ChargedKept DEF Cancel, AfterFunc
<1>7. CASE DialOk(p)
  <2>1. PICK s \in Streams : /\ Fresh(s) /\ alive' = [alive EXCEPT ![s] = TRUE]
                             /\ ref' = [ref EXCEPT ![p] = s]
    BY ZenonT(30), <1>7 DEF DialOk
  <2>2. /\ pc[p] = "dial" /\ To(p, "dialed")
        /\ UNCHANGED <<streams, closed, bgPc, toClose, closePc, closing>>
    BY ZenonT(30), <1>7 DEF DialOk
  <2>3. /\ pc'[p] = "dialed" /\ ref'[p] = s
        /\ \A q \in Callers : q # p => pc'[q] = pc[q] /\ ref'[q] = ref[q]
    BY ZenonT(30), <2>1, <2>2, <1>m, <1>r, <1>l, Referred
  <2>4. \A t \in Streams : t # s => alive'[t] = alive[t]
    BY <2>1, Switched
  <2>5. ASSUME NEW t \in Streams, alive'[t] PROVE Kept(t)'
    <3>1. CASE t = s
      BY ZenonT(30), <2>3, <3>1 DEF Kept
    <3>2. CASE t # s
      <4>1. Kept(t)
        BY ZenonT(30), <2>4, <2>5, <3>2 DEF Charged
      <4>2. QED
        BY ZenonT(30), <2>2, <2>3, <4>1 DEF Kept
    <3>3. QED
      BY <3>1, <3>2
  <2>6. \A t \in toClose : t # s /\ t \in Streams
    BY ZenonT(30), <2>1 DEF Fresh, TypeOK
  <2>7. bgPc' = "remove" => \A t \in toClose' : ~alive'[t]
    BY ZenonT(30), <2>2, <2>4, <2>6 DEF Charged
  <2>8. QED
    BY ZenonT(30), <2>2, <2>5, <2>7 DEF Charged
<1>8. CASE DialDone(p)
  <2>1. /\ UNCHANGED <<closed, bgPc, toClose, closePc, closing>>
        /\ To(p, "out") \/ To(p, "hold")
        /\ \A q \in Callers : q # p => ref'[q] = ref[q]
    BY ZenonT(30), <1>8, <1>r DEF DialDone, Leave
  <2>2. \A q \in Callers : q # p => pc'[q] = pc[q] /\ ref'[q] = ref[q]
    BY ZenonT(30), <2>1, <1>m, <1>l
  <2>3. \A t \in Streams : alive'[t] => alive[t]
    <3>1. CASE alive' = alive
      BY <3>1
    <3>2. CASE ref[p] # NoStream /\ alive' = [alive EXCEPT ![ref[p]] = FALSE]
      <4>1. ref[p] \in Streams
        BY <3>2 DEF TypeOK
      <4>2. /\ alive'[ref[p]] = FALSE
            /\ \A t \in Streams : t # ref[p] => alive'[t] = alive[t]
        BY ZenonT(30), <3>2, <4>1, Switched
      <4>3. QED
        BY ZenonT(30), <4>2
    <3>3. QED
      BY ZenonT(30), <1>8, <3>1, <3>2 DEF DialDone
  <2>4. \A t \in Streams : t = ref[p] /\ alive'[t] => t \in streams'
    <3>1. CASE ref[p] = NoStream
      BY ZenonT(30), <3>1, PoolConstants
    <3>2. CASE ref[p] # NoStream /\ closed
      <4>1. ref[p] \in Streams
        BY <3>2 DEF TypeOK
      <4>2. alive' = [alive EXCEPT ![ref[p]] = FALSE]
        BY ZenonT(30), <1>8, <3>2 DEF DialDone
      <4>3. alive'[ref[p]] = FALSE
        BY ZenonT(30), <4>1, <4>2, Switched
      <4>4. QED
        BY ZenonT(30), <4>3
    <3>3. CASE ref[p] # NoStream /\ ~closed
      BY ZenonT(30), <1>8, <3>3 DEF DialDone
    <3>4. QED
      BY <3>1, <3>2, <3>3
  <2>5. \A t \in streams : alive[t] => t \in streams'
    BY ZenonT(30), <1>8, <1>v DEF DialDone
  <2>6. ASSUME NEW t \in Streams, alive'[t] PROVE Kept(t)'
    <3>1. Kept(t)
      BY ZenonT(30), <2>3, <2>6 DEF Charged
    <3>2. CASE t = ref[p]
      BY ZenonT(30), <2>4, <2>6, <3>2 DEF Kept
    <3>3. CASE t # ref[p]
      BY ZenonT(30), <2>1, <2>2, <2>3, <2>5, <2>6, <3>1, <3>3 DEF Kept
    <3>4. QED
      BY Zenon, <3>2, <3>3
  <2>7. closed' => streams' = {}
    BY ZenonT(30), <1>8 DEF DialDone, Charged
  <2>8. bgPc' = "remove" => \A t \in toClose' : ~alive'[t]
    BY ZenonT(30), <2>1, <2>3 DEF Charged, TypeOK
  <2>9. QED
    BY ZenonT(30), <2>1, <2>6, <2>7, <2>8 DEF Charged
<1>9. QED
  BY ZenonT(30), <1>2, <1>3, <1>4, <1>5, <1>6, <1>7, <1>8 DEF GetStep

\* background, Close, the dying of streams and Stats: a stream leaves streams
\* dead, or for toClose or closing, and these are left dead.
LEMMA OtherCharged ==
  ASSUME TypeOK, Charged,
         (\E s \in Streams : Die(s)) \/ BackgroundStep \/ CloseBegin \/ CloseStep \/ Stats
  PROVE  Charged'
<1> USE DEF bgVars, closeVars, callerVars
<1>v. Live(streams) \subseteq streams /\ \A s \in streams : alive[s] => s \in Live(streams)
  BY ZenonT(30) DEF Live
<1>a. ASSUME NEW s \in Streams, alive' = [alive EXCEPT ![s] = FALSE]
      PROVE  ~alive'[s] /\ \A t \in Streams : alive'[t] => alive[t] /\ t # s
  <2>1. alive'[s] = FALSE /\ \A t \in Streams : t # s => alive'[t] = alive[t]
    BY ZenonT(30), <1>a, Switched
  <2>2. QED
    BY ZenonT(30), <2>1
<1>p. (\E s \in Streams : Die(s)) \/ BackgroundStep \/ CloseBegin \/ CloseStep \/ Stats
         => UNCHANGED <<pc, ref>>
  BY ZenonT(30) DEF Die, BackgroundStep, Maintain, MaintainClose, MaintainBroadcast, PingOk,
     PingFail, PingRemove, MaintainDone, BackgroundStop, CloseBegin, CloseStep, CloseOne,
     CloseDone, Stats
<1>1. ASSUME NEW s \in Streams, Die(s) PROVE Charged'
  <2>1. UNCHANGED <<streams, closed, bgPc, toClose, closePc, closing>>
    BY ZenonT(30), <1>1 DEF Die
  <2>2. alive' = [alive EXCEPT ![s] = FALSE]
    BY ZenonT(30), <1>1 DEF Die
  <2>3. QED
    BY ZenonT(30), <1>p, <1>a, <2>1, <2>2, ChargedKept
<1>2. CASE Stats
  BY ZenonT(30), <1>p, <1>v, <1>2, ChargedKept DEF Stats, compactLocked
<1>3. ASSUME NEW s \in Streams, PingOk(s) PROVE Charged'
  BY ZenonT(30), <1>p, <1>3, ChargedKept DEF PingOk
<1>4. CASE Maintain
  <2>1. /\ bgPc' = "closing" /\ toClose = {} /\ ~closed
        /\ UNCHANGED <<closed, alive, closePc, closing>>
    BY ZenonT(30), <1>4 DEF Maintain, Charged
  <2>2. \A s \in Live(streams) : s \in streams' \cup toClose'
    BY ZenonT(30), <1>4 DEF Maintain
  <2>3. \A s \in Streams : alive'[s] => Kept(s)'
    BY ZenonT(30), <1>p, <1>v, <2>1, <2>2 DEF Charged, Kept
  <2>4. QED
    BY ZenonT(30), <2>1, <2>3 DEF Charged
<1>5. CASE MaintainClose
  <2>1. PICK s \in toClose : /\ alive' = [alive EXCEPT ![s] = FALSE]
                             /\ toClose' = toClose \ {s}
    BY ZenonT(30), <1>5 DEF MaintainClose
  <2>2. bgPc = "closing" /\ UNCHANGED <<streams, closed, bgPc, closePc, closing>>
    BY ZenonT(30), <1>5 DEF MaintainClose
  <2>3. \A t \in Streams : alive'[t] => alive[t] /\ t # s
    BY ZenonT(30), <2>1, <1>a DEF TypeOK
  <2>4. \A t \in Streams : alive'[t] => Kept(t)'
    BY ZenonT(30), <1>p, <2>1, <2>2, <2>3 DEF Charged, Kept
  <2>5. QED
    BY ZenonT(30), <2>2, <2>4 DEF Charged
<1>6. CASE MaintainBroadcast \/ MaintainDone
  <2>1. /\ UNCHANGED <<streams, closed, alive, toClose, closePc, closing>>
        /\ toClose = {} /\ bgPc # "done" /\ bgPc' \in {"pinging", "select"}
    BY ZenonT(30), <1>6 DEF MaintainBroadcast, MaintainDone, Charged
  <2>2. \A s \in Streams : alive'[s] => Kept(s)'
    BY ZenonT(30), <1>p, <2>1 DEF Charged, Kept
  <2>3. QED
    BY ZenonT(30), <2>1, <2>2 DEF Charged
<1>7. CASE BackgroundStop
  <2>1. /\ UNCHANGED <<streams, closed, alive, toClose, closePc, closing>>
        /\ toClose = {} /\ bgPc' = "done"
    BY ZenonT(30), <1>7 DEF BackgroundStop, Charged
  <2>2. \A s \in Streams : alive'[s] => Kept(s)'
    BY ZenonT(30), <1>p, <2>1 DEF Charged, Kept
  <2>3. QED
    BY ZenonT(30), <2>1, <2>2 DEF Charged
<1>8. ASSUME NEW s \in Streams, PingFail(s) PROVE Charged'
  <2>1. /\ bgPc = "pinging" /\ bgPc' = "remove" /\ toClose = {} /\ toClose' = {s}
        /\ UNCHANGED <<streams, closed, closePc, closing>>
        /\ alive' = [alive EXCEPT ![s] = FALSE]
    BY ZenonT(30), <1>8 DEF PingFail, Charged
  <2>2. ~alive'[s] /\ \A t \in Streams : alive'[t] => alive[t] /\ t # s
    BY ZenonT(30), <2>1, <1>a
  <2>3. \A t \in Streams : alive'[t] => Kept(t)'
    BY ZenonT(30), <1>p, <2>1, <2>2 DEF Charged, Kept
  <2>4. QED
    BY ZenonT(30), <2>1, <2>2, <2>3 DEF Charged
<1>9. CASE PingRemove
  <2>1. /\ bgPc = "remove" /\ bgPc' = "pinging" /\ toClose' = {} /\ streams' = streams \ toClose
        /\ UNCHANGED <<closed, closePc, closing, alive>>
    BY ZenonT(30), <1>9 DEF PingRemove
  <2>2. \A s \in toClose : ~alive[s]
    BY ZenonT(30), <2>1 DEF Charged
  <2>3. \A s \in Streams : alive'[s] => Kept(s)'
    BY ZenonT(30), <1>p, <2>1, <2>2 DEF Charged, Kept
  <2>4. QED
    BY ZenonT(30), <2>1, <2>3 DEF Charged
<1>10. CASE CloseBegin
  <2>1. /\ closePc = "none" /\ closePc' = "closing" /\ closed' = TRUE
        /\ closing = {} /\ closing' = streams /\ streams' = {}
        /\ UNCHANGED <<bgPc, toClose, alive>>
    BY ZenonT(30), <1>10 DEF CloseBegin, Charged
  <2>2. \A s \in Streams : alive'[s] => Kept(s)'
    BY ZenonT(30), <1>p, <2>1 DEF Charged, Kept
  <2>3. QED
    BY ZenonT(30), <2>1, <2>2 DEF Charged
<1>11. CASE CloseOne
  <2>1. PICK s \in closing : /\ alive' = [alive EXCEPT ![s] = FALSE]
                             /\ closing' = closing \ {s}
    BY ZenonT(30), <1>11 DEF CloseOne
  <2>2. closePc = "closing" /\ UNCHANGED <<streams, closed, bgPc, closePc, toClose>>
    BY ZenonT(30), <1>11 DEF CloseOne
  <2>3. \A t \in Streams : alive'[t] => alive[t] /\ t # s
    BY ZenonT(30), <2>1, <1>a DEF TypeOK
  <2>4. \A t \in Streams : alive'[t] => Kept(t)'
    BY ZenonT(30), <1>p, <2>1, <2>2, <2>3 DEF Charged, Kept
  <2>5. \A t \in toClose : t \in Streams
    BY ZenonT(30) DEF TypeOK
  <2>6. QED
    BY ZenonT(30), <2>2, <2>3, <2>4, <2>5 DEF Charged
<1>12. CASE CloseDone
  <2>1. /\ closePc = "closing" /\ closing = {} /\ bgPc = "done" /\ closePc' = "done"
        /\ UNCHANGED <<streams, closed, bgPc, toClose, closing, alive>>
    BY ZenonT(30), <1>12 DEF CloseDone
  <2>2. \A s \in Streams : alive'[s] => Kept(s)'
    BY ZenonT(30), <1>p, <2>1 DEF Charged, Kept
  <2>3. QED
    BY ZenonT(30), <2>1, <2>2 DEF Charged
<1>13. QED
  BY ZenonT(30), <1>1, <1>2, <1>3, <1>4, <1>5, <1>6, <1>7, <1>8, <1>9, <1>10, <1>11, <1>12
     DEF BackgroundStep, CloseStep

-----------------------------------------------------------------------------
(* The result.                                                             *)

\* The pool begins with no streams, no dials and no Calls.
LEMMA InitIInv == Init => IInv
<1> SUFFICES ASSUME Init PROVE IInv
  OBVIOUS
<1>0. /\ alive = [s \in Streams |-> FALSE] /\ cancelled = [p \in Callers |-> FALSE]
      /\ closed = FALSE
  BY ZenonT(30) DEF Init
<1>1. /\ alive \in [Streams -> BOOLEAN] /\ cancelled \in [Callers -> BOOLEAN]
      /\ closed \in BOOLEAN /\ \A s \in Streams : ~alive[s]
  BY ZenonT(30), <1>0
<1>2. lost \in 0..MaxLost /\ inflight \in [Streams -> Nat]
  BY PoolConstants DEF Init
<1>3. TypeOK
  <2>1. pc \in [Callers -> Labels] /\ ref \in [Callers -> Streams \cup {NoStream}] /\ dialing \in Nat
    BY DEF Init, Labels
  <2>2. QED
    BY ZenonT(30), <1>1, <1>2, <2>1 DEF Init, TypeOK, Labels
<1>4. Counted
  <2>1. Dialers = {} /\ \A s \in Streams : Users(s) = {}
    BY DEF Init, Dialers, Users
  <2>2. IsFiniteSet({}) /\ Cardinality({}) = 0
    BY FS_EmptySet
  <2>3. streams = {} /\ dialing = 0 /\ \A s \in Streams : inflight[s] = 0
    BY DEF Init
  <2>4. Cardinality(streams) + dialing <= MaxOpen
    BY <2>2, <2>3, PoolConstants
  <2>5. QED
    BY ZenonT(30), <2>1, <2>2, <2>3, <2>4 DEF Counted
<1>5. Charged
  BY ZenonT(30), <1>1 DEF Init, Charged
<1>6. QED
  BY <1>3, <1>4, <1>5 DEF IInv

\* Every step of the callers, of background and of Close keeps the invariant.
LEMMA StepIInv == IInv /\ [Next]_vars => IInv'
<1> SUFFICES ASSUME IInv, [Next]_vars PROVE IInv'
  OBVIOUS
<1>0. TypeOK /\ Counted /\ Charged
  BY DEF IInv
<1>1. ASSUME NEW p \in Callers,
             \/ GetBegin(p) \/ GetStep(p) \/ Cancel(p) \/ AfterFunc(p)
             \/ CallBegin(p) \/ CallEnd(p)
      PROVE  IInv'
  <2>1. TypeOK'
    BY ZenonT(30), <1>0, <1>1, GetTypes, UseTypes DEF GetStep
  <2>2. Counted' /\ Charged'
    BY ZenonT(30), <1>0, <1>1, CallerCounted, CallerCharged
  <2>3. QED
    BY Zenon, <2>1, <2>2 DEF IInv
<1>2. CASE (\E s \in Streams : Die(s)) \/ BackgroundStep \/ CloseBegin \/ CloseStep \/ Stats
  <2>1. TypeOK' /\ Counted' /\ Charged'
    BY ZenonT(30), <1>0, <1>2, OtherTypes, OtherCounted, OtherCharged
  <2>2. QED
    BY <2>1 DEF IInv
<1>3. CASE UNCHANGED vars
  <2> USE <1>3 DEF vars, bgVars, closeVars, callerVars
  <2>1. TypeOK'
    BY ZenonT(30), <1>0 DEF TypeOK
  <2>2. Counted'
    BY ZenonT(30), <1>0 DEF Counted, Dialers, Users
  <2>3. Charged'
    BY ZenonT(30), <1>0 DEF Charged, Kept
  <2>4. QED
    BY Zenon, <2>1, <2>2, <2>3 DEF IInv
<1>4. QED
  BY ZenonT(30), <1>1, <1>2, <1>3 DEF Next

\* The invariant gives what SlotsKept says.
LEMMA IInvSlots == IInv => SlotsKept
<1> SUFFICES ASSUME IInv PROVE SlotsKept
  OBVIOUS
<1>0. TypeOK /\ Counted /\ Charged
  BY DEF IInv
<1>1. RoomForDials
  <2>1. Cardinality(streams) \in Nat /\ Cardinality(streams) + dialing <= MaxOpen
    BY Zenon, <1>0, FS_CardinalityType DEF Counted
  <2>2. ASSUME NEW p \in Callers, pc[p] = "dialed" PROVE Cardinality(streams) < MaxOpen
    <3>1. p \in Dialers
      BY <2>2 DEF Dialers
    <3>2. dialing \in Nat \ {0}
      BY <1>0, <3>1, Positive
    <3>3. QED
      BY <2>1, <3>2, PoolConstants
  <2>3. QED
    BY Zenon, <2>1, <2>2 DEF RoomForDials
<1>2. CloseClosesAll
  <2> SUFFICES ASSUME closePc = "done", NEW s \in Streams, alive[s]
               PROVE  \E p \in Callers : pc[p] = "dialed" /\ ref[p] = s
    BY ZenonT(30) DEF CloseClosesAll
  <2>1. Kept(s) /\ streams = {} /\ toClose = {} /\ closing = {}
    BY ZenonT(30), <1>0 DEF Charged
  <2>2. QED
    BY ZenonT(30), <2>1 DEF Kept
<1>3. QED
  BY <1>0, <1>1, <1>2 DEF SlotsKept

\* Get never has more than maxOpen streams and dials, a dial that ends always
\* finds its slot free, and Close leaves no stream alive but those whose dial it
\* overtook, which Get closes: for any number of callers and streams.
THEOREM SlotsAlwaysKept == Spec => []SlotsKept
BY InitIInv, StepIInv, IInvSlots, PTL DEF Spec

=============================================================================
