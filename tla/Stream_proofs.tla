---------------------------- MODULE Stream_proofs ----------------------------
(***************************************************************************)
(* Answers reach the call that asked, and frames are written whole, for    *)
(* any number of concurrent calls, whatever ids they share and whatever    *)
(* the peer, the network and Close do.                                     *)
(***************************************************************************)
EXTENDS Stream, SequenceTheorems, TLAPS

Place == {"idle", "write", "writing", "writeFailed", "wait", "return", "done"}
Outcome == Calls \cup {"none", "closed", "duplicate", "ctx", "error", "sent"}
Part == (Calls \cup {Reader}) \X {"head", "tail"}

\* NewStream starts with nothing registered, nothing written.
LEMMA InitTypeOK == Init => TypeOK
<1> SUFFICES ASSUME Init PROVE TypeOK
  OBVIOUS
<1>1. \A S : <<>> \in Seq(S)
  OBVIOUS
<1>2. QED
  BY ZenonT(30), <1>1 DEF Init, TypeOK

\* A scenario says what every call is.
LEMMA IdType == ASSUME NEW p \in Calls PROVE IdOf(p) \in Ids
BY DEF IdOf, Ids

\* failAll empties pending into the set of channels it has to notify.
LEMMA FailTypeOK ==
  ASSUME TypeOK, FailAll
  PROVE  /\ pending' \in [Ids -> Calls \cup {NoCall}] /\ closed' \in BOOLEAN
         /\ toFail' \subseteq Calls /\ failPc' \in {"none", "close", "notify"}
<1>1. CASE closed
  BY <1>1 DEF TypeOK, FailAll, failVars
<1>2. CASE ~closed
  BY <1>2 DEF TypeOK, FailAll
<1>3. QED
  BY <1>1, <1>2

\* Call, Ping and the end of a context keep the types.
LEMMA CallTypeOK ==
  ASSUME TypeOK, NEW p \in Calls, CallBegin(p) \/ CallStep(p) \/ Cancel(p)
  PROVE  TypeOK'
<1> USE DEF callVars, readVars, failVars, sendVars, peerVars
<1>a. ASSUME NEW l \in Place, To(p, l) PROVE pc' \in [Calls -> Place]
  BY <1>a DEF TypeOK, To, Place
<1>b. ASSUME NEW r \in Outcome, Give(p, r)
      PROVE  pc' \in [Calls -> Place] /\ result' \in [Calls -> Outcome]
  BY <1>b DEF TypeOK, Give, To, Place, Outcome
<1>c. {"done", "write", "writing", "wait", "writeFailed", "return"} \subseteq Place
  BY DEF Place
<1>d. {"closed", "duplicate", "ctx", "error", "sent"} \subseteq Outcome
  BY DEF Outcome
<1>1. CASE CallBegin(p)
  <2>1. pc' \in [Calls -> Place]
    BY <1>1, <1>a, <1>c DEF CallBegin
  <2>2. result' \in [Calls -> Outcome]
    BY <1>1 DEF CallBegin, TypeOK, Outcome
  <2>3. pending' \in [Ids -> Calls \cup {NoCall}]
    BY ZenonT(30), <1>1, IdType DEF CallBegin, TypeOK
  <2>4. QED
    BY ZenonT(30), <1>1, <2>1, <2>2, <2>3 DEF CallBegin, TypeOK, Place, Outcome
<1>2. CASE WriteHead(p)
  <2>1. pc' \in [Calls -> Place]
    BY <1>2, <1>a, <1>c DEF WriteHead
  <2>2. wire' \in Seq(Part)
    BY <1>2 DEF WriteHead, TypeOK, Part
  <2>3. QED
    BY ZenonT(30), <1>2, <2>1, <2>2 DEF WriteHead, TypeOK, Place, Part
<1>3. CASE WriteTail(p)
  <2>1. pc' \in [Calls -> Place] /\ result' \in [Calls -> Outcome]
    BY <1>3, <1>a, <1>b, <1>c, <1>d DEF WriteTail, Written, TypeOK, Outcome
  <2>2. wire' \in Seq(Part)
    BY <1>3 DEF WriteTail, TypeOK, Part
  <2>3. QED
    BY ZenonT(30), <1>3, <2>1, <2>2 DEF WriteTail, TypeOK, Place, Outcome, Part
<1>4. CASE WriteError(p)
  <2>1. pc' \in [Calls -> Place]
    BY <1>4, <1>a, <1>c DEF WriteError
  <2>2. torn' \in BOOLEAN /\ writeMu' \in Calls \cup {Reader, NoCall}
    BY ZenonT(30), <1>4 DEF WriteError, TypeOK
  <2>3. QED
    BY ZenonT(30), <1>4, <2>1, <2>2 DEF WriteError, TypeOK, Place
<1>5. CASE WriteFailed(p)
  <2>1. pc' \in [Calls -> Place] /\ result' \in [Calls -> Outcome]
    BY <1>5, <1>b, <1>d DEF WriteFailed
  <2>2. /\ pending' \in [Ids -> Calls \cup {NoCall}] /\ closed' \in BOOLEAN
        /\ toFail' \subseteq Calls /\ failPc' \in {"none", "close", "notify"}
    BY <1>5, FailTypeOK DEF WriteFailed, TypeOK
  <2>3. QED
    BY ZenonT(30), <1>5, <2>1, <2>2 DEF WriteFailed, TypeOK, Place, Outcome
<1>6. CASE Receive(p)
  <2>1. PICK r : /\ Give(p, r) /\ (r = "ctx" \/ r = chan[p])
                 /\ chan[p] # "empty" /\ chan' = [chan EXCEPT ![p] = "empty"]
    BY <1>6 DEF Receive
  <2>2. r \in Outcome
    BY <2>1, <1>d DEF TypeOK, Outcome
  <2>3. pc' \in [Calls -> Place] /\ result' \in [Calls -> Outcome]
    BY <2>1, <2>2, <1>b
  <2>4. chan' \in [Calls -> Calls \cup {"empty", "error"}]
    BY <2>1 DEF TypeOK
  <2>5. QED
    BY ZenonT(30), <1>6, <2>3, <2>4 DEF Receive, TypeOK, Place, Outcome
<1>7. CASE GiveUp(p)
  <2>1. pc' \in [Calls -> Place] /\ result' \in [Calls -> Outcome]
    BY <1>7, <1>b, <1>d DEF GiveUp
  <2>2. QED
    BY ZenonT(30), <1>7, <2>1 DEF GiveUp, TypeOK, Place, Outcome
<1>8. CASE Return(p)
  <2>1. pc' \in [Calls -> Place]
    BY <1>8, <1>a, <1>c DEF Return
  <2>2. pending' \in [Ids -> Calls \cup {NoCall}]
    BY ZenonT(30), <1>8 DEF Return, TypeOK
  <2>3. QED
    BY ZenonT(30), <1>8, <2>1, <2>2 DEF Return, TypeOK, Place
<1>9. CASE Cancel(p)
  <2>1. cancelled' \in [Calls -> BOOLEAN]
    BY <1>9 DEF Cancel, TypeOK
  <2>2. QED
    BY ZenonT(30), <1>9, <2>1 DEF Cancel, TypeOK
<1>10. QED
  BY <1>1, <1>2, <1>3, <1>4, <1>5, <1>6, <1>7, <1>8, <1>9 DEF CallStep

\* readLoop, dispatch, failAll and Close keep the types.
LEMMA ReaderTypeOK ==
  ASSUME TypeOK, readPc = "dispatch" => hand \in Calls \X Calls,
         ReadStep \/ FailStep \/ Close
  PROVE  TypeOK'
<1> USE DEF callVars, readVars, failVars, sendVars, peerVars
<1>1. CASE ReadResponse
  <2>1. /\ back' \in Seq(Calls \cup {SrvPing}) /\ Head(back) \in Calls
    BY <1>1 DEF ReadResponse, TypeOK
  <2>2. pending[IdOf(Head(back))] \in Calls \cup {NoCall}
    BY <2>1, IdType DEF TypeOK
  <2>3. /\ readPc' \in {"read", "dispatch", "pong", "ponging", "done"}
        /\ hand' \in (Calls \cup {NoCall}) \X (Calls \cup {NoCall})
        /\ pending' \in [Ids -> Calls \cup {NoCall}]
    BY <1>1, <2>1, <2>2 DEF ReadResponse, TypeOK
  <2>4. QED
    BY ZenonT(30), <1>1, <2>1, <2>3 DEF ReadResponse, TypeOK
<1>2. CASE Dispatch
  <2>1. hand' \in (Calls \cup {NoCall}) \X (Calls \cup {NoCall})
    BY <1>2 DEF Dispatch
  <2>2. chan' \in [Calls -> Calls \cup {"empty", "error"}]
    <3>1. hand[2] \in Calls /\ chan' = [chan EXCEPT ![hand[1]] = IF @ = "empty" THEN hand[2] ELSE @]
      BY Zenon, <1>2 DEF Dispatch, Offer
    <3>2. QED
      BY ZenonT(30), <3>1 DEF TypeOK
  <2>3. QED
    BY ZenonT(30), <1>2, <2>1, <2>2 DEF Dispatch, TypeOK
<1>3. CASE ReadPing
  <2>1. back' \in Seq(Calls \cup {SrvPing})
    BY <1>3 DEF ReadPing, TypeOK
  <2>2. QED
    BY ZenonT(30), <1>3, <2>1 DEF ReadPing, TypeOK
<1>4. CASE PongHead
  <2>a. <<Reader, "head">> \in Part /\ wire \in Seq(Part)
    BY DEF TypeOK, Part
  <2>b. wire' = wire \/ wire' = Append(wire, <<Reader, "head">>)
    BY <1>4 DEF PongHead
  <2>c. wire' \in Seq(Part)
    BY SMTT(30), <2>a, <2>b
  <2>1. /\ wire' \in Seq(Part) /\ writeMu' \in Calls \cup {Reader, NoCall}
        /\ readPc' \in {"read", "dispatch", "pong", "ponging", "done"}
    BY <1>4, <2>c DEF PongHead, TypeOK
  <2>2. QED
    BY ZenonT(30), <1>4, <2>1 DEF PongHead, TypeOK, Part
<1>5. CASE PongTail
  <2>a. <<Reader, "tail">> \in Part /\ wire \in Seq(Part)
    BY DEF TypeOK, Part
  <2>b. wire' = wire \/ wire' = Append(wire, <<Reader, "tail">>)
    BY <1>5 DEF PongTail
  <2>c. wire' \in Seq(Part)
    BY SMTT(30), <2>a, <2>b
  <2>1. torn' \in BOOLEAN
    BY Zenon, <1>5 DEF PongTail, TypeOK
  <2>2. QED
    BY ZenonT(30), <1>5, <2>c, <2>1 DEF PongTail, TypeOK, Part
<1>6. CASE ReadError
  <2>1. /\ pending' \in [Ids -> Calls \cup {NoCall}] /\ closed' \in BOOLEAN
        /\ toFail' \subseteq Calls /\ failPc' \in {"none", "close", "notify"}
    BY <1>6, FailTypeOK DEF ReadError
  <2>2. QED
    BY ZenonT(30), <1>6, <2>1 DEF ReadError, TypeOK
<1>7. CASE Close
  <2>1. /\ pending' \in [Ids -> Calls \cup {NoCall}] /\ closed' \in BOOLEAN
        /\ toFail' \subseteq Calls /\ failPc' \in {"none", "close", "notify"}
    BY <1>7, FailTypeOK DEF Close
  <2>2. QED
    BY ZenonT(30), <1>7, <2>1 DEF Close, TypeOK
<1>8. CASE FailClose
  BY ZenonT(30), <1>8 DEF FailClose, TypeOK
<1>9. CASE FailNotify
  <2>1. chan' \in [Calls -> Calls \cup {"empty", "error"}] /\ toFail' \subseteq Calls
    BY <1>9 DEF FailNotify, Offer, TypeOK
  <2>2. QED
    BY ZenonT(30), <1>9, <2>1 DEF FailNotify, TypeOK
<1>10. QED
  BY <1>1, <1>2, <1>3, <1>4, <1>5, <1>6, <1>7, <1>8, <1>9 DEF ReadStep, FailStep

\* The server and the network keep the types.
LEMMA PeerTypeOK == ASSUME TypeOK, ServerStep \/ Break PROVE TypeOK'
<1> USE DEF callVars, readVars, failVars, sendVars, peerVars
<1>1. CASE ServerRead
  <2>1. wire \in Seq(Part) /\ Len(wire) \in Nat /\ Len(wire) >= 2
    BY <1>1 DEF ServerRead, TypeOK, Part
  <2>2. SubSeq(wire, 3, Len(wire)) \in Seq(Part)
    BY <2>1
  <2>a. wire' \in Seq(Part)
    BY Zenon, <1>1, <2>1, <2>2 DEF ServerRead
  <2>b. got' \subseteq Calls
    <3>1. got' = got \/ (wire[1][1] \in Calls /\ got' = got \cup {wire[1][1]})
      BY <1>1 DEF ServerRead
    <3>2. QED
      BY <3>1 DEF TypeOK
  <2>3. broken' \in BOOLEAN
    BY Zenon, <1>1 DEF ServerRead, TypeOK
  <2>4. QED
    BY ZenonT(30), <1>1, <2>a, <2>b, <2>3 DEF ServerRead, TypeOK, Part
<1>2. ASSUME NEW q \in Calls, ServerReply(q) PROVE TypeOK'
  <2>1. got' \subseteq Calls /\ back' \in Seq(Calls \cup {SrvPing})
    BY <1>2 DEF ServerReply, TypeOK
  <2>2. QED
    BY ZenonT(30), <1>2, <2>1 DEF ServerReply, TypeOK
<1>3. CASE ServerPings
  <2>1. back' \in Seq(Calls \cup {SrvPing})
    BY <1>3 DEF ServerPings, TypeOK
  <2>2. QED
    BY ZenonT(30), <1>3, <2>1 DEF ServerPings, TypeOK
<1>4. CASE Break
  BY ZenonT(30), <1>4 DEF Break, TypeOK
<1>5. QED
  BY <1>1, <1>2, <1>3, <1>4 DEF ServerStep

-----------------------------------------------------------------------------
(* Delivery.  A call is known in one place at most: it is registered, or   *)
(* dispatch has it in hand, or failAll has it on its list, and as long as  *)
(* it is, nothing has been put into its channel.                           *)

\* What is in p's hands is an answer to p, or p shares its id with others.
Own(p, r) == r \in Calls => r = p \/ p \in Reused

Registered ==
  \A i \in Ids : pending[i] \in Calls =>
    /\ IdOf(pending[i]) = i
    /\ pc[pending[i]] # "idle" /\ chan[pending[i]] = "empty"
    /\ pending[i] \notin toFail

InHand ==
  readPc = "dispatch" =>
    /\ hand \in Calls \X Calls /\ Own(hand[1], hand[2])
    /\ pc[hand[1]] # "idle" /\ chan[hand[1]] = "empty" /\ hand[1] \notin toFail
    /\ \A i \in Ids : pending[i] # hand[1]

Listed == \A p \in toFail : pc[p] # "idle" /\ chan[p] = "empty"

Fresh == \A p \in Calls : pc[p] = "idle" => chan[p] = "empty"

Owned == \A p \in Calls : Own(p, chan[p]) /\ Own(p, result[p])

Delivery == Registered /\ InHand /\ Listed /\ Fresh /\ Owned

\* NewStream starts with nothing to deliver.
LEMMA InitDelivery == Init => Delivery
BY StreamConstants DEF Init, Delivery, Registered, InHand, Listed, Fresh, Owned, Own

\* Steps that register nothing, dispatch nothing and put nothing into a channel.
LEMMA PassiveStep ==
  ASSUME TypeOK, TypeOK', Delivery, UNCHANGED sc,
         \A i \in Ids : pending'[i] = pending[i] \/ pending'[i] = NoCall,
         \A p \in Calls : chan'[p] = chan[p] \/ chan'[p] = "empty",
         \A p \in Calls : pc'[p] = "idle" => pc[p] = "idle",
         \A p \in Calls : \/ result'[p] = result[p] \/ result'[p] = chan[p]
                          \/ result'[p] \notin Calls,
         toFail' \subseteq toFail,
         readPc' = "dispatch" => readPc = "dispatch" /\ hand' = hand
  PROVE  Delivery'
<1>a. \A p \in Calls : IdOf(p)' = IdOf(p) /\ (p \in Reused' <=> p \in Reused)
  BY DEF IdOf, Reused, Of
<1>b. Ids' = Ids
  BY DEF Ids
<1>c. NoCall \notin Calls /\ "empty" \notin Calls
  BY Zenon, StreamConstants
<1>1. Registered'
  <2>1. ASSUME NEW i \in Ids, pending'[i] \in Calls
        PROVE  /\ IdOf(pending[i])' = i /\ pending'[i] = pending[i]
               /\ pc'[pending[i]] # "idle" /\ chan'[pending[i]] = "empty"
               /\ pending[i] \notin toFail'
    BY <2>1, <1>a, <1>c DEF Delivery, Registered
  <2>2. QED
    BY Zenon, <2>1, <1>a, <1>b DEF Registered
<1>2. InHand'
  <2>1. CASE readPc' # "dispatch"
    BY <2>1 DEF InHand
  <2>2. CASE readPc' = "dispatch"
    <3>1. readPc = "dispatch" /\ hand' = hand /\ hand \in Calls \X Calls
      BY Zenon, <2>2 DEF Delivery, InHand
    <3>2. hand[1] \in Calls /\ hand[1] # NoCall
      BY <3>1, <1>c
    <3>3. Own(hand[1], hand[2])'
      BY Zenon, <3>1, <3>2, <1>a DEF Delivery, InHand, Own
    <3>4. QED
      BY Zenon, <3>1, <3>2, <3>3, <1>b DEF Delivery, InHand
  <2>3. QED
    BY <2>1, <2>2
<1>3. Listed'
  BY Zenon DEF Delivery, Listed, TypeOK
<1>4. Fresh'
  BY Zenon DEF Delivery, Fresh
<1>5. Owned'
  BY <1>a, <1>c DEF Delivery, Owned, Own
<1>6. QED
  BY <1>1, <1>2, <1>3, <1>4, <1>5 DEF Delivery

\* failAll moves all that are registered to its list.
LEMMA FailDelivery ==
  ASSUME TypeOK, TypeOK', Delivery, UNCHANGED <<sc, chan, hand>>, FailAll,
         \A p \in Calls : pc'[p] = "idle" => pc[p] = "idle",
         \A p \in Calls : result'[p] = result[p] \/ result'[p] \notin Calls,
         readPc' = "dispatch" => readPc = "dispatch"
  PROVE  Delivery'
<1>1. CASE closed
  BY <1>1, PassiveStep DEF FailAll, failVars
<1>2. CASE ~closed
  <2>a. \A p \in Calls : p \in Reused' <=> p \in Reused
    BY DEF Reused, Of
  <2>b. /\ toFail' = {pending[i] : i \in Ids} \ {NoCall}
        /\ pending' = [i \in Ids |-> NoCall] /\ Ids' = Ids
    BY <1>2 DEF FailAll, Ids
  <2>c. NoCall \notin Calls
    BY StreamConstants
  <2>1. Registered'
    BY Zenon, <2>b, <2>c DEF Registered
  <2>2. ASSUME NEW p \in toFail'
        PROVE  /\ p \in Calls /\ pc'[p] # "idle" /\ chan[p] = "empty"
               /\ (readPc = "dispatch" => p # hand[1])
    <3>1. PICK i \in Ids : p = pending[i]
      BY Zenon, <2>b, <2>2
    <3>2. p \in Calls
      BY <2>2 DEF TypeOK
    <3>3. QED
      BY <3>1, <3>2 DEF Delivery, Registered, InHand
  <2>3. InHand'
    <3>1. CASE readPc' # "dispatch"
      BY Zenon, <3>1 DEF InHand
    <3>2. CASE readPc' = "dispatch"
      <4>1. readPc = "dispatch" /\ hand' = hand /\ hand \in Calls \X Calls
        BY <3>2 DEF Delivery, InHand
      <4>2. hand[1] \in Calls /\ hand[1] # NoCall
        BY <4>1, <2>c
      <4>3. Own(hand[1], hand[2])'
        BY <4>1, <4>2, <2>a DEF Delivery, InHand, Own
      <4>4. \A i \in Ids : pending'[i] # hand[1]
        BY <2>b, <4>2
      <4>5. hand[1] \notin toFail'
        BY <2>2, <4>1
      <4>6. QED
        BY Zenon, <4>1, <4>2, <4>3, <4>4, <4>5, <2>b DEF Delivery, InHand
    <3>3. QED
      BY <3>1, <3>2
  <2>4. Listed'
    BY <2>2 DEF Listed
  <2>5. Fresh'
    BY DEF Delivery, Fresh
  <2>6. Owned'
    BY <2>a DEF Delivery, Owned, Own
  <2>7. QED
    BY <2>1, <2>3, <2>4, <2>5, <2>6 DEF Delivery
<1>3. QED
  BY Zenon, <1>1, <1>2

\* Registration: an idle call is nowhere yet.
LEMMA RegisterDelivery ==
  ASSUME TypeOK, TypeOK', Delivery, UNCHANGED <<sc, chan, hand, readPc, toFail, result>>,
         NEW p \in Calls, pc[p] = "idle", To(p, "write"),
         pending' = [pending EXCEPT ![IdOf(p)] = p]
  PROVE  Delivery'
<1>a. \A q \in Calls : IdOf(q)' = IdOf(q) /\ (q \in Reused' <=> q \in Reused)
  BY DEF IdOf, Reused, Of
<1>b. Ids' = Ids /\ IdOf(p) \in Ids
  BY Zenon, IdType DEF Ids
<1>c. /\ pending'[IdOf(p)] = p /\ \A i \in Ids : i # IdOf(p) => pending'[i] = pending[i]
      /\ pc'[p] = "write" /\ \A q \in Calls : q # p => pc'[q] = pc[q]
  BY <1>b DEF TypeOK, To
<1>d. chan[p] = "empty" /\ p \notin toFail
  BY Zenon DEF Delivery, Fresh, Listed
<1>1. Registered'
  <2>1. ASSUME NEW i \in Ids, pending'[i] \in Calls
        PROVE  /\ IdOf(pending'[i]) = i /\ pc'[pending'[i]] # "idle"
               /\ chan[pending'[i]] = "empty" /\ pending'[i] \notin toFail
    <3>1. CASE i = IdOf(p)
      BY Zenon, <3>1, <1>c, <1>d
    <3>2. CASE i # IdOf(p)
      BY <3>2, <2>1, <1>c DEF Delivery, Registered
    <3>3. QED
      BY Zenon, <3>1, <3>2
  <2>2. QED
    BY Zenon, <2>1, <1>a, <1>b DEF Registered
<1>2. InHand'
  <2>1. CASE readPc = "dispatch"
    <3>1. hand \in Calls \X Calls /\ hand[1] \in Calls /\ hand[1] # p
      BY Zenon, <2>1 DEF Delivery, InHand
    <3>2. Own(hand[1], hand[2])'
      BY Zenon, <2>1, <3>1, <1>a DEF Delivery, InHand, Own
    <3>3. \A i \in Ids : pending'[i] # hand[1]
      BY Zenon, <2>1, <3>1, <1>c DEF Delivery, InHand
    <3>4. QED
      BY Zenon, <2>1, <3>1, <3>2, <3>3, <1>b, <1>c DEF Delivery, InHand
  <2>2. CASE readPc # "dispatch"
    BY Zenon, <2>2 DEF InHand
  <2>3. QED
    BY Zenon, <2>1, <2>2
<1>3. Listed'
  BY Zenon, <1>c, <1>d DEF Delivery, Listed, TypeOK
<1>4. Fresh'
  BY Zenon, <1>c DEF Delivery, Fresh
<1>5. Owned'
  BY Zenon, <1>a DEF Delivery, Owned, Own
<1>6. QED
  BY Zenon, <1>1, <1>2, <1>3, <1>4, <1>5 DEF Delivery

\* A result is put into the channel of a call that is waited for nowhere else.
LEMMA PutDelivery ==
  ASSUME TypeOK, TypeOK', Delivery, UNCHANGED <<sc, pending, pc, result>>,
         NEW p \in Calls, NEW r, Own(p, r), pc[p] # "idle",
         chan' = [chan EXCEPT ![p] = r],
         \A i \in Ids : pending[i] # p,
         toFail' \subseteq toFail \ {p},
         readPc' = "dispatch" => readPc = "dispatch" /\ hand' = hand /\ hand[1] # p
  PROVE  Delivery'
<1>a. \A q \in Calls : IdOf(q)' = IdOf(q) /\ (q \in Reused' <=> q \in Reused)
  BY Zenon DEF IdOf, Reused, Of
<1>b. Ids' = Ids
  BY Zenon DEF Ids
<1>c. chan'[p] = r /\ \A q \in Calls : q # p => chan'[q] = chan[q]
  BY DEF TypeOK
<1>1. Registered'
  BY Zenon, <1>a, <1>b, <1>c DEF Delivery, Registered
<1>2. InHand'
  <2>1. CASE readPc' = "dispatch"
    <3>1. /\ readPc = "dispatch" /\ hand' = hand /\ hand \in Calls \X Calls
          /\ hand[1] \in Calls /\ hand[1] # p
      BY Zenon, <2>1 DEF Delivery, InHand
    <3>2. Own(hand[1], hand[2])'
      BY Zenon, <3>1, <1>a DEF Delivery, InHand, Own
    <3>3. QED
      BY Zenon, <3>1, <3>2, <1>b, <1>c DEF Delivery, InHand
  <2>2. CASE readPc' # "dispatch"
    BY Zenon, <2>2 DEF InHand
  <2>3. QED
    BY Zenon, <2>1, <2>2
<1>3. Listed'
  BY Zenon, <1>c DEF Delivery, Listed, TypeOK
<1>4. Fresh'
  BY Zenon, <1>c DEF Delivery, Fresh
<1>5. Owned'
  BY <1>a, <1>c DEF Delivery, Owned, Own
<1>6. QED
  BY Zenon, <1>1, <1>2, <1>3, <1>4, <1>5 DEF Delivery

\* dispatch takes a registered call in hand, with an answer to its id.
LEMMA TakeDelivery ==
  ASSUME TypeOK, TypeOK', Delivery, UNCHANGED <<sc, chan, pc, result, toFail>>,
         NEW q \in Calls, pending[IdOf(q)] # NoCall,
         hand' = <<pending[IdOf(q)], q>>,
         pending' = [pending EXCEPT ![IdOf(q)] = NoCall]
  PROVE  Delivery'
<1>a. \A c \in Calls : IdOf(c)' = IdOf(c) /\ (c \in Reused' <=> c \in Reused)
  BY Zenon DEF IdOf, Reused, Of
<1>b. Ids' = Ids /\ IdOf(q) \in Ids /\ NoCall \notin Calls
  BY Zenon, IdType, StreamConstants DEF Ids
<1> DEFINE p == pending[IdOf(q)]
<1>c. p \in Calls /\ IdOf(p) = IdOf(q)
  BY Zenon, <1>b DEF TypeOK, Delivery, Registered
<1>d. /\ pending'[IdOf(q)] = NoCall
      /\ \A i \in Ids : i # IdOf(q) => pending'[i] = pending[i]
  BY Zenon, <1>b DEF TypeOK
<1>1. Registered'
  BY <1>a, <1>b, <1>d DEF Delivery, Registered
<1>2. InHand'
  <2>1. hand' \in Calls \X Calls /\ hand'[1] = p /\ hand'[2] = q
    BY Zenon, <1>c
  <2>2. q = p \/ p \in Reused'
    BY Zenon, <1>a, <1>c, StreamConstants DEF IdOf
  <2>3. pc[p] # "idle" /\ chan[p] = "empty" /\ p \notin toFail
    BY Zenon, <1>b, <1>c DEF Delivery, Registered
  <2>4. \A i \in Ids : pending'[i] # p
    BY <1>b, <1>c, <1>d DEF Delivery, Registered
  <2>5. Own(hand[1], hand[2])'
    BY Zenon, <2>1, <2>2 DEF Own
  <2> HIDE DEF p
  <2>6. QED
    BY Zenon, <2>1, <2>3, <2>4, <2>5, <1>b DEF InHand
<1>3. Listed'
  BY Zenon DEF Delivery, Listed
<1>4. Fresh'
  BY Zenon DEF Delivery, Fresh
<1>5. Owned'
  BY Zenon, <1>a DEF Delivery, Owned, Own
<1>6. QED
  BY Zenon, <1>1, <1>2, <1>3, <1>4, <1>5 DEF Delivery

\* A call keeps the state of delivery: it registers first and withdraws what
\* it registered.
LEMMA CallDelivery ==
  ASSUME TypeOK, TypeOK', Delivery, UNCHANGED sc, NEW p \in Calls,
         CallBegin(p) \/ CallStep(p) \/ Cancel(p)
  PROVE  Delivery'
<1> USE DEF callVars, readVars, failVars, sendVars, peerVars
<1>a. \A r \in {"ctx", "error", "sent", "closed", "duplicate"} : r \notin Calls
  BY Zenon, StreamConstants
<1>b. \A l : To(p, l) /\ l # "idle" =>
          \A q \in Calls : pc'[q] = "idle" => pc[q] = "idle"
  BY Zenon DEF To, TypeOK
<1>c. \A r : result' = [result EXCEPT ![p] = r] =>
          result'[p] = r /\ \A q \in Calls : q # p => result'[q] = result[q]
  BY DEF TypeOK
<1>1. CASE CallBegin(p)
  <2>1. CASE pending' = pending
    <3>1. \A q \in Calls : result'[q] = result[q] \/ result'[q] \notin Calls
      BY Zenon, <1>1, <1>a, <1>c DEF CallBegin
    <3>2. \A q \in Calls : pc'[q] = "idle" => pc[q] = "idle"
      BY Zenon, <1>1, <1>b DEF CallBegin
    <3>3. UNCHANGED <<chan, toFail, readPc, hand>>
      BY Zenon, <1>1 DEF CallBegin
    <3>4. QED
      BY <2>1, <3>1, <3>2, <3>3, PassiveStep
  <2>2. CASE pending' # pending
    <3>1. /\ pc[p] = "idle" /\ To(p, "write") /\ UNCHANGED <<chan, hand, readPc, toFail, result>>
          /\ pending' = [pending EXCEPT ![IdOf(p)] = p]
      BY Zenon, <1>1, <2>2 DEF CallBegin
    <3>2. QED
      BY ZenonT(30), <3>1, RegisterDelivery
  <2>3. QED
    BY <2>1, <2>2
<1>2. CASE WriteHead(p) \/ WriteTail(p) \/ WriteError(p) \/ GiveUp(p) \/ Cancel(p)
  <2>1. UNCHANGED <<pending, chan, toFail, readPc, hand>>
    BY Zenon, <1>2 DEF WriteHead, WriteTail, WriteError, GiveUp, Cancel
  <2>2. \A q \in Calls : pc'[q] = "idle" => pc[q] = "idle"
    BY Zenon, <1>2, <1>b DEF WriteHead, WriteTail, WriteError, GiveUp, Cancel, Written, Give
  <2>3. \A q \in Calls : result'[q] = result[q] \/ result'[q] \notin Calls
    BY ZenonT(30), <1>2, <1>a, <1>c DEF WriteHead, WriteTail, WriteError, GiveUp, Cancel, Written, Give
  <2>4. QED
    BY Zenon, <2>1, <2>2, <2>3, PassiveStep
<1>3. CASE WriteFailed(p)
  <2>1. UNCHANGED <<chan, readPc, hand>>
    BY ZenonT(30), <1>3 DEF WriteFailed
  <2>2. \A q \in Calls : pc'[q] = "idle" => pc[q] = "idle"
    BY ZenonT(30), <1>3, <1>b DEF WriteFailed, Give
  <2>3. \A q \in Calls : result'[q] = result[q] \/ result'[q] \notin Calls
    BY Zenon, <1>3, <1>a, <1>c DEF WriteFailed, Give
  <2>4. CASE FailAll
    BY Zenon, <2>1, <2>2, <2>3, <2>4, FailDelivery
  <2>5. CASE UNCHANGED <<toFail, pending>>
    BY Zenon, <2>1, <2>2, <2>3, <2>5, PassiveStep
  <2>6. QED
    BY Zenon, <1>3, <2>4, <2>5 DEF WriteFailed
<1>4. CASE Receive(p)
  <2>1. UNCHANGED <<pending, toFail, readPc, hand>>
    BY Zenon, <1>4 DEF Receive
  <2>2. \A q \in Calls : chan'[q] = chan[q] \/ chan'[q] = "empty"
    BY Zenon, <1>4 DEF Receive, TypeOK
  <2>3. \A q \in Calls : pc'[q] = "idle" => pc[q] = "idle"
    BY Zenon, <1>4, <1>b DEF Receive, Give
  <2>4. \A q \in Calls : \/ result'[q] = result[q] \/ result'[q] = chan[q]
                         \/ result'[q] \notin Calls
    BY Zenon, <1>4, <1>a, <1>c DEF Receive, Give
  <2>5. QED
    BY Zenon, <2>1, <2>2, <2>3, <2>4, PassiveStep
<1>5. CASE Return(p)
  <2>1. UNCHANGED <<chan, result, toFail, readPc, hand>>
    BY Zenon, <1>5 DEF Return
  <2>2. \A i \in Ids : pending'[i] = pending[i] \/ pending'[i] = NoCall
    BY Zenon, <1>5 DEF Return, TypeOK
  <2>3. \A q \in Calls : pc'[q] = "idle" => pc[q] = "idle"
    BY <1>5, <1>b DEF Return
  <2>4. QED
    BY Zenon, <2>1, <2>2, <2>3, PassiveStep
<1>6. QED
  BY Zenon, <1>1, <1>2, <1>3, <1>4, <1>5 DEF CallStep

\* dispatch and failAll keep it: who takes an entry out of pending is alone
\* to send.
LEMMA ReaderDelivery ==
  ASSUME TypeOK, TypeOK', Delivery, UNCHANGED sc,
         ReadStep \/ FailStep \/ Close \/ ServerStep \/ Break
  PROVE  Delivery'
<1> USE DEF callVars, readVars, failVars, sendVars, peerVars
<1>1. CASE ReadResponse
  <2>1. Head(back) \in Calls
    BY <1>1 DEF ReadResponse, TypeOK
  <2>2. UNCHANGED <<chan, pc, result, toFail>>
    BY <1>1 DEF ReadResponse
  <2>3. CASE pending[IdOf(Head(back))] = NoCall
    BY <1>1, <2>2, <2>3, PassiveStep DEF ReadResponse
  <2>4. CASE pending[IdOf(Head(back))] # NoCall
    BY <1>1, <2>1, <2>2, <2>4, TakeDelivery DEF ReadResponse
  <2>5. QED
    BY Zenon, <2>3, <2>4
<1>2. CASE Dispatch
  <2>1. /\ readPc = "dispatch" /\ readPc' = "read" /\ UNCHANGED <<pending, pc, result, toFail>>
        /\ chan' = [chan EXCEPT ![hand[1]] = IF @ = "empty" THEN hand[2] ELSE @]
    BY <1>2 DEF Dispatch, Offer
  <2>2. /\ hand[1] \in Calls /\ Own(hand[1], hand[2]) /\ chan[hand[1]] = "empty"
        /\ pc[hand[1]] # "idle" /\ hand[1] \notin toFail
        /\ \A i \in Ids : pending[i] # hand[1]
    BY Zenon, <2>1 DEF Delivery, InHand
  <2>3. chan' = [chan EXCEPT ![hand[1]] = hand[2]]
    BY Zenon, <2>1, <2>2 DEF TypeOK
  <2>4. QED
    BY ZenonT(30), <2>1, <2>2, <2>3, PutDelivery
<1>3. CASE ReadPing \/ PongHead \/ PongTail \/ FailClose \/ ServerStep \/ Break
  <2>1. UNCHANGED <<pending, chan, pc, result, toFail, hand>>
    BY ZenonT(30), <1>3 DEF ReadPing, PongHead, PongTail, FailClose, ServerStep, ServerRead, ServerReply,
       ServerPings, Break
  <2>2. readPc' = "dispatch" => readPc = "dispatch"
    BY ZenonT(30), <1>3 DEF ReadPing, PongHead, PongTail, FailClose, ServerStep, ServerRead, ServerReply,
       ServerPings, Break
  <2>3. QED
    BY SMTT(30), <2>1, <2>2, PassiveStep
<1>4. CASE ReadError \/ Close
  <2>1. UNCHANGED <<chan, hand, pc, result>> /\ FailAll
    BY ZenonT(30), <1>4 DEF ReadError, Close
  <2>2. readPc' = "dispatch" => readPc = "dispatch"
    BY <1>4 DEF ReadError, Close
  <2>3. QED
    BY SMTT(30), <2>1, <2>2, FailDelivery
<1>5. CASE FailNotify
  <2>1. PICK p \in toFail : Offer(p, "error") /\ toFail' = toFail \ {p}
    BY Zenon, <1>5 DEF FailNotify
  <2>2. UNCHANGED <<pending, pc, result, readPc, hand>>
    BY Zenon, <1>5 DEF FailNotify
  <2>3. p \in Calls /\ pc[p] # "idle" /\ chan[p] = "empty"
    BY Zenon, <2>1 DEF TypeOK, Delivery, Listed
  <2>4. chan' = [chan EXCEPT ![p] = "error"]
    BY Zenon, <2>1, <2>3 DEF Offer, TypeOK
  <2>5. /\ \A i \in Ids : pending[i] # p
        /\ readPc = "dispatch" => hand[1] # p
    BY Zenon, <2>1, <2>3 DEF Delivery, Registered, InHand
  <2>6. Own(p, "error")
    BY StreamConstants DEF Own
  <2>7. QED
    BY ZenonT(30), <2>1, <2>2, <2>3, <2>4, <2>5, <2>6, PutDelivery
<1>6. QED
  BY <1>1, <1>2, <1>3, <1>4, <1>5 DEF ReadStep, FailStep

-----------------------------------------------------------------------------
(* Frames.  writeMu belongs to whoever is in the middle of a frame, and    *)
(* that frame is the last on the wire.                                     *)

Holder ==
  /\ \A p \in Calls : pc[p] = "writing" <=> writeMu = p
  /\ readPc = "ponging" <=> writeMu = Reader

LastFrame ==
  ~torn => /\ writeMu = NoCall => Len(wire) % 2 = 0
           /\ writeMu # NoCall => Len(wire) % 2 = 1 /\ wire[Len(wire)][1] = writeMu

Frames == Holder /\ LastFrame /\ FramesWhole

\* What appending to a sequence, and dropping two elements, does to it.
LEMMA Extended ==
  ASSUME NEW S, NEW s \in Seq(S), NEW x \in S
  PROVE  /\ Len(s) \in Nat /\ Len(Append(s, x)) = Len(s) + 1 /\ Append(s, x)[Len(s) + 1] = x
         /\ \A i \in 1..Len(s) : Append(s, x)[i] = s[i]
OBVIOUS

\* Without its first two elements a sequence has the others, in order.
LEMMA Shortened ==
  ASSUME NEW S, NEW s \in Seq(S), Len(s) >= 2
  PROVE  /\ Len(s) \in Nat /\ Len(SubSeq(s, 3, Len(s))) = Len(s) - 2
         /\ \A i \in 1..(Len(s) - 2) : SubSeq(s, 3, Len(s))[i] = s[i + 2]
<1>0. Len(s) \in Nat
  OBVIOUS
<1>1. Len(s) \in Nat /\ 3 \in Int /\ \A i \in 3..Len(s) : s[i] \in S
  OBVIOUS
<1>2. /\ Len(SubSeq(s, 3, Len(s))) = IF 3 <= Len(s) THEN Len(s) - 3 + 1 ELSE 0
      /\ \A i \in 1..(Len(s) - 3 + 1) : SubSeq(s, 3, Len(s))[i] = s[3 + i - 1]
  BY <1>1, SubSeqProperties
<1>3. Len(s) - 3 + 1 = Len(s) - 2 /\ \A i \in 1..(Len(s) - 2) : 3 + i - 1 = i + 2
  BY <1>0
<1>4. Len(SubSeq(s, 3, Len(s))) = Len(s) - 2
  <2>1. CASE 3 <= Len(s)
    <3>1. Len(SubSeq(s, 3, Len(s))) = Len(s) - 3 + 1
      BY Zenon, <1>2, <2>1
    <3>2. QED
      BY Zenon, <1>3, <3>1
  <2>2. CASE ~(3 <= Len(s))
    <3>1. Len(SubSeq(s, 3, Len(s))) = 0
      BY Zenon, <1>2, <2>2
    <3>a. \A n \in Nat : n >= 2 /\ ~(3 <= n) => n = 2
      OBVIOUS
    <3>2. Len(s) = 2
      BY Zenon, <3>a, <1>0, <2>2
    <3>3. 0 = Len(s) - 2
      BY <3>2
    <3>4. QED
      BY Zenon, <3>1, <3>3
  <2>3. QED
    BY <2>1, <2>2
<1>5. ASSUME NEW i \in 1..(Len(s) - 2) PROVE SubSeq(s, 3, Len(s))[i] = s[i + 2]
  <2>1. i \in 1..(Len(s) - 3 + 1)
    BY <1>3
  <2>2. SubSeq(s, 3, Len(s))[i] = s[3 + i - 1]
    BY Zenon, <2>1, <1>2
  <2>3. QED
    BY Zenon, <2>2, <1>3
<1>6. QED
  BY Zenon, <1>1, <1>4, <1>5

\* A position is odd or even, and the next one is the other.
LEMMA Parity ==
  ASSUME NEW n \in Nat
  PROVE  n % 2 \in {0, 1} /\ (n + 1) % 2 = 1 - (n % 2) /\ (n + 2) % 2 = n % 2
OBVIOUS

\* Nothing has been written on a new stream.
LEMMA InitFrames == Init => Frames
<1> SUFFICES ASSUME Init PROVE Frames
  OBVIOUS
<1>1. wire = <<>> /\ Len(wire) = 0 /\ writeMu = NoCall /\ readPc = "read"
  BY Zenon DEF Init
<1>2. Holder
  BY Zenon, <1>1, StreamConstants DEF Init, Holder
<1>3. LastFrame /\ FramesWhole
  BY <1>1 DEF LastFrame, FramesWhole
<1>4. QED
  BY <1>2, <1>3 DEF Frames

\* The first half of a frame, written by whoever has just taken writeMu.
LEMMA HeadFrames ==
  ASSUME TypeOK, Frames, NEW o \in Calls \cup {Reader}, writeMu = NoCall, writeMu' = o,
         torn' = torn, wire' = Append(wire, <<o, "head">>)
  PROVE  LastFrame' /\ FramesWhole'
<1>1. CASE torn
  BY Zenon, <1>1 DEF LastFrame, FramesWhole
<1>2. CASE ~torn
  <2>0. wire \in Seq(Part) /\ <<o, "head">> \in Part
    BY Zenon DEF TypeOK, Part
  <2>1. /\ Len(wire) \in Nat /\ Len(wire') = Len(wire) + 1 /\ Len(wire) % 2 = 0
        /\ wire'[Len(wire) + 1] = <<o, "head">>
        /\ \A i \in 1..Len(wire) : wire'[i] = wire[i]
    <3>1. Len(wire) % 2 = 0
      BY Zenon, <1>2 DEF Frames, LastFrame
    <3>2. QED
      BY ZenonT(30), <2>0, <3>1, Extended
  <2>2. (Len(wire) + 1) % 2 = 1
    BY <2>1, Parity
  <2>3. LastFrame'
    BY <2>1, <2>2, StreamConstants DEF LastFrame
  <2>4. ASSUME NEW i \in 1..Len(wire')
        PROVE  /\ wire'[i][2] = IF i % 2 = 1 THEN "head" ELSE "tail"
               /\ i % 2 = 0 => wire'[i][1] = wire'[i - 1][1]
    <3>1. CASE i = Len(wire) + 1
      BY <3>1, <2>1, <2>2
    <3>2. CASE i \in 1..Len(wire)
      <4>1. /\ wire[i][2] = IF i % 2 = 1 THEN "head" ELSE "tail"
            /\ i % 2 = 0 => wire[i][1] = wire[i - 1][1]
        BY <1>2, <3>2 DEF Frames, FramesWhole
      <4>2. i % 2 = 0 => i # 1
        OBVIOUS
      <4>3. i % 2 = 0 => i - 1 \in 1..Len(wire)
        BY <4>2, <3>2, <2>1
      <4>4. QED
        BY Zenon, <4>1, <4>3, <3>2, <2>1
    <3>3. i = Len(wire) + 1 \/ i \in 1..Len(wire)
      BY <2>1
    <3>4. QED
      BY Zenon, <3>1, <3>2, <3>3
  <2>5. QED
    BY Zenon, <2>3, <2>4 DEF FramesWhole
<1>3. QED
  BY Zenon, <1>1, <1>2

\* The second half, written by the holder of writeMu.
LEMMA TailFrames ==
  ASSUME TypeOK, Frames, NEW o \in Calls \cup {Reader}, writeMu = o, writeMu' = NoCall,
         torn' = torn, wire' = Append(wire, <<o, "tail">>)
  PROVE  LastFrame' /\ FramesWhole'
<1>1. CASE torn
  BY Zenon, <1>1 DEF LastFrame, FramesWhole
<1>2. CASE ~torn
  <2>a. o # NoCall
    BY Zenon, StreamConstants
  <2>0. wire \in Seq(Part) /\ <<o, "tail">> \in Part
    BY Zenon DEF TypeOK, Part
  <2>1. /\ Len(wire) \in Nat /\ Len(wire') = Len(wire) + 1 /\ Len(wire) % 2 = 1
        /\ wire[Len(wire)][1] = o /\ wire'[Len(wire) + 1] = <<o, "tail">>
        /\ \A i \in 1..Len(wire) : wire'[i] = wire[i]
    <3>1. Len(wire) % 2 = 1 /\ wire[Len(wire)][1] = o
      BY Zenon, <1>2, <2>a DEF Frames, LastFrame
    <3>2. QED
      BY <2>0, <3>1, Extended
  <2>2. (Len(wire) + 1) % 2 = 0 /\ Len(wire) \in 1..Len(wire)
    BY <2>1, Parity
  <2>3. LastFrame'
    BY <2>1, <2>2 DEF LastFrame
  <2>4. ASSUME NEW i \in 1..Len(wire')
        PROVE  /\ wire'[i][2] = IF i % 2 = 1 THEN "head" ELSE "tail"
               /\ i % 2 = 0 => wire'[i][1] = wire'[i - 1][1]
    <3>1. CASE i = Len(wire) + 1
      BY <3>1, <2>1, <2>2
    <3>2. CASE i \in 1..Len(wire)
      <4>1. /\ wire[i][2] = IF i % 2 = 1 THEN "head" ELSE "tail"
            /\ i % 2 = 0 => wire[i][1] = wire[i - 1][1]
        BY Zenon, <1>2, <3>2 DEF Frames, FramesWhole
      <4>2. i % 2 = 0 => i # 1
        OBVIOUS
      <4>3. i % 2 = 0 => i - 1 \in 1..Len(wire)
        BY <4>2, <3>2, <2>1
      <4>4. QED
        BY Zenon, <4>1, <4>3, <3>2, <2>1
    <3>3. i = Len(wire) + 1 \/ i \in 1..Len(wire)
      BY <2>1
    <3>4. QED
      BY Zenon, <3>1, <3>2, <3>3
  <2>5. QED
    BY Zenon, <2>3, <2>4 DEF FramesWhole
<1>3. QED
  BY Zenon, <1>1, <1>2

\* The server takes a whole frame off the front of the wire.
LEMMA TakenFrames ==
  ASSUME TypeOK, Frames, UNCHANGED <<writeMu, torn>>, Len(wire) >= 2,
         wire' = SubSeq(wire, 3, Len(wire))
  PROVE  LastFrame' /\ FramesWhole'
<1>1. CASE torn
  BY <1>1 DEF LastFrame, FramesWhole
<1>2. CASE ~torn
  <2>1. /\ Len(wire) \in Nat /\ Len(wire') = Len(wire) - 2
        /\ \A i \in 1..Len(wire') : wire'[i] = wire[i + 2]
    <3>1. wire \in Seq(Part)
      BY Zenon DEF TypeOK, Part
    <3>2. QED
      BY Zenon, <3>1, Shortened
  <2>2. Len(wire') \in Nat /\ Len(wire') + 2 = Len(wire)
    BY <2>1
  <2>3. Len(wire') % 2 = Len(wire) % 2
    BY Zenon, <2>2, Parity
  <2>4. LastFrame'
    <3>1. CASE writeMu = NoCall
      BY Zenon, <1>2, <3>1, <2>3 DEF Frames, LastFrame
    <3>2. CASE writeMu # NoCall
      <4>1. Len(wire) % 2 = 1 /\ wire[Len(wire)][1] = writeMu
        BY Zenon, <1>2, <3>2 DEF Frames, LastFrame
      <4>2. Len(wire') # 0
        BY <4>1, <2>3
      <4>3. Len(wire') \in 1..Len(wire')
        BY <4>2, <2>2
      <4>4. wire'[Len(wire')] = wire[Len(wire)]
        BY Zenon, <4>3, <2>1, <2>2
      <4>5. QED
        BY Zenon, <3>2, <4>1, <4>4, <2>3 DEF LastFrame
    <3>3. QED
      BY <3>1, <3>2
  <2>5. ASSUME NEW i \in 1..Len(wire')
        PROVE  /\ wire'[i][2] = IF i % 2 = 1 THEN "head" ELSE "tail"
               /\ i % 2 = 0 => wire'[i][1] = wire'[i - 1][1]
    <3>1. i \in Nat /\ i + 2 \in 1..Len(wire) /\ wire'[i] = wire[i + 2]
      BY <2>1, <2>2
    <3>2. (i + 2) % 2 = i % 2
      BY Zenon, <3>1, Parity
    <3>3. /\ wire[i + 2][2] = IF i % 2 = 1 THEN "head" ELSE "tail"
          /\ i % 2 = 0 => wire[i + 2][1] = wire[(i + 2) - 1][1]
      BY Zenon, <1>2, <3>1, <3>2 DEF Frames, FramesWhole
    <3>4. i % 2 = 0 => i # 1
      OBVIOUS
    <3>5. i % 2 = 0 => i - 1 \in 1..Len(wire') /\ (i - 1) + 2 = (i + 2) - 1
      BY <3>4, <3>1, <2>2
    <3>6. i % 2 = 0 => wire'[i - 1] = wire[(i + 2) - 1]
      BY Zenon, <3>5, <2>1
    <3>7. QED
      BY Zenon, <3>1, <3>3, <3>6
  <2>6. QED
    BY Zenon, <2>4, <2>5 DEF FramesWhole
<1>3. QED
  BY Zenon, <1>1, <1>2

\* Steps that write nothing.
LEMMA SilentFrames ==
  ASSUME Frames, UNCHANGED <<writeMu, torn, wire>>,
         \A p \in Calls : pc'[p] = "writing" <=> pc[p] = "writing",
         readPc' = "ponging" <=> readPc = "ponging"
  PROVE  Frames'
BY Zenon DEF Frames, Holder, LastFrame, FramesWhole

\* A call keeps frames whole: it writes both parts under writeMu.
LEMMA CallFrames ==
  ASSUME TypeOK, Frames, NEW p \in Calls, CallBegin(p) \/ CallStep(p) \/ Cancel(p)
  PROVE  Frames'
<1> USE DEF callVars, readVars, failVars, sendVars, peerVars
<1>a. \A l : To(p, l) => pc'[p] = l /\ \A q \in Calls : q # p => pc'[q] = pc[q]
  BY SMTT(30) DEF To, TypeOK
<1>b. \A l : To(p, l) /\ l # "writing" /\ pc[p] # "writing" =>
          \A q \in Calls : pc'[q] = "writing" <=> pc[q] = "writing"
  BY ZenonT(30), <1>a
<1>c. NoCall # p /\ Reader # p /\ NoCall # Reader
  BY SMTT(30), StreamConstants
<1>1. CASE CallBegin(p)
  BY ZenonT(30), <1>1, <1>b, SilentFrames DEF CallBegin
<1>2. CASE WriteHead(p)
  <2>1. LastFrame' /\ FramesWhole'
    BY Zenon, <1>2, HeadFrames DEF WriteHead
  <2>2. Holder'
    BY Zenon, <1>2, <1>a, <1>c, StreamConstants DEF WriteHead, Frames, Holder
  <2>3. QED
    BY Zenon, <2>1, <2>2 DEF Frames
<1>3. CASE WriteTail(p)
  <2>0. writeMu = p
    BY Zenon, <1>3 DEF WriteTail, Frames, Holder
  <2>1. LastFrame' /\ FramesWhole'
    BY Zenon, <1>3, <2>0, TailFrames DEF WriteTail
  <2>2. PICK l : To(p, l) /\ l # "writing"
    BY SMTT(30), <1>3 DEF WriteTail, Written, Give
  <2>3. Holder'
    BY Zenon, <1>3, <2>0, <2>2, <1>a, <1>c, StreamConstants DEF WriteTail, Frames, Holder
  <2>4. QED
    BY <2>1, <2>3 DEF Frames
<1>4. CASE WriteError(p)
  <2>1. CASE pc[p] = "write"
    <3>1. UNCHANGED <<writeMu, torn, wire, readPc>> /\ To(p, "writeFailed")
      BY ZenonT(30), <1>4, <2>1 DEF WriteError
    <3>2. QED
      BY ZenonT(30), <2>1, <3>1, <1>b, SilentFrames
  <2>2. CASE pc[p] = "writing"
    <3>1. writeMu = p /\ writeMu' = NoCall /\ torn' = TRUE
      BY ZenonT(30), <1>4, <2>2 DEF WriteError, Frames, Holder
    <3>2. Holder'
      <4>1. To(p, "writeFailed") /\ readPc' = readPc
        BY ZenonT(30), <1>4 DEF WriteError
      <4>2. pc'[p] = "writeFailed" /\ \A q \in Calls : q # p => pc'[q] = pc[q]
        BY ZenonT(30), <4>1, <1>a
      <4>3. QED
        BY ZenonT(30), <3>1, <4>1, <4>2, StreamConstants DEF Frames, Holder
    <3>3. QED
      BY Zenon, <3>1, <3>2 DEF Frames, LastFrame, FramesWhole
  <2>3. QED
    BY Zenon, <1>4, <2>1, <2>2 DEF WriteError
<1>5. CASE WriteFailed(p)
  BY ZenonT(30), <1>5, <1>b, SilentFrames DEF WriteFailed, Give
<1>6. CASE Receive(p)
  BY Zenon, <1>6, <1>b, SilentFrames DEF Receive, Give
<1>7. CASE GiveUp(p)
  BY Zenon, <1>7, <1>b, SilentFrames DEF GiveUp, Give
<1>8. CASE Return(p)
  BY Zenon, <1>8, <1>b, SilentFrames DEF Return
<1>9. CASE Cancel(p)
  BY Zenon, <1>9, SilentFrames DEF Cancel
<1>10. QED
  BY Zenon, <1>1, <1>2, <1>3, <1>4, <1>5, <1>6, <1>7, <1>8, <1>9 DEF CallStep

\* So does readLoop with its Pongs, and so do the steps that write nothing.
LEMMA ReaderFrames ==
  ASSUME TypeOK, Frames, ReadStep \/ FailStep \/ Close \/ ServerStep \/ Break
  PROVE  Frames'
<1> USE DEF callVars, readVars, failVars, sendVars, peerVars
<1>c. NoCall \notin Calls /\ Reader \notin Calls /\ NoCall # Reader
  BY Zenon, StreamConstants
<1>1. CASE ReadResponse \/ Dispatch \/ ReadPing \/ ReadError \/ Close \/ FailStep
  <2>1. UNCHANGED <<writeMu, torn, wire, pc>>
    BY ZenonT(30), <1>1 DEF ReadResponse, Dispatch, ReadPing, ReadError, Close, FailStep, FailClose, FailNotify
  <2>2. readPc' = readPc \/ (readPc # "ponging" /\ readPc' # "ponging")
    BY ZenonT(30), <1>1 DEF ReadResponse, Dispatch, ReadPing, ReadError, Close, FailStep, FailClose, FailNotify
  <2>3. QED
    BY SMTT(30), <2>1, <2>2, SilentFrames
<1>2. CASE PongHead
  <2>1. CASE wire' = Append(wire, <<Reader, "head">>) /\ writeMu' = Reader /\ readPc' = "ponging"
    <3>1. LastFrame' /\ FramesWhole'
      BY Zenon, <1>2, <2>1, HeadFrames DEF PongHead
    <3>2. Holder'
      BY Zenon, <1>2, <2>1, <1>c DEF PongHead, Frames, Holder
    <3>3. QED
      BY Zenon, <3>1, <3>2 DEF Frames
  <2>2. CASE UNCHANGED <<writeMu, wire>> /\ readPc' = "read"
    BY <1>2, <2>2, SilentFrames DEF PongHead
  <2>3. QED
    BY Zenon, <1>2, <2>1, <2>2 DEF PongHead
<1>3. CASE PongTail
  <2>1. /\ writeMu = Reader /\ writeMu' = NoCall /\ readPc' = "read" /\ pc' = pc
    BY Zenon, <1>3 DEF PongTail, Frames, Holder
  <2>2. Holder'
    BY Zenon, <2>1, <1>c DEF Frames, Holder
  <2>3. CASE wire' = Append(wire, <<Reader, "tail">>) /\ torn' = torn
    BY Zenon, <2>1, <2>2, <2>3, TailFrames DEF Frames
  <2>4. CASE torn' = TRUE
    BY Zenon, <2>2, <2>4 DEF Frames, LastFrame, FramesWhole
  <2>5. QED
    BY ZenonT(30), <1>3, <2>3, <2>4 DEF PongTail
<1>4. CASE ServerStep \/ Break
  <2>1. UNCHANGED <<pc, readPc, writeMu, torn>>
    BY ZenonT(30), <1>4 DEF ServerStep, ServerRead, ServerReply, ServerPings, Break
  <2>2. wire' = wire \/ (Len(wire) >= 2 /\ wire' = SubSeq(wire, 3, Len(wire)))
    BY Zenon, <1>4 DEF ServerStep, ServerRead, ServerReply, ServerPings, Break
  <2>3. CASE wire' = wire
    BY Zenon, <2>1, <2>3, SilentFrames
  <2>4. CASE Len(wire) >= 2 /\ wire' = SubSeq(wire, 3, Len(wire))
    <3>1. LastFrame' /\ FramesWhole'
      BY Zenon, <2>1, <2>4, TakenFrames
    <3>2. Holder'
      BY <2>1 DEF Frames, Holder
    <3>3. QED
      BY <3>1, <3>2 DEF Frames
  <2>5. QED
    BY <2>2, <2>3, <2>4
<1>5. QED
  BY Zenon, <1>1, <1>2, <1>3, <1>4 DEF ReadStep

-----------------------------------------------------------------------------
(* The results.                                                            *)

IInv == TypeOK /\ Delivery /\ Frames

\* Every step of the calls, of readLoop and failAll, of the pool and of the peer
\* keeps the invariant.
LEMMA Inductive == Spec => []IInv
<1>1. Init => IInv
  BY Zenon, InitTypeOK, InitDelivery, InitFrames DEF IInv
<1>2. IInv /\ [Next]_vars => IInv'
  <2> SUFFICES ASSUME IInv, [Next]_vars PROVE IInv'
    BY Zenon
  <2>a. TypeOK /\ Delivery /\ Frames /\ (readPc = "dispatch" => hand \in Calls \X Calls)
    BY Zenon DEF IInv, Delivery, InHand
  <2>1. ASSUME UNCHANGED sc, NEW p \in Calls, CallBegin(p) \/ CallStep(p) \/ Cancel(p)
        PROVE  IInv'
    BY Zenon, <2>a, <2>1, CallTypeOK, CallDelivery, CallFrames DEF IInv
  <2>2. ASSUME UNCHANGED sc, ReadStep \/ FailStep \/ Close PROVE IInv'
    BY Zenon, <2>a, <2>2, ReaderTypeOK, ReaderDelivery, ReaderFrames DEF IInv
  <2>3. ASSUME UNCHANGED sc, ServerStep \/ Break PROVE IInv'
    BY Zenon, <2>a, <2>3, PeerTypeOK, ReaderDelivery, ReaderFrames DEF IInv
  <2>4. CASE UNCHANGED vars
    <3> USE <2>4 DEF vars, streamVars, callVars, readVars, failVars, sendVars, peerVars
    <3>1. TypeOK'
      BY ZenonT(30), <2>a DEF TypeOK
    <3>2. Delivery'
      BY Zenon, <2>a, <3>1, PassiveStep
    <3>3. Frames'
      BY Zenon, <2>a, SilentFrames
    <3>4. QED
      BY Zenon, <3>1, <3>2, <3>3 DEF IInv
  <2>5. QED
    BY Zenon, <2>1, <2>2, <2>3, <2>4 DEF Next, StreamStep
<1>3. QED
  BY <1>1, <1>2, PTL DEF Spec

\* A call that does not share its Request with others gets the answer to its own
\* request, and when dispatch or failAll (stream.go) sends to a channel there is
\* room: the default branch of the select never drops a result.
THEOREM AnswerToTheAsker == Spec => []AnswersDelivered
<1>1. IInv => AnswersDelivered
  <2> SUFFICES ASSUME IInv PROVE AnswersDelivered
    OBVIOUS
  <2>1. ResponseMatches
    BY Zenon DEF IInv, Delivery, Owned, Own, ResponseMatches
  <2>2. NoResultDropped
    BY Zenon DEF IInv, Delivery, InHand, Listed, NoResultDropped
  <2>3. QED
    BY <2>1, <2>2 DEF IInv, AnswersDelivered
<1>2. QED
  BY <1>1, Inductive, PTL

\* Until a write fails in the middle of a frame, the frames of concurrent calls
\* and the Pongs of readLoop are on the wire one after the other (writeFrame).
THEOREM WholeFrames == Spec => []FramesWhole
<1>1. IInv => FramesWhole
  BY DEF IInv, Frames
<1>2. QED
  BY <1>1, Inductive, PTL
=============================================================================
