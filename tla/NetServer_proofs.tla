-------------------------- MODULE NetServer_proofs --------------------------
(***************************************************************************)
(* What a clean Shutdown leaves behind, and what a request in flight can   *)
(* count on, for any number of connections and requests and any limit.     *)
(***************************************************************************)
EXTENDS NetServer, FiniteSetTheorems, TLAPS

Running(r) == reqPc[r] \in {"running", "writing"}
Serving == {"loop", "arm", "read", "frame", "spawn", "cancel", "wait"}

(***************************************************************************)
(* The inductive invariant.  A connection is open until handleConn has     *)
(* ended, unless Shutdown was in a hurry; what it has read or has still to *)
(* read are requests that were sent on it.                                 *)
(***************************************************************************)
ConnInv(c) ==
  /\ connPc[c] # "gone" /\ ~open[c] => shutPc = "failed"
  /\ connPc[c] = "spawn" => frame[c] \in Reqs
  /\ frame[c] \in Reqs => from[frame[c]] = c /\ reqPc[frame[c]] # "unsent"
  /\ \A i \in 1..Len(inbox[c]) : inbox[c][i] \in Reqs =>
       from[inbox[c][i]] = c /\ reqPc[inbox[c][i]] # "unsent"

(* A request is handled while its connection is served, and an answer can   *)
(* be lost only because the peer left or Shutdown was in a hurry.           *)
ReqInv(r) ==
  /\ Running(r) => from[r] \in Conns /\ connPc[from[r]] \in Serving
  /\ outcome[r] # "none" => reqPc[r] \notin {"unsent", "sent"}
  /\ reqPc[r] = "lost" => from[r] \in Conns /\ (peerGone[from[r]] \/ shutPc = "failed")

(* After a clean Shutdown connections only arrive and leave. *)
ShutInv ==
  /\ startPc = "admit" => accepted \in Conns /\ connPc[accepted] = "backlog"
  /\ shutPc # "none" => closed
  /\ shutPc = "ok" => /\ \A c \in Conns : connPc[c] \notin Serving \ {"wait"}
                      /\ \A r \in Reqs : ~Running(r)

SemInv == IsFiniteSet(sem) /\ Cardinality(sem) <= MaxConns

Core == (\A c \in Conns : ConnInv(c)) /\ (\A r \in Reqs : ReqInv(r)) /\ ShutInv

\* NewServer builds a server in which nothing has happened.
LEMMA InitInv == Init => TypeOK /\ Core
<1> SUFFICES ASSUME Init PROVE TypeOK /\ Core
  OBVIOUS
<1>1. \A S : <<>> \in Seq(S)
  OBVIOUS
<1>2. TypeOK
  BY ZenonT(30), <1>1 DEF Init, TypeOK
<1>3. \A c \in Conns : ConnInv(c)
  BY ServerConstants DEF Init, ConnInv
<1>4. \A r \in Reqs : ReqInv(r)
  BY DEF Init, ReqInv, Running
<1>5. ShutInv
  BY DEF Init, ShutInv
<1>6. QED
  BY <1>2, <1>3, <1>4, <1>5 DEF Core

-----------------------------------------------------------------------------
(* Types.                                                                  *)

Places == Handling \cup {"away", "backlog", "release", "close", "gone"}

\* handleConn moves from one of its places to another.
LEMMA ToTypeOK ==
  ASSUME TypeOK, NEW c, NEW l \in Places, To(c, l)
  PROVE  connPc' \in [Conns -> Places]
BY ZenonT(30) DEF TypeOK, To, Places

\* beginDrain touches the flags of one connection.
LEMMA DrainTypeOK ==
  ASSUME TypeOK, NEW c \in Conns, beginDrain(c)
  PROVE  /\ draining' \in [Conns -> BOOLEAN] /\ expired' \in [Conns -> BOOLEAN]
         /\ readShut' \in [Conns -> BOOLEAN] /\ open' = open
<1>1. CASE draining[c]
  BY <1>1 DEF TypeOK, beginDrain, sockVars
<1>2. CASE ~draining[c]
  BY ZenonT(30), <1>2 DEF TypeOK, beginDrain, sockVars
<1>3. QED
  BY <1>1, <1>2

\* sendFrame leaves a request answered, lost or stalled.
LEMMA SendTypeOK ==
  ASSUME TypeOK, NEW c, NEW r \in Reqs, NEW w,
         w \in {"none", "ok", "error", "ctx", "draining", "limited"}, sendFrame(c, r, w)
  PROVE  /\ reqPc' \in [Reqs -> {"unsent", "sent", "running", "writing", "answered",
                                 "lost", "stalled", "silent"}]
         /\ outcome' \in [Reqs -> {"none", "ok", "error", "ctx", "draining", "limited"}]
BY ZenonT(30) DEF TypeOK, sendFrame

\* Start keeps the types: its check of closed, Listen and the loop of Accept.
LEMMA StartTypeOK == ASSUME TypeOK, StartCheck \/ StartStep PROVE TypeOK'
<1> USE DEF startVars, shutVars, sockVars, peerVars, reqVars
<1>1. CASE StartCheck
  BY ZenonT(30), <1>1 DEF StartCheck, TypeOK
<1>2. CASE Listen
  BY ZenonT(30), <1>2 DEF Listen, TypeOK
<1>3. ASSUME NEW c \in Conns, Accept(c) PROVE TypeOK'
  BY ZenonT(30), <1>3 DEF Accept, TypeOK
<1>4. CASE AcceptFails
  BY ZenonT(30), <1>4 DEF AcceptFails, TypeOK
<1>5. CASE Admit
  <2>1. connPc' \in [Conns -> Places]
    BY <1>5, ToTypeOK DEF Admit, Places, Handling
  <2>2. open' \in [Conns -> BOOLEAN]
    BY ZenonT(30), <1>5 DEF Admit, TypeOK
  <2>3. QED
    BY ZenonT(30), <1>5, <2>1, <2>2 DEF Admit, TypeOK, Places
<1>6. QED
  BY <1>1, <1>2, <1>3, <1>4, <1>5 DEF StartStep

\* A frame handleConn works on as a new request is a request.
LEMMA ConnTypeOK ==
  ASSUME TypeOK, NEW c \in Conns, ConnInv(c), ConnStep(c) PROVE TypeOK'
<1> USE DEF startVars, shutVars, sockVars, peerVars, reqVars
<1>a. {"check", "wait", "loop", "cancel", "arm", "read", "frame", "spawn", "release",
       "close", "gone"} \subseteq Places
  BY DEF Places, Handling
<1>1. CASE HandleStore(c)
  <2>1. connPc' \in [Conns -> Places]
    BY <1>1, <1>a, ToTypeOK DEF HandleStore
  <2>2. QED
    BY ZenonT(30), <1>1, <2>1 DEF HandleStore, TypeOK, Places
<1>2. CASE HandleCheck(c)
  <2>1. connPc' \in [Conns -> Places]
    BY <1>2, <1>a, ToTypeOK DEF HandleCheck
  <2>2. /\ draining' \in [Conns -> BOOLEAN] /\ expired' \in [Conns -> BOOLEAN]
        /\ readShut' \in [Conns -> BOOLEAN] /\ open' = open
    BY <1>2, DrainTypeOK DEF HandleCheck, TypeOK
  <2>3. QED
    BY ZenonT(30), <1>2, <2>1, <2>2 DEF HandleCheck, TypeOK, Places
<1>3. CASE LoopCheck(c)
  <2>1. connPc' \in [Conns -> Places]
    BY <1>3, <1>a, ToTypeOK DEF LoopCheck
  <2>2. /\ draining' \in [Conns -> BOOLEAN] /\ expired' \in [Conns -> BOOLEAN]
        /\ readShut' \in [Conns -> BOOLEAN] /\ open' = open
    BY <1>3, DrainTypeOK DEF LoopCheck, TypeOK
  <2>3. QED
    BY ZenonT(30), <1>3, <2>1, <2>2 DEF LoopCheck, TypeOK, Places
<1>4. CASE Arm(c)
  <2>1. connPc' \in [Conns -> Places]
    BY <1>4, <1>a, ToTypeOK DEF Arm
  <2>2. expired' \in [Conns -> BOOLEAN]
    BY ZenonT(30), <1>4 DEF Arm, TypeOK
  <2>3. QED
    BY ZenonT(30), <1>4, <2>1, <2>2 DEF Arm, TypeOK, Places
<1>5. CASE ReadFrame(c)
  <2>1. connPc' \in [Conns -> Places]
    BY <1>5, <1>a, ToTypeOK DEF ReadFrame
  <2>2. /\ frame' \in [Conns -> Reqs \cup {Ping, NoFrame}]
        /\ inbox' \in [Conns -> Seq(Reqs \cup {Ping})]
    BY <1>5 DEF ReadFrame, TypeOK
  <2>3. QED
    BY ZenonT(30), <1>5, <2>1, <2>2 DEF ReadFrame, TypeOK, Places
<1>6. CASE ReadError(c)
  <2>1. connPc' \in [Conns -> Places]
    BY <1>6, <1>a, ToTypeOK DEF ReadError
  <2>2. QED
    BY ZenonT(30), <1>6, <2>1 DEF ReadError, TypeOK, Places
<1>7. CASE FramePing(c)
  <2>1. connPc' \in [Conns -> Places]
    BY <1>7, <1>a, ToTypeOK DEF FramePing
  <2>2. frame' \in [Conns -> Reqs \cup {Ping, NoFrame}]
    BY <1>7 DEF FramePing, TypeOK
  <2>3. QED
    BY ZenonT(30), <1>7, <2>1, <2>2 DEF FramePing, TypeOK, Places
<1>8. CASE FrameRequest(c)
  <2>1. connPc' \in [Conns -> Places]
    BY <1>8, <1>a, ToTypeOK DEF FrameRequest
  <2>2. frame' \in [Conns -> Reqs \cup {Ping, NoFrame}]
    BY <1>8 DEF FrameRequest, TypeOK
  <2>3. /\ reqPc' \in [Reqs -> {"unsent", "sent", "running", "writing", "answered",
                                "lost", "stalled", "silent"}]
        /\ outcome' \in [Reqs -> {"none", "ok", "error", "ctx", "draining", "limited"}]
    BY <1>8, SendTypeOK DEF FrameRequest, TypeOK
  <2>4. QED
    BY ZenonT(30), <1>8, <2>1, <2>2, <2>3 DEF FrameRequest, TypeOK, Places
<1>9. CASE Spawn(c)
  <2>1. connPc' \in [Conns -> Places]
    BY <1>9, <1>a, ToTypeOK DEF Spawn
  <2>2. /\ frame' \in [Conns -> Reqs \cup {Ping, NoFrame}]
        /\ reqPc' \in [Reqs -> {"unsent", "sent", "running", "writing", "answered",
                                "lost", "stalled", "silent"}]
    BY ZenonT(30), <1>9 DEF Spawn, TypeOK
  <2>3. QED
    BY ZenonT(30), <1>9, <2>1, <2>2 DEF Spawn, TypeOK, Places
<1>10. CASE ExitCancel(c)
  <2>1. connPc' \in [Conns -> Places]
    BY <1>10, <1>a, ToTypeOK DEF ExitCancel
  <2>2. ctxDone' \in [Conns -> BOOLEAN]
    BY <1>10 DEF ExitCancel, TypeOK
  <2>3. QED
    BY ZenonT(30), <1>10, <2>1, <2>2 DEF ExitCancel, TypeOK, Places
<1>11. CASE ExitWait(c)
  <2>1. connPc' \in [Conns -> Places]
    BY <1>11, <1>a, ToTypeOK DEF ExitWait
  <2>2. QED
    BY ZenonT(30), <1>11, <2>1 DEF ExitWait, TypeOK, Places
<1>12. CASE ExitRelease(c)
  <2>1. connPc' \in [Conns -> Places]
    BY <1>12, <1>a, ToTypeOK DEF ExitRelease
  <2>2. QED
    BY ZenonT(30), <1>12, <2>1 DEF ExitRelease, TypeOK, Places
<1>13. CASE ExitClose(c)
  <2>1. connPc' \in [Conns -> Places]
    BY <1>13, <1>a, ToTypeOK DEF ExitClose
  <2>2. /\ open' \in [Conns -> BOOLEAN] /\ draining' \in [Conns -> BOOLEAN]
        /\ expired' \in [Conns -> BOOLEAN] /\ readShut' \in [Conns -> BOOLEAN]
        /\ ctxDone' \in [Conns -> BOOLEAN]
        /\ inbox' \in [Conns -> Seq(Reqs \cup {Ping})]
    BY <1>13 DEF ExitClose, TypeOK
  <2>3. QED
    BY ZenonT(30), <1>13, <2>1, <2>2 DEF ExitClose, TypeOK, Places
<1>14. QED
  BY Zenon, <1>1, <1>2, <1>3, <1>4, <1>5, <1>6, <1>7, <1>8, <1>9, <1>10, <1>11, <1>12, <1>13
     DEF ConnStep

\* handleRequest keeps the types.
LEMMA RequestTypeOK == ASSUME TypeOK, NEW r \in Reqs, RequestStep(r) PROVE TypeOK'
<1> USE DEF startVars, shutVars, sockVars, peerVars
<1>1. CASE HandlerReturns(r)
  <2>1. /\ reqPc' \in [Reqs -> {"unsent", "sent", "running", "writing", "answered",
                                "lost", "stalled", "silent"}]
        /\ outcome' \in [Reqs -> {"none", "ok", "error", "ctx", "draining", "limited"}]
    BY <1>1 DEF HandlerReturns, TypeOK
  <2>2. QED
    BY ZenonT(30), <1>1, <2>1 DEF HandlerReturns, TypeOK
<1>2. CASE WriteResponse(r)
  <2>1. /\ reqPc' \in [Reqs -> {"unsent", "sent", "running", "writing", "answered",
                                "lost", "stalled", "silent"}]
        /\ outcome' \in [Reqs -> {"none", "ok", "error", "ctx", "draining", "limited"}]
    BY <1>2, SendTypeOK DEF WriteResponse, TypeOK
  <2>2. QED
    BY ZenonT(30), <1>2, <2>1 DEF WriteResponse, TypeOK
<1>3. QED
  BY <1>1, <1>2 DEF RequestStep

\* What the peers do, connecting, sending or leaving, keeps the types.
LEMMA PeerTypeOK == ASSUME TypeOK, NEW c \in Conns, PeerStep(c) PROVE TypeOK'
<1> USE DEF startVars, shutVars, sockVars, peerVars, reqVars
<1>1. CASE Connect(c)
  <2>1. connPc' \in [Conns -> Places]
    BY <1>1, ToTypeOK DEF Connect, Places
  <2>2. QED
    BY ZenonT(30), <1>1, <2>1 DEF Connect, TypeOK, Places
<1>2. CASE PeerClose(c)
  <2>1. peerGone' \in [Conns -> BOOLEAN]
    BY <1>2 DEF PeerClose, TypeOK
  <2>2. QED
    BY ZenonT(30), <1>2, <2>1 DEF PeerClose, TypeOK
<1>3. ASSUME NEW f \in Reqs \cup {Ping}, Send(c, f) PROVE TypeOK'
  <2>1. inbox' \in [Conns -> Seq(Reqs \cup {Ping})]
    BY <1>3 DEF Send, TypeOK
  <2>2. /\ reqPc' \in [Reqs -> {"unsent", "sent", "running", "writing", "answered",
                                "lost", "stalled", "silent"}]
        /\ from' \in [Reqs -> Conns \cup {NoConn}]
    BY ZenonT(30), <1>3 DEF Send, TypeOK
  <2>3. QED
    BY ZenonT(30), <1>3, <2>1, <2>2 DEF Send, TypeOK
<1>4. QED
  BY <1>1, <1>2, <1>3 DEF PeerStep

\* Shutdown keeps the types, in all its steps and however it ends.
LEMMA ShutdownTypeOK ==
  ASSUME TypeOK, ShutdownBegin \/ ShutdownAgain \/ ShutdownStep \/ ShutdownTimeout PROVE TypeOK'
<1> USE DEF startVars, shutVars, sockVars, peerVars, reqVars
<1>1. CASE ShutdownBegin
  BY ZenonT(30), <1>1 DEF ShutdownBegin, TypeOK
<1>1a. CASE ShutdownAgain
  BY ZenonT(30), <1>1a DEF ShutdownAgain, TypeOK
<1>2. CASE ShutdownListener
  <2>1. listener' \in {"nil", "open", "closed"} /\ toVisit' \subseteq Conns
    BY <1>2 DEF ShutdownListener, TypeOK, conns
  <2>2. QED
    BY ZenonT(30), <1>2, <2>1 DEF ShutdownListener, TypeOK
<1>3. ASSUME NEW c \in Conns, ShutdownDrain(c) PROVE TypeOK'
  <2>1. /\ draining' \in [Conns -> BOOLEAN] /\ expired' \in [Conns -> BOOLEAN]
        /\ readShut' \in [Conns -> BOOLEAN] /\ open' = open
    BY Zenon, <1>3, DrainTypeOK DEF ShutdownDrain
  <2>2. toVisit' \subseteq Conns
    BY <1>3 DEF ShutdownDrain, TypeOK
  <2>3. QED
    BY ZenonT(30), <1>3, <2>1, <2>2 DEF ShutdownDrain, TypeOK
<1>4. CASE ShutdownRangeEnd
  BY ZenonT(30), <1>4 DEF ShutdownRangeEnd, TypeOK
<1>5. CASE ShutdownOk
  BY ZenonT(30), <1>5 DEF ShutdownOk, TypeOK
<1>6. CASE ShutdownTimeout
  BY ZenonT(30), <1>6 DEF ShutdownTimeout, TypeOK
<1>7. CASE ShutdownForce
  <2>1. open' \in [Conns -> BOOLEAN]
    BY <1>7 DEF ShutdownForce, TypeOK
  <2>2. QED
    BY ZenonT(30), <1>7, <2>1 DEF ShutdownForce, TypeOK
<1>8. QED
  BY <1>1, <1>1a, <1>2, <1>3, <1>4, <1>5, <1>6, <1>7 DEF ShutdownStep

-----------------------------------------------------------------------------
(* The invariant.                                                          *)

\* Steps that touch neither connections nor requests.
LEMMA QuietStep ==
  ASSUME Core, ShutInv', shutPc = "failed" => shutPc' = "failed",
         UNCHANGED <<connPc, open, frame, inbox, from, peerGone, reqPc, outcome>>
  PROVE  Core'
<1>1. \A c \in Conns : ConnInv(c)'
  BY Zenon DEF Core, ConnInv
<1>2. \A r \in Reqs : ReqInv(r)'
  BY DEF Core, ReqInv, Running
<1>3. QED
  BY Zenon, <1>1, <1>2 DEF Core

\* Steps in which handleConn only moves on, and may be done with its frame.
LEMMA MoveStep ==
  ASSUME TypeOK, Core, NEW c \in Conns, NEW l, To(c, l),
         frame' = frame \/ frame' = [frame EXCEPT ![c] = NoFrame],
         UNCHANGED <<open, inbox, from, peerGone, reqPc, outcome, closed, shutPc,
                     startPc, accepted>>,
         connPc[c] \notin {"backlog", "gone"}, l # "spawn",
         l \in Serving \/ \A r \in Reqs : Running(r) => from[r] # c,
         shutPc = "ok" => l \notin Serving \ {"wait"}
  PROVE  Core'
<1>1. ASSUME NEW d \in Conns PROVE ConnInv(d)'
  BY ServerConstants DEF TypeOK, Core, ConnInv, To
<1>2. ASSUME NEW r \in Reqs PROVE ReqInv(r)'
  BY DEF TypeOK, Core, ReqInv, Running, To
<1>3. ShutInv'
  BY DEF TypeOK, Core, ShutInv, Running, To
<1>4. QED
  BY Zenon, <1>1, <1>2, <1>3 DEF Core

\* Start keeps the invariant: it admits a connection only from the backlog.
LEMMA StartInv == ASSUME TypeOK, Core, StartCheck \/ StartStep PROVE Core'
<1> USE DEF startVars, shutVars, sockVars, peerVars, reqVars
<1>1. CASE StartCheck
  BY <1>1, QuietStep DEF StartCheck, Core, ShutInv, Running
<1>2. CASE Listen
  BY Zenon, <1>2, QuietStep DEF Listen, Core, ShutInv, Running
<1>3. ASSUME NEW c \in Conns, Accept(c) PROVE Core'
  BY Zenon, <1>3, QuietStep DEF Accept, Core, ShutInv, Running
<1>4. CASE AcceptFails
  BY <1>4, QuietStep DEF AcceptFails, Core, ShutInv, Running
<1>5. CASE Admit
  <2>a. /\ accepted \in Conns /\ connPc[accepted] = "backlog"
        /\ startPc' = "accept" /\ UNCHANGED <<frame, peerVars, reqVars, shutVars>>
    BY Zenon, <1>5 DEF Admit, Core, ShutInv
  <2>b. PICK l \in {"spawned", "gone"} :
          /\ To(accepted, l)
          /\ \A d \in Conns : d # accepted => open'[d] = open[d]
          /\ l = "spawned" => open' = open
    BY Zenon, <1>5, <2>a DEF Admit, TypeOK
  <2>1. ASSUME NEW d \in Conns PROVE ConnInv(d)'
    BY <2>a, <2>b DEF TypeOK, Core, ConnInv, To
  <2>2. ASSUME NEW r \in Reqs PROVE ReqInv(r)'
    BY Zenon, <2>a, <2>b DEF TypeOK, Core, ReqInv, Running, To, Serving
  <2>3. ShutInv'
    BY <2>a, <2>b DEF TypeOK, Core, ShutInv, Running, To, Serving
  <2>4. QED
    BY Zenon, <2>1, <2>2, <2>3 DEF Core
<1>6. QED
  BY Zenon, <1>1, <1>2, <1>3, <1>4, <1>5 DEF StartStep

\* handleConn keeps the invariant, from its loop to the last deferred call.
LEMMA ConnStepInv == ASSUME TypeOK, Core, NEW c \in Conns, ConnStep(c) PROVE Core'
<1> USE DEF startVars, shutVars, sockVars, peerVars, reqVars
<1>a. ConnInv(c) /\ ShutInv
  BY Zenon DEF Core
<1>1. CASE HandleStore(c)
  <2>1. \A r \in Reqs : Running(r) => from[r] # c
    BY Zenon, <1>1 DEF HandleStore, Core, ReqInv, Serving
  <2>2. QED
    BY Zenon, <1>1, <2>1, MoveStep DEF HandleStore, Serving
<1>2. CASE HandleCheck(c)
  <2>1. open' = open
    BY <1>2, DrainTypeOK DEF HandleCheck
  <2>2. PICK l \in {"wait", "loop"} : To(c, l) /\ (closed => l = "wait")
    BY <1>2 DEF HandleCheck
  <2>3. shutPc = "ok" => l = "wait"
    BY <2>2, <1>a DEF ShutInv
  <2>4. l \in Serving /\ l # "spawn" /\ connPc[c] = "check"
    BY Zenon, <1>2 DEF Serving, HandleCheck
  <2>5. QED
    BY Zenon, <1>2, <2>1, <2>2, <2>3, <2>4, MoveStep DEF HandleCheck
<1>3. CASE LoopCheck(c)
  <2>1. open' = open
    BY Zenon, <1>3, DrainTypeOK DEF LoopCheck
  <2>2. PICK l \in {"cancel", "arm"} : To(c, l)
    BY Zenon, <1>3 DEF LoopCheck
  <2>3. shutPc # "ok" /\ l \in Serving /\ l # "spawn" /\ connPc[c] = "loop"
    BY Zenon, <1>3, <1>a DEF ShutInv, Serving, LoopCheck
  <2>4. QED
    BY Zenon, <1>3, <2>1, <2>2, <2>3, MoveStep DEF LoopCheck
<1>4. CASE Arm(c)
  <2>1. PICK l \in {"cancel", "read"} : To(c, l)
    BY Zenon, <1>4 DEF Arm
  <2>2. shutPc # "ok" /\ l \in Serving /\ l # "spawn" /\ connPc[c] = "arm"
    BY <1>4, <1>a DEF ShutInv, Serving, Arm
  <2>3. QED
    BY Zenon, <1>4, <2>1, <2>2, MoveStep DEF Arm
<1>5. CASE ReadFrame(c)
  <2>a. /\ connPc[c] = "read" /\ inbox[c] # <<>> /\ To(c, "frame")
        /\ frame' = [frame EXCEPT ![c] = Head(inbox[c])]
        /\ inbox' = [inbox EXCEPT ![c] = Tail(@)]
        /\ UNCHANGED <<open, peerGone, from, reqPc, outcome, closed, shutPc, startPc,
                       accepted>>
    BY Zenon, <1>5 DEF ReadFrame
  <2>b. /\ Head(inbox[c]) = inbox[c][1] /\ Len(inbox[c]) \in Nat /\ Len(inbox[c]) > 0
        /\ Len(Tail(inbox[c])) = Len(inbox[c]) - 1
        /\ \A i \in 1..Len(Tail(inbox[c])) : Tail(inbox[c])[i] = inbox[c][i + 1]
    BY <2>a DEF TypeOK
  <2>1. ASSUME NEW d \in Conns PROVE ConnInv(d)'
    <3>1. CASE d = c
      <4>1. /\ connPc'[c] = "frame" /\ frame'[c] = inbox[c][1]
            /\ inbox'[c] = Tail(inbox[c]) /\ connPc[c] # "gone"
        BY Zenon, <2>a, <2>b DEF TypeOK, To
      <4>2. QED
        BY <3>1, <4>1, <2>a, <2>b, <1>a DEF ConnInv
    <3>2. CASE d # c
      <4>1. connPc'[d] = connPc[d] /\ frame'[d] = frame[d] /\ inbox'[d] = inbox[d]
        BY <3>2, <2>a DEF TypeOK, To
      <4>2. QED
        BY <4>1, <2>a DEF Core, ConnInv
    <3>3. QED
      BY Zenon, <3>1, <3>2
  <2>2. ASSUME NEW r \in Reqs PROVE ReqInv(r)'
    BY Zenon, <2>a DEF TypeOK, Core, ReqInv, Running, To, Serving
  <2>3. ShutInv'
    BY Zenon, <2>a DEF TypeOK, Core, ShutInv, Running, To, Serving
  <2>4. QED
    BY Zenon, <2>1, <2>2, <2>3 DEF Core
<1>6. CASE ReadError(c)
  <2>1. shutPc # "ok" /\ "cancel" \in Serving /\ connPc[c] = "read"
    BY <1>6, <1>a DEF ShutInv, Serving, ReadError
  <2>2. QED
    BY Zenon, <1>6, <2>1, MoveStep DEF ReadError
<1>7. CASE FramePing(c)
  <2>1. PICK l \in {"cancel", "loop"} : To(c, l)
    BY Zenon, <1>7 DEF FramePing
  <2>2. shutPc # "ok" /\ l \in Serving /\ l # "spawn" /\ connPc[c] = "frame"
    BY Zenon, <1>7, <1>a DEF ShutInv, Serving, FramePing
  <2>3. QED
    BY ZenonT(30), <1>7, <2>1, <2>2, MoveStep DEF FramePing
<1>8. CASE FrameRequest(c)
  <2>a. /\ connPc[c] = "frame" /\ frame[c] \in Reqs /\ shutPc # "ok"
        /\ UNCHANGED <<open, inbox, from, peerGone, closed, shutPc, startPc, accepted>>
    BY Zenon, <1>8, <1>a DEF FrameRequest, ShutInv, Serving
  <2>b. open[c] \/ shutPc = "failed"
    BY Zenon, <2>a, <1>a DEF ConnInv
  <2>c. from[frame[c]] = c
    BY <2>a, <1>a DEF ConnInv
  <2>1. ASSUME NEW l \in {"cancel", "loop"}, NEW w \in {"draining", "limited"},
               To(c, l), sendFrame(c, frame[c], w), frame' = [frame EXCEPT ![c] = NoFrame]
        PROVE  Core'
    <3>a. PICK s \in {"answered", "lost", "stalled"} :
            /\ reqPc' = [reqPc EXCEPT ![frame[c]] = s]
            /\ s = "lost" => ~WriteWorks(c)
      BY <2>1 DEF sendFrame
    <3>b. outcome' = [outcome EXCEPT ![frame[c]] = w]
      BY Zenon, <2>1 DEF sendFrame
    <3>1. ASSUME NEW d \in Conns PROVE ConnInv(d)'
      BY SMTT(30), ServerConstants, <2>a, <2>1, <3>a DEF TypeOK, Core, ConnInv, To
    <3>2. ASSUME NEW r \in Reqs PROVE ReqInv(r)'
      BY SMTT(30), <2>a, <2>b, <2>c, <2>1, <3>a, <3>b
         DEF TypeOK, Core, ReqInv, Running, To, Serving, WriteWorks
    <3>3. ShutInv'
      BY Zenon, <2>a, <2>1 DEF TypeOK, Core, ShutInv, To
    <3>4. QED
      BY <3>1, <3>2, <3>3 DEF Core
  <2>2. ASSUME To(c, "spawn"), UNCHANGED <<frame, reqVars>> PROVE Core'
    <3>1. ASSUME NEW d \in Conns PROVE ConnInv(d)'
      BY <2>a, <2>2 DEF TypeOK, Core, ConnInv, To
    <3>2. ASSUME NEW r \in Reqs PROVE ReqInv(r)'
      BY Zenon, <2>a, <2>2 DEF TypeOK, Core, ReqInv, Running, To, Serving
    <3>3. ShutInv'
      BY <2>a, <2>2 DEF TypeOK, Core, ShutInv, To
    <3>4. QED
      BY <3>1, <3>2, <3>3 DEF Core
  <2>3. QED
    BY Zenon, <1>8, <2>1, <2>2 DEF FrameRequest
<1>9. CASE Spawn(c)
  <2>a. /\ connPc[c] = "spawn" /\ frame[c] \in Reqs /\ from[frame[c]] = c /\ shutPc # "ok"
        /\ reqPc[frame[c]] # "unsent"
        /\ reqPc' = [reqPc EXCEPT ![frame[c]] = "running"]
        /\ To(c, "loop") /\ frame' = [frame EXCEPT ![c] = NoFrame]
        /\ UNCHANGED <<open, inbox, from, peerGone, closed, shutPc, startPc, accepted, outcome>>
    BY ZenonT(30), <1>9, <1>a DEF Spawn, ShutInv, Serving, ConnInv
  <2>1. ASSUME NEW d \in Conns PROVE ConnInv(d)'
    BY SMTT(30), ServerConstants, <2>a DEF TypeOK, Core, ConnInv, To
  <2>2. ASSUME NEW r \in Reqs PROVE ReqInv(r)'
    BY <2>a DEF TypeOK, Core, ReqInv, Running, To, Serving
  <2>3. ShutInv'
    BY <2>a DEF TypeOK, Core, ShutInv, To
  <2>4. QED
    BY <2>1, <2>2, <2>3 DEF Core
<1>10. CASE ExitCancel(c)
  <2>1. "wait" \in Serving /\ connPc[c] = "cancel"
    BY SMTT(30), <1>10 DEF Serving, ExitCancel
  <2>2. QED
    BY ZenonT(30), <1>10, <2>1, MoveStep DEF ExitCancel
<1>11. CASE ExitWait(c)
  <2>1. \A r \in Reqs : Running(r) => from[r] # c
    BY ZenonT(30), <1>11 DEF ExitWait, reqWg, Running
  <2>2. QED
    BY ZenonT(30), <1>11, <2>1, MoveStep DEF ExitWait, Serving
<1>12. CASE ExitRelease(c)
  <2>1. \A r \in Reqs : Running(r) => from[r] # c
    BY ZenonT(30), <1>12 DEF ExitRelease, Core, ReqInv, Serving
  <2>2. QED
    BY ZenonT(30), <1>12, <2>1, MoveStep DEF ExitRelease, Serving
<1>13. CASE ExitClose(c)
  <2>a. /\ connPc[c] = "close" /\ To(c, "gone")
        /\ open' = [open EXCEPT ![c] = FALSE] /\ inbox' = [inbox EXCEPT ![c] = <<>>]
        /\ UNCHANGED <<frame, from, peerGone, closed, shutPc, startPc, accepted, outcome, reqPc>>
    BY Zenon, <1>13 DEF ExitClose
  <2>1. ASSUME NEW d \in Conns PROVE ConnInv(d)'
    BY <2>a DEF TypeOK, Core, ConnInv, To
  <2>2. ASSUME NEW r \in Reqs PROVE ReqInv(r)'
    BY Zenon, <2>a DEF TypeOK, Core, ReqInv, Running, To, Serving
  <2>3. ShutInv'
    BY Zenon, <2>a DEF TypeOK, Core, ShutInv, To, Running, Serving
  <2>4. QED
    BY <2>1, <2>2, <2>3 DEF Core
<1>14. QED
  BY Zenon, <1>1, <1>2, <1>3, <1>4, <1>5, <1>6, <1>7, <1>8, <1>9, <1>10, <1>11, <1>12, <1>13
     DEF ConnStep

\* handleRequest keeps the invariant: its connection is served until it has
\* ended.
LEMMA RequestInv == ASSUME TypeOK, Core, NEW q \in Reqs, RequestStep(q) PROVE Core'
<1>a. /\ UNCHANGED <<connPc, open, frame, inbox, from, peerGone, closed, shutPc, startPc,
                      accepted>>
      /\ Running(q) /\ ReqInv(q)
  BY DEF RequestStep, HandlerReturns, WriteResponse, startVars, shutVars, sockVars, peerVars,
         Running, Core
<1>b. shutPc # "ok"
  BY Zenon, <1>a DEF Core, ShutInv
<1>c. PICK s, w : /\ s \notin {"unsent", "sent", "running"}
                  /\ reqPc' = [reqPc EXCEPT ![q] = s] /\ outcome' = [outcome EXCEPT ![q] = w]
                  /\ s = "lost" => ~WriteWorks(from[q])
  BY DEF RequestStep, HandlerReturns, WriteResponse, sendFrame
<1>d. from[q] \in Conns /\ connPc[from[q]] \in Serving
  BY Zenon, <1>a DEF ReqInv
<1>e. open[from[q]] \/ shutPc = "failed"
  BY Zenon, <1>d DEF Core, ConnInv, Serving
<1>1. ASSUME NEW d \in Conns PROVE ConnInv(d)'
  BY <1>a, <1>c DEF TypeOK, Core, ConnInv
<1>2. ASSUME NEW r \in Reqs PROVE ReqInv(r)'
  <2>1. CASE r = q
    BY Zenon, <2>1, <1>a, <1>c, <1>d, <1>e DEF TypeOK, ReqInv, Running, WriteWorks
  <2>2. CASE r # q
    BY Zenon, <2>2, <1>a, <1>c DEF TypeOK, Core, ReqInv, Running
  <2>3. QED
    BY <2>1, <2>2
<1>3. ShutInv'
  BY <1>a, <1>b DEF Core, ShutInv
<1>4. QED
  BY <1>1, <1>2, <1>3 DEF Core

\* The peers keep the invariant: they send new requests, and leave.
LEMMA PeerInv == ASSUME TypeOK, Core, NEW c \in Conns, PeerStep(c) PROVE Core'
<1> USE DEF startVars, shutVars, sockVars, peerVars, reqVars
<1>1. CASE Connect(c)
  <2>1. \A r \in Reqs : Running(r) => from[r] # c
    BY Zenon, <1>1 DEF Connect, Core, ReqInv, Serving
  <2>2. QED
    BY Zenon, <1>1, <2>1, MoveStep DEF Connect, Serving
<1>2. CASE PeerClose(c)
  <2>1. ASSUME NEW d \in Conns PROVE ConnInv(d)'
    BY <1>2 DEF PeerClose, TypeOK, Core, ConnInv
  <2>2. ASSUME NEW r \in Reqs PROVE ReqInv(r)'
    BY Zenon, <1>2 DEF PeerClose, TypeOK, Core, ReqInv, Running
  <2>3. ShutInv'
    BY <1>2 DEF PeerClose, Core, ShutInv, Running
  <2>4. QED
    BY <2>1, <2>2, <2>3 DEF Core
<1>3. ASSUME NEW f \in Reqs \cup {Ping}, Send(c, f) PROVE Core'
  <2>a. /\ inbox' = [inbox EXCEPT ![c] = Append(@, f)]
        /\ UNCHANGED <<connPc, open, frame, peerGone, closed, shutPc, startPc, accepted, outcome>>
    BY Zenon, <1>3 DEF Send
  <2>b. IF f \in Reqs THEN /\ reqPc[f] = "unsent"
                           /\ reqPc' = [reqPc EXCEPT ![f] = "sent"]
                           /\ from' = [from EXCEPT ![f] = c]
                      ELSE UNCHANGED <<reqPc, from>>
    BY Zenon, <1>3 DEF Send
  <2>c. /\ f \in Reqs => reqPc'[f] = "sent" /\ from'[f] = c
        /\ \A r \in Reqs : r # f => reqPc'[r] = reqPc[r] /\ from'[r] = from[r]
    BY Zenon, <2>b DEF TypeOK
  <2>d. \A r \in Reqs : reqPc[r] # "unsent" => from'[r] = from[r] /\ reqPc'[r] = reqPc[r]
    BY <2>b, <2>c
  <2>1. ASSUME NEW d \in Conns PROVE ConnInv(d)'
    <3>1. CASE d # c
      <4>1. inbox'[d] = inbox[d]
        BY Zenon, <3>1, <2>a DEF TypeOK
      <4>2. ConnInv(d)
        BY Zenon DEF Core
      <4>3. \A i \in 1..Len(inbox[d]) : inbox[d][i] \in Reqs =>
              from[inbox[d][i]] = d /\ reqPc[inbox[d][i]] # "unsent"
        BY Zenon, <4>2 DEF ConnInv
      <4>4. \A i \in 1..Len(inbox'[d]) : inbox'[d][i] \in Reqs =>
              from'[inbox'[d][i]] = d /\ reqPc'[inbox'[d][i]] # "unsent"
        BY Zenon, <4>1, <4>3, <2>d
      <4>5. QED
        BY Zenon, <4>2, <4>4, <2>a, <2>d DEF ConnInv
    <3>2. CASE d = c
      <4>1. /\ inbox'[c] = Append(inbox[c], f) /\ Len(inbox[c]) \in Nat
            /\ Len(inbox'[c]) = Len(inbox[c]) + 1 /\ inbox'[c][Len(inbox[c]) + 1] = f
            /\ \A i \in 1..Len(inbox[c]) : inbox'[c][i] = inbox[c][i]
        BY <2>a DEF TypeOK
      <4>2. ConnInv(c)
        BY Zenon DEF Core
      <4>3. ASSUME NEW i \in 1..Len(inbox'[c]), inbox'[c][i] \in Reqs
            PROVE  from'[inbox'[c][i]] = c /\ reqPc'[inbox'[c][i]] # "unsent"
        <5>1. CASE i \in 1..Len(inbox[c])
          <6>1. /\ inbox[c][i] \in Reqs /\ from[inbox[c][i]] = c
                /\ reqPc[inbox[c][i]] # "unsent" /\ inbox'[c][i] = inbox[c][i]
            BY Zenon, <5>1, <4>1, <4>2, <4>3 DEF ConnInv
          <6>2. QED
            BY Zenon, <6>1, <2>d
        <5>2. CASE i = Len(inbox[c]) + 1
          BY Zenon, <5>2, <4>1, <4>3, <2>c
        <5>3. QED
          BY <5>1, <5>2, <4>1
      <4>4. ConnInv(c)'
        BY Zenon, <4>2, <4>3, <2>a, <2>d DEF ConnInv
      <4>5. QED
        BY <3>2, <4>4
    <3>3. QED
      BY Zenon, <3>1, <3>2
  <2>2. ASSUME NEW r \in Reqs PROVE ReqInv(r)'
    <3>1. ReqInv(r)
      BY Zenon DEF Core
    <3>2. CASE r = f
      BY Zenon, <3>1, <3>2, <2>a, <2>b, <2>c DEF ReqInv, Running
    <3>3. CASE r # f
      BY Zenon, <3>1, <3>3, <2>a, <2>c DEF ReqInv, Running
    <3>4. QED
      BY <3>2, <3>3
  <2>3. ShutInv'
    BY Zenon, <2>a, <2>b, <2>c DEF Core, ShutInv, Running
  <2>4. QED
    BY Zenon, <2>1, <2>2, <2>3 DEF Core
<1>4. QED
  BY Zenon, <1>1, <1>2, <1>3 DEF PeerStep

\* Shutdown keeps the invariant: it returns nil only after wg.Wait.
LEMMA ShutdownInv ==
  ASSUME TypeOK, Core, ShutdownBegin \/ ShutdownAgain \/ ShutdownStep \/ ShutdownTimeout PROVE Core'
<1> USE DEF startVars, shutVars, sockVars, peerVars, reqVars
<1>1. CASE ShutdownBegin
  BY Zenon, <1>1, QuietStep DEF ShutdownBegin, Core, ShutInv, Running
<1>1a. CASE ShutdownAgain
  BY Zenon, <1>1a, QuietStep DEF ShutdownAgain, Core, ShutInv, Running
<1>2. CASE ShutdownListener
  BY Zenon, <1>2, QuietStep DEF ShutdownListener, Core, ShutInv, Running
<1>3. ASSUME NEW c \in Conns, ShutdownDrain(c) PROVE Core'
  <2>1. open' = open
    BY Zenon, <1>3, DrainTypeOK DEF ShutdownDrain
  <2>2. QED
    BY Zenon, <1>3, <2>1, QuietStep DEF ShutdownDrain, Core, ShutInv, Running
<1>4. CASE ShutdownRangeEnd
  BY Zenon, <1>4, QuietStep DEF ShutdownRangeEnd, Core, ShutInv, Running
<1>5. CASE ShutdownOk
  <2>1. /\ \A c \in Conns : connPc[c] \notin Serving
        /\ \A r \in Reqs : ~Running(r)
    BY Zenon, <1>5 DEF ShutdownOk, wg, Serving, Handling, Running
  <2>2. QED
    BY Zenon, <1>5, <2>1, QuietStep DEF ShutdownOk, Core, ShutInv, Running
<1>6. CASE ShutdownTimeout
  BY <1>6, QuietStep DEF ShutdownTimeout, Core, ShutInv, Running
<1>7. CASE ShutdownForce
  <2>a. shutPc' = "failed" /\ UNCHANGED <<connPc, frame, inbox, from, reqPc>>
    BY <1>7 DEF ShutdownForce
  <2>1. ASSUME NEW d \in Conns PROVE ConnInv(d)'
    <3>1. ConnInv(d)
      BY DEF Core
    <3>2. QED
      BY ZenonT(30), <2>a, <3>1 DEF ConnInv
  <2>2. ASSUME NEW r \in Reqs PROVE ReqInv(r)'
    BY ZenonT(30), <1>7 DEF ShutdownForce, Core, ReqInv, Running
  <2>3. ShutInv'
    BY Zenon, <1>7 DEF ShutdownForce, Core, ShutInv, Running
  <2>4. QED
    BY <2>1, <2>2, <2>3 DEF Core
<1>8. QED
  BY Zenon, <1>1, <1>1a, <1>2, <1>3, <1>4, <1>5, <1>6, <1>7 DEF ShutdownStep

-----------------------------------------------------------------------------
(* The semaphore.                                                          *)

\* Only Admit takes a slot, and only when one is free.
LEMMA SemStep ==
  ASSUME TypeOK, Core, ServerStep
  PROVE  \/ sem' \subseteq sem
         \/ Cardinality(sem) < MaxConns /\ sem' = sem \cup {accepted}
<1> USE DEF startVars, shutVars, sockVars, peerVars, reqVars
<1>a. connPc' = connPc => sem' = sem
  BY Zenon DEF sem
<1>b. ASSUME NEW c \in Conns, NEW l, To(c, l),
             connPc[c] \in Handling \cup {"release"} \/ l \notin Handling \cup {"release"}
      PROVE  sem' \subseteq sem
  BY Zenon, <1>b DEF sem, To, TypeOK
<1>1. CASE Admit
  <2>1. accepted \in Conns
    BY Zenon, <1>1 DEF Admit, Core, ShutInv
  <2>2. CASE Cardinality(sem) < MaxConns /\ To(accepted, "spawned")
    BY <2>1, <2>2 DEF sem, To, TypeOK, Handling
  <2>3. CASE To(accepted, "gone")
    BY SMTT(30), <2>1, <2>3, <1>b DEF Handling
  <2>4. QED
    BY Zenon, <1>1, <2>2, <2>3 DEF Admit
<1>2. CASE StartCheck \/ Listen \/ (\E c \in Conns : Accept(c)) \/ AcceptFails
  BY Zenon, <1>2, <1>a DEF StartCheck, Listen, Accept, AcceptFails
<1>3. ASSUME NEW c \in Conns, ConnStep(c) PROVE sem' \subseteq sem
  <2>1. CASE connPc[c] \in Handling \cup {"release"}
    <3>1. \E l : To(c, l)
      BY ZenonT(30), <1>3 DEF ConnStep, HandleStore, HandleCheck, LoopCheck, Arm, ReadFrame, ReadError,
         FramePing, FrameRequest, Spawn, ExitCancel, ExitWait, ExitRelease, ExitClose
    <3>2. QED
      BY Zenon, <2>1, <3>1, <1>b
  <2>2. CASE connPc[c] \notin Handling \cup {"release"}
    <3>1. ExitClose(c)
      BY ZenonT(30), <1>3, <2>2 DEF ConnStep, HandleStore, HandleCheck, LoopCheck, Arm, ReadFrame, ReadError,
         FramePing, FrameRequest, Spawn, ExitCancel, ExitWait, ExitRelease, Handling
    <3>2. QED
      BY Zenon, <3>1, <1>b DEF ExitClose, Handling
  <2>3. QED
    BY Zenon, <2>1, <2>2
<1>4. ASSUME NEW c \in Conns, PeerStep(c) PROVE sem' \subseteq sem
  <2>1. CASE Connect(c)
    BY Zenon, <2>1, <1>b DEF Connect, Handling
  <2>2. CASE PeerClose(c) \/ \E f \in Reqs \cup {Ping} : Send(c, f)
    BY Zenon, <2>2, <1>a DEF PeerClose, Send
  <2>3. QED
    BY Zenon, <1>4, <2>1, <2>2 DEF PeerStep
<1>5. ASSUME NEW r \in Reqs, RequestStep(r) PROVE sem' \subseteq sem
  BY Zenon, <1>5, <1>a DEF RequestStep, HandlerReturns, WriteResponse
<1>6. CASE ShutdownBegin \/ ShutdownAgain \/ ShutdownStep \/ ShutdownTimeout
  BY ZenonT(30), <1>6, <1>a DEF ShutdownBegin, ShutdownAgain, ShutdownStep, ShutdownTimeout, ShutdownListener,
     ShutdownDrain, ShutdownRangeEnd, ShutdownOk, ShutdownForce
<1>7. QED
  BY Zenon, <1>1, <1>2, <1>3, <1>4, <1>5, <1>6 DEF ServerStep, StartStep

\* sem never has more members than its capacity.
LEMMA SemBound == ASSUME TypeOK, Core, SemInv, ServerStep PROVE SemInv'
<1>1. CASE sem' \subseteq sem
  <2>1. /\ IsFiniteSet(sem') /\ Cardinality(sem') <= Cardinality(sem)
    BY Zenon, <1>1, FS_Subset DEF SemInv
  <2>2. Cardinality(sem) \in Nat /\ Cardinality(sem') \in Nat
    BY Zenon, <2>1, FS_CardinalityType DEF SemInv
  <2>3. QED
    BY <2>1, <2>2, ServerConstants DEF SemInv
<1>2. CASE Cardinality(sem) < MaxConns /\ sem' = sem \cup {accepted}
  <2>1. /\ IsFiniteSet(sem')
        /\ Cardinality(sem') = Cardinality(sem) \/ Cardinality(sem') = Cardinality(sem) + 1
    BY Zenon, <1>2, FS_AddElement DEF SemInv
  <2>2. Cardinality(sem) \in Nat
    BY FS_CardinalityType DEF SemInv
  <2>3. QED
    BY <1>2, <2>1, <2>2, ServerConstants DEF SemInv
<1>3. QED
  BY Zenon, <1>1, <1>2, SemStep

-----------------------------------------------------------------------------
(* The second Shutdown.                                                    *)

AgainInv == again = "nil" => closed

\* closed is never reset, and only a Shutdown that finds it set returns nil at
\* once.
LEMMA AgainStep == ASSUME AgainInv, ServerStep PROVE AgainInv'
<1>1. ASSUME closed' = closed, again' = again PROVE AgainInv'
  BY Zenon, <1>1 DEF AgainInv
<1>2. CASE StartCheck \/ StartStep
  BY ZenonT(30), <1>2, <1>1 DEF StartStep, StartCheck, Listen, Accept, AcceptFails, Admit, shutVars
<1>3. ASSUME NEW c \in Conns, ConnStep(c) PROVE AgainInv'
  BY ZenonT(30), <1>3, <1>1 DEF ConnStep, HandleStore, HandleCheck, LoopCheck, Arm, ReadFrame, ReadError,
     FramePing, FrameRequest, Spawn, ExitCancel, ExitWait, ExitRelease, ExitClose, shutVars
<1>4. ASSUME NEW c \in Conns, PeerStep(c) PROVE AgainInv'
  BY ZenonT(30), <1>4, <1>1 DEF PeerStep, Connect, PeerClose, Send, shutVars
<1>5. ASSUME NEW r \in Reqs, RequestStep(r) PROVE AgainInv'
  BY ZenonT(30), <1>5, <1>1 DEF RequestStep, HandlerReturns, WriteResponse, shutVars
<1>6. CASE ShutdownBegin \/ ShutdownAgain
  BY Zenon, <1>6 DEF ShutdownBegin, ShutdownAgain, AgainInv
<1>7. CASE ShutdownStep \/ ShutdownTimeout
  BY ZenonT(30), <1>7, <1>1 DEF ShutdownStep, ShutdownTimeout, ShutdownListener, ShutdownDrain,
     ShutdownRangeEnd, ShutdownOk, ShutdownForce
<1>8. QED
  BY Zenon, <1>2, <1>3, <1>4, <1>5, <1>6, <1>7 DEF ServerStep

-----------------------------------------------------------------------------
(* The results.                                                            *)

IInv == TypeOK /\ Core /\ SemInv /\ AgainInv

\* Every step of Start, of the connections and requests, of Shutdown and of the
\* peers keeps the invariant.
LEMMA Inductive == Spec => []IInv
<1>1. Init => IInv
  <2>1. Init => sem = {}
    BY DEF Init, sem, Handling
  <2>2. IsFiniteSet({}) /\ Cardinality({}) = 0
    BY FS_EmptySet
  <2>3. Init => SemInv
    <3>1. 0 <= MaxConns
      BY ServerConstants
    <3>2. QED
      BY Zenon, <2>1, <2>2, <3>1 DEF SemInv
  <2>4. QED
    BY Zenon, <2>3, InitInv DEF IInv, AgainInv, Init
<1>2. IInv /\ [Next]_vars => IInv'
  <2> SUFFICES ASSUME IInv, [Next]_vars PROVE IInv'
    OBVIOUS
  <2>1. CASE ServerStep
    <3>1. TypeOK'
      BY Zenon, <2>1, StartTypeOK, ConnTypeOK, RequestTypeOK, PeerTypeOK, ShutdownTypeOK
         DEF ServerStep, IInv, Core
    <3>2. Core'
      BY Zenon, <2>1, StartInv, ConnStepInv, RequestInv, PeerInv, ShutdownInv DEF ServerStep, IInv
    <3>3. QED
      BY Zenon, <2>1, <3>1, <3>2, SemBound, AgainStep DEF IInv
  <2>2. CASE UNCHANGED vars
    <3> USE <2>2 DEF vars, serverVars, startVars, shutVars, sockVars, peerVars, reqVars
    <3>1. TypeOK'
      BY ZenonT(30) DEF TypeOK, IInv
    <3>2. Core'
      BY Zenon, QuietStep DEF IInv, Core, ShutInv, Running
    <3>3. SemInv'
      BY Zenon DEF SemInv, IInv, sem
    <3>3a. AgainInv'
      BY Zenon DEF IInv, AgainInv
    <3>4. QED
      BY Zenon, <3>1, <3>2, <3>3, <3>3a DEF IInv
  <2>3. QED
    BY Zenon, <2>1, <2>2 DEF Next
<1>3. QED
  BY <1>1, <1>2, PTL DEF Spec

\* When the Shutdown that closed the server has returned nil no request is being
\* handled, no connection is read from, and none will be: one that is admitted
\* after wg.Wait returned finds closed set (server.go handleConn) and goes
\* straight to its deferred calls.  The nil of a Shutdown that finds the server
\* closed says no more than that.
THEOREM QuietAfterShutdown == Spec => []ShutdownQuiet
<1>1. IInv => ShutdownQuiet
  BY Zenon DEF IInv, AgainInv, Core, ShutInv, ShutdownQuiet, Running, Serving
<1>2. QED
  BY <1>1, Inductive, PTL

\* A request in flight keeps its connection and its slot of the semaphore until
\* it is answered, and a clean Shutdown leaves none unanswered but for the peer:
\* the deferred reqWg.Wait of handleConn comes before the release and Close.
THEOREM ServedWhileInFlight == Spec => []InFlightServed
<1>1. IInv => InFlightServed
  <2> SUFFICES ASSUME IInv PROVE InFlightServed
    OBVIOUS
  <2>1. OpenWhileHandling
    BY Zenon DEF IInv, Core, ConnInv, ReqInv, Running, Serving, OpenWhileHandling
  <2>2. DrainAnswers
    BY Zenon DEF IInv, TypeOK, Core, ReqInv, ShutInv, Running, DrainAnswers
  <2>3. WorkBounded
    BY Zenon DEF IInv, SemInv, Core, ReqInv, Running, Serving, Handling, sem, WorkBounded
  <2>4. QED
    BY <2>1, <2>2, <2>3 DEF IInv, InFlightServed
<1>2. QED
  BY <1>1, Inductive, PTL
=============================================================================
