----------------------------- MODULE NetServer -----------------------------
(***************************************************************************)
(* The server of micro/net/server.go: the accept loop of Start, one        *)
(* handleConn goroutine per connection, one handleRequest goroutine per    *)
(* request, and Shutdown, which drains.                                    *)
(*                                                                         *)
(* The semaphore and the wait groups are the sets of goroutines they count.*)
(* A frame is a request or a Ping; its bytes are abstracted.  The handler, *)
(* the rate limiter, the peers and the context given to Shutdown are the   *)
(* environment.                                                            *)
(***************************************************************************)
EXTENDS Integers, Sequences, FiniteSets

CONSTANTS
  Conns, Reqs,   \* connections peers may open, requests they may send
  OneWay,        \* the requests that carry FlagOneWay
  Ping, NoConn, NoFrame,
  MaxConns,      \* serverOptions.maxConns
  MaxInbox,      \* bound: frames in flight from one peer
  Envs           \* the surroundings to consider, a set of subsets of EnvChoices

\* tls: connections are not *net.TCPConn; idle: a read timeout is configured;
\* peerclose: peers may go away; stall: a write may fail although the peer is
\* there; limit: the limiter may refuse; deadline: Shutdown's context may end;
\* late: Start may be called after or during Shutdown; again: Shutdown may be
\* called a second time; oneway, ping: peers may send one-way requests,
\* heartbeats.
EnvChoices == {"tls", "idle", "peerclose", "stall", "limit", "deadline", "late",
               "again", "oneway", "ping"}

ASSUME ServerConstants ==
  /\ OneWay \subseteq Reqs /\ Ping \notin Reqs /\ NoFrame \notin Reqs \cup {Ping}
  /\ NoConn \notin Conns
  /\ MaxConns \in Nat \ {0} /\ MaxInbox \in Nat \ {0}
  /\ Envs \subseteq SUBSET EnvChoices

VARIABLES
  closed,     \* Server.closed
  listener,   \* Server.listener: "nil", "open" or "closed"
  baseDone,   \* baseCtx has been cancelled
  startPc,    \* where Start is
  accepted,   \* the connection Start has accepted and not yet admitted
  shutPc,     \* where the Shutdown that set closed is
  again,      \* what a second Shutdown has returned
  toVisit,    \* the connections Shutdown's first Range has still to visit
  connPc,     \* where each connection's handleConn is
  draining,   \* connSlot.draining
  expired,    \* the read deadline of the connection has passed
  readShut,   \* CloseRead has been called
  open,       \* the server has not closed the connection
  peerGone,   \* the peer has closed the connection
  ctxDone,    \* connCtx has been cancelled
  inbox,      \* frames the peer has sent and the server has not read
  frame,      \* the frame handleConn is working on
  reqPc,      \* where each request is
  from,       \* the connection a request was sent on
  outcome,    \* what was, or is to be, sent back
  env         \* what the surroundings of this server may do

startVars == <<listener, startPc, accepted>>
shutVars  == <<closed, baseDone, shutPc, toVisit, again>>
sockVars  == <<expired, readShut, open>>
peerVars  == <<peerGone, inbox, from>>
reqVars   == <<reqPc, outcome>>
serverVars == <<startVars, shutVars, connPc, draining, sockVars, ctxDone, frame,
                peerVars, reqVars>>
vars == <<serverVars, env>>

-----------------------------------------------------------------------------
(* Who holds what.                                                         *)

Handling == {"spawned", "check", "loop", "arm", "read", "frame", "spawn",
             "cancel", "wait"}

\* Server.sem, Server.conns, connSlot.reqWg and Server.wg.
sem      == {c \in Conns : connPc[c] \in Handling \cup {"release"}}
conns    == {c \in Conns : connPc[c] \in (Handling \ {"spawned"})
                                           \cup {"release", "close"}}
reqWg(c) == {r \in Reqs : from[r] = c /\ reqPc[r] \in {"running", "writing"}}
wg       == {c \in Conns : connPc[c] \in Handling}
              \cup {r \in Reqs : reqPc[r] \in {"running", "writing"}}

\* req.Ctx, derived from connCtx, derived from baseCtx.
CtxDone(r) == baseDone \/ ctxDone[from[r]]

To(c, l) == connPc' = [connPc EXCEPT ![c] = l]

WriteWorks(c) == open[c] /\ ~peerGone[c]
WriteFails(c) == ~WriteWorks(c) \/ "stall" \in env

\* sendFrame of a response to r, with or without success.
sendFrame(c, r, what) ==
  /\ \/ WriteWorks(c) /\ reqPc' = [reqPc EXCEPT ![r] = "answered"]
     \/ ~WriteWorks(c) /\ reqPc' = [reqPc EXCEPT ![r] = "lost"]
     \/ "stall" \in env /\ reqPc' = [reqPc EXCEPT ![r] = "stalled"]
  /\ outcome' = [outcome EXCEPT ![r] = what]

\* beginDrain; a second call finds draining set and does nothing.
beginDrain(c) ==
  IF draining[c] THEN UNCHANGED <<draining, sockVars>>
  ELSE /\ draining' = [draining EXCEPT ![c] = TRUE]
       /\ expired' = [expired EXCEPT ![c] = TRUE]
       /\ readShut' = [readShut EXCEPT ![c] = "tls" \notin env]
       /\ UNCHANGED open

-----------------------------------------------------------------------------
Init ==
  /\ closed = FALSE /\ listener = "nil" /\ baseDone = FALSE
  /\ startPc = "none" /\ accepted = NoConn
  /\ shutPc = "none" /\ toVisit = {} /\ again = "none"
  /\ connPc = [c \in Conns |-> "away"]
  /\ draining = [c \in Conns |-> FALSE]
  /\ expired = [c \in Conns |-> FALSE]
  /\ readShut = [c \in Conns |-> FALSE]
  /\ open = [c \in Conns |-> TRUE]
  /\ peerGone = [c \in Conns |-> FALSE]
  /\ ctxDone = [c \in Conns |-> FALSE]
  /\ inbox = [c \in Conns |-> <<>>]
  /\ frame = [c \in Conns |-> NoFrame]
  /\ reqPc = [r \in Reqs |-> "unsent"]
  /\ from = [r \in Reqs |-> NoConn]
  /\ outcome = [r \in Reqs |-> "none"]
  /\ env \in Envs

-----------------------------------------------------------------------------
(* Start.                                                                  *)

StartCheck ==
  /\ startPc = "none"
  /\ startPc' = IF closed THEN "returned" ELSE "listen"
  /\ UNCHANGED <<listener, accepted, shutVars, connPc, draining, sockVars,
                 ctxDone, frame, peerVars, reqVars>>

Listen ==
  /\ startPc = "listen"
  /\ listener' = "open"
  /\ startPc' = "accept"
  /\ UNCHANGED <<accepted, shutVars, connPc, draining, sockVars, ctxDone,
                 frame, peerVars, reqVars>>

Accept(c) ==
  /\ startPc = "accept"
  /\ listener = "open"
  /\ connPc[c] = "backlog"
  /\ accepted' = c
  /\ startPc' = "admit"
  /\ UNCHANGED <<listener, shutVars, connPc, draining, sockVars, ctxDone,
                 frame, peerVars, reqVars>>

\* Accept fails once the listener is closed, and closed is set by then.
AcceptFails ==
  /\ startPc = "accept"
  /\ listener = "closed"
  /\ closed
  /\ startPc' = "returned"
  /\ UNCHANGED <<listener, accepted, shutVars, connPc, draining, sockVars,
                 ctxDone, frame, peerVars, reqVars>>

\* A free slot of sem: count the connection and start handleConn; else close.
Admit ==
  /\ startPc = "admit"
  /\ \/ Cardinality(sem) < MaxConns /\ To(accepted, "spawned") /\ UNCHANGED open
     \/ /\ Cardinality(sem) >= MaxConns
        /\ To(accepted, "gone")
        /\ open' = [open EXCEPT ![accepted] = FALSE]
  /\ startPc' = "accept"
  /\ accepted' = NoConn
  /\ UNCHANGED <<listener, shutVars, draining, expired, readShut, ctxDone,
                 frame, peerVars, reqVars>>

-----------------------------------------------------------------------------
(* handleConn.                                                             *)

\* conns.Store.
HandleStore(c) ==
  /\ connPc[c] = "spawned"
  /\ To(c, "check")
  /\ UNCHANGED <<startVars, shutVars, draining, sockVars, ctxDone, frame,
                 peerVars, reqVars>>

\* A connection that arrives while the server closes is only drained.
HandleCheck(c) ==
  /\ connPc[c] = "check"
  /\ IF closed THEN beginDrain(c) /\ To(c, "wait")
               ELSE UNCHANGED <<draining, sockVars>> /\ To(c, "loop")
  /\ UNCHANGED <<startVars, shutVars, ctxDone, frame, peerVars, reqVars>>

\* The head of the loop.
LoopCheck(c) ==
  /\ connPc[c] = "loop"
  /\ IF closed \/ draining[c]
     THEN beginDrain(c) /\ To(c, "cancel")
     ELSE UNCHANGED <<draining, sockVars>> /\ To(c, "arm")
  /\ UNCHANGED <<startVars, shutVars, ctxDone, frame, peerVars, reqVars>>

\* setReadDeadline, which fails on a closed connection.
Arm(c) ==
  /\ connPc[c] = "arm"
  /\ IF open[c] THEN To(c, "read") /\ expired' = [expired EXCEPT ![c] = FALSE]
                ELSE To(c, "cancel") /\ UNCHANGED expired
  /\ UNCHANGED <<startVars, shutVars, draining, readShut, open, ctxDone, frame,
                 peerVars, reqVars>>

\* readFrame returns a frame, perhaps one that was already buffered.
ReadFrame(c) ==
  /\ connPc[c] = "read"
  /\ inbox[c] # <<>>
  /\ frame' = [frame EXCEPT ![c] = Head(inbox[c])]
  /\ inbox' = [inbox EXCEPT ![c] = Tail(@)]
  /\ To(c, "frame")
  /\ UNCHANGED <<startVars, shutVars, draining, sockVars, ctxDone, peerGone,
                 from, reqVars>>

\* readFrame fails: deadline, end of file, or a connection closed by Shutdown.
ReadError(c) ==
  /\ connPc[c] = "read"
  /\ expired[c] \/ readShut[c] \/ ~open[c] \/ peerGone[c] \/ "idle" \in env
  /\ To(c, "cancel")
  /\ UNCHANGED <<startVars, shutVars, draining, sockVars, ctxDone, frame,
                 peerVars, reqVars>>

\* A Ping is answered by a Pong; a failed write ends the connection.
FramePing(c) ==
  /\ connPc[c] = "frame"
  /\ frame[c] = Ping
  /\ \/ WriteWorks(c) /\ To(c, "loop")
     \/ WriteFails(c) /\ To(c, "cancel")
  /\ frame' = [frame EXCEPT ![c] = NoFrame]
  /\ UNCHANGED <<startVars, shutVars, draining, sockVars, ctxDone, peerVars,
                 reqVars>>

\* A request is refused while draining, refused by the limiter, or accepted.
FrameRequest(c) ==
  /\ connPc[c] = "frame"
  /\ frame[c] \in Reqs
  /\ \/ /\ draining[c] \/ closed
        /\ sendFrame(c, frame[c], "draining")
        /\ To(c, "cancel")
        /\ frame' = [frame EXCEPT ![c] = NoFrame]
     \/ /\ ~draining[c] /\ ~closed
        /\ "limit" \in env
        /\ sendFrame(c, frame[c], "limited")
        /\ To(c, "loop")
        /\ frame' = [frame EXCEPT ![c] = NoFrame]
     \/ /\ ~draining[c] /\ ~closed
        /\ To(c, "spawn")
        /\ UNCHANGED <<frame, reqVars>>
  /\ UNCHANGED <<startVars, shutVars, draining, sockVars, ctxDone, peerVars>>

\* reqWg.Add, wg.Add and the go statement.
Spawn(c) ==
  /\ connPc[c] = "spawn"
  /\ reqPc' = [reqPc EXCEPT ![frame[c]] = "running"]
  /\ To(c, "loop")
  /\ frame' = [frame EXCEPT ![c] = NoFrame]
  /\ UNCHANGED <<startVars, shutVars, draining, sockVars, ctxDone, peerVars,
                 outcome>>

\* The deferred calls, last registered first: cancel of connCtx ...
ExitCancel(c) ==
  /\ connPc[c] = "cancel"
  /\ ctxDone' = [ctxDone EXCEPT ![c] = TRUE]
  /\ To(c, "wait")
  /\ UNCHANGED <<startVars, shutVars, draining, sockVars, frame, peerVars,
                 reqVars>>

ExitWait_NoWait(c) ==   \* mutant: the requests in progress are not awaited
  /\ connPc[c] = "wait"
  /\ To(c, "release")
  /\ UNCHANGED <<startVars, shutVars, draining, sockVars, ctxDone, frame,
                 peerVars, reqVars>>

\* ... then reqWg.Wait and wg.Done ...
ExitWait(c) ==
  /\ connPc[c] = "wait"
  /\ reqWg(c) = {}
  /\ To(c, "release")
  /\ UNCHANGED <<startVars, shutVars, draining, sockVars, ctxDone, frame,
                 peerVars, reqVars>>

\* ... the slot of sem ...
ExitRelease(c) ==
  /\ connPc[c] = "release"
  /\ To(c, "close")
  /\ UNCHANGED <<startVars, shutVars, draining, sockVars, ctxDone, frame,
                 peerVars, reqVars>>

\* ... and Close and conns.Delete.  Nothing refers to the slot and its contexts
\* any more, and what the peer had sent is dropped.
ExitClose(c) ==
  /\ connPc[c] = "close"
  /\ To(c, "gone")
  /\ open' = [open EXCEPT ![c] = FALSE]
  /\ inbox' = [inbox EXCEPT ![c] = <<>>]
  /\ draining' = [draining EXCEPT ![c] = FALSE]
  /\ expired' = [expired EXCEPT ![c] = FALSE]
  /\ readShut' = [readShut EXCEPT ![c] = FALSE]
  /\ ctxDone' = [ctxDone EXCEPT ![c] = FALSE]
  /\ UNCHANGED <<startVars, shutVars, frame, peerGone, from, reqVars>>

-----------------------------------------------------------------------------
(* handleRequest and safeHandle.                                           *)

\* The handler returns a response, an error or a panic; when its context is
\* done it may give up with the context's error.
HandlerReturns(r) ==
  /\ reqPc[r] = "running"
  /\ \E o \in {"ok", "error"} \cup (IF CtxDone(r) THEN {"ctx"} ELSE {}) :
       outcome' = [outcome EXCEPT ![r] = o]
  /\ reqPc' = [reqPc EXCEPT ![r] = IF r \in OneWay THEN "silent" ELSE "writing"]
  /\ UNCHANGED <<startVars, shutVars, connPc, draining, sockVars, ctxDone,
                 frame, peerVars>>

\* sendFrame, then reqWg.Done and wg.Done.
WriteResponse(r) ==
  /\ reqPc[r] = "writing"
  /\ sendFrame(from[r], r, outcome[r])
  /\ UNCHANGED <<startVars, shutVars, connPc, draining, sockVars, ctxDone,
                 frame, peerVars>>

-----------------------------------------------------------------------------
(* Shutdown.                                                               *)

\* The CompareAndSwap on closed succeeds.
ShutdownBegin ==
  /\ shutPc = "none"
  /\ startPc # "none" \/ "late" \in env
  /\ closed' = TRUE
  /\ shutPc' = "listener"
  /\ UNCHANGED <<startVars, again, baseDone, toVisit, connPc, draining,
                 sockVars, ctxDone, frame, peerVars, reqVars>>

\* It fails: Shutdown returns nil, whatever the other one is doing.
ShutdownAgain ==
  /\ "again" \in env
  /\ closed /\ again = "none"
  /\ again' = "nil"
  /\ UNCHANGED <<startVars, closed, baseDone, shutPc, toVisit, connPc, draining,
                 sockVars, ctxDone, frame, peerVars, reqVars>>

\* Close the listener if there is one; the Range over conns begins.
ShutdownListener ==
  /\ shutPc = "listener"
  /\ listener' = IF listener = "nil" THEN "nil" ELSE "closed"
  /\ toVisit' = conns
  /\ shutPc' = "range"
  /\ UNCHANGED <<again, closed, baseDone, startPc, accepted, connPc, draining,
                 sockVars, ctxDone, frame, peerVars, reqVars>>

\* Range may also visit a connection stored after it began.
ShutdownDrain(c) ==
  /\ shutPc = "range"
  /\ c \in conns /\ ~draining[c]
  /\ beginDrain(c)
  /\ toVisit' = toVisit \ {c}
  /\ UNCHANGED <<startVars, again, closed, baseDone, shutPc, connPc, ctxDone,
                 frame, peerVars, reqVars>>

ShutdownRangeEnd_Early ==   \* mutant: nobody is drained
  /\ shutPc = "range"
  /\ shutPc' = "waiting"
  /\ UNCHANGED <<startVars, again, closed, baseDone, toVisit, connPc, draining,
                 sockVars, ctxDone, frame, peerVars, reqVars>>

ShutdownRangeEnd ==
  /\ shutPc = "range"
  /\ \A c \in toVisit : c \notin conns \/ draining[c]
  /\ shutPc' = "waiting"
  /\ UNCHANGED <<startVars, again, closed, baseDone, toVisit, connPc, draining,
                 sockVars, ctxDone, frame, peerVars, reqVars>>

ShutdownOk_NoWait ==   \* mutant: wg is not awaited
  /\ shutPc = "waiting"
  /\ baseDone' = TRUE
  /\ shutPc' = "ok"
  /\ UNCHANGED <<startVars, again, closed, toVisit, connPc, draining, sockVars,
                 ctxDone, frame, peerVars, reqVars>>

\* wg.Wait has returned: cancel baseCtx and return nil.
ShutdownOk ==
  /\ shutPc = "waiting"
  /\ wg = {}
  /\ baseDone' = TRUE
  /\ shutPc' = "ok"
  /\ UNCHANGED <<startVars, again, closed, toVisit, connPc, draining, sockVars,
                 ctxDone, frame, peerVars, reqVars>>

\* The context given to Shutdown ends first.
ShutdownTimeout ==
  /\ "deadline" \in env
  /\ shutPc = "waiting"
  /\ baseDone' = TRUE
  /\ shutPc' = "forcing"
  /\ UNCHANGED <<startVars, again, closed, toVisit, connPc, draining, sockVars,
                 ctxDone, frame, peerVars, reqVars>>

\* The remaining connections are closed and the context's error is returned.
ShutdownForce ==
  /\ shutPc = "forcing"
  /\ open' = [c \in Conns |-> open[c] /\ c \notin conns]
  /\ shutPc' = "failed"
  /\ UNCHANGED <<startVars, again, closed, baseDone, toVisit, connPc, draining,
                 expired, readShut, ctxDone, frame, peerVars, reqVars>>

-----------------------------------------------------------------------------
(* The peers.  What they do after handleConn has ended is of no interest.  *)

\* Connections that have not been made are all alike.
Connect(c) ==
  /\ listener = "open"
  /\ connPc[c] = "away"
  /\ c = CHOOSE d \in Conns : connPc[d] = "away"
  /\ To(c, "backlog")
  /\ UNCHANGED <<startVars, shutVars, draining, sockVars, ctxDone, frame,
                 peerVars, reqVars>>

Send(c, f) ==
  /\ connPc[c] \notin {"away", "gone"}
  /\ ~peerGone[c]
  /\ Len(inbox[c]) < MaxInbox
  /\ f \in OneWay => "oneway" \in env
  /\ f = Ping => "ping" \in env
  /\ inbox' = [inbox EXCEPT ![c] = Append(@, f)]
  /\ IF f \in Reqs
     THEN /\ reqPc[f] = "unsent"
          /\ reqPc' = [reqPc EXCEPT ![f] = "sent"]
          /\ from' = [from EXCEPT ![f] = c]
     ELSE UNCHANGED <<reqPc, from>>
  /\ UNCHANGED <<startVars, shutVars, connPc, draining, sockVars, ctxDone,
                 frame, peerGone, outcome>>

PeerClose(c) ==
  /\ "peerclose" \in env
  /\ connPc[c] \notin {"away", "gone"}
  /\ ~peerGone[c]
  /\ peerGone' = [peerGone EXCEPT ![c] = TRUE]
  /\ UNCHANGED <<startVars, shutVars, connPc, draining, sockVars, ctxDone,
                 frame, inbox, from, reqVars>>

-----------------------------------------------------------------------------
StartStep == Listen \/ (\E c \in Conns : Accept(c)) \/ AcceptFails \/ Admit

ConnStep(c) ==
  \/ HandleStore(c) \/ HandleCheck(c) \/ LoopCheck(c) \/ Arm(c)
  \/ ReadFrame(c) \/ ReadError(c) \/ FramePing(c) \/ FrameRequest(c) \/ Spawn(c)
  \/ ExitCancel(c) \/ ExitWait(c) \/ ExitRelease(c) \/ ExitClose(c)

RequestStep(r) == HandlerReturns(r) \/ WriteResponse(r)

ShutdownStep ==
  \/ ShutdownListener \/ (\E c \in Conns : ShutdownDrain(c))
  \/ ShutdownRangeEnd \/ ShutdownOk \/ ShutdownForce

PeerStep(c) ==
  Connect(c) \/ PeerClose(c) \/ \E f \in Reqs \cup {Ping} : Send(c, f)

ServerStep ==
  \/ StartCheck \/ StartStep
  \/ \E c \in Conns : ConnStep(c) \/ PeerStep(c)
  \/ \E r \in Reqs : RequestStep(r)
  \/ ShutdownBegin \/ ShutdownAgain \/ ShutdownStep \/ ShutdownTimeout

Next == ServerStep /\ UNCHANGED env

Spec == Init /\ [][Next]_vars

\* Every goroutine of the server is scheduled, and handlers return.
FairSpec ==
  /\ Spec
  /\ WF_serverVars(StartStep) /\ WF_serverVars(ShutdownStep)
  /\ \A c \in Conns : WF_serverVars(ConnStep(c))
  /\ \A r \in Reqs : WF_serverVars(RequestStep(r))

-----------------------------------------------------------------------------
(* Properties.                                                             *)

\* The variables have their types.
TypeOK ==
  /\ closed \in BOOLEAN /\ baseDone \in BOOLEAN
  /\ listener \in {"nil", "open", "closed"}
  /\ startPc \in {"none", "listen", "accept", "admit", "returned"}
  /\ accepted \in Conns \cup {NoConn}
  /\ shutPc \in {"none", "listener", "range", "waiting", "ok", "forcing",
                 "failed"}
  /\ toVisit \subseteq Conns /\ again \in {"none", "nil"}
  /\ connPc \in [Conns -> Handling \cup {"away", "backlog", "release", "close",
                                         "gone"}]
  /\ draining \in [Conns -> BOOLEAN] /\ ctxDone \in [Conns -> BOOLEAN]
  /\ expired \in [Conns -> BOOLEAN] /\ readShut \in [Conns -> BOOLEAN]
  /\ open \in [Conns -> BOOLEAN] /\ peerGone \in [Conns -> BOOLEAN]
  /\ inbox \in [Conns -> Seq(Reqs \cup {Ping})]
  /\ frame \in [Conns -> Reqs \cup {Ping, NoFrame}]
  /\ reqPc \in [Reqs -> {"unsent", "sent", "running", "writing", "answered",
                         "lost", "stalled", "silent"}]
  /\ from \in [Reqs -> Conns \cup {NoConn}]
  /\ outcome \in [Reqs -> {"none", "ok", "error", "ctx", "draining", "limited"}]

\* A connection is not closed under a request that is being handled, unless
\* Shutdown ran out of time: the deferred reqWg.Wait comes before Close.
OpenWhileHandling ==
  \A r \in Reqs : reqPc[r] \in {"running", "writing"} /\ ~open[from[r]]
                    => shutPc = "failed"

\* When the Shutdown that closed the server has returned nil no request is being
\* handled, no connection is read from and, although one that was accepted a
\* moment earlier may still be admitted, none ever will be.  The nil of another
\* Shutdown, which finds the server closed, says only that it is closed: the
\* drain may be under way, or may have failed, and handlers may be running.
ShutdownQuiet ==
  /\ shutPc = "ok" => /\ \A r \in Reqs : reqPc[r] \notin {"running", "writing"}
                      /\ \A c \in Conns : connPc[c] \notin {"loop", "arm", "read", "frame",
                                                            "spawn", "cancel"}
  /\ again = "nil" => closed

\* When that Shutdown returns nil every request a handler had begun has been
\* answered, unless the peer left or did not take the answer in time
\* (server_test.go TestServerDrainInFlight).
DrainAnswers ==
  shutPc = "ok" => \A r \in Reqs : outcome[r] # "none" =>
    \/ reqPc[r] \in {"answered", "silent", "stalled"}
    \/ reqPc[r] = "lost" /\ peerGone[from[r]]

\* Requests are handled only on connections that have a slot of sem, and those
\* are never more than its capacity, however slowly connections drain.
WorkBounded ==
  /\ Cardinality(sem) <= MaxConns
  /\ \A r \in Reqs : reqPc[r] \in {"running", "writing"} => from[r] \in sem

\* A request in flight keeps its connection until it is answered, under the drain
\* of Shutdown too, and no more than maxConns connections have any.
InFlightServed == TypeOK /\ OpenWhileHandling /\ DrainAnswers /\ WorkBounded

\* Shutdown returns although its context never ends, if the connections are TCP:
\* beginDrain, or the checks of closed in handleConn, end every connection.
ShutdownReturns ==
  "tls" \notin env => ((shutPc # "none") ~> (shutPc \in {"ok", "failed"}))
=============================================================================
