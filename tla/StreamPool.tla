----------------------------- MODULE StreamPool -----------------------------
(***************************************************************************)
(* The pool of multiplexed streams of one endpoint, micro/net/pool.go: Get *)
(* with its dial outside the mutex and its condition variable, the         *)
(* background goroutine that recycles and probes streams, and Close.       *)
(*                                                                         *)
(* A stream (micro/net/stream.go) is whether it is alive and how many      *)
(* Calls it carries; both change without the pool's mutex.  Times are      *)
(* abstracted: a stream may be found idle or old whenever the code tests.  *)
(***************************************************************************)
EXTENDS Integers, FiniteSets

CONSTANTS
  Callers, Streams,
  NoProc, NoStream,
  MaxOpen,     \* streamPool.maxOpen
  HighLoad,    \* Inflight from which Get prefers a new stream (32)
  MaxLost,     \* bound: streams that die or are recycled, dials that fail
  Env          \* what the surroundings may do, a subset of EnvChoices

\* cancel: a Get's context may end; ping: heartbeats are configured; close:
\* the pool may be closed.
EnvChoices == {"cancel", "ping", "close"}

ASSUME PoolConstants ==
  /\ NoProc \notin Callers /\ NoStream \notin Streams
  /\ MaxOpen \in Nat \ {0} /\ HighLoad \in Nat \ {0} /\ MaxLost \in Nat
  /\ Env \subseteq EnvChoices

VARIABLES
  mu,         \* the caller that holds mu across a step, or NoProc
  asleep,     \* the callers in cond.Wait that have not been notified
  streams,    \* streamPool.streams
  dialing,    \* streamPool.dialing
  closed,     \* streamPool.closed
  alive,      \* stream.Alive of every stream
  inflight,   \* stream.Inflight of every stream
  pc,         \* where each caller is
  ref,        \* the stream each caller refers to
  cancelled,  \* whether the context of a caller's Get has ended
  afterFn,    \* context.AfterFunc goroutines that have not broadcast yet
  bgPc,       \* where background is
  toClose,    \* maintain's toClose
  toPing,     \* maintain's toPing
  closePc,    \* where Close is
  closing,    \* the streams Close has still to close
  lost

bgVars     == <<bgPc, toClose, toPing>>
closeVars  == <<closePc, closing>>
callerVars == <<pc, ref, cancelled, afterFn>>
vars == <<mu, asleep, streams, dialing, closed, alive, inflight, callerVars,
          bgVars, closeVars, lost>>

-----------------------------------------------------------------------------
Broadcast == asleep' = {}

To(p, l)  == pc' = [pc EXCEPT ![p] = l]
Leave(p)  == To(p, "out") /\ ref' = [ref EXCEPT ![p] = NoStream]

Live(S) == {s \in S : alive[s]}

\* compactLocked.
compactLocked == streams' = Live(streams)

\* pickLocked: a live stream with the fewest Calls.
Best == {s \in Live(streams) : \A t \in Live(streams) : inflight[s] <= inflight[t]}

Room == Cardinality(streams) + dialing < MaxOpen

\* A stream object nobody refers to stands for a new one.
Fresh(s) ==
  /\ ~alive[s] /\ inflight[s] = 0
  /\ s \notin streams \cup toClose \cup toPing \cup closing
  /\ \A p \in Callers : ref[p] # s

-----------------------------------------------------------------------------
Init ==
  /\ mu = NoProc /\ asleep = {}
  /\ streams = {} /\ dialing = 0 /\ closed = FALSE
  /\ alive = [s \in Streams |-> FALSE]
  /\ inflight = [s \in Streams |-> 0]
  /\ pc = [p \in Callers |-> "out"]
  /\ ref = [p \in Callers |-> NoStream]
  /\ cancelled = [p \in Callers |-> FALSE]
  /\ afterFn = {}
  /\ bgPc = "select" /\ toClose = {} /\ toPing = {}
  /\ closePc = "none" /\ closing = {}
  /\ lost = 0

-----------------------------------------------------------------------------
(* Get and waitLocked.                                                     *)

\* The head of the loop, with mu: closed, the context, compactLocked.
Head(p) ==
  IF closed \/ cancelled[p]
  THEN To(p, "out") /\ UNCHANGED <<mu, streams>>
  ELSE To(p, "pick") /\ mu' = p /\ compactLocked

GetBegin(p) ==
  /\ pc[p] = "out"
  /\ mu = NoProc
  /\ cancelled' = [cancelled EXCEPT ![p] = FALSE]
  /\ IF closed THEN UNCHANGED <<mu, streams, pc>>
               ELSE To(p, "pick") /\ mu' = p /\ compactLocked
  /\ UNCHANGED <<asleep, dialing, closed, alive, inflight, ref, afterFn,
                 bgVars, closeVars, lost>>

\* An existing stream, unless it is busy and there is room for another one.
PickExisting(p) ==
  /\ pc[p] = "pick"
  /\ \E s \in Best : /\ ~Room \/ inflight[s] < HighLoad
                     /\ ref' = [ref EXCEPT ![p] = s]
  /\ To(p, "hold")
  /\ mu' = NoProc
  /\ UNCHANGED <<asleep, streams, dialing, closed, alive, inflight, cancelled,
                 afterFn, bgVars, closeVars, lost>>

\* Room for another one: count the dial and unlock.
Reserve(p) ==
  /\ pc[p] = "pick"
  /\ Room
  /\ \A s \in Best : inflight[s] >= HighLoad
  /\ dialing' = dialing + 1
  /\ To(p, "dial")
  /\ mu' = NoProc
  /\ UNCHANGED <<asleep, streams, closed, alive, inflight, ref, cancelled,
                 afterFn, bgVars, closeVars, lost>>

\* No room and no live stream: waitLocked up to cond.Wait, with mu held.
Park(p) ==
  /\ pc[p] = "pick"
  /\ ~Room
  /\ Live(streams) = {}
  /\ IF cancelled[p] THEN To(p, "out") /\ mu' = NoProc
                     ELSE To(p, "parking") /\ UNCHANGED mu
  /\ UNCHANGED <<asleep, streams, dialing, closed, alive, inflight, ref,
                 cancelled, afterFn, bgVars, closeVars, lost>>

Sleep(p) ==
  /\ pc[p] = "parking"
  /\ asleep' = asleep \cup {p}
  /\ mu' = NoProc
  /\ To(p, "wait")
  /\ UNCHANGED <<streams, dialing, closed, alive, inflight, ref, cancelled,
                 afterFn, bgVars, closeVars, lost>>

\* cond.Wait returns; waitLocked's checks are those of the loop's head.
Wake(p) ==
  /\ pc[p] = "wait"
  /\ p \notin asleep
  /\ mu = NoProc
  /\ Head(p)
  /\ UNCHANGED <<asleep, dialing, closed, alive, inflight, ref, cancelled,
                 afterFn, bgVars, closeVars, lost>>

\* dialStream, without mu.
DialOk(p) ==
  /\ pc[p] = "dial"
  /\ \E s \in Streams : /\ Fresh(s)
                        /\ alive' = [alive EXCEPT ![s] = TRUE]
                        /\ ref' = [ref EXCEPT ![p] = s]
  /\ To(p, "dialed")
  /\ UNCHANGED <<mu, asleep, streams, dialing, closed, inflight, cancelled,
                 afterFn, bgVars, closeVars, lost>>

DialFail(p) ==
  /\ pc[p] = "dial"
  /\ lost < MaxLost
  /\ lost' = lost + 1
  /\ To(p, "dialed")
  /\ UNCHANGED <<mu, asleep, streams, dialing, closed, alive, inflight, ref,
                 cancelled, afterFn, bgVars, closeVars>>

\* With mu again: the dial failed, the pool closed meanwhile, or the stream is
\* entered.  The code's fourth case, streams being full, cannot occur: see
\* RoomForDials.
DialDone(p) ==
  /\ pc[p] = "dialed"
  /\ mu = NoProc
  /\ dialing' = dialing - 1
  /\ Broadcast
  /\ \/ /\ ref[p] = NoStream
        /\ To(p, "out")
        /\ UNCHANGED <<streams, ref, alive>>
     \/ /\ ref[p] # NoStream /\ closed
        /\ alive' = [alive EXCEPT ![ref[p]] = FALSE]
        /\ Leave(p)
        /\ UNCHANGED streams
     \/ /\ ref[p] # NoStream /\ ~closed
        /\ streams' = Live(streams) \cup {ref[p]}
        /\ To(p, "hold")
        /\ UNCHANGED <<ref, alive>>
  /\ UNCHANGED <<mu, closed, inflight, cancelled, afterFn, bgVars, closeVars,
                 lost>>

\* The context of p's Get ends; a registered AfterFunc starts its goroutine.
Cancel(p) ==
  /\ "cancel" \in Env
  /\ pc[p] \in {"pick", "parking", "wait"}
  /\ ~cancelled[p]
  /\ cancelled' = [cancelled EXCEPT ![p] = TRUE]
  /\ afterFn' = IF pc[p] = "pick" THEN afterFn ELSE afterFn \cup {p}
  /\ UNCHANGED <<mu, asleep, streams, dialing, closed, alive, inflight, pc, ref,
                 bgVars, closeVars, lost>>

AfterFunc(p) ==
  /\ p \in afterFn
  /\ afterFn' = afterFn \ {p}
  /\ Broadcast
  /\ UNCHANGED <<mu, streams, dialing, closed, alive, inflight, pc, ref,
                 cancelled, bgVars, closeVars, lost>>

-----------------------------------------------------------------------------
(* The streams: Call counts itself in and out; a stream dies by failAll.   *)

CallBegin(p) ==
  /\ pc[p] = "hold"
  /\ IF alive[ref[p]]
     THEN /\ inflight' = [inflight EXCEPT ![ref[p]] = @ + 1]
          /\ To(p, "using")
          /\ UNCHANGED ref
     ELSE Leave(p) /\ UNCHANGED inflight
  /\ UNCHANGED <<mu, asleep, streams, dialing, closed, alive, cancelled,
                 afterFn, bgVars, closeVars, lost>>

CallEnd(p) ==
  /\ pc[p] = "using"
  /\ inflight' = [inflight EXCEPT ![ref[p]] = @ - 1]
  /\ Leave(p)
  /\ UNCHANGED <<mu, asleep, streams, dialing, closed, alive, cancelled,
                 afterFn, bgVars, closeVars, lost>>

Die(s) ==
  /\ alive[s]
  /\ lost < MaxLost
  /\ lost' = lost + 1
  /\ alive' = [alive EXCEPT ![s] = FALSE]
  /\ UNCHANGED <<mu, asleep, streams, dialing, closed, inflight, callerVars,
                 bgVars, closeVars>>

-----------------------------------------------------------------------------
(* background, maintain and pingOne.                                       *)

\* maintain's critical section: idle or old streams without Calls are taken
\* out, silent ones are to be probed.
Maintain ==
  /\ bgPc = "select"
  /\ mu = NoProc
  /\ ~closed
  /\ \E old \in SUBSET {s \in Live(streams) : inflight[s] = 0} :
       /\ lost' = lost + Cardinality(old)
       /\ lost' <= MaxLost
       /\ toClose' = old
       /\ streams' = Live(streams) \ old
       /\ toPing' \in IF "ping" \in Env THEN SUBSET (Live(streams) \ old)
                      ELSE {{}}
  /\ bgPc' = "closing"
  /\ UNCHANGED <<mu, asleep, dialing, closed, alive, inflight, callerVars,
                 closeVars>>

MaintainClose ==
  /\ bgPc = "closing"
  /\ \E s \in toClose : /\ alive' = [alive EXCEPT ![s] = FALSE]
                        /\ toClose' = toClose \ {s}
  /\ UNCHANGED <<mu, asleep, streams, dialing, closed, inflight, callerVars,
                 bgPc, toPing, closeVars, lost>>

MaintainBroadcast_Silent ==   \* mutant: the tick wakes nobody
  /\ bgPc = "closing"
  /\ toClose = {}
  /\ bgPc' = "pinging"
  /\ UNCHANGED <<mu, asleep, streams, dialing, closed, alive, inflight,
                 callerVars, toClose, toPing, closeVars, lost>>

MaintainBroadcast ==
  /\ bgPc = "closing"
  /\ toClose = {}
  /\ Broadcast
  /\ bgPc' = "pinging"
  /\ UNCHANGED <<mu, streams, dialing, closed, alive, inflight, callerVars,
                 toClose, toPing, closeVars, lost>>

\* pingOne of a stream that is dead or answers.
PingOk(s) ==
  /\ bgPc = "pinging"
  /\ s \in toPing
  /\ toPing' = toPing \ {s}
  /\ UNCHANGED <<mu, asleep, streams, dialing, closed, alive, inflight,
                 callerVars, bgPc, toClose, closeVars, lost>>

\* pingOne of a stream that does not answer or dies meanwhile: it is closed,
\* then removed and announced.
PingFail(s) ==
  /\ bgPc = "pinging"
  /\ s \in toPing
  /\ lost' = IF alive[s] THEN lost + 1 ELSE lost
  /\ lost' <= MaxLost
  /\ alive' = [alive EXCEPT ![s] = FALSE]
  /\ bgPc' = "remove"
  /\ toClose' = {s}
  /\ toPing' = toPing \ {s}
  /\ UNCHANGED <<mu, asleep, streams, dialing, closed, inflight, callerVars,
                 closeVars>>

PingRemove ==
  /\ bgPc = "remove"
  /\ mu = NoProc
  /\ streams' = streams \ toClose
  /\ toClose' = {}
  /\ Broadcast
  /\ bgPc' = "pinging"
  /\ UNCHANGED <<mu, dialing, closed, alive, inflight, callerVars, toPing,
                 closeVars, lost>>

MaintainDone ==
  /\ bgPc = "pinging"
  /\ toPing = {}
  /\ bgPc' = "select"
  /\ UNCHANGED <<mu, asleep, streams, dialing, closed, alive, inflight,
                 callerVars, toClose, toPing, closeVars, lost>>

\* stopCh is closed.
BackgroundStop ==
  /\ bgPc = "select"
  /\ closed
  /\ bgPc' = "done"
  /\ UNCHANGED <<mu, asleep, streams, dialing, closed, alive, inflight,
                 callerVars, toClose, toPing, closeVars, lost>>

-----------------------------------------------------------------------------
(* Close.                                                                  *)

CloseBegin ==
  /\ "close" \in Env
  /\ closePc = "none"
  /\ mu = NoProc
  /\ closed' = TRUE
  /\ closing' = streams
  /\ streams' = {}
  /\ Broadcast
  /\ closePc' = "closing"
  /\ UNCHANGED <<mu, dialing, alive, inflight, callerVars, bgVars, lost>>

CloseOne ==
  /\ closePc = "closing"
  /\ \E s \in closing : /\ alive' = [alive EXCEPT ![s] = FALSE]
                        /\ closing' = closing \ {s}
  /\ UNCHANGED <<mu, asleep, streams, dialing, closed, inflight, callerVars,
                 bgVars, closePc, lost>>

CloseDone_NoWait ==   \* mutant: background is not awaited
  /\ closePc = "closing"
  /\ closing = {}
  /\ closePc' = "done"
  /\ UNCHANGED <<mu, asleep, streams, dialing, closed, alive, inflight,
                 callerVars, bgVars, closing, lost>>

\* wg.Wait has returned.
CloseDone ==
  /\ closePc = "closing"
  /\ closing = {}
  /\ bgPc = "done"
  /\ closePc' = "done"
  /\ UNCHANGED <<mu, asleep, streams, dialing, closed, alive, inflight,
                 callerVars, bgVars, closing, lost>>

\* Stats and Len drop the dead streams.
Stats ==
  /\ mu = NoProc
  /\ compactLocked
  /\ UNCHANGED <<mu, asleep, dialing, closed, alive, inflight, callerVars,
                 bgVars, closeVars, lost>>

-----------------------------------------------------------------------------
GetStep(p) ==
  \/ PickExisting(p) \/ Reserve(p) \/ Park(p) \/ Sleep(p) \/ Wake(p)
  \/ DialOk(p) \/ DialFail(p) \/ DialDone(p)

BackgroundStep ==
  \/ Maintain \/ MaintainClose \/ MaintainBroadcast
  \/ (\E s \in Streams : PingOk(s) \/ PingFail(s))
  \/ PingRemove \/ MaintainDone \/ BackgroundStop

CloseStep == CloseOne \/ CloseDone

Next ==
  \/ \E p \in Callers : \/ GetBegin(p) \/ GetStep(p) \/ Cancel(p) \/ AfterFunc(p)
                        \/ CallBegin(p) \/ CallEnd(p)
  \/ \E s \in Streams : Die(s)
  \/ BackgroundStep
  \/ CloseBegin \/ CloseStep \/ Stats

Spec == Init /\ [][Next]_vars

\* Goroutines are scheduled, the ticker ticks, dials and probes end (they have
\* timeouts), sync.Mutex starves nobody.  Calls need not end.
FairSpec ==
  /\ Spec
  /\ \A p \in Callers : SF_vars(GetStep(p)) /\ WF_vars(AfterFunc(p))
  /\ SF_vars(BackgroundStep)
  /\ WF_vars(CloseStep)

-----------------------------------------------------------------------------
(* Properties.                                                             *)

\* The variables have their types.
TypeOK ==
  /\ mu \in Callers \cup {NoProc} /\ asleep \subseteq Callers
  /\ streams \subseteq Streams /\ dialing \in Nat /\ closed \in BOOLEAN
  /\ alive \in [Streams -> BOOLEAN] /\ inflight \in [Streams -> Nat]
  /\ pc \in [Callers -> {"out", "pick", "parking", "wait", "dial", "dialed",
                         "hold", "using"}]
  /\ ref \in [Callers -> Streams \cup {NoStream}]
  /\ cancelled \in [Callers -> BOOLEAN] /\ afterFn \subseteq Callers
  /\ bgPc \in {"select", "closing", "pinging", "remove", "done"}
  /\ toClose \subseteq Streams /\ toPing \subseteq Streams
  /\ closePc \in {"none", "closing", "done"} /\ closing \subseteq Streams
  /\ lost \in 0..MaxLost

\* Streams and dials in flight together never exceed maxOpen, so a dial that
\* ends always finds room in streams: Get's branch for the other case is dead.
RoomForDials ==
  /\ Cardinality(streams) + dialing <= MaxOpen
  /\ (\E p \in Callers : pc[p] = "dialed") => Cardinality(streams) < MaxOpen

\* When Close has returned every stream is dead, but for those whose dial it
\* overtook, and Get closes these: none outlives the pool.
CloseClosesAll ==
  closePc = "done" =>
    \A s \in Streams : alive[s] => \E p \in Callers : pc[p] = "dialed" /\ ref[p] = s

\* No slot is given out twice and no stream is left behind: a dial finds its place,
\* and Close has closed whatever was dialled, recycled or in use.
SlotsKept == TypeOK /\ RoomForDials /\ CloseClosesAll

\* Get returns, even if no Call ends: a caller waits only for a dial or for the
\* next tick, which also makes up for streams that die and for wakeups missed.
GetReturns ==
  \A p \in Callers : (pc[p] # "out") ~> (pc[p] \in {"out", "hold", "using"})
=============================================================================
