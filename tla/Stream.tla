------------------------------- MODULE Stream -------------------------------
(***************************************************************************)
(* The client side of one multiplexed connection, micro/net/stream.go:     *)
(* concurrent Calls and Pings that register under a RequestID, write whole *)
(* frames under writeMu and wait on a channel of capacity one; readLoop,   *)
(* which dispatches responses by RequestID; and failAll, which ends it.    *)
(*                                                                         *)
(* A frame is two writes, head and tail, by one writer; its content is the *)
(* identity of the call.  The peer answers in any order.                   *)
(***************************************************************************)
EXTENDS Integers, Sequences

CONSTANTS
  Calls,       \* invocations of Call and Ping
  SharedId,    \* the RequestID that object keeps after its first Call
  Reader,      \* the goroutine of readLoop
  SrvPing,     \* a Ping frame sent by the server
  NoCall,
  MaxFlight,   \* bound: the server sends a Ping only if less is in flight
  Scenarios    \* what calls are made, in what surroundings

\* A scenario is a record: kind says of each call what it is, a Call, one-way,
\* a Ping, made with a Request object that other Calls reuse, or not made; env is
\* what the surroundings may do.
\* cancel: a call's context may end; writeerr: a write may fail, before or
\* after its first byte; peerclose: the connection may break; timeout: the
\* read deadline may pass; srvping: the server may send a Ping; close: the
\* pool may Close the stream.
Kinds == {"call", "oneway", "ping", "reused", "none"}
EnvChoices ==
  {"cancel", "writeerr", "peerclose", "timeout", "srvping", "close"}

ASSUME StreamConstants ==
  /\ SharedId \notin Calls
  /\ Reader \notin Calls /\ NoCall \notin Calls \cup {Reader}
  /\ SrvPing \notin Calls
  /\ Calls \cap {"empty", "error", "none", "closed", "duplicate", "ctx", "sent"} = {}
  /\ MaxFlight \in Nat
  /\ Scenarios \subseteq [kind : [Calls -> Kinds], env : SUBSET EnvChoices]

VARIABLES
  pending,    \* stream.pending: the call registered under each RequestID
  closed,     \* stream.closed
  writeMu,    \* the writer that holds writeMu
  chan,       \* the content of each call's channel
  pc,         \* where each call is
  result,     \* what each call returned: the call whose response it got, or why not
  cancelled,  \* whether the call's context has ended
  readPc,     \* where readLoop is
  hand,       \* readLoop's channel and response between unlock and send
  toFail,     \* the channels failAll has still to notify
  failPc,     \* where failAll is
  connOpen,   \* conn has not been closed by this side
  broken,     \* conn has been broken by the peer or the network
  wire,       \* what has been written and the server has not read
  torn,       \* a frame was written in part and its writer gave up
  got,        \* requests the server has and has not answered
  back,       \* responses on their way to readLoop
  sc          \* the scenario

callVars == <<pc, result, cancelled>>
readVars == <<readPc, hand>>
failVars == <<closed, toFail, failPc>>
sendVars == <<writeMu, wire, torn>>
peerVars == <<broken, got, back>>
streamVars == <<pending, chan, callVars, readVars, failVars, connOpen, sendVars,
                peerVars>>
vars == <<streamVars, sc>>

-----------------------------------------------------------------------------
Of(kind) == {p \in Calls : sc.kind[p] = kind}
OneWay == Of("oneway")
Pings  == Of("ping")
Reused == Of("reused")

\* Client.Call draws a fresh RequestID unless the Request already has one.
IdOf(p) == IF p \in Reused THEN SharedId ELSE p
Ids == Calls \cup {SharedId}

Registers(p) == p \notin OneWay

To(p, l) == pc' = [pc EXCEPT ![p] = l]
Give(p, r) == To(p, "return") /\ result' = [result EXCEPT ![p] = r]

FailAll_Quiet ==   \* mutant: the waiting calls are forgotten
  IF closed THEN UNCHANGED <<failVars, pending>>
  ELSE /\ closed' = TRUE
       /\ toFail' = {}
       /\ pending' = [i \in Ids |-> NoCall]
       /\ failPc' = "close"

\* failAll up to its unlock; later calls find closed set.
FailAll ==
  IF closed THEN UNCHANGED <<failVars, pending>>
  ELSE /\ closed' = TRUE
       /\ toFail' = {pending[i] : i \in Ids} \ {NoCall}
       /\ pending' = [i \in Ids |-> NoCall]
       /\ failPc' = "close"

\* The select with default: a full channel keeps what it has.
Offer(p, r) == chan' = [chan EXCEPT ![p] = IF @ = "empty" THEN r ELSE @]

-----------------------------------------------------------------------------
Init ==
  /\ pending = [i \in Ids |-> NoCall]
  /\ closed = FALSE /\ toFail = {} /\ failPc = "none"
  /\ chan = [p \in Calls |-> "empty"]
  /\ pc = [p \in Calls |-> "idle"]
  /\ result = [p \in Calls |-> "none"]
  /\ cancelled = [p \in Calls |-> FALSE]
  /\ readPc = "read" /\ hand = <<NoCall, NoCall>>
  /\ connOpen = TRUE /\ broken = FALSE
  /\ writeMu = NoCall /\ wire = <<>> /\ torn = FALSE
  /\ got = {} /\ back = <<>>
  /\ sc \in Scenarios

-----------------------------------------------------------------------------
(* Call and Ping.                                                          *)

\* The checks, then register.
CallBegin(p) ==
  /\ pc[p] = "idle"
  /\ p \notin Of("none")
  /\ \/ /\ closed \/ cancelled[p]
        /\ result' = [result EXCEPT ![p] = IF cancelled[p] THEN "ctx" ELSE "closed"]
        /\ To(p, "done")
        /\ UNCHANGED pending
     \/ /\ ~closed /\ ~cancelled[p]
        /\ Registers(p) /\ pending[IdOf(p)] # NoCall
        /\ result' = [result EXCEPT ![p] = "duplicate"]
        /\ To(p, "done")
        /\ UNCHANGED pending
     \/ /\ ~closed /\ ~cancelled[p]
        /\ ~Registers(p) \/ pending[IdOf(p)] = NoCall
        /\ pending' = IF Registers(p) THEN [pending EXCEPT ![IdOf(p)] = p]
                      ELSE pending
        /\ To(p, "write")
        /\ UNCHANGED result
  /\ UNCHANGED <<chan, cancelled, readVars, failVars, connOpen, sendVars,
                 peerVars>>

\* A one-way Call is over once its frame is written; others wait.
Written(p) ==
  IF p \in OneWay THEN Give(p, "sent") ELSE To(p, "wait") /\ UNCHANGED result

WriteHead_NoLock(p) ==   \* mutant: writeMu is not taken
  /\ pc[p] = "write"
  /\ connOpen
  /\ wire' = Append(wire, <<p, "head">>)
  /\ To(p, "writing")
  /\ UNCHANGED <<pending, chan, result, cancelled, readVars, failVars,
                 connOpen, writeMu, torn, peerVars>>

\* writeFrame: take writeMu, write the header.
WriteHead(p) ==
  /\ pc[p] = "write"
  /\ writeMu = NoCall
  /\ connOpen
  /\ writeMu' = p
  /\ wire' = Append(wire, <<p, "head">>)
  /\ To(p, "writing")
  /\ UNCHANGED <<pending, chan, result, cancelled, readVars, failVars,
                 connOpen, torn, peerVars>>

\* writeFrame: write the rest, release writeMu.
WriteTail(p) ==
  /\ pc[p] = "writing"
  /\ connOpen
  /\ writeMu' = NoCall
  /\ wire' = Append(wire, <<p, "tail">>)
  /\ Written(p)
  /\ UNCHANGED <<pending, chan, cancelled, readVars, failVars, connOpen, torn,
                 peerVars>>

\* writeFrame fails before the first byte (validate included) or between two.
WriteError(p) ==
  /\ \/ pc[p] = "write" /\ writeMu = NoCall /\ UNCHANGED <<writeMu, torn>>
     \/ pc[p] = "writing" /\ writeMu' = NoCall /\ torn' = TRUE
  /\ ~connOpen \/ broken \/ "writeerr" \in sc.env
  /\ To(p, "writeFailed")
  /\ UNCHANGED <<pending, chan, result, cancelled, readVars, failVars,
                 connOpen, wire, peerVars>>

\* After a failed write: a Call whose context has ended leaves the stream as it
\* is; any other Call, and a Ping, fails the stream.
WriteFailed(p) ==
  /\ pc[p] = "writeFailed"
  /\ IF cancelled[p] /\ p \notin Pings
     THEN Give(p, "ctx") /\ UNCHANGED <<failVars, pending>>
     ELSE Give(p, "error") /\ FailAll
  /\ UNCHANGED <<chan, cancelled, readVars, connOpen, sendVars, peerVars>>

\* The select: a result ...
Receive(p) ==
  /\ pc[p] = "wait"
  /\ chan[p] # "empty"
  /\ chan' = [chan EXCEPT ![p] = "empty"]
  /\ Give(p, IF chan[p] = "error" /\ cancelled[p] /\ p \notin Pings THEN "ctx"
             ELSE chan[p])
  /\ UNCHANGED <<pending, cancelled, readVars, failVars, connOpen, sendVars,
                 peerVars>>

\* ... or the end of the context.
GiveUp(p) ==
  /\ pc[p] = "wait"
  /\ cancelled[p]
  /\ Give(p, "ctx")
  /\ UNCHANGED <<pending, chan, cancelled, readVars, failVars, connOpen,
                 sendVars, peerVars>>

\* The deferred unregister.
Return(p) ==
  /\ pc[p] = "return"
  /\ pending' = IF Registers(p) THEN [pending EXCEPT ![IdOf(p)] = NoCall]
                ELSE pending
  /\ To(p, "done")
  /\ UNCHANGED <<chan, result, cancelled, readVars, failVars, connOpen,
                 sendVars, peerVars>>

Cancel(p) ==
  /\ "cancel" \in sc.env
  /\ pc[p] \in {"idle", "write", "writing", "writeFailed", "wait"}
  /\ p \notin Of("none")
  /\ ~cancelled[p]
  /\ cancelled' = [cancelled EXCEPT ![p] = TRUE]
  /\ UNCHANGED <<pending, chan, pc, result, readVars, failVars, connOpen,
                 sendVars, peerVars>>

-----------------------------------------------------------------------------
(* readLoop, dispatch and failAll.                                         *)

ReadResponse_Keep ==   \* mutant: dispatch leaves the entry in pending
  /\ readPc = "read"
  /\ back # <<>> /\ Head(back) # SrvPing
  /\ back' = Tail(back)
  /\ LET q == Head(back) IN
       IF pending[IdOf(q)] = NoCall THEN UNCHANGED readVars
       ELSE hand' = <<pending[IdOf(q)], q>> /\ readPc' = "dispatch"
  /\ UNCHANGED <<pending, chan, callVars, failVars, connOpen, sendVars, broken,
                 got>>

\* A Response or Pong: dispatch up to its unlock.  Nobody registered: dropped.
ReadResponse ==
  /\ readPc = "read"
  /\ back # <<>> /\ Head(back) # SrvPing
  /\ back' = Tail(back)
  /\ LET q == Head(back) IN
       IF pending[IdOf(q)] = NoCall THEN UNCHANGED <<readVars, pending>>
       ELSE /\ hand' = <<pending[IdOf(q)], q>>
            /\ pending' = [pending EXCEPT ![IdOf(q)] = NoCall]
            /\ readPc' = "dispatch"
  /\ UNCHANGED <<chan, callVars, failVars, connOpen, sendVars, broken, got>>

Dispatch ==
  /\ readPc = "dispatch"
  /\ Offer(hand[1], hand[2])
  /\ hand' = <<NoCall, NoCall>>
  /\ readPc' = "read"
  /\ UNCHANGED <<pending, callVars, failVars, connOpen, sendVars, peerVars>>

\* A Ping from the server is answered by a Pong, written by readLoop itself.
ReadPing ==
  /\ readPc = "read"
  /\ back # <<>> /\ Head(back) = SrvPing
  /\ back' = Tail(back)
  /\ readPc' = "pong"
  /\ UNCHANGED <<pending, chan, callVars, hand, failVars, connOpen, sendVars,
                 broken, got>>

PongHead ==
  /\ readPc = "pong"
  /\ writeMu = NoCall
  /\ \/ /\ connOpen
        /\ writeMu' = Reader
        /\ wire' = Append(wire, <<Reader, "head">>)
        /\ readPc' = "ponging"
     \/ /\ ~connOpen \/ broken
        /\ readPc' = "read"
        /\ UNCHANGED <<writeMu, wire>>
  /\ UNCHANGED <<pending, chan, callVars, hand, failVars, connOpen, torn,
                 peerVars>>

\* The error of writing a Pong is ignored.
PongTail ==
  /\ readPc = "ponging"
  /\ writeMu' = NoCall
  /\ \/ connOpen /\ wire' = Append(wire, <<Reader, "tail">>) /\ UNCHANGED torn
     \/ (~connOpen \/ broken) /\ torn' = TRUE /\ UNCHANGED wire
  /\ readPc' = "read"
  /\ UNCHANGED <<pending, chan, callVars, hand, failVars, connOpen, peerVars>>

ReadError ==
  /\ readPc = "read"
  /\ ~connOpen \/ broken \/ "timeout" \in sc.env
  /\ FailAll
  /\ readPc' = "done"
  /\ UNCHANGED <<chan, callVars, hand, connOpen, sendVars, peerVars>>

\* Close, called by the pool.
Close ==
  /\ "close" \in sc.env
  /\ ~closed
  /\ FailAll
  /\ UNCHANGED <<chan, callVars, readVars, connOpen, sendVars, peerVars>>

\* The rest of failAll: close the connection, then notify.
FailClose ==
  /\ failPc = "close"
  /\ connOpen' = FALSE
  /\ failPc' = "notify"
  /\ UNCHANGED <<pending, chan, callVars, readVars, closed, toFail, sendVars,
                 peerVars>>

FailNotify ==
  /\ failPc = "notify"
  /\ \E p \in toFail : Offer(p, "error") /\ toFail' = toFail \ {p}
  /\ UNCHANGED <<pending, callVars, readVars, closed, failPc, connOpen,
                 sendVars, peerVars>>

-----------------------------------------------------------------------------
(* The server and the network.                                             *)

\* A whole frame arrives; one that starts in the middle breaks the connection.
ServerRead ==
  /\ Len(wire) >= 2
  /\ ~broken
  /\ IF wire[1][1] = wire[2][1] /\ wire[1][2] = "head" /\ wire[2][2] = "tail"
     THEN /\ wire' = SubSeq(wire, 3, Len(wire))
          /\ got' = IF wire[1][1] \in Calls \ OneWay THEN got \cup {wire[1][1]}
                    ELSE got
          /\ UNCHANGED broken
     ELSE broken' = TRUE /\ UNCHANGED <<wire, got>>
  /\ UNCHANGED <<pending, chan, callVars, readVars, failVars, connOpen, writeMu,
                 torn, back>>

ServerReply(q) ==
  /\ q \in got
  /\ ~broken
  /\ got' = got \ {q}
  /\ back' = Append(back, q)
  /\ UNCHANGED <<pending, chan, callVars, readVars, failVars, connOpen,
                 sendVars, broken>>

ServerPings ==
  /\ "srvping" \in sc.env
  /\ ~broken
  /\ Len(back) + Len(wire) < MaxFlight
  /\ back' = Append(back, SrvPing)
  /\ UNCHANGED <<pending, chan, callVars, readVars, failVars, connOpen,
                 sendVars, broken, got>>

Break ==
  /\ "peerclose" \in sc.env
  /\ ~broken
  /\ broken' = TRUE
  /\ UNCHANGED <<pending, chan, callVars, readVars, failVars, connOpen,
                 sendVars, got, back>>

-----------------------------------------------------------------------------
CallStep(p) ==
  \/ WriteHead(p) \/ WriteTail(p) \/ WriteError(p) \/ WriteFailed(p)
  \/ Receive(p) \/ GiveUp(p) \/ Return(p)

ReadStep == \/ ReadResponse \/ Dispatch \/ ReadPing \/ PongHead \/ PongTail
            \/ ReadError

FailStep == FailClose \/ FailNotify

ServerStep == ServerRead \/ (\E q \in Calls : ServerReply(q)) \/ ServerPings

StreamStep ==
  \/ \E p \in Calls : CallBegin(p) \/ CallStep(p) \/ Cancel(p)
  \/ ReadStep \/ FailStep \/ Close
  \/ ServerStep \/ Break

Next == StreamStep /\ UNCHANGED sc

Spec == Init /\ [][Next]_vars

\* Every goroutine of the client is scheduled, and writes end (they have a
\* deadline).  The server need not do anything.
FairSpec ==
  /\ Spec
  /\ \A p \in Calls : WF_streamVars(CallStep(p))
  /\ WF_streamVars(ReadStep)
  /\ WF_streamVars(FailStep)

-----------------------------------------------------------------------------
(* Properties.                                                             *)

\* The variables have their types.
TypeOK ==
  /\ pending \in [Ids -> Calls \cup {NoCall}]
  /\ closed \in BOOLEAN /\ connOpen \in BOOLEAN /\ broken \in BOOLEAN
  /\ torn \in BOOLEAN
  /\ writeMu \in Calls \cup {Reader, NoCall}
  /\ chan \in [Calls -> Calls \cup {"empty", "error"}]
  /\ pc \in [Calls -> {"idle", "write", "writing", "writeFailed", "wait",
                       "return", "done"}]
  /\ result \in [Calls -> Calls \cup {"none", "closed", "duplicate", "ctx",
                                      "error", "sent"}]
  /\ cancelled \in [Calls -> BOOLEAN]
  /\ readPc \in {"read", "dispatch", "pong", "ponging", "done"}
  /\ hand \in (Calls \cup {NoCall}) \X (Calls \cup {NoCall})
  /\ toFail \subseteq Calls
  /\ failPc \in {"none", "close", "notify"}
  /\ wire \in Seq((Calls \cup {Reader}) \X {"head", "tail"})
  /\ got \subseteq Calls
  /\ back \in Seq(Calls \cup {SrvPing})

\* A call whose id is its own gets the response to its own request, whatever
\* the order in which the server answers, whichever calls give up before their
\* answer comes, and whatever ids other calls share.
ResponseMatches ==
  \A p \in Calls : result[p] \in Calls /\ result[p] # p => p \in Reused

\* The channel of a call has one sender: when dispatch or failAll sends, the
\* default branch of the select, which drops the result, is not taken.
NoResultDropped ==
  /\ readPc = "dispatch" => chan[hand[1]] = "empty" /\ hand[1] \notin toFail
  /\ \A p \in toFail : chan[p] = "empty"

\* An answer reaches the Call that asked for it: no other gets it and the channel
\* has room for it.
AnswersDelivered == TypeOK /\ ResponseMatches /\ NoResultDropped

\* Until a write fails, what is on the wire is whole frames, one after the
\* other, except that the last one may still be being written: writeMu keeps
\* the frames of concurrent calls, and of readLoop, apart.
FramesWhole ==
  ~torn => \A i \in 1..Len(wire) :
    /\ wire[i][2] = IF i % 2 = 1 THEN "head" ELSE "tail"
    /\ i % 2 = 0 => wire[i][1] = wire[i - 1][1]

\* A Call waits, and nobody is to send to its channel, because the unregister of
\* another Call with the same RequestID removed its entry of pending.
Stranded(p) ==
  /\ p \in Reused /\ pc[p] = "wait"
  /\ chan[p] = "empty" /\ hand[1] # p
  /\ pending[SharedId] # p /\ p \notin toFail
  /\ \E q \in Reused \ {p} : pc[q] = "done" /\ result[q] # "duplicate"

\* Once the stream is closed every call that was begun returns, even if its
\* context never ends: failAll notifies whoever is in pending, and none registers
\* afterwards.  The exception is a Call whose RequestID another Call used at the
\* same time: the other's deferred unregister deletes whatever is registered
\* under the id, so failAll does not find it and only its own context frees it.
ClosedReleasesCalls ==
  closed ~> \A p \in Calls : pc[p] \in {"idle", "done"} \/ Stranded(p)
=============================================================================
