-------------------------------- MODULE Rpc --------------------------------
(***************************************************************************)
(* micro/rpc: the calls of a Client (invoke and the goroutine it starts),  *)
(* the connections of its pool, and the server's goroutine for each of     *)
(* them.  The pool is taken by what it promises (ConnPool models it): Get  *)
(* gives a connection that no one else has, an idle one or a new one.      *)
(* A message holds no call's identity: only its argument tells the calls   *)
(* apart here.                                                             *)
(***************************************************************************)
EXTENDS RpcMessage, FiniteSets

CONSTANTS
  Calls, Conns,
  Scenarios   \* req: what each call asks for; ends: the calls whose context may
              \* end; conns: the connections the pool may hold; breaks, shorts:
              \* whether one may break, and a read return less than was asked for

VARIABLES
  sc,
  call,       \* invoke: where it is, and what the proxy's function returns
  work,       \* its goroutine: doInvoke, sendAndReceive
  ended,      \* the calls whose context is done
  idle, open, \* the pool: idle connections; all
  wire,       \* a connection: the bytes on their way up and down
  srv,        \* handleConn
  oneways,    \* the goroutines of one-way requests
  ran,        \* history: how often a call was executed
  late,       \* history: the calls executed with a context that was done
  crashed     \* "no", or the process that panicked

client == <<call, work, ended, idle, open>>
server == <<srv, oneways, ran, late>>
vars == <<sc, client, wire, server, crashed>>

\* NewClient's pool has one connection to begin with.
Init ==
  /\ sc \in Scenarios
  /\ call = [c \in Calls |-> [pc |-> "idle", res |-> None]]
  /\ work = [c \in Calls |-> [pc |-> "none", k |-> None, res |-> None]]
  /\ ended = {} /\ oneways = {} /\ late = {} /\ crashed = "no"
  /\ \E k \in {CHOOSE k \in sc.conns : TRUE} :
       /\ idle = {k} /\ open = {k}
       /\ srv = [x \in Conns |-> [pc |-> IF x = k THEN "read" ELSE "none", msg |-> None]]
  /\ wire = [k \in Conns |-> [up |-> <<>>, down |-> <<>>, broken |-> FALSE,
                             tornUp |-> FALSE, tornDown |-> FALSE]]
  /\ ran = [c \in Calls |-> 0]

-----------------------------------------------------------------------------
(* The client *)

\* setFuncFiled, before the call: the request.  The deadline of the context
\* travels in the metadata.
Request(c) ==
  LET q == sc.req[c]
      data == Serialize(q.serializer, c)
  IN  [service |-> q.service, method |-> q.method, serializer |-> q.serializer,
       compressor |-> IF q.gzip THEN "gzip" ELSE None,
       meta |-> (IF q.deadline THEN <<<<"deadline", c>>>> ELSE <<>>)
                \o (IF q.oneway THEN <<<<"one-way", "true">>>> ELSE <<>>),
       data |-> IF q.gzip THEN Compress(data) ELSE data]

Err(kind) == [kind |-> kind, error |-> <<>>, data |-> <<>>]

\* setFuncFiled, after the call: the response's error, and its data if there is
\* any, each for itself.
Returned(c, res) ==
  LET value == Deserialize(sc.req[c].serializer, res.data)
  IN  IF res.kind # "response" THEN [error |-> res.kind, value |-> None]
      ELSE IF res.data # <<>> /\ value = None THEN [error |-> "decode", value |-> None]
      ELSE [error |-> IF res.error # <<>> THEN "business" ELSE "none", value |-> value]

Over(c, res) == call' = [call EXCEPT ![c] = [pc |-> "over", res |-> Returned(c, res)]]

\* invoke: a context that is done already, or a goroutine for the call.
Invoke(c) ==
  /\ c \in DOMAIN sc.req /\ call[c].pc = "idle"
  /\ \/ c \in ended /\ Over(c, Err("context")) /\ UNCHANGED work
     \/ /\ c \notin ended
        /\ call' = [call EXCEPT ![c].pc = "select"] /\ work' = [work EXCEPT ![c].pc = "get"]
  /\ UNCHANGED <<sc, ended, idle, open, wire, server, crashed>>

Works(c, pc, res) == work' = [work EXCEPT ![c].pc = pc, ![c].res = res]

Takes(c, k) ==
  /\ idle' = idle \ {k} /\ open' = open \cup {k}
  /\ work' = [work EXCEPT ![c].pc = "write", ![c].k = k]
  /\ srv' = IF k \in open THEN srv ELSE [srv EXCEPT ![k].pc = "read"]

\* The pool's Get: an idle connection, or a new one, which the server's Start
\* accepts; an error when dialling fails, or when the wait for one is too long.
PoolGet(c) ==
  /\ work[c].pc = "get"
  /\ \/ \E k \in idle \cup {x \in sc.conns \ open : idle = {}} : Takes(c, k)
     \/ /\ idle = {} /\ (open = sc.conns \/ sc.breaks)
        /\ Works(c, "send", Err("pool")) /\ UNCHANGED <<idle, open, srv>>
  /\ UNCHANGED <<sc, call, ended, wire, oneways, ran, late, crashed>>

\* conn.Write; a one-way call does not wait for an answer.  The metadata is a
\* map: its pairs, at most two, come in any order.
Write(c) ==
  LET k == work[c].k IN
  /\ work[c].pc = "write"
  /\ IF wire[k].broken THEN Works(c, "put", Err("conn")) /\ UNCHANGED wire
     ELSE /\ \E meta \in {Request(c).meta, Reverse(Request(c).meta)} :
               wire' = [wire EXCEPT ![k].up = @ \o EncodeRequest([Request(c) EXCEPT !.meta = meta])]
          /\ IF sc.req[c].oneway THEN Works(c, "put", Err("one-way")) ELSE Works(c, "read", None)
  /\ UNCHANGED <<sc, call, ended, idle, open, server, crashed>>

\* How far a Read that returns too little may have come: the first byte behind
\* the lengths, or all but the last.
Short(stream) == {9, FrameLength(stream) - 1}

ReadWhole(c, k) ==
  /\ ~wire[k].tornDown /\ Framed(wire[k].down)
  /\ \E resp \in {DecodeResponse(Frame(wire[k].down))} :
       Works(c, "put", [kind |-> "response", error |-> resp.error, data |-> resp.data])
  /\ wire' = [wire EXCEPT ![k].down = Rest(@)]
  /\ UNCHANGED <<idle, crashed>>

\* After an error the call is tried again on another connection.
Read_Resend(c) ==
  LET k == work[c].k IN
  /\ work[c].pc = "read"
  /\ \/ /\ wire[k].broken /\ work' = [work EXCEPT ![c].pc = "get", ![c].k = None]
        /\ idle' = idle \cup {k} /\ UNCHANGED <<wire, crashed>>
     \/ ~wire[k].broken /\ ReadWhole(c, k)
  /\ UNCHANGED <<sc, call, ended, open, server>>

\* ReceiveResponseStream and DecodeResponse.  What a Read did not return stays
\* zero in the frame and unread in the stream; the connection is out of step
\* from then on (tornDown): the next lengths are anything, and may be out of range.
Read(c) ==
  LET k == work[c].k
      down == wire[k].down
  IN
  /\ work[c].pc = "read"
  /\ \/ wire[k].broken /\ Works(c, "put", Err("conn")) /\ UNCHANGED <<wire, idle, crashed>>
     \/ ~wire[k].broken /\ ReadWhole(c, k)
     \/ /\ sc.shorts /\ ~wire[k].tornDown /\ Framed(down) /\ UNCHANGED <<idle, crashed>>
        /\ \E n \in Short(down) :
             /\ \E resp \in {DecodeResponse(Buffer(FrameLength(down), SubSeq(down, 1, n)))} :
                  Works(c, "put", [kind |-> "response", error |-> resp.error, data |-> resp.data])
             /\ wire' = [wire EXCEPT ![k].tornDown = TRUE, ![k].down = SubSeq(@, n + 1, Len(@))]
     \/ /\ wire[k].tornDown /\ down # <<>> /\ wire' = [wire EXCEPT ![k].down = <<>>]
        /\ \/ Works(c, "put", Err("garbage")) /\ UNCHANGED <<idle, crashed>>
           \/ crashed' = "client" /\ UNCHANGED <<work, idle>>
  /\ UNCHANGED <<sc, call, ended, open, server>>

\* The deferred Put, whatever has happened to the connection.
PoolPut(c) ==
  /\ work[c].pc = "put"
  /\ idle' = idle \cup {work[c].k}
  /\ work' = [work EXCEPT ![c].pc = "send", ![c].k = None]
  /\ UNCHANGED <<sc, call, ended, open, wire, server, crashed>>

\* ch <- struct{}{}, on a channel that invoke closes when it returns.
Send(c) ==
  /\ work[c].pc = "send"
  /\ IF call[c].pc = "over" THEN crashed' = "client" /\ UNCHANGED work
     ELSE work' = [work EXCEPT ![c].pc = "sent"] /\ UNCHANGED crashed
  /\ UNCHANGED <<sc, call, ended, idle, open, wire, server>>

\* A call that gives up hands its connection back.
Select_Release(c) ==
  /\ call[c].pc = "select"
  /\ \/ work[c].pc = "sent" /\ Over(c, work[c].res) /\ UNCHANGED <<work, idle>>
     \/ /\ c \in ended /\ Over(c, Err("context"))
        /\ work' = [work EXCEPT ![c].pc = "sent", ![c].k = None]
        /\ idle' = idle \cup ({work[c].k} \ {None})
  /\ UNCHANGED <<sc, ended, open, wire, server, crashed>>

\* Only the answer is waited for.
Select_NoContext(c) ==
  /\ call[c].pc = "select"
  /\ work[c].pc = "sent" /\ Over(c, work[c].res)
  /\ UNCHANGED <<sc, work, ended, idle, open, wire, server, crashed>>

\* The select of invoke.  The goroutine goes on when the context is done.
Select(c) ==
  /\ call[c].pc = "select"
  /\ \/ work[c].pc = "sent" /\ Over(c, work[c].res)
     \/ c \in ended /\ Over(c, Err("context"))
  /\ UNCHANGED <<sc, work, ended, idle, open, wire, server, crashed>>

ContextEnds(c) ==
  /\ c \in sc.ends \ ended /\ ended' = ended \cup {c}
  /\ UNCHANGED <<sc, call, work, idle, open, wire, server, crashed>>

-----------------------------------------------------------------------------
(* The server *)

Meta(msg, key) == \E p \in msg.meta : p[1] = key

\* The argument, decompressed if the compressor is known, and decoded: here, the
\* call it came from.
Argument(msg) ==
  Deserialize(msg.serializer, IF msg.compressor = "gzip" THEN Decompress(msg.data) ELSE msg.data)

\* reflectStub.invoke panics over a method or a serializer it does not know.
Panics(msg) ==
  msg.service = "svc" /\ (msg.method # "Do" \/ msg.serializer \notin {"json", "proto"})

Executes(msg) == msg.service = "svc" /\ ~Panics(msg) /\ Argument(msg) # None

\* Server.invoke and reflectStub.invoke: the response.  A method may return a
\* result, an error, both or neither; an error's text may be empty.
Outcome(msg) ==
  LET does == sc.req[Argument(msg)].does
      resp == [compressor |-> msg.compressor, serializer |-> msg.serializer,
               error |-> <<>>, data |-> <<>>]
  IN  IF msg.service # "svc" THEN [resp EXCEPT !.error = <<"no service">>]
      ELSE IF Argument(msg) = None THEN [resp EXCEPT !.error = <<"decode">>]
      ELSE [resp EXCEPT !.error = IF does \in {"fail", "both"} THEN <<"failed">> ELSE <<>>,
                        !.data = IF does \in {"fail", "nil"} THEN <<>>
                                 ELSE Serialize(msg.serializer, Argument(msg))]

\* handleConn with a decoded frame.  The method of a one-way request runs in a
\* goroutine of its own and is not answered; nor is it if there is no such service.
Accepts(k, msg) ==
  IF msg = None THEN crashed' = "server" /\ UNCHANGED <<srv, oneways>>
  ELSE /\ UNCHANGED crashed
       /\ IF <<"one-way", "true">> \in msg.meta
          THEN /\ oneways' = IF msg.service = "svc" THEN oneways \cup {msg} ELSE oneways
               /\ UNCHANGED srv
          ELSE srv' = [srv EXCEPT ![k] = [pc |-> "run", msg |-> msg]] /\ UNCHANGED oneways

\* ReceiveRequestStream and DecodeRequest, of a whole frame and of one that is
\* cut short.
ServerRead(k) ==
  LET up == wire[k].up IN
  /\ srv[k].pc = "read" /\ ~wire[k].broken /\ ~wire[k].tornUp /\ Framed(up)
  /\ \/ /\ wire' = [wire EXCEPT ![k].up = Rest(@)]
        /\ \E msg \in {DecodeRequest(Frame(up))} : Accepts(k, msg)
     \/ /\ sc.shorts
        /\ \E n \in Short(up) :
             /\ wire' = [wire EXCEPT ![k].tornUp = TRUE, ![k].up = SubSeq(@, n + 1, Len(@))]
             /\ \E msg \in {DecodeRequest(Buffer(FrameLength(up), SubSeq(up, 1, n)))} : Accepts(k, msg)
  /\ UNCHANGED <<sc, client, ran, late>>

\* A stream that is out of step: any lengths, and no header behind them.
ServerTorn(k) ==
  /\ srv[k].pc = "read" /\ wire[k].tornUp /\ wire[k].up # <<>>
  /\ \/ crashed' = "server" /\ UNCHANGED wire
     \/ wire' = [wire EXCEPT ![k].up = <<>>] /\ UNCHANGED crashed
  /\ UNCHANGED <<sc, client, server>>

Ran(msg) == ran' = IF Executes(msg) THEN [ran EXCEPT ![Argument(msg)] = @ + 1] ELSE ran

\* The rest of the loop of handleConn: the method runs under the deadline of the
\* request, and the response is written; a method that hangs never returns.
ServerRun(k) ==
  /\ srv[k].pc = "run"
  /\ \E msg \in {srv[k].msg} :
       \/ Panics(msg) /\ crashed' = "server" /\ UNCHANGED <<wire, srv, ran, late>>
       \/ /\ ~Panics(msg) /\ ~(Executes(msg) /\ sc.req[Argument(msg)].does = "hang")
          /\ Ran(msg) /\ UNCHANGED crashed
          /\ late' = IF Executes(msg) /\ Meta(msg, "deadline") /\ Argument(msg) \in ended
                     THEN late \cup {Argument(msg)} ELSE late
          /\ IF wire[k].broken
             THEN srv' = [srv EXCEPT ![k] = [pc |-> "closed", msg |-> None]] /\ UNCHANGED wire
             ELSE /\ srv' = [srv EXCEPT ![k] = [pc |-> "read", msg |-> None]]
                  /\ wire' = [wire EXCEPT ![k].down = @ \o EncodeResponse(Outcome(msg))]
  /\ UNCHANGED <<sc, client, oneways>>

\* The goroutine of a one-way request.  If its context has a deadline, handleConn
\* cancels it as soon as the goroutine is started, before the method or during it.
OneWayRun(msg) ==
  /\ oneways' = oneways \ {msg} /\ Ran(msg)
  /\ crashed' = IF Panics(msg) THEN "server" ELSE crashed
  /\ \/ UNCHANGED late
     \/ Executes(msg) /\ Meta(msg, "deadline") /\ late' = late \cup {Argument(msg)}
  /\ UNCHANGED <<sc, client, wire, srv>>

\* ReceiveRequestStream fails: handleConn returns and the connection is closed.
ServerClose(k) ==
  /\ srv[k].pc = "read" /\ wire[k].broken
  /\ srv' = [srv EXCEPT ![k].pc = "closed"]
  /\ UNCHANGED <<sc, client, wire, oneways, ran, late, crashed>>

\* A connection breaks, and loses what is on it; one does in a behaviour.
Break(k) ==
  /\ sc.breaks /\ k \in open /\ \A x \in Conns : ~wire[x].broken
  /\ wire' = [wire EXCEPT ![k].broken = TRUE, ![k].up = <<>>, ![k].down = <<>>]
  /\ UNCHANGED <<sc, client, server, crashed>>

-----------------------------------------------------------------------------
ClientStep(c) ==
  \/ Invoke(c) \/ PoolGet(c) \/ Write(c) \/ Read(c) \/ PoolPut(c) \/ Send(c) \/ Select(c)

ServerStep(k) == ServerRead(k) \/ ServerTorn(k) \/ ServerRun(k) \/ ServerClose(k)

\* What goes on by itself: the goroutines, and the clock towards a deadline.
Progress ==
  /\ crashed = "no"
  /\ \/ \E c \in Calls : ClientStep(c)
     \/ \E c \in Calls : c \in DOMAIN sc.req /\ sc.req[c].deadline /\ ContextEnds(c)
     \/ \E k \in Conns : ServerStep(k)
     \/ \E msg \in oneways : OneWayRun(msg)

\* What may happen: a context is cancelled, a connection breaks.
Fault ==
  /\ crashed = "no"
  /\ \/ \E c \in Calls : c \in DOMAIN sc.req /\ ~sc.req[c].deadline /\ ContextEnds(c)
     \/ \E k \in Conns : Break(k)

Next == Progress \/ Fault
Spec == Init /\ [][Next]_vars
FairSpec == Spec /\ WF_vars(Progress)

-----------------------------------------------------------------------------
(* Properties *)

Held == {work[c].k : c \in Calls} \ {None}
Torn(k) == wire[k].tornUp \/ wire[k].tornDown
Torns == {k \in Conns : Torn(k)}

\* The state has its types, and the pool never has more connections than it may.
TypeOK ==
  /\ sc \in Scenarios
  /\ \A c \in Calls :
       /\ call[c].pc \in {"idle", "select", "over"}
       /\ work[c].pc \in {"none", "get", "write", "read", "put", "send", "sent"}
       /\ work[c].k \in Conns \cup {None} /\ ran[c] \in Nat
  /\ idle \subseteq open /\ open \subseteq sc.conns
  /\ \A k \in Conns : srv[k].pc \in {"none", "read", "run", "closed"}
  /\ ended \subseteq Calls /\ late \subseteq Calls /\ crashed \in {"no", "client", "server"}

\* What EncodeRequest wrote DecodeRequest gives back on the server, whatever the
\* metadata: names, metadata, codes and data are those of some call's request.
RequestIntact ==
  \A msg \in {srv[k].msg : k \in {x \in Conns : srv[x].pc = "run" /\ ~wire[x].tornUp}} \cup oneways :
    Torns = {} =>
      \E c \in DOMAIN sc.req : msg = [Request(c) EXCEPT !.meta = ToSet(@)]

\* A connection in the pool has no answer on it or to come: what is still on its
\* way to the server is one-way.  So the next call that gets it (responses carry
\* no identity that is looked at) reads its own answer; a call that gives up
\* must not give its connection back.
IdleIsQuiet ==
  \A k \in {x \in idle : ~wire[x].broken /\ ~Torn(x)} :
    /\ wire[k].down = <<>> /\ srv[k].pc # "run"
    /\ wire[k].up # <<>> => Meta(DecodeRequest(Frame(wire[k].up)), "one-way")

\* The function of the proxy returns what the method returned for this call's
\* argument, result and error both, as rpc_e2e_test asks; an error with an empty
\* text is lost on the way.  A short read on some connection is excepted.
AnswersMatch ==
  Torns = {} =>
    \A c \in DOMAIN sc.req :
      LET q == sc.req[c]
          res == call[c].res
      IN  call[c].pc = "over" /\ res.error \in {"none", "business"} =>
            /\ ~q.oneway
            /\ (res.error = "business") <=> (q.service # "svc" \/ q.does \in {"fail", "both"})
            /\ res.value = IF q.service = "svc" /\ q.does \in {"ok", "both", "hush"} THEN c ELSE None

\* No call is executed twice, and one that was answered by its method has been
\* executed: an error of the connection is not answered by sending again.
ExecutedOnce ==
  \A c \in Calls :
    /\ ran[c] <= 1
    /\ call[c].pc = "over" /\ call[c].res.value = c => ran[c] = 1

\* Every connection is either in the pool or with one goroutine, after errors
\* and timeouts too (sendAndReceive's deferred Put).
NoConnLost ==
  /\ open = idle \cup Held /\ idle \cap Held = {}
  /\ \A c, d \in Calls : c # d /\ work[c].k # None => work[c].k # work[d].k

\* A connection is in the pool or with one goroutine, and in the pool only when no
\* answer is to come on it.
ConnsSound == IdleIsQuiet /\ NoConnLost

\* A method sees its context done only when the deadline of its call is over; or
\* when the call is one-way and has a deadline, which handleConn cuts short.
ContextLive ==
  \A c \in late : sc.req[c].deadline /\ (c \in ended \/ sc.req[c].oneway)

\* A process ends in a panic in these cases only: the client's, when a call gave
\* up before its goroutine was through, or when a read was short; the server's,
\* over a method or serializer it does not know, or when a read was short.
PanicsExplained ==
  /\ crashed = "client" =>
       Torns # {} \/ \E c \in ended : call[c].pc = "over" /\ work[c].pc = "send"
  /\ crashed = "server" =>
       Torns # {} \/ \E c \in DOMAIN sc.req : Panics(Request(c))

\* A call runs the method it names once, with its argument, metadata and deadline,
\* and returns what the method returned; no panic of either side comes in between
\* but for the causes named.
CallsFaithful ==
  TypeOK /\ RequestIntact /\ AnswersMatch /\ ExecutedOnce /\ ContextLive /\ PanicsExplained

\* A call whose context has a deadline returns, whatever the server does; one
\* whose context has none returns unless a method hangs or a stream is torn.
CallReturns ==
  \A c \in Calls :
    call[c].pc = "select" ~>
      \/ call[c].pc = "over" \/ crashed # "no"
      \/ /\ c \in DOMAIN sc.req /\ ~sc.req[c].deadline
         /\ Torns # {} \/ \E d \in DOMAIN sc.req : sc.req[d].does = "hang"

\* A call that timed out loses its response, and nothing else happens: invoke's
\* comment says that the client just drops the response.
LateAnswerIsDropped == crashed # "client"
=============================================================================
