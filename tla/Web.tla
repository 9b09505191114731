-------------------------------- MODULE Web --------------------------------
(***************************************************************************)
(* HTTPServer of web/server.go: the registration of routes and groups, the *)
(* requests it serves with contexts from a sync.Pool, the middlewares of   *)
(* web/middleware around the handlers, and StartAndServeWithSignal.        *)
(*                                                                         *)
(* A request runs in the goroutine of its connection ("main"); the timeout *)
(* middleware runs what is inside it in a second one ("late"), which keeps *)
(* its pointer to the context after the request has been answered.  The    *)
(* position of a goroutine in the chain of middlewares is an index, going  *)
(* down to the handler and up again.                                       *)
(***************************************************************************)
EXTENDS Router, FiniteSetsExt

CONSTANTS
  Reqs, Ctxs, None,
  Burst, TTL, MaxNow,   \* rate limiter: capacity, time to live; the clock's bound
  Scenarios             \* mdls: HTTPServer.mdls; routes: those registered at the
                        \* start; adds: those that may be registered; probes: paths
                        \* to look up; reqs: the requests; alike: those that differ
                        \* in nothing, in the order in which they come; byIP: one
                        \* bucket for each address; ticks: whether time passes;
                        \* life: whether the server starts and stops

VARIABLES
  sc, trees, regs,      \* scenario; HTTPServer.trees; history: the routes accepted
  ctxs,                 \* the Contexts
  held,                 \* the context that a request was given
  go,                   \* the goroutines
  resp,                 \* the ResponseWriters, and what accesslog wrote
  expired, abandoned,   \* timeoutCtx is done; select left the handler behind
  table, bucket,        \* rate limiter: buckets, by address; the tokenBuckets
  now, admitted, purged,   \* the clock; who was let in at this instant; what expired
  life                  \* StartAndServeWithSignal

routing  == <<sc, trees, regs>>
serving  == <<ctxs, held, go, resp, expired, abandoned>>
limiting == <<table, bucket, now, admitted, purged>>
vars == <<routing, serving, limiting, life>>

-----------------------------------------------------------------------------
(* State *)

Idle == [pc |-> "idle", i |-> 0, chain |-> <<>>, ip |-> None, b |-> 0, h |-> None]
Headers == {"gzip", "id", "type"}
NoHeaders == [h \in Headers |-> 0]

\* The fields of a Context after reset, with the request it is for.
reset(q) == [req |-> q, status |-> 0, data |-> <<>>, headers |-> {}, done |-> FALSE,
             params |-> <<>>]

\* A route to register: its method, the prefixes and middlewares of the groups
\* it is registered in, from the outermost (none: with the server), its path or
\* the prefix of Static, and what its handler does.
Path(rt) ==
  CASE rt.does = "static" -> StaticPath(rt.path)
    [] rt.groups = <<>>   -> rt.path
    [] OTHER -> fullPath([i \in DOMAIN rt.groups |-> rt.groups[i].prefix], rt.path)

\* RouterGroup.wrap: the middlewares of the ancestors are outside.
wrap(rt) ==
  [rt |-> rt, mdls |-> FoldLeft(LAMBDA ms, gr : ms \o gr.mdls, <<>>, rt.groups)]

Registered(ts, rt) == addRoute(ts, rt.method, Path(rt), wrap(rt))

Init ==
  /\ sc \in Scenarios /\ trees = FoldLeft(Registered, <<>>, sc.routes) /\ regs = {}
  /\ ctxs = [c \in Ctxs |-> reset(None)] /\ held = [r \in Reqs |-> None]
  /\ go = [r \in Reqs |-> [main |-> Idle, late |-> Idle]]
  /\ resp = [r \in Reqs |-> [status |-> 0, body |-> <<>>, headers |-> NoHeaders,
                             over |-> FALSE, log |-> 0]]
  /\ expired = {} /\ abandoned = {}
  /\ table = <<>> /\ bucket = (IF sc.byIP THEN <<>> ELSE <<[tokens |-> Burst, last |-> 0]>>)
  /\ now = 0 /\ admitted = {} /\ purged = {}
  /\ life = [srv |-> IF sc.life THEN "nil" ELSE "serving", main |-> "select",
             signal |-> FALSE, unborn |-> FALSE]

\* Get, Post, ... of the server or of a group: addRoute, which may panic.
Register(rt) ==
  /\ rt \in sc.adds
  /\ trees' = Registered(trees, rt)
  /\ regs' = IF \E m \in DOMAIN trees' : /\ m = rt.method
                                         /\ wrap(rt) \in Range(trees'[m].handler)
             THEN regs \cup {rt} ELSE regs
  /\ UNCHANGED <<sc, serving, limiting, life>>

-----------------------------------------------------------------------------
(* ServeHTTP *)

Live(r) == go[r].main.pc \notin {"idle", "over"}

\* The context keeps what the last request, or a late goroutine, left in it.
Take_Dirty(c, r) == [ctxs[c] EXCEPT !.req = r, !.done = FALSE]

Take(c, r) == reset(r)

\* ServeHTTP takes a context of the pool, or a new one (they are numbered).
ServeHTTP(r) ==
  /\ r \in DOMAIN sc.reqs /\ go[r].main.pc = "idle" /\ life.srv = "serving"
  /\ \A i \in DOMAIN sc.alike : sc.alike[i] = r => \A j \in 1..(i - 1) : go[sc.alike[j]].main.pc # "idle"
  /\ \E c \in Ctxs :
       /\ \A q \in Reqs : Live(q) => held[q] # c
       /\ c = 1 \/ c - 1 \in Range(held)
       /\ ctxs' = [ctxs EXCEPT ![c] = Take(c, r)] /\ held' = [held EXCEPT ![r] = c]
  /\ go' = [go EXCEPT ![r].main = [Idle EXCEPT !.pc = "down", !.i = 1, !.chain = sc.mdls]]
  /\ UNCHANGED <<routing, resp, expired, abandoned, limiting, life>>

\* What a goroutine of r writes into the context; gz: how often it is compressed.
Data(r, status, params) ==
  <<[by |-> r, into |-> ctxs[held[r]].req, status |-> status, params |-> params, gz |-> 0]>>

\* net/http: the first WriteHeader counts, and a Write without one means 200.
Written(rs, q, status, data) ==
  IF rs[q].over THEN rs
  ELSE [rs EXCEPT ![q].status = IF @ # 0 THEN @ ELSE IF status = 0 /\ data # <<>> THEN 200 ELSE status,
                  ![q].body = @ \o data]

flashResp(r, c) ==
  LET added == [h \in Headers |-> resp[r].headers[h] + (IF h \in c.headers THEN 1 ELSE 0)]
  IN  Written([resp EXCEPT ![r].headers = added], r, c.status, c.data)

\* The rest of ServeHTTP when the chain has returned: the response is written
\* unless the context is done, net/http supplies the status that is missing,
\* and the context is reset and put back.
Return(r) ==
  LET c == ctxs[held[r]]
      out == IF c.done THEN resp ELSE flashResp(r, c)
  IN  [out EXCEPT ![r].over = TRUE, ![r].status = IF @ = 0 THEN 200 ELSE @]

\* A panic that reaches net/http closes the connection.
ServeEnd(r) ==
  /\ go[r].main.pc \in {"up", "panic"} /\ go[r].main.i = 0
  /\ resp' = IF go[r].main.pc = "up" THEN Return(r) ELSE [resp EXCEPT ![r].over = TRUE]
  /\ ctxs' = [ctxs EXCEPT ![held[r]] = reset(None)]
  /\ go' = [go EXCEPT ![r].main.pc = "over"]
  /\ UNCHANGED <<routing, held, expired, abandoned, limiting, life>>

-----------------------------------------------------------------------------
(* Steps of goroutine w of request r.  It works on the context that r was     *)
(* given, which is by now that of request q, or of none.                      *)

Ctx(r)   == ctxs[held[r]]
Owner(r) == ctxs[held[r]].req
To(r, w, g) == go' = [go EXCEPT ![r][w] = g]
Set(r, c)   == ctxs' = [ctxs EXCEPT ![held[r]] = c]
Down(g) == [g EXCEPT !.pc = "down", !.i = @ + 1]
Up(g)   == [g EXCEPT !.pc = "up", !.i = @ - 1]
Panic(g) == [g EXCEPT !.pc = "panic", !.i = @ - 1]
At(r, w, name) == /\ go[r][w].pc = "down" /\ go[r][w].i \in DOMAIN go[r][w].chain
                  /\ go[r][w].chain[go[r][w].i] = name
Back(r, w, name) == /\ go[r][w].pc = "up" /\ go[r][w].i \in DOMAIN go[r][w].chain
                    /\ go[r][w].chain[go[r][w].i] = name
\* The goroutine that timeout starts ends where it began.
Above(r, w) == w = "late" /\ go[r].late.i \in DOMAIN go[r].late.chain /\ go[r].late.chain[go[r].late.i] = "timeout"

\* A middleware answers by itself: it writes to the ResponseWriter, and Abort
\* makes ServeHTTP skip flashResp.
Abort(r, w, status) ==
  /\ Set(r, [Ctx(r) EXCEPT !.done = TRUE, !.status = status, !.data = Data(r, status, <<>>)])
  /\ resp' = Written(resp, Owner(r), status, IF status = 204 THEN <<>> ELSE Data(r, status, <<>>))
  /\ To(r, w, Up(go[r][w]))

\* The middlewares that do nothing on the way down.
Pass(r, w) ==
  /\ \/ \E name \in {"recovery", "errhdl", "accesslog"} : At(r, w, name)
     \/ At(r, w, "gzip") /\ Owner(r) # None
  /\ To(r, w, Down(go[r][w])) /\ UNCHANGED <<ctxs, resp, limiting>>

requestid(r, w) ==
  /\ At(r, w, "requestid") /\ Owner(r) # None
  /\ Set(r, [Ctx(r) EXCEPT !.headers = @ \cup {"id"}])
  /\ resp' = [resp EXCEPT ![Owner(r)].headers["id"] = 1]
  /\ To(r, w, Down(go[r][w])) /\ UNCHANGED limiting

bodysize(r, w) ==
  /\ At(r, w, "bodysize") /\ Owner(r) # None
  /\ IF sc.reqs[Owner(r)].big THEN Abort(r, w, 413)
     ELSE To(r, w, Down(go[r][w])) /\ UNCHANGED <<ctxs, resp>>
  /\ UNCHANGED limiting

\* A preflight request is answered here.
cors(r, w) ==
  /\ At(r, w, "cors") /\ Owner(r) # None
  /\ IF sc.reqs[Owner(r)].method = "OPTIONS" THEN Abort(r, w, 204)
     ELSE To(r, w, Down(go[r][w])) /\ UNCHANGED <<ctxs, resp>>
  /\ UNCHANGED limiting

\* A context without a request: the pointer is nil.
NilRequest(r, w) ==
  /\ Owner(r) = None
  /\ \/ \E name \in {"requestid", "bodysize", "cors", "ratelimit", "gzip"} : At(r, w, name)
     \/ go[r][w].pc = "down" /\ go[r][w].i > Len(go[r][w].chain) /\ go[r][w].h = None
  /\ To(r, w, Panic(go[r][w])) /\ UNCHANGED <<ctxs, resp, limiting>>

\* serve: what is found is 404 or 405, or the handler with its middlewares.
serve(r, w) ==
  LET g == go[r][w] IN
  /\ g.pc = "down" /\ g.i > Len(g.chain) /\ g.h = None /\ Owner(r) # None
  /\ \E q \in {sc.reqs[Owner(r)]} : \E found \in {findRoute(trees, q.method, q.path)} :
       \/ /\ found.nodes = {}
          /\ Set(r, [Ctx(r) EXCEPT !.status = found.status, !.data = Data(r, found.status, <<>>)])
          /\ To(r, w, Up(g))
       \/ \E n \in found.nodes : \E h \in {trees[q.method].handler[n]}, params \in {paramPath(n, q.path)} :
            /\ Set(r, [Ctx(r) EXCEPT !.params = params])
            /\ To(r, w, [g EXCEPT !.chain = @ \o h.mdls, !.h = h.rt.does])
  /\ UNCHANGED <<resp, limiting>>

\* What handlers do: answer (RespString and the like, in two assignments that a
\* late goroutine may interleave with others), only call Abort, write the
\* response themselves (Static), nothing, panic, or never return.  The FileServer
\* of Static sends a file, 404, or for a directory a redirect without a body;
\* RespStatusCode stays 0.
Handler(r, w) ==
  LET g == go[r][w] IN
  /\ g.i > Len(g.chain)
  /\ \/ /\ g.pc = "down" /\ g.h \in {"reply", "fail"}
        /\ Set(r, [Ctx(r) EXCEPT !.headers = @ \cup {"type"}, !.status = IF g.h = "fail" THEN 400 ELSE 200])
        /\ To(r, w, [g EXCEPT !.pc = "data"]) /\ UNCHANGED resp
     \/ /\ g.pc = "data" /\ Set(r, [Ctx(r) EXCEPT !.data = Data(r, Ctx(r).status, Ctx(r).params)])
        /\ To(r, w, Up(g)) /\ UNCHANGED resp
     \/ /\ g.pc = "down" /\ g.h = "abort"
        /\ Set(r, [Ctx(r) EXCEPT !.done = TRUE, !.status = 403, !.data = Data(r, 403, <<>>)])
        /\ To(r, w, Up(g)) /\ UNCHANGED resp
     \/ /\ g.pc = "down" /\ g.h = "static"
        /\ IF Owner(r) = None THEN To(r, w, Panic(g)) /\ UNCHANGED <<ctxs, resp>>
           ELSE /\ Set(r, [Ctx(r) EXCEPT !.done = TRUE]) /\ To(r, w, Up(g))
                /\ \E status \in {200, 301, 404} :
                     resp' = Written(resp, Owner(r), status, IF status = 301 THEN <<>> ELSE Data(r, status, <<>>))
     \/ g.pc = "down" /\ g.h = "empty" /\ To(r, w, Up(g)) /\ UNCHANGED <<ctxs, resp>>
     \/ g.pc = "down" /\ g.h = "panic" /\ To(r, w, Panic(g)) /\ UNCHANGED <<ctxs, resp>>
  /\ UNCHANGED limiting

-----------------------------------------------------------------------------
(* The way up *)

\* gzip compresses what has a content type, also what an inner gzip has compressed
\* (replies here are long enough, and clients accept gzip).
GzipUp(c) ==
  IF c.data # <<>> /\ "type" \in c.headers
  THEN [c EXCEPT !.data = <<[c.data[1] EXCEPT !.gz = @ + 1]>>, !.headers = @ \cup {"gzip"}]
  ELSE c

\* errhdl: the pages registered for 400 and 404.
ErrhdlUp(r, c) == IF c.status \in {400, 404} THEN [c EXCEPT !.data = Data(r, c.status, <<>>)] ELSE c

\* The status that accesslog writes.
Logged(c) == IF c.status = 0 THEN 200 ELSE c.status

Rise(r, w) ==
  LET g == go[r][w] IN
  /\ g.pc = "up" /\ g.i > 0 /\ ~Above(r, w)
  /\ Set(r, CASE Back(r, w, "errhdl") -> ErrhdlUp(r, Ctx(r))
              [] Back(r, w, "gzip")   -> GzipUp(Ctx(r))
              [] OTHER                -> Ctx(r))
  /\ resp' = IF Back(r, w, "accesslog") /\ Owner(r) # None
             THEN [resp EXCEPT ![r].log = Logged(Ctx(r))] ELSE resp
  /\ To(r, w, IF Back(r, w, "accesslog") /\ Owner(r) = None THEN Panic(g) ELSE Up(g))
  /\ UNCHANGED limiting

\* A panic passes the middlewares but recovery; accesslog still writes.
Unwind(r, w) ==
  LET g == go[r][w] IN
  /\ g.pc = "panic" /\ g.i > 0 /\ ~Above(r, w)
  /\ IF g.chain[g.i] = "recovery"
     THEN /\ Set(r, [Ctx(r) EXCEPT !.status = 500, !.data = Data(r, 500, <<>>)])
          /\ To(r, w, Up(g))
     ELSE UNCHANGED ctxs /\ To(r, w, Panic(g))
  /\ resp' = IF g.chain[g.i] = "accesslog" /\ Owner(r) # None
             THEN [resp EXCEPT ![r].log = Logged(Ctx(r))] ELSE resp
  /\ UNCHANGED limiting

-----------------------------------------------------------------------------
(* The timeout middleware *)

TimeoutGo(r) ==
  /\ At(r, "main", "timeout")
  /\ go' = [go EXCEPT ![r].main.pc = "select", ![r].late = Down(go[r].main)]
  /\ UNCHANGED <<routing, ctxs, held, resp, expired, abandoned, limiting, life>>

\* The goroutine ends: close(done), or its panic goes to panicCh.
LateEnd(r) ==
  /\ Above(r, "late") /\ go[r].late.pc \in {"up", "panic"}
  /\ go' = [go EXCEPT ![r].late.pc = IF @ = "up" THEN "done" ELSE "panicked"]
  /\ UNCHANGED <<routing, ctxs, held, resp, expired, abandoned, limiting, life>>

Deadline(r) ==
  /\ go[r].main.pc = "select" /\ r \notin expired /\ expired' = expired \cup {r}
  /\ UNCHANGED <<routing, ctxs, held, go, resp, abandoned, limiting, life>>

\* Without the case for the deadline.
Ready_NoDeadline(r) ==
  {status \in {0, 500, 503} :
     \/ status = 500 /\ go[r].late.pc = "panicked"
     \/ go[r].late.pc = "done" /\ status = (IF r \in expired THEN 503 ELSE 0)}

\* The cases of the select that are ready, by the status that each sets (0: none).
Ready(r) ==
  {status \in {0, 500, 503} :
     \/ status = 500 /\ go[r].late.pc = "panicked"
     \/ go[r].late.pc = "done" /\ status = (IF r \in expired THEN 503 ELSE 0)
     \/ status = 503 /\ r \in expired}

TimeoutSelect(r) ==
  /\ go[r].main.pc = "select"
  /\ \E status \in Ready(r) :
       /\ Set(r, IF status = 0 THEN Ctx(r)
                 ELSE [Ctx(r) EXCEPT !.status = status, !.data = Data(r, status, <<>>)])
       /\ abandoned' = IF go[r].late.pc \in {"done", "panicked"} THEN abandoned ELSE abandoned \cup {r}
  /\ To(r, "main", Up(go[r].main))
  /\ UNCHANGED <<routing, held, resp, expired, limiting, life>>

-----------------------------------------------------------------------------
(* The rate limiter, by client address *)

Ip(r) == sc.reqs[Owner(r)].ip
Listed(ip) == IF ip \in DOMAIN table THEN table[ip] ELSE 0
List(ip, b) == table' = [x \in DOMAIN table \cup {ip} |-> IF x = ip THEN b ELSE table[x]]
Step(r, w, pc, b) == To(r, w, [go[r][w] EXCEPT !.pc = pc, !.b = b]) /\ UNCHANGED <<ctxs, resp>>

\* Without byIP there is one bucket; else getOrCreateBucket, up to RUnlock.
BucketRead(r, w) ==
  /\ At(r, w, "ratelimit") /\ Owner(r) # None
  /\ To(r, w, [go[r][w] EXCEPT !.pc = IF sc.byIP THEN "check" ELSE "take", !.ip = Ip(r),
                               !.b = IF sc.byIP THEN Listed(Ip(r)) ELSE 1])
  /\ UNCHANGED <<ctxs, resp, limiting>>

isBucketExpired(b) == now - bucket[b].last > TTL

BucketCheck(r, w) ==
  LET b == go[r][w].b IN
  /\ go[r][w].pc = "check"
  /\ Step(r, w, IF b = 0 THEN "insert" ELSE IF isBucketExpired(b) THEN "purge" ELSE "take", b)
  /\ UNCHANGED limiting

\* Under the lock: the bucket goes unless it has been replaced.
BucketPurge(r, w) ==
  LET b == go[r][w].b  ip == go[r][w].ip IN
  /\ go[r][w].pc = "purge"
  /\ IF Listed(ip) = b
     THEN List(ip, 0) /\ purged' = purged \cup {b} /\ Step(r, w, "insert", 0)
     ELSE UNCHANGED <<table, purged>> /\ Step(r, w, "take", b)
  /\ UNCHANGED <<bucket, now, admitted>>

\* The new bucket replaces the one that is there by now.
BucketInsert_Replace(r, w) ==
  LET ip == go[r][w].ip IN
  /\ go[r][w].pc = "insert"
  /\ List(ip, Len(bucket) + 1) /\ bucket' = Append(bucket, [tokens |-> Burst, last |-> now])
  /\ Step(r, w, "take", Len(bucket) + 1)
  /\ UNCHANGED <<now, admitted, purged>>

\* A full bucket, unless there is one by now.
BucketInsert(r, w) ==
  LET ip == go[r][w].ip IN
  /\ go[r][w].pc = "insert"
  /\ IF Listed(ip) # 0 THEN UNCHANGED <<table, bucket>> /\ Step(r, w, "take", Listed(ip))
     ELSE /\ List(ip, Len(bucket) + 1) /\ bucket' = Append(bucket, [tokens |-> Burst, last |-> now])
          /\ Step(r, w, "take", Len(bucket) + 1)
  /\ UNCHANGED <<now, admitted, purged>>

\* The tokens of take, one for each unit of time.
Filled(b) == Min({Burst, bucket[b].tokens + (now - bucket[b].last)})

\* take, and what Build does with the answer.
BucketTake(r, w) ==
  LET b == go[r][w].b
      tokens == Filled(b)
  IN  /\ go[r][w].pc = "take"
      /\ bucket' = [bucket EXCEPT ![b] = [tokens |-> IF tokens >= 1 THEN tokens - 1 ELSE tokens, last |-> now]]
      /\ IF tokens >= 1
         THEN /\ admitted' = admitted \cup {<<r, b>>}
              /\ To(r, w, Down(go[r][w])) /\ UNCHANGED <<ctxs, resp>>
         ELSE /\ UNCHANGED admitted
              /\ IF Owner(r) = None THEN To(r, w, Panic(go[r][w])) /\ UNCHANGED <<ctxs, resp>>
                 ELSE Abort(r, w, 429)
      /\ UNCHANGED <<table, now, purged>>

Tick ==
  /\ sc.ticks /\ now < MaxNow /\ now' = now + 1 /\ admitted' = {}
  /\ UNCHANGED <<routing, serving, table, bucket, purged, life>>

-----------------------------------------------------------------------------
(* StartAndServeWithSignal *)

Life(l) == life' = l /\ UNCHANGED <<routing, serving, limiting>>

\* The goroutine of Start sets HTTPServer.server, then listens; the port may be
\* taken, and a server that has been shut down does not listen.
StartAssign == life.srv = "nil" /\ Life([life EXCEPT !.srv = "set"])
Listen == /\ life.srv = "set"
          /\ \E srv \in {"serving", "failed"} : Life([life EXCEPT !.srv = srv])

\* The select of StartAndServeWithSignal.
StartFails == life.main = "select" /\ life.srv = "failed" /\ Life([life EXCEPT !.main = "error"])
Signal == sc.life /\ ~life.signal /\ Life([life EXCEPT !.signal = TRUE])
OnSignal == life.main = "select" /\ life.signal /\ Life([life EXCEPT !.main = "shutdown"])

\* Shutdown does not wait for the requests.
Shutdown_NoWait ==
  /\ life.main = "shutdown"
  /\ Life(IF life.srv = "nil" THEN [life EXCEPT !.main = "nil", !.unborn = TRUE]
          ELSE [life EXCEPT !.main = "nil", !.srv = "closed"])

\* Shutdown: there may be no server yet.
Shutdown ==
  /\ life.main = "shutdown"
  /\ Life(IF life.srv = "nil" THEN [life EXCEPT !.main = "nil", !.unborn = TRUE]
          ELSE [life EXCEPT !.main = "drain", !.srv = "closed"])

\* net/http: Shutdown waits for the requests, or for its context.
Drain == /\ life.main = "drain" /\ \A r \in Reqs : ~Live(r)
         /\ Life([life EXCEPT !.main = "nil"])

ShutdownTimeout == life.main = "drain" /\ Life([life EXCEPT !.main = "error"])

-----------------------------------------------------------------------------

Goroutine(r, w) ==
  /\ held[r] # None
  /\ \/ Pass(r, w) \/ requestid(r, w) \/ bodysize(r, w) \/ cors(r, w) \/ NilRequest(r, w)
     \/ serve(r, w) \/ Handler(r, w) \/ Rise(r, w) \/ Unwind(r, w)
     \/ BucketRead(r, w) \/ BucketCheck(r, w) \/ BucketTake(r, w)
     \/ BucketPurge(r, w) \/ BucketInsert(r, w)
  /\ UNCHANGED <<routing, held, expired, abandoned, life>>

Main(r) == Goroutine(r, "main") \/ TimeoutGo(r) \/ TimeoutSelect(r) \/ ServeEnd(r)
Late(r) == Goroutine(r, "late") \/ LateEnd(r)

Starting == StartAssign \/ Listen \/ StartFails \/ OnSignal \/ Shutdown \/ Drain \/ ShutdownTimeout

Next ==
  \/ \E rt \in sc.adds : Register(rt)
  \/ \E r \in Reqs : ServeHTTP(r) \/ Main(r) \/ Late(r) \/ Deadline(r)
  \/ Tick \/ Starting \/ Signal

Spec == Init /\ [][Next]_vars

\* Goroutines run, and deadlines pass; all of these end, so it is enough that
\* some step is taken while there is one.
Progress == Starting \/ \E r \in Reqs : Main(r) \/ Late(r) \/ Deadline(r)
FairSpec == Spec /\ WF_vars(Progress)

-----------------------------------------------------------------------------
(* Properties *)

Positions == {"idle", "down", "up", "panic", "over", "select", "done", "panicked", "data",
              "check", "purge", "insert", "take"}

\* The variables have their types, and no context serves two requests at once.
TypeOK ==
  /\ \A c \in Ctxs : /\ ctxs[c].req \in Reqs \cup {None} /\ ctxs[c].done \in BOOLEAN
                      /\ ctxs[c].headers \subseteq Headers /\ Len(ctxs[c].data) <= 1
                      /\ ctxs[c].req # None => Live(ctxs[c].req) /\ held[ctxs[c].req] = c
  /\ \A r \in Reqs : /\ held[r] \in Ctxs \cup {None} /\ go[r].main.pc \in Positions
                      /\ go[r].late.pc \in Positions /\ Live(r) => Owner(r) = r
  /\ \A b \in DOMAIN bucket : bucket[b].tokens \in 0..Burst /\ bucket[b].last \in 0..now
  /\ life.srv \in {"nil", "set", "serving", "failed", "closed"}

\* The route that serves a path matches it, and a route that matches gives way
\* only to a static sibling on its way, whether or not that leads to a handler (a
\* route that was refused leaves such nodes too), or to a wildcard that it goes through
\* (childOf, findInTree).
RouteRight ==
  \A m \in DOMAIN trees, path \in sc.probes :
    \E served \in {findRoute(trees, m, path).nodes} :
      /\ \A n \in served : Matches(n, path)
      /\ \A p \in DOMAIN trees[m].handler :
           Matches(p, path) => Shadowed(trees[m].nodes, p, path) \/ \E n \in served : IsPrefix(n, p)

\* A static route that was accepted keeps being served by its own handler and
\* middlewares, at the path of its groups' prefixes and its own, whatever is
\* registered after it (addRoute, fullPath, wrap).
AcceptedIsServed ==
  \A rt \in regs :
    LET tokens == FlattenSeq([i \in DOMAIN rt.groups |-> rt.groups[i].prefix]) \o rt.path
        segs == SelectSeq(tokens, LAMBDA t : t # "/")
        path == IF segs = <<>> THEN <<"/">> ELSE FoldLeft(LAMBDA p, t : p \o <<"/", t>>, <<>>, segs)
    IN  ToSet(segs) \cap (ParamSegs \cup RegexSegs \cup {"*"}) = {} =>
          /\ findRoute(trees, rt.method, path).nodes = {segs}
          /\ trees[rt.method].handler[segs].rt = rt
          /\ trees[rt.method].handler[segs].mdls = FlattenSeq([i \in DOMAIN rt.groups |-> rt.groups[i].mdls])

\* Requests are served by the routes that were registered for them.
RoutesRight == RouteRight /\ AcceptedIsServed

\* What a response holds was written for its request, or by the handler of one
\* that had timed out, while the context was that of this request: what is left
\* in a pooled context is never sent (ServeHTTP, reset).
OwnResponse ==
  \A r \in Reqs : \A i \in DOMAIN resp[r].body :
    LET b == resp[r].body[i] IN b.by = r \/ (b.by \in abandoned /\ b.into = r)

Handlers(r) == {go[r].main.h, go[r].late.h}
Has(name) == name \in ToSet(sc.mdls)
Over(r) == resp[r].over
Cut(r)  == Over(r) /\ resp[r].status = 0
\* No handler that was left behind shares the context of the request.
Alone(r) == \A q \in abandoned : held[q] # held[r]

\* A response is written once, by flashResp or by the middleware that aborts,
\* with the status and the path parameters that belong to the body; it is empty
\* only if the handler wrote nothing; and a panic is answered behind recovery or
\* timeout.
AnsweredOnce ==
  \A r \in Reqs : Over(r) /\ Alone(r) =>
    /\ Cut(r) => ~Has("recovery") /\ ~Has("timeout")
    /\ resp[r].body = <<>> => \/ Cut(r) \/ resp[r].status \in {204, 301}
                              \/ Handlers(r) \cap {"empty", "abort"} # {}
    /\ resp[r].body # <<>> =>
         LET q == sc.reqs[r]  b == Head(resp[r].body) IN
         /\ Len(resp[r].body) = 1 /\ b.status = resp[r].status
         /\ b.params # <<>> => \E n \in findRoute(trees, q.method, q.path).nodes : b.params = paramPath(n, q.path)

\* Every response carries the request id, those of middlewares that abort too,
\* when requestid is the outermost middleware.
RequestIdSent ==
  \A r \in Reqs : Over(r) /\ Head(sc.mdls) = "requestid" => resp[r].headers["id"] > 0

\* The server and a group of the route both have gzip.
GzipTwice(r) ==
  LET chain == go[r].main.chain IN \E i, j \in DOMAIN chain : i # j /\ chain[i] = "gzip" /\ chain[j] = "gzip"

\* A response is declared compressed as often as it is, when what replaces the
\* data is inside gzip: errhdl, and timeout, which leaves the headers of a handler
\* that was late as they are.  With gzip on the server and on the group, text is
\* compressed twice and declared once; even then none is declared without being
\* compressed, or compressed without being declared.
EncodingTrue ==
  \A r \in Reqs \ expired : Over(r) /\ Alone(r) /\ resp[r].body # <<>> =>
    LET gz == Head(resp[r].body).gz IN
    /\ resp[r].headers["gzip"] > 0 <=> gz > 0
    /\ resp[r].headers["gzip"] = gz \/ GzipTwice(r)

\* accesslog, outermost, writes the status that was sent, with two exceptions: a
\* handler that only calls Abort, where 200 is sent, and the files of Static,
\* whose status is written past the context, so that 200 is logged for all.
LogTrue ==
  \A r \in Reqs : Over(r) /\ Alone(r) /\ Head(sc.mdls) = "accesslog" =>
    \/ Cut(r) \/ "abort" \in Handlers(r)
    \/ resp[r].log = IF "static" \in Handlers(r) THEN 200 ELSE resp[r].status

\* A response is sent once, holds what was written for its request, and is what its
\* headers and the log say.
ResponseRight == TypeOK /\ OwnResponse /\ AnsweredOnce /\ RequestIdSent /\ EncodingTrue /\ LogTrue

\* At one instant a bucket lets no more than Burst requests in, and all that are
\* let in were counted by the bucket of their address or one that had expired
\* (take, getOrCreateBucket).
BurstBounded ==
  /\ \A b \in DOMAIN bucket : Cardinality({x \in admitted : x[2] = b}) <= Burst
  /\ sc.byIP => \A x \in admitted : x[2] \in Range(table) \cup purged

\* When StartAndServeWithSignal returns nil no request is served, and none will
\* be, unless the signal came before Start had made the server.
Drained == life.main = "nil" => life.unborn \/ \A r \in Reqs : ~Live(r)

\* Behind timeout a request is answered, though its handler never returns.
RequestAnswered ==
  \A r \in Reqs : Live(r) /\ Has("timeout") ~> Over(r)

\* After a signal StartAndServeWithSignal returns.
SignalStops == life.signal ~> life.main \in {"nil", "error"}

\* Neither a request nor the shutdown waits for a handler for ever.
WebEnds == RequestAnswered /\ SignalStops
=============================================================================
