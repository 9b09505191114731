--------------------------- MODULE EndpointClient ---------------------------
(***************************************************************************)
(* The client of micro/net over several endpoints: Call with its retries   *)
(* (client.go), the health of the nodes (endpoint.go), the balancers       *)
(* (balancer.go), Resolve, which replaces the nodes, and Close.            *)
(*                                                                         *)
(* A node is <<generation, address>>: Resolve makes new nodes.  Its stream *)
(* pool, modelled by StreamPool, is whether it is open.  Time is           *)
(* abstracted: a node is down from MarkFailure until Cooldown.             *)
(***************************************************************************)
EXTENDS Endpoints, FiniteSets, FiniteSetsExt

CONSTANTS
  Callers, Resolvers, NoNode, Nil,
  Configs,         \* how a client may be made and used: the fields of Endpoints,
                   \* its balancer (policy), and the bounds: who calls, calls each,
                   \* faults (what may go wrong on an open node), resolves (the
                   \* Resolvers that run), env (whether contexts end, "cancel", and Close is called,
                   \* "close")
  Lookups,         \* what DNS may answer: functions from Names to sequences
  RetryAttempts,   \* clientOptions.retryAttempts
  Threshold        \* clientOptions.healthThreshold

ASSUME ClientConstants ==
  /\ NoNode \notin (0..Cardinality(Resolvers)) \X (Names \cup Addrs)
  /\ RetryAttempts \in Nat /\ Threshold \in Nat \ {0}
  /\ \A k \in Configs : /\ k.who \subseteq Callers /\ k.calls \in Nat /\ k.faults \in Nat
                        /\ k.resolves \subseteq Resolvers /\ k.env \subseteq {"cancel", "close"}

VARIABLES
  cfg,           \* fixed by NewClient
  dns,           \* what DNS answers now
  gen, nodes,    \* Client.nodes: its generation and endpoints
  closed,        \* Client.closed
  open,          \* the nodes whose pool has not been closed
  fails, down,   \* endpointNode.fails; whether downUntil is ahead
  charges,       \* history: the failures in fails, the closing of pools aside
  passed,        \* history: the callers an answer overtook within MarkFailure,
  overtaken,     \* and the nodes they put down
  rr,            \* RoundRobinBalancer.n
  wrr,           \* WeightedRoundRobinBalancer.state
  ledger,        \* history: how far each candidate is ahead of its weight
  stores,        \* history: the states stored for these candidates
  pc, attempt, cands, ref, cancelled, result,    \* the callers
  loaded,        \* the wrrState a caller works on: a copy, and whether the
                 \* pointer is still the balancer's
  broken, swaps, \* history, per call: failed attempts; replacements of nodes
  calls,
  rPc, rEps, rOld,  \* the Resolves
  cPc, cOld,
  cLate,         \* history: the Resolves past their check when Close took the nodes
  faults

health   == <<fails, down, charges, passed, overtaken>>
balancer == <<rr, wrr, ledger, stores, loaded>>
history  == <<broken, swaps, calls>>
local    == <<pc, attempt, cands, ref, cancelled, result>>
resolves == <<rPc, rEps, rOld>>
shared   == <<gen, nodes, closed, open, dns>>
closing  == <<cPc, cOld, cLate>>
vars == <<cfg, shared, health, balancer, local, history, resolves, closing, faults>>

Nodes == (0..Cardinality(Resolvers)) \X (Names \cup Addrs)
NodesOf(g, eps) == {<<g, eps[i].addr>> : i \in DOMAIN eps}

-----------------------------------------------------------------------------
\* NewClient.
Init ==
  /\ cfg \in Configs /\ dns \in Lookups
  /\ gen = 0 /\ nodes = StartList(dns, cfg) /\ open = NodesOf(0, nodes)
  /\ closed = FALSE
  /\ fails = [n \in Nodes |-> 0] /\ down = {}
  /\ charges = [n \in Nodes |-> 0] /\ passed = {} /\ overtaken = {}
  /\ rr = 0 /\ wrr = Nil /\ ledger = <<>> /\ stores = 0
  /\ loaded = [c \in Callers |-> Nil]
  /\ pc = [c \in Callers |-> "idle"] /\ attempt = [c \in Callers |-> 0]
  /\ cands = [c \in Callers |-> <<>>] /\ ref = [c \in Callers |-> NoNode]
  /\ cancelled = {} /\ result = [c \in Callers |-> "none"]
  /\ broken = [c \in Callers |-> 0] /\ swaps = [c \in Callers |-> 0]
  /\ calls = [c \in Callers |-> 0]
  /\ rPc = [r \in Resolvers |-> "start"] /\ rEps = [r \in Resolvers |-> <<>>]
  /\ rOld = [r \in Resolvers |-> {}]
  /\ cPc = "start" /\ cOld = {} /\ cLate = {} /\ faults = 0

To(c, l) == pc' = [pc EXCEPT ![c] = l]

\* What the caller sees; the variables of the call return to their values
\* of an idle caller.
Return(c, res) ==
  /\ To(c, "idle") /\ result' = [result EXCEPT ![c] = res]
  /\ cancelled' = cancelled \ {c}
  /\ attempt' = [attempt EXCEPT ![c] = 0] /\ ref' = [ref EXCEPT ![c] = NoNode]
  /\ cands' = [cands EXCEPT ![c] = <<>>]

-----------------------------------------------------------------------------
(* Call *)

\* Call up to its loop.
CallBegin(c) ==
  /\ pc[c] = "idle" /\ c \in cfg.who /\ calls[c] < cfg.calls
  /\ calls' = [calls EXCEPT ![c] = @ + 1]
  /\ broken' = [broken EXCEPT ![c] = 0] /\ swaps' = [swaps EXCEPT ![c] = 0]
  /\ IF closed THEN Return(c, "closed")
     ELSE To(c, "pick") /\ UNCHANGED <<attempt, cands, ref, cancelled, result>>
  /\ UNCHANGED <<cfg, shared, health, balancer, resolves, closing, faults>>

\* The caller's context ends, or the request timeout does.
Cancel(c) ==
  /\ "cancel" \in cfg.env /\ pc[c] # "idle" /\ c \notin cancelled
  /\ cancelled' = cancelled \cup {c}
  /\ UNCHANGED <<cfg, shared, health, balancer, pc, attempt, cands, ref, result, history,
                 resolves, closing, faults>>

\* Call after doCall has failed with an error that is neither the handler's
\* nor the context's.
Failing(c, res) ==
  /\ broken' = [broken EXCEPT ![c] = @ + 1]
  /\ IF attempt[c] < RetryAttempts
       THEN /\ To(c, "backoff") /\ result' = [result EXCEPT ![c] = res]
            /\ ref' = [ref EXCEPT ![c] = NoNode] /\ UNCHANGED <<attempt, cands, cancelled>>
       ELSE Return(c, res)
  /\ UNCHANGED <<swaps, calls>>

Backoff(c) ==
  /\ pc[c] = "backoff"
  /\ \/ c \in cancelled /\ Return(c, "ctx")
     \/ /\ To(c, "pick") /\ attempt' = [attempt EXCEPT ![c] = @ + 1]
        /\ UNCHANGED <<cands, ref, cancelled, result>>
  /\ UNCHANGED <<cfg, shared, health, balancer, history, resolves, closing, faults>>

\* pickNode's candidates: the healthy nodes, all of them when none is.
Candidates ==
  LET healthy == SelectSeq(nodes, LAMBDA e : <<gen, e.addr>> \notin down)
      eps == IF healthy = <<>> THEN nodes ELSE healthy
  IN  [i \in DOMAIN eps |-> [node |-> <<gen, eps[i].addr>>, weight |-> eps[i].weight]]

\* A Call waits for an endpoint.
PickNode_Wait(c) ==
  /\ pc[c] = "pick"
  /\ \/ /\ c \in cancelled /\ Return(c, "ctx") /\ UNCHANGED history
     \/ /\ c \notin cancelled /\ Candidates # <<>>
        /\ cands' = [cands EXCEPT ![c] = Candidates] /\ To(c, "balance")
        /\ UNCHANGED <<attempt, ref, cancelled, result, history>>
  /\ UNCHANGED <<cfg, shared, health, balancer, resolves, closing, faults>>

\* pickNode up to the balancer.
PickNode(c) ==
  /\ pc[c] = "pick"
  /\ \/ /\ c \in cancelled /\ Return(c, "ctx") /\ UNCHANGED history
     \/ /\ c \notin cancelled /\ Candidates = <<>> /\ Failing(c, "noEndpoint")
     \/ /\ c \notin cancelled /\ Candidates # <<>>
        /\ cands' = [cands EXCEPT ![c] = Candidates] /\ To(c, "balance")
        /\ UNCHANGED <<attempt, ref, cancelled, result, history>>
  /\ UNCHANGED <<cfg, shared, health, balancer, resolves, closing, faults>>

-----------------------------------------------------------------------------
(* Balancers *)

Picked(c, n) ==
  /\ ref' = [ref EXCEPT ![c] = n] /\ To(c, "reserve")
  /\ UNCHANGED <<cfg, shared, health, attempt, cands, cancelled, result, history, resolves,
                 closing, faults>>

\* Every balancer's shortcut.
PickOnly(c) ==
  /\ pc[c] = "balance" /\ Len(cands[c]) = 1
  /\ Picked(c, cands[c][1].node) /\ UNCHANGED balancer

\* RoundRobinBalancer.Pick; the counter is kept modulo a common multiple of
\* the lengths a list of candidates can have.
PickRoundRobin(c) ==
  /\ pc[c] = "balance" /\ cfg.policy = "round_robin" /\ Len(cands[c]) > 1
  /\ rr' = (rr + 1) % 6
  /\ Picked(c, cands[c][(rr % Len(cands[c])) + 1].node)
  /\ UNCHANGED <<wrr, ledger, stores, loaded>>

\* RandomBalancer.Pick.
PickRandom(c) ==
  /\ pc[c] = "balance" /\ cfg.policy = "random" /\ Len(cands[c]) > 1
  /\ \E i \in DOMAIN cands[c] : Picked(c, cands[c][i].node)
  /\ UNCHANGED balancer

\* endpointNode.Inflight: the reservations and the Calls on the node's streams.
Inflight(n) ==
  Cardinality({c \in Callers : ref[c] = n /\ pc[c] \notin {"balance", "reserve"}})
    + Cardinality({c \in Callers : ref[c] = n /\ pc[c] = "call"})

\* LeastActiveBalancer.Pick; the loads are read in one step.
PickLeastActive(c) ==
  /\ pc[c] = "balance" /\ cfg.policy = "least_active" /\ Len(cands[c]) > 1
  /\ \E i \in DOMAIN cands[c] :
       /\ \A j \in DOMAIN cands[c] : Inflight(cands[c][i].node) <= Inflight(cands[c][j].node)
       /\ Picked(c, cands[c][i].node)
  /\ UNCHANGED balancer

Addresses(cs) == [i \in DOMAIN cs |-> cs[i].node[2]]
Weights(cs)   == [i \in DOMAIN cs |-> cs[i].weight]
Total(ws)     == FoldLeft(LAMBDA sum, w : sum + w, 0, ws)

\* wrrMatches.
wrrMatches(st, cs) == st.addrs = Addresses(cs) /\ st.weights = Weights(cs)

\* buildWRRState.
buildWRRState(cs) ==
  [addrs |-> Addresses(cs), weights |-> Weights(cs), current |-> [i \in DOMAIN cs |-> 0]]

\* The turn of smooth weighted round robin: everyone gains its weight and
\* the first of the richest pays the total.
Gained(st) == [i \in DOMAIN st.current |-> st.current[i] + st.weights[i]]
Richest(v) == CHOOSE i \in DOMAIN v : (\A j \in DOMAIN v : v[j] <= v[i]) /\ \A j \in 1..(i - 1) : v[j] < v[i]
Pay(st, v, i) == [v EXCEPT ![i] = @ - Total(st.weights)]

\* Whoever works on another wrrState finds the pointer changed.
Install(c, st, mine) ==
  /\ wrr' = st
  /\ loaded' = [d \in Callers |-> IF d = c THEN mine
                                  ELSE IF loaded[d] = Nil THEN Nil
                                  ELSE [loaded[d] EXCEPT !.fresh = FALSE]]

\* WeightedRoundRobinBalancer.Pick: load, ...
WrrLoad(c) ==
  /\ pc[c] = "balance" /\ cfg.policy = "weighted_round_robin" /\ Len(cands[c]) > 1
  /\ IF wrr # Nil /\ wrrMatches(wrr, cands[c])
       THEN To(c, "cas") /\ loaded' = [loaded EXCEPT ![c] = [st |-> wrr, fresh |-> TRUE]]
       ELSE To(c, "store") /\ UNCHANGED loaded
  /\ UNCHANGED <<cfg, shared, health, rr, wrr, ledger, stores, attempt, cands, ref, cancelled,
                 result, history, resolves, closing, faults>>

\* ... store a state for other candidates, ...
WrrStore(c) ==
  /\ pc[c] = "store"
  /\ LET st == buildWRRState(cands[c])
     IN  /\ Install(c, st, [st |-> st, fresh |-> TRUE])
         /\ IF wrr # Nil /\ wrrMatches(wrr, cands[c])
              THEN stores' = stores + 1 /\ UNCHANGED ledger
              ELSE stores' = 1 /\ ledger' = st.current
  /\ To(c, "cas")
  /\ UNCHANGED <<cfg, shared, health, rr, attempt, cands, ref, cancelled, result, history,
                 resolves, closing, faults>>

\* The new state is stored whatever happened since the load.
WrrCas_Store(c) ==
  /\ pc[c] = "cas" /\ UNCHANGED <<rr, stores>>
  /\ LET st == loaded[c].st
         v == Gained(st)
         i == Richest(v)
     IN  /\ Install(c, [st EXCEPT !.current = Pay(st, v, i)], Nil)
         /\ ledger' = IF DOMAIN ledger = DOMAIN v
                        THEN Pay(st, [j \in DOMAIN v |-> ledger[j] + st.weights[j]], i)
                        ELSE ledger
         /\ Picked(c, cands[c][i].node)

\* ... compare and swap, from the start when another pick came first.
WrrCas(c) ==
  /\ pc[c] = "cas" /\ UNCHANGED <<rr, stores>>
  /\ LET st == loaded[c].st
         v == Gained(st)
         i == Richest(v)
     IN  IF loaded[c].fresh
           THEN /\ Install(c, [st EXCEPT !.current = Pay(st, v, i)], Nil)
                /\ ledger' = Pay(st, [j \in DOMAIN v |-> ledger[j] + st.weights[j]], i)
                /\ Picked(c, cands[c][i].node)
           ELSE /\ loaded' = [loaded EXCEPT ![c] = Nil] /\ To(c, "balance")
                /\ UNCHANGED <<cfg, shared, health, wrr, ledger, attempt, cands, ref, cancelled,
                               result, history, resolves, closing, faults>>

-----------------------------------------------------------------------------
(* doCall *)

Unchanged == UNCHANGED <<cfg, shared, balancer, attempt, cands, cancelled, resolves, closing>>

Reserve(c) ==
  /\ pc[c] = "reserve" /\ To(c, "get")
  /\ UNCHANGED <<health, ref, result, history, faults>> /\ Unchanged

\* Something goes wrong on a node whose pool is open.
Fault == faults < cfg.faults /\ faults' = faults + 1

\* Where the marks of doCall begin, with the result they are for.
Mark(c, how, res) == To(c, how) /\ result' = [result EXCEPT ![c] = res]

\* node.pool.Get; every error counts against the node: a pool that has been
\* closed, the end of the context, a dial that fails.
PoolGet(c) ==
  /\ pc[c] = "get"
  /\ \/ ref[c] \in open /\ c \notin cancelled /\ To(c, "call") /\ UNCHANGED <<result, faults>>
     \/ ref[c] \notin open /\ Mark(c, "fail", "poolClosed") /\ UNCHANGED faults
     \/ c \in cancelled /\ Mark(c, "fail", "ctx") /\ UNCHANGED faults
     \/ ref[c] \in open /\ Mark(c, "fail", "broken") /\ Fault
  /\ UNCHANGED <<ref, health, history>> /\ Unchanged

\* s.Call: an answer, an error of the handler, the end of the context, a pool
\* that has been closed; or, all of which count against the node, a connection
\* that breaks, a stream that was recycled since Get, and a Request the stream
\* refuses (an id that is in use, a frame that is not valid).
StreamCall(c) ==
  /\ pc[c] = "call"
  /\ \/ \E res \in {"ok", "remote"} : Mark(c, "succeed", res) /\ UNCHANGED faults
     \/ c \in cancelled /\ Mark(c, "unreserve", "ctx") /\ UNCHANGED faults
     \/ ref[c] \notin open /\ Mark(c, "fail", "poolClosed") /\ UNCHANGED faults
     \/ /\ ref[c] \in open /\ Fault
        /\ \E res \in {"broken", "recycled", "refused"} : Mark(c, "fail", res)
  /\ UNCHANGED <<ref, health, history>> /\ Unchanged

\* An answer of node n overtakes whoever is about to put it down.
Overtake(n) == passed' = passed \cup {c \in Callers : pc[c] = "fail2" /\ ref[c] = n}

\* The failures are not forgotten.
MarkSuccess_Keep(c) ==
  /\ \/ /\ pc[c] = "succeed" /\ To(c, "succeed2")
        /\ charges' = [charges EXCEPT ![ref[c]] = 0] /\ Overtake(ref[c])
        /\ UNCHANGED <<fails, down, overtaken>>
     \/ /\ pc[c] = "succeed2" /\ To(c, "unreserve")
        /\ down' = down \ {ref[c]} /\ overtaken' = overtaken \ {ref[c]}
        /\ UNCHANGED <<fails, charges, passed>>
  /\ UNCHANGED <<ref, result, history, faults>> /\ Unchanged

\* MarkSuccess and MarkFailure: two atomic operations each.
MarkSuccess(c) ==
  /\ \/ /\ pc[c] = "succeed" /\ To(c, "succeed2")
        /\ fails' = [fails EXCEPT ![ref[c]] = 0]
        /\ charges' = [charges EXCEPT ![ref[c]] = 0] /\ Overtake(ref[c])
        /\ UNCHANGED <<down, overtaken>>
     \/ /\ pc[c] = "succeed2" /\ To(c, "unreserve")
        /\ down' = down \ {ref[c]} /\ overtaken' = overtaken \ {ref[c]}
        /\ UNCHANGED <<fails, charges, passed>>
  /\ UNCHANGED <<ref, result, history, faults>> /\ Unchanged

\* fails is kept up to the threshold.
MarkFailure(c) ==
  /\ \/ /\ pc[c] = "fail"
        /\ fails' = [fails EXCEPT ![ref[c]] = Min({@ + 1, Threshold})]
        /\ charges' = IF result[c] = "poolClosed" THEN charges
                      ELSE [charges EXCEPT ![ref[c]] = Min({@ + 1, Threshold})]
        /\ To(c, IF fails[ref[c]] + 1 >= Threshold THEN "fail2" ELSE "unreserve")
        /\ UNCHANGED <<down, passed, overtaken>>
     \/ /\ pc[c] = "fail2" /\ To(c, "unreserve")
        /\ down' = down \cup {ref[c]} /\ passed' = passed \ {c}
        /\ overtaken' = IF c \in passed THEN overtaken \cup {ref[c]} ELSE overtaken \ {ref[c]}
        /\ UNCHANGED <<fails, charges>>
  /\ UNCHANGED <<ref, result, history, faults>> /\ Unchanged

\* doCall returns, and Call looks at the error.
CallEnd(c) ==
  /\ pc[c] = "unreserve"
  /\ IF result[c] \in {"ok", "remote", "ctx"} THEN Return(c, result[c]) /\ UNCHANGED history
     ELSE Failing(c, "broken")
  /\ UNCHANGED <<cfg, shared, health, balancer, resolves, closing, faults>>

\* downUntil passes.
Cooldown(n) ==
  /\ n \in down /\ down' = down \ {n} /\ overtaken' = overtaken \ {n}
  /\ UNCHANGED <<cfg, shared, fails, charges, passed, balancer, local, history, resolves, closing, faults>>

-----------------------------------------------------------------------------
(* Resolve and Close *)

\* What DNS answers changes.
DnsChange ==
  /\ cfg.dnsResolve /\ \E d \in Lookups \ {dns} : dns' = d
  /\ UNCHANGED <<cfg, gen, nodes, closed, open, health, balancer, local, history, resolves,
                 closing, faults>>

\* Resolve up to the new nodes; closed is not looked at again.
ResolveBegin(r) ==
  /\ rPc[r] = "start" /\ r \in cfg.resolves
  /\ LET eps == buildEndpoints(dns, cfg)
     IN  IF closed \/ ~Ok(eps)
           THEN rPc' = [rPc EXCEPT ![r] = "done"] /\ UNCHANGED rEps
           ELSE rPc' = [rPc EXCEPT ![r] = "swap"] /\ rEps' = [rEps EXCEPT ![r] = eps]
  /\ UNCHANGED <<cfg, shared, health, balancer, local, history, rOld, closing, faults>>

Swapped == swaps' = [c \in Callers |-> swaps[c] + 1]

\* The new nodes, with their pools, take the place of the old ones.
ResolveSwap(r) ==
  /\ rPc[r] = "swap" /\ rPc' = [rPc EXCEPT ![r] = "close"]
  /\ gen' = gen + 1 /\ nodes' = rEps[r]
  /\ open' = open \cup NodesOf(gen + 1, rEps[r])
  /\ rOld' = [rOld EXCEPT ![r] = NodesOf(gen, nodes)]
  /\ Swapped
  /\ UNCHANGED <<cfg, closed, dns, health, balancer, local, broken, calls, rEps, closing, faults>>

ResolveClose(r) ==
  /\ rPc[r] = "close"
  /\ \/ /\ rOld[r] = {} /\ rPc' = [rPc EXCEPT ![r] = "done"] /\ UNCHANGED <<rOld, open>>
     \/ \E n \in rOld[r] : /\ open' = open \ {n} /\ rOld' = [rOld EXCEPT ![r] = @ \ {n}]
                           /\ UNCHANGED rPc
  /\ UNCHANGED <<cfg, gen, nodes, closed, dns, health, balancer, local, history, rEps, closing,
                 faults>>

\* Late: the Resolves that will still replace the nodes.
Late == {r \in Resolvers : rPc[r] = "swap"}

\* The nodes are read before the lock is taken.
Close_ReadFirst ==
  /\ \/ /\ cPc = "start" /\ "close" \in cfg.env
        /\ closed' = TRUE /\ cPc' = "swap" /\ cOld' = NodesOf(gen, nodes)
        /\ UNCHANGED <<gen, nodes, open, swaps, cLate>>
     \/ /\ cPc = "swap" /\ cPc' = "close" /\ nodes' = <<>> /\ cLate' = Late /\ Swapped
        /\ UNCHANGED <<gen, closed, open, cOld>>
     \/ /\ cPc = "close" /\ cOld = {} /\ cPc' = "done"
        /\ UNCHANGED <<gen, nodes, closed, open, swaps, cOld, cLate>>
     \/ /\ cPc = "close" /\ UNCHANGED <<gen, nodes, closed, swaps, cPc, cLate>>
        /\ \E n \in cOld : open' = open \ {n} /\ cOld' = cOld \ {n}
  /\ UNCHANGED <<cfg, dns, health, balancer, local, broken, calls, resolves, faults>>

\* Close: closed, then the nodes, then their pools.
Close ==
  /\ \/ /\ cPc = "start" /\ "close" \in cfg.env
        /\ closed' = TRUE /\ cPc' = "swap"
        /\ UNCHANGED <<gen, nodes, open, swaps, cOld, cLate>>
     \/ /\ cPc = "swap" /\ cPc' = "close" /\ nodes' = <<>>
        /\ cOld' = NodesOf(gen, nodes) /\ cLate' = Late /\ Swapped
        /\ UNCHANGED <<gen, closed, open>>
     \/ /\ cPc = "close" /\ cOld = {} /\ cPc' = "done"
        /\ UNCHANGED <<gen, nodes, closed, open, swaps, cOld, cLate>>
     \/ /\ cPc = "close" /\ UNCHANGED <<gen, nodes, closed, swaps, cPc, cLate>>
        /\ \E n \in cOld : open' = open \ {n} /\ cOld' = cOld \ {n}
  /\ UNCHANGED <<cfg, dns, health, balancer, local, broken, calls, resolves, faults>>

-----------------------------------------------------------------------------
Step(c) ==
  \/ CallBegin(c) \/ Backoff(c) \/ PickNode(c)
  \/ PickOnly(c) \/ PickRoundRobin(c) \/ PickRandom(c) \/ PickLeastActive(c)
  \/ WrrLoad(c) \/ WrrStore(c) \/ WrrCas(c)
  \/ Reserve(c) \/ PoolGet(c) \/ StreamCall(c)
  \/ MarkSuccess(c) \/ MarkFailure(c) \/ CallEnd(c)

Next ==
  \/ \E c \in Callers : Step(c) \/ Cancel(c)
  \/ \E n \in Nodes : Cooldown(n)
  \/ DnsChange \/ Close
  \/ \E r \in Resolvers : ResolveBegin(r) \/ ResolveSwap(r) \/ ResolveClose(r)

Spec == Init /\ [][Next]_vars

\* Goroutines run, streams answer or break, cooldowns pass; nothing forces a
\* context to end, DNS to change or Close to be called.
FairSpec ==
  /\ Spec
  /\ \A c \in Callers : WF_vars(Step(c))

-----------------------------------------------------------------------------
PCs == {"idle", "pick", "balance", "store", "cas", "reserve", "get", "call", "succeed", "succeed2",
        "fail", "fail2", "unreserve", "backoff"}

TypeOK ==
  /\ gen \in 0..Cardinality(Resolvers) /\ open \subseteq Nodes /\ down \subseteq Nodes
  /\ fails \in [Nodes -> 0..Threshold] /\ closed \in BOOLEAN
  /\ pc \in [Callers -> PCs] /\ attempt \in [Callers -> 0..RetryAttempts]
  /\ \A c \in Callers : ref[c] \in Nodes \cup {NoNode}
  /\ result \in [Callers -> {"none", "ok", "remote", "ctx", "broken", "poolClosed", "recycled",
                           "refused", "noEndpoint", "closed"}]

\* The list has one node for each address that the given entries lead to, all
\* under one answer of DNS, with the largest weight of the entries that lead to it:
\* parsing, merging and resolution, each with its dedupeEndpoints, neither lose nor
\* repeat one.  Where no list can be built NewClient keeps an address given alone.
OneNodePerAddress ==
  LET given == SelectSeq(cfg.fields, LAMBDA f : Splits(f.addr)) \o cfg.extra
      Meant(d, e) == IF cfg.dnsResolve /\ e.addr \in Names
                       THEN {a \in ToSet(d[e.addr]) : Usable(cfg.network, a)} ELSE {e.addr}
      WeightsOf(d, a) == {Max({1, e.weight}) : e \in {f \in ToSet(given) : a \in Meant(d, f)}}
      Right(d) == /\ {nodes[i].addr : i \in DOMAIN nodes} = UNION {Meant(d, e) : e \in ToSet(given)}
                  /\ \A i \in DOMAIN nodes : /\ ListedAt(nodes, nodes[i].addr) = {i}
                                            /\ nodes[i].weight = Max(WeightsOf(d, nodes[i].addr))
      Alone(d) == ~Ok(buildEndpoints(d, cfg)) /\ nodes = <<parseOneEndpoint(cfg.fields[1])>>
  IN  nodes # <<>> => \E d \in Lookups : Right(d) \/ Alone(d)

\* NewClient always finds a list for the configuration.
Sound == \A d \in Lookups : StartList(d, cfg) # <<>>

\* A Call loses at most one attempt to each replacement of the nodes while it
\* ran: apart from what goes wrong on an open node, what breaks an attempt is that
\* its node was replaced, and the next attempt finds nodes that are in place.
ResolveCostsOneAttempt == \A c \in Callers : broken[c] > swaps[c] + faults => closed \/ ~Sound

\* A Call is told that there is no endpoint only by a client that has been
\* closed or never had one: nodes that are all down are still tried
\* (pickNode), and Resolve never leaves the list empty.
NoEndpointMeansClosed == \A c \in Callers : result[c] = "noEndpoint" => closed \/ ~Sound

\* A node of the current list is down only after as many failures on that very
\* node as the threshold says, with no answer of it in between: the closing of
\* pools (those of replaced nodes, by Resolve) is not among them, but streams
\* recycled under a Call and Requests the stream refuses are.  The exceptions are a
\* MarkFailure that an answer overtook between its two operations, and the moment
\* between the two of MarkSuccess.
GoodNodesStayUp ==
  \A n \in down \cap NodesOf(gen, nodes) :
    \/ charges[n] = Threshold
    \/ n \in overtaken
    \/ \E c \in Callers : pc[c] = "succeed2" /\ ref[c] = n

\* What fails has a cause: a Call, beyond what goes wrong on open nodes, only by a
\* Resolve or Close at that moment, and a node is down only for what happened on it.
FailsForCause == ResolveCostsOneAttempt /\ NoEndpointMeansClosed /\ GoodNodesStayUp

\* While the candidates stay the same, weighted round robin lets none be more than
\* a turn per stored state ahead of or behind the share its weight gives it, and
\* each caller stores at most one.  Concurrent first picks do each store a state of
\* their own (Store is unconditional) and may all take the heaviest candidate;
\* with one state the picks share the turns exactly.
WrrFair ==
  wrr # Nil =>
    /\ stores = 1 => ledger = wrr.current
    /\ \A i \in DOMAIN ledger : /\ ledger[i] < stores * Total(wrr.weights)
                                /\ 0 - ledger[i] < stores * Total(wrr.weights)
    /\ stores <= Cardinality(Callers)

\* However Calls, Resolves and Close overlap, a pool that is open belongs to a
\* node of the list or to one that a Resolve or Close has taken out of it and
\* is about to close: none is forgotten.  Close leaves the list empty for good,
\* unless a Resolve had looked at closed before and replaces the nodes afterwards:
\* its pools stay open in the closed client.
NoPoolForgotten ==
  /\ open \subseteq (NodesOf(gen, nodes) \cup cOld \cup UNION {rOld[r] : r \in Resolvers})
  /\ cPc \in {"close", "done"} /\ nodes # <<>> => \E r \in cLate : rPc[r] # "swap"

\* The list of nodes is the one the addresses lead to, and every pool that is open
\* is in it or about to be closed.
NodesRight == TypeOK /\ OneNodePerAddress /\ NoPoolForgotten

\* Two picks of the weighted balancer work on different candidates.
Disagree ==
  \E c, d \in Callers : /\ {pc[c], pc[d]} \subseteq {"balance", "store", "cas"}
                        /\ Addresses(cands[c]) # Addresses(cands[d])

\* Every Call returns, unless two picks with different candidates (a Resolve
\* or a change of health came between them) keep replacing each other's state
\* in WeightedRoundRobinBalancer.Pick, whose Store is unconditional.
CallReturns == \A c \in Callers : pc[c] # "idle" ~> pc[c] = "idle" \/ Disagree
=============================================================================
