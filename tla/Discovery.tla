----------------------------- MODULE Discovery -----------------------------
(***************************************************************************)
(* How a client of micro finds servers: a micro.Server that registers in   *)
(* etcd with the lease of its session, the subscription of a Registry, the *)
(* resolver of a client's gRPC connection, and the picker that gRPC builds *)
(* from the addresses.  etcd and gRPC are external: etcd's keys change and *)
(* its watches tell of it; gRPC connects to every address it is given.     *)
(***************************************************************************)
EXTENDS Pickers

CONSTANTS Servers, Scenarios

\* sc.servers: name, weight and group of each server that is started; sc.up: those
\* that run from the start; sc.closing: those that are closed; sc.matches: the
\* names that the one the client asks for is a prefix of; sc.faults, sc.now, sc.ends: whether calls
\* of etcd fail, gRPC asks to resolve again, and the client closes.

VARIABLES
  srv,        \* a server: Start, Close, and whether it has a listener
  lease,      \* the lease of its session
  keys,       \* the servers registered in etcd
  sub,        \* the goroutine of Subscribe, and the events of its watch
  watch,      \* Build and then the goroutine watch of the resolver
  now,        \* ResolveNow
  addrs,      \* the addresses that gRPC was given
  closed,     \* the resolver's close channel
  hist        \* history: events since the watch began, and why the list may be old

dvars == <<srv, lease, keys, sub, watch, now, addrs, closed, hist>>
vars == <<sc, pvars, dvars>>

Init ==
  /\ sc \in Scenarios /\ PickersInit
  /\ srv = [s \in Servers |-> [pc |-> IF s \in sc.up THEN "serving" ELSE "new", close |-> "no",
                               listens |-> s \in sc.up, stopped |-> FALSE, failed |-> FALSE]]
  /\ lease = [s \in Servers |-> "live"] /\ keys = sc.up
  /\ sub = [pc |-> "none", queue |-> 0, closing |-> FALSE, cancelled |-> FALSE, lost |-> FALSE]
  /\ watch = [pc |-> "list", list |-> {}] /\ now = [pc |-> "idle", list |-> {}]
  /\ addrs = {} /\ closed = FALSE
  /\ hist = [events |-> 0, excused |-> FALSE]

-----------------------------------------------------------------------------
(* etcd, and the servers *)

\* serviceKey is a prefix of the instance keys: of other services' too, whose
\* names only begin alike.
Listed(set) == {s \in set : sc.servers[s].name \in sc.matches}

\* The keys change.  A watch that is open gets an event; a change before it is
\* opened, and after the list was read, is not told.
Keys(new) ==
  /\ keys' = new
  /\ IF Listed(new) = Listed(keys) THEN UNCHANGED <<sub, hist>>
     ELSE IF sub.pc \in {"select", "send"} /\ ~sub.lost
     THEN /\ sub' = [sub EXCEPT !.queue = @ + 1]
          /\ hist' = [hist EXCEPT !.events = @ + 1]
     ELSE UNCHANGED sub /\ hist' = [hist EXCEPT !.excused = watch.pc # "list" \/ @]

\* Start: the listener.
Listen(s) ==
  /\ s \in DOMAIN sc.servers /\ srv[s].pc = "new"
  /\ \/ srv' = [srv EXCEPT ![s].pc = "register", ![s].listens = TRUE]
     \/ sc.faults /\ srv' = [srv EXCEPT ![s].pc = "over"]
  /\ UNCHANGED <<sc, pvars, lease, keys, sub, watch, now, addrs, closed, hist>>

\* Start: Registry puts the instance's key, with the lease.  Without a lease that
\* lives it fails; so may the call, before or after the key was put.  Start then
\* returns, and the listener stays open.
Register(s) ==
  /\ srv[s].pc = "register"
  /\ \/ lease[s] = "live" /\ Keys(keys \cup {s}) /\ srv' = [srv EXCEPT ![s].pc = "serve"]
     \/ lease[s] = "live" /\ sc.faults /\ Keys(keys \cup {s})
        /\ srv' = [srv EXCEPT ![s].pc = "over", ![s].failed = TRUE]
     \/ /\ lease[s] # "live" \/ sc.faults
        /\ srv' = [srv EXCEPT ![s].pc = "over"] /\ UNCHANGED <<keys, sub, hist>>
  /\ UNCHANGED <<sc, pvars, lease, watch, now, addrs, closed>>

\* Start: Serve, which closes the listener at once after a GracefulStop.
Serve(s) ==
  /\ srv[s].pc = "serve"
  /\ srv' = IF srv[s].stopped THEN [srv EXCEPT ![s].pc = "over", ![s].listens = FALSE]
            ELSE [srv EXCEPT ![s].pc = "serving"]
  /\ UNCHANGED <<sc, pvars, lease, keys, sub, watch, now, addrs, closed, hist>>

\* Serve returns with an error of its listener, which it closes, and so does Start:
\* nothing takes the key out of the registry, and the session keeps its lease.
ServeFails(s) ==
  /\ sc.faults /\ srv[s].pc = "serving"
  /\ srv' = [srv EXCEPT ![s].pc = "over", ![s].listens = FALSE, ![s].failed = TRUE]
  /\ UNCHANGED <<sc, pvars, lease, keys, sub, watch, now, addrs, closed, hist>>

\* The server stops before it is taken out of the registry.
CloseBegin_StopFirst(s) ==
  /\ s \in DOMAIN sc.servers \cap sc.closing /\ srv[s].close = "no" /\ srv[s].pc \notin {"new", "dead"}
  /\ srv' = [srv EXCEPT ![s].close = "over", ![s].stopped = TRUE,
               ![s].pc = IF @ = "serving" THEN "over" ELSE @,
               ![s].listens = @ /\ srv[s].pc # "serving"]
  /\ UNCHANGED <<sc, pvars, lease, keys, sub, watch, now, addrs, closed, hist>>

\* Close: the Registry's Close revokes the lease, and the key goes with it.  If
\* that fails Close returns, and the server serves on; the lease then runs out.
CloseBegin(s) ==
  /\ s \in DOMAIN sc.servers \cap sc.closing /\ srv[s].close = "no" /\ srv[s].pc \notin {"new", "dead"}
  /\ \/ /\ lease' = [lease EXCEPT ![s] = "gone"] /\ Keys(keys \ {s})
        /\ srv' = [srv EXCEPT ![s].close = "stop"]
     \/ /\ sc.faults /\ lease' = [lease EXCEPT ![s] = "orphan"]
        /\ srv' = [srv EXCEPT ![s].close = "over"] /\ UNCHANGED <<keys, sub, hist>>
  /\ UNCHANGED <<sc, pvars, watch, now, addrs, closed>>

\* Close: GracefulStop closes the listener that Serve has.
GracefulStop(s) ==
  /\ srv[s].close = "stop"
  /\ srv' = [srv EXCEPT ![s].close = "over", ![s].stopped = TRUE,
               ![s].pc = IF @ = "serving" THEN "over" ELSE @,
               ![s].listens = @ /\ srv[s].pc # "serving"]
  /\ UNCHANGED <<sc, pvars, lease, keys, sub, watch, now, addrs, closed, hist>>

\* The process of a server dies; its lease runs out when no one keeps it alive.
Crash(s) ==
  /\ sc.faults /\ srv[s].pc = "serving" /\ srv[s].close = "no"
  /\ srv' = [srv EXCEPT ![s].pc = "dead", ![s].listens = FALSE]
  /\ lease' = [lease EXCEPT ![s] = "orphan"]
  /\ UNCHANGED <<sc, pvars, keys, sub, watch, now, addrs, closed, hist>>

LeaseExpires(s) ==
  /\ lease[s] = "orphan" /\ lease' = [lease EXCEPT ![s] = "gone"] /\ Keys(keys \ {s})
  /\ UNCHANGED <<sc, pvars, srv, watch, now, addrs, closed>>

-----------------------------------------------------------------------------
(* The resolver *)

\* UpdateState: gRPC builds a picker for the addresses it was not given before.
Update(list) ==
  /\ addrs' = list
  /\ IF list = addrs /\ pickers # <<>> THEN UNCHANGED pickers
     ELSE Build({[addr |-> s, weight |-> sc.servers[s].weight, group |-> sc.servers[s].group] : s \in list})

\* resolve, in Build and in watch: ListServices, or its error, which is reported.
WatchList(next) ==
  \/ watch' = [pc |-> "update", list |-> Listed(keys)] /\ UNCHANGED hist
  \/ sc.faults /\ watch' = [pc |-> next, list |-> {}] /\ hist' = [hist EXCEPT !.excused = TRUE]

\* Where resolve returns to: Build goes on to subscribe, watch ends.
Resolve(again) ==
  /\ watch.pc = IF again THEN "relist" ELSE "list"
  /\ WatchList(IF again THEN "over" ELSE "subscribe")
  /\ UNCHANGED <<sc, pvars, srv, lease, keys, sub, now, addrs, closed>>

WatchUpdate ==
  /\ watch.pc = "update" /\ Update(watch.list)
  /\ watch' = [watch EXCEPT !.pc = IF sub.pc = "none" THEN "subscribe" ELSE "over"]
  /\ UNCHANGED <<sc, pick, panicked, srv, lease, keys, sub, now, closed, hist>>

\* watch: Subscribe opens etcd's watch and starts its goroutine.
Subscribe ==
  /\ watch.pc = "subscribe"
  /\ watch' = [watch EXCEPT !.pc = "wait"] /\ sub' = [sub EXCEPT !.pc = "select"]
  /\ UNCHANGED <<sc, pvars, srv, lease, keys, now, addrs, closed, hist>>

\* Subscribe's goroutine: an event, or the end of its context.  A watch that was
\* lost has none, and leaves the goroutine to turn round in its loop.
SubTake ==
  /\ sub.pc = "select" /\ sub.queue > 0
  /\ sub' = [sub EXCEPT !.pc = "send", !.queue = @ - 1]
  /\ UNCHANGED <<sc, pvars, srv, lease, keys, watch, now, addrs, closed, hist>>

SubEnd ==
  /\ sub.pc = "select" /\ sub.cancelled
  /\ sub' = [sub EXCEPT !.pc = "over"]
  /\ UNCHANGED <<sc, pvars, srv, lease, keys, watch, now, addrs, closed, hist>>

\* watch's select, on an event: nothing is resolved.
SubSend_Drop ==
  /\ sub.pc = "send" /\ watch.pc = "wait"
  /\ sub' = [sub EXCEPT !.pc = "select"] /\ watch' = [watch EXCEPT !.pc = "over"]
  /\ UNCHANGED <<sc, pvars, srv, lease, keys, now, addrs, closed, hist>>

\* The event is handed over, to watch's select: it resolves again, and ends.
SubSend ==
  /\ sub.pc = "send" /\ watch.pc = "wait"
  /\ sub' = [sub EXCEPT !.pc = "select"] /\ watch' = [watch EXCEPT !.pc = "relist"]
  /\ UNCHANGED <<sc, pvars, srv, lease, keys, now, addrs, closed, hist>>

\* watch's select, on the close channel.
WatchClosed ==
  /\ watch.pc = "wait" /\ closed /\ watch' = [watch EXCEPT !.pc = "over"]
  /\ UNCHANGED <<sc, pvars, srv, lease, keys, sub, now, addrs, closed, hist>>

LoseLeader ==
  /\ sc.faults /\ sub.pc = "select" /\ ~sub.lost
  /\ sub' = [sub EXCEPT !.lost = TRUE, !.queue = 0] /\ hist' = [hist EXCEPT !.excused = TRUE]
  /\ UNCHANGED <<sc, pvars, srv, lease, keys, watch, now, addrs, closed>>

\* ResolveNow, at any time: the list, and then the update with it, which may be
\* older by then than the one gRPC has.
NowList ==
  /\ sc.now /\ now.pc = "idle" /\ pickers # <<>> /\ ~closed
  /\ now' = [pc |-> "update", list |-> Listed(keys)]
  /\ UNCHANGED <<sc, pvars, srv, lease, keys, sub, watch, addrs, closed, hist>>

NowUpdate ==
  /\ now.pc = "update" /\ Update(now.list) /\ now' = [now EXCEPT !.pc = "over"]
  /\ hist' = [hist EXCEPT !.excused = @ \/ now.list # Listed(keys)]
  /\ UNCHANGED <<sc, pick, panicked, srv, lease, keys, sub, watch, closed>>

\* The resolver's Close.
ResolverClose ==
  /\ sc.ends /\ ~closed /\ pickers # <<>> /\ closed' = TRUE
  /\ UNCHANGED <<sc, pvars, srv, lease, keys, sub, watch, now, addrs, hist>>

\* The Close of the client's Registry cancels the subscriptions that it has; one
\* that is made after it is never cancelled.
RegistryClose ==
  /\ sc.ends /\ ~sub.closing
  /\ sub' = [sub EXCEPT !.closing = TRUE, !.cancelled = sub.pc # "none"]
  /\ hist' = [hist EXCEPT !.excused = @ \/ sub.pc # "none"]
  /\ UNCHANGED <<sc, pvars, srv, lease, keys, watch, now, addrs, closed>>

-----------------------------------------------------------------------------
ServerStep(s) ==
  \/ Listen(s) \/ Register(s) \/ Serve(s) \/ CloseBegin(s) \/ GracefulStop(s) \/ LeaseExpires(s)

ResolverStep ==
  \/ (\E again \in BOOLEAN : Resolve(again)) \/ WatchUpdate \/ Subscribe \/ SubTake \/ SubEnd
  \/ SubSend \/ WatchClosed \/ NowUpdate

\* Every goroutine that can go on does, and leases run out.
Progress ==
  /\ ~panicked
  /\ \/ \E s \in Servers : ServerStep(s)
     \/ ResolverStep
     \/ \E p \in Callers : PickStep(p) /\ UNCHANGED dvars

Faults ==
  /\ ~panicked
  /\ \/ \E s \in Servers : Crash(s) \/ ServeFails(s)
     \/ LoseLeader \/ NowList \/ ResolverClose \/ RegistryClose

Next == Progress \/ Faults
Spec == Init /\ [][Next]_vars
FairSpec == Spec /\ WF_vars(Progress)

-----------------------------------------------------------------------------
\* The state has its types.
TypeOK ==
  /\ sc \in Scenarios /\ keys \subseteq Servers /\ addrs \subseteq Servers
  /\ \A s \in Servers :
       /\ srv[s].pc \in {"new", "register", "serve", "serving", "over", "dead"}
       /\ srv[s].close \in {"no", "stop", "over"} /\ lease[s] \in {"live", "orphan", "gone"}
  /\ sub.pc \in {"none", "select", "send", "over"} /\ sub.queue \in Nat
  /\ watch.pc \in {"list", "update", "subscribe", "wait", "relist", "over"}
  /\ now.pc \in {"idle", "update", "over"}
  /\ \A g \in DOMAIN pickers : \A i \in DOMAIN pickers[g].conns :
       {pickers[g].eff[i], pickers[g].cur[i], pickers[g].cnt[i]} \subseteq 0..MaxUint

\* A server is in the registry only from the time it listens to the time it
\* begins to close: clients are never sent to one that has stopped.  Excepted is
\* a lease that no one keeps alive any more, until it runs out; and a Start that
\* returned an error after its key was put, of the Put or of Serve: its process
\* keeps the lease, and the key stays until Close.
RegisteredServes ==
  TypeOK /\ \A s \in keys :
    \/ lease[s] = "orphan"
    \/ srv[s].listens /\ srv[s].pc \in {"serve", "serving"}
    \/ srv[s].failed /\ srv[s].pc = "over"

\* A server that runs when the client subscribes, or the first change after that,
\* reaches gRPC's list of addresses.  The second change does not (watch handles
\* one event), nor does one between the list and the subscription; and an error,
\* a lost watch, a ResolveNow with an older list and Close are excepted.
FirstChangeReaches ==
  addrs # Listed(keys) ~> addrs = Listed(keys) \/ hist.excused \/ hist.events > 1 \/ closed \/ panicked

\* After the Registry is closed the goroutine of an earlier Subscribe ends, unless
\* it is sending an event that no one will take: the send does not look at the
\* context.  The goroutine of a Subscribe after Close never ends, as the resolver's
\* Build, whose goroutine subscribes, may be overtaken by Close.
SubscriberEnds ==
  sub.cancelled ~> sub.pc = "over" \/ panicked \/ (sub.pc = "send" /\ watch.pc = "over")

\* The goroutines of the watch bring the first change to gRPC, and those that Close
\* finds end with the registry.
ChangesFlow == FirstChangeReaches /\ SubscriberEnds
=============================================================================
