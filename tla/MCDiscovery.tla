---------------------------- MODULE MCDiscovery ----------------------------
(***************************************************************************)
(* Instances of Discovery: two or three servers, one or two callers.       *)
(***************************************************************************)
EXTENDS Discovery, TLC

CONSTANTS s1, s2, s3, p1, p2

MCServers == {s1, s2, s3}
MCCallers == {p1, p2}

Server(name, weight, group) == [name |-> name, weight |-> weight, group |-> group]
Two(w1, w2) == s1 :> Server("user", w1, "a") @@ s2 :> Server("user", w2, "b")

Base == [how |-> "random", callers |-> MCCallers, picks |-> 0, group |-> "a", servers |-> Two(1, 1),
         up |-> {s1}, closing |-> {}, matches |-> {"user", "userlog"},
         faults |-> FALSE, now |-> FALSE, ends |-> FALSE]

\* Servers that come and go, one of them of another service whose name begins alike.
Coming ==
  {[Base EXCEPT !.closing = {s1, s2}, !.now = TRUE, !.ends = TRUE],
   [Base EXCEPT !.closing = {s1}, !.faults = TRUE],
   [Base EXCEPT !.servers = Two(1, 1) @@ s3 :> Server("userlog", 1, "a"), !.closing = {s3}, !.ends = TRUE]}

\* Calls of one and of two goroutines, with each balancer; and while a server leaves.
Picking ==
  {[Base EXCEPT !.how = h, !.picks = 2, !.up = {s1, s2}] :
     h \in {"random", "round_robin", "route", "weight_random", "least_active"}}
  \cup {[Base EXCEPT !.how = "weighted", !.picks = 2, !.servers = Two(w1, w2), !.up = {s1, s2}] :
          w1 \in {2, MaxUint}, w2 \in {0, 1}}
  \cup {[Base EXCEPT !.how = "round_robin", !.callers = {p1}, !.picks = 4, !.up = {s1, s2}],
        [Base EXCEPT !.how = "weighted", !.callers = {p1}, !.picks = 6, !.up = {s1, s2, s3},
                     !.servers = Two(3, 1) @@ s3 :> Server("user", 1, "a")],
        [Base EXCEPT !.how = "route", !.picks = 1, !.servers = s1 :> Server("user", 1, "a")]}
  \cup {[Base EXCEPT !.how = h, !.picks = 1, !.servers = s1 :> Server("user", 1, "a"), !.closing = {s1}] :
          h \in {"least_active", "weighted", "round_robin"}}

MCScenarios == Coming \cup Picking
=============================================================================
