------------------------------- MODULE MCRpc -------------------------------
(***************************************************************************)
(* Instances of Rpc: two or three calls, one or two connections.           *)
(***************************************************************************)
EXTENDS Rpc

CONSTANTS k1, k2

MCCalls == {"c1", "c2", "c3"}
MCConns == {k1, k2}

Ask == [service |-> "svc", method |-> "Do", serializer |-> "json", gzip |-> FALSE,
        deadline |-> FALSE, oneway |-> FALSE, does |-> "ok"]
Do(does)    == [Ask EXCEPT !.does = does]
Timed(does) == [Ask EXCEPT !.does = does, !.deadline = TRUE, !.gzip = TRUE, !.serializer = "proto"]
OneWay      == [Ask EXCEPT !.oneway = TRUE]
TimedOneWay == [Timed("ok") EXCEPT !.oneway = TRUE]

Calm(req, ends, conns) ==
  [req |-> req, ends |-> ends, conns |-> conns, breaks |-> FALSE, shorts |-> FALSE]

\* Calls that share one connection or two, and give up or not.
Sharing ==
  {Calm("c1" :> Timed("both") @@ "c2" :> Do("ok") @@ "c3" :> Do("fail"), {"c1", "c2"}, {k1}),
   Calm("c1" :> Timed("hang") @@ "c2" :> Do("nil"), {"c1", "c2"}, {k1, k2}),
   Calm("c1" :> TimedOneWay @@ "c2" :> Timed("hush") @@ "c3" :> OneWay, {"c1", "c2"}, {k1})}

\* A service, a method, a serializer that the server does not have.
Unknown ==
  {Calm("c1" :> [q EXCEPT !.service = "other"] @@ "c2" :> Do("ok"), {}, {k1, k2}) : q \in {Ask, OneWay}}
  \cup {Calm("c1" :> q @@ "c2" :> Do("ok"), {}, {k1}) :
          q \in {[Ask EXCEPT !.method = "Other"], [OneWay EXCEPT !.serializer = "other"]}}

Breaking ==
  {[Calm("c1" :> Do("ok") @@ "c2" :> q, {"c1"}, {k1, k2}) EXCEPT !.breaks = TRUE] :
     q \in {Timed("both"), OneWay}}

Shorts ==
  {[Calm("c1" :> Timed("both") @@ "c2" :> q, {"c1"}, {k1}) EXCEPT !.shorts = TRUE] : q \in {Ask, OneWay}}

MCScenarios == Sharing \cup Unknown \cup Breaking \cup Shorts

\* One call with a deadline against a server that answers.
LateScenarios == {Calm("c1" :> Timed("ok"), {"c1"}, {k1})}
=============================================================================
