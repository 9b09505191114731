------------------------------- MODULE MCWeb -------------------------------
(* The instance of Web that TLC checks.                                    *)
EXTENDS Web

CONSTANTS r1, r2, r3

MCParamName == ":id" :> "id" @@ ":n" :> "n" @@ ":k(num)" :> "k"
MCAccepts == ":k(num)" :> {"7"}

P(segs) == FoldLeft(LAMBDA p, t : p \o <<"/", t>>, <<>>, segs)
Route(m, gs, p, d) == [method |-> m, groups |-> gs, path |-> p, does |-> d]
Grp(prefix, ms) == [prefix |-> prefix, mdls |-> ms]
Req(m, p, ip, big) == [method |-> m, path |-> p, ip |-> ip, big |-> big]
Base == [mdls |-> <<"recovery">>, routes |-> <<>>, adds |-> {}, reqs |-> <<>>, probes |-> {},
         byIP |-> TRUE, life |-> FALSE, ticks |-> FALSE, alike |-> <<>>]

\* Registration: patterns of every kind, with conflicts, nested groups, and
\* prefixes with and without slashes.
Patterns == {P(<<>>), <<"/">>, P(<<"a">>), P(<<"a", "b">>), P(<<":id">>), P(<<":id", "b">>), P(<<":n">>),
             P(<<":k(num)">>), P(<<"a", "*">>), P(<<"*">>), P(<<"*", "b">>), P(<<"a">>) \o <<"/">>,
             <<"/">> \o P(<<"a">>)}
Probes == {<<"/">>, <<"/", "/">>} \cup {P(<<x>>) : x \in {"a", "7"}}
          \cup {P(<<x, y>>) : x \in {"a", "7"}, y \in {"b", "c"}} \cup {P(<<"a", "b", "c">>)}
Routing ==
  {[Base EXCEPT !.probes = Probes, !.adds = ads] :
     ads \in {{Route("GET", <<>>, p, "reply") : p \in Patterns},
              {Route(m, <<>>, P(p), "reply") : m \in {"GET", "POST"}, p \in {<<"a">>, <<"a", "b">>, <<":id">>, <<"*">>}},
              {Route("GET", gs, p, d) : d \in {"reply", "fail"}, p \in {<<"b">>, P(<<"a">>)},
                 gs \in {<<Grp(<<"a">>, <<"gzip">>)>>, <<Grp(<<"/", "a", "/">>, <<"gzip">>), Grp(P(<<"b">>), <<"cors">>)>>,
                        <<Grp(<<"/">>, <<>>), Grp(<<>>, <<"gzip">>)>>}}}}

\* Serving: every middleware and handler.
Handle(d) == <<Route("GET", <<>>, P(<<":id">>), d), Route("POST", <<Grp(P(<<"g">>), <<"gzip">>)>>, <<"a">>, "reply")>>
GetA == Req("GET", P(<<"a">>), "ip1", FALSE)
Plain ==
  {[Base EXCEPT !.mdls = ms, !.routes = Handle(d), !.reqs = r1 :> q] :
     ms \in {<<"accesslog", "gzip", "errhdl", "recovery", "cors", "bodysize">>, <<"requestid", "cors", "bodysize", "timeout">>},
     d \in {"reply", "fail", "empty", "abort", "panic", "static"},
     q \in {Req("GET", P(<<"7">>), "ip1", FALSE), Req("GET", P(<<"7", "a">>), "ip1", FALSE), Req("GET", P(<<"7">>), "ip1", TRUE),
            Req("OPTIONS", P(<<"7">>), "ip1", FALSE), Req("GET", P(<<"g", "a">>), "ip1", FALSE),
            Req("POST", P(<<"g", "a">>), "ip1", FALSE)}}

\* A handler that is left behind, and the request that gets its context next.
Leaving ==
  {[Base EXCEPT !.mdls = x[1], !.routes = <<Route("GET", <<>>, P(<<"7">>), x[2]), Route("GET", <<>>, P(<<"a">>), "empty")>>,
                !.byIP = FALSE,
                !.reqs = r1 :> Req("GET", P(IF x[2] = "static" THEN <<"7", "a">> ELSE <<"7">>), "ip1", FALSE) @@ r2 :> GetA] :
     x \in {<<"timeout">>} \X {"reply", "panic", "static", "stuck"}
          \cup {<<"recovery", "timeout", "bodysize">>, <<"timeout", "requestid">>, <<"timeout", "ratelimit">>} \X {"reply"}}

\* Buckets that expire under the requests, and one bucket for all.
Limiting ==
  {[Base EXCEPT !.mdls = <<"ratelimit">>, !.routes = Handle("empty"), !.ticks = by, !.byIP = by, !.alike = <<r1, r2, r3>>,
                !.reqs = [r \in Reqs |-> GetA]] : by \in BOOLEAN}

Stopping ==
  {[Base EXCEPT !.life = TRUE, !.alike = <<r1, r2>>, !.routes = Handle(d), !.reqs = r1 :> GetA @@ r2 :> GetA] : d \in {"reply", "stuck"}}

MCScenarios == Routing \cup Plain \cup Leaving \cup Limiting \cup Stopping
=============================================================================
