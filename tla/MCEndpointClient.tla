--------------------------- MODULE MCEndpointClient ---------------------------
(* The instance of EndpointClient that TLC checks.                         *)
EXTENDS EndpointClient, TLC

CONSTANTS n1, a1, a2, a3, bad, p1, r1

Field(a, w) == [addr |-> a, weight |-> w]

Client(fields, extra, resolve, policy, who, nCalls, nFaults, rs, env) ==
  [fields |-> fields, extra |-> extra, dnsResolve |-> resolve, network |-> "tcp4",
   policy |-> policy, who |-> who, calls |-> nCalls, faults |-> nFaults, resolves |-> rs, env |-> env]

TwoGiven == <<Field(a1, 2), Field(a2, 0), Field(a1, 0)>>     \* "a1@2,a2,a1"

\* Every balancer; one endpoint that fails and answers two Calls; a name that
\* resolves to two addresses, one of them also given; a malformed list.
MCConfigs ==
  { Client(TwoGiven, <<>>, FALSE, "weighted_round_robin", Callers, 2, 0, {}, {}),
    Client(TwoGiven, <<>>, FALSE, "least_active", Callers, 1, 0, {}, {"cancel"}),
    Client(<<>>, <<Endpoint(a1, 0), Endpoint(a2, 1), Endpoint(a3, 1)>>, FALSE,
           "weighted_round_robin", Callers, 1, 2, {}, {}),
    Client(<<Field(a1, 0)>>, <<>>, FALSE, "random", {p1}, 2, 2, {}, {"cancel"}),
    Client(<<Field(a1, 0)>>, <<>>, FALSE, "random", Callers, 1, 2, {}, {}),
    Client(TwoGiven, <<>>, FALSE, "round_robin", {p1}, 2, 1, {r1}, {}),
    Client(<<Field(n1, 2)>>, <<Endpoint(a1, 1)>>, TRUE, "random", {p1}, 1, 0, {r1}, {"close"}),
    Client(<<Field(n1, 2)>>, <<Endpoint(a1, 1)>>, TRUE, "random", {}, 1, 0, Resolvers, {"close"}),
    Client(<<Field(a1, 0), Field(bad, 0)>>, <<>>, FALSE, "random", {p1}, 1, 0, {r1}, {}) }

MCLookups == { [n \in Names |-> <<a1, a2, a1>>], [n \in Names |-> <<a2, a3>>] }
=============================================================================
