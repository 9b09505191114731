----------------------------- MODULE MCLocalCache -----------------------------
(* The instance of LocalCache that TLC checks.                             *)
EXTENDS LocalCache, TLC

CONSTANTS k1, k2, g1, c1, c2

\* Two values of different types and sizes, and one without a size.
MCValues == {<<"int", 1>>, <<"string", 2>>, <<"nil", 0>>}
MCUnsized == {<<"nil", 0>>}
MCPairSize == <<"int", 1>> :> 1 @@ <<"string", 2>> :> 2

Scenario(m, ks, gs, cs, s, d, t) ==
  [mode |-> m, keys |-> ks, getters |-> gs, closers |-> cs, sets |-> s, deletes |-> d, ticks |-> t]

\* Readers against writers; eviction; the cleaner against a writer; Close
\* against the cleaner; the three ways to write through.
MCScenarios ==
  {Scenario("direct", {k1}, {g1}, {}, 3, 1, FALSE),
   Scenario("direct", {k1, k2}, {}, {}, 4, 1, FALSE),
   Scenario("direct", {k1, k2}, {}, {}, 3, 0, TRUE),
   Scenario("direct", {k1}, {}, {c1, c2}, 1, 0, TRUE)}
  \cup {Scenario(m, {k1}, {}, {}, 3, 0, FALSE) : m \in {"sync", "semi", "async"}}
=============================================================================
