------------------------------ MODULE MCStream ------------------------------
EXTENDS Stream

CONSTANTS p1, p2, p3

Three(k1, k2, k3) == [p \in Calls |-> CASE p = p1 -> k1 [] p = p2 -> k2 [] OTHER -> k3]

\* Two Calls with one Request object beside another Call; the same two while
\* the pool closes the stream; a Call, a one-way Call and a Ping that may give
\* up; a Call and a one-way Call that may give up in the middle of a write
\* while the pool closes the stream; and a Call and a Ping on a connection on
\* which everything can go wrong.
MCScenarios ==
  {[kind |-> Three("call", "reused", "reused"), env |-> {"cancel"}],
   [kind |-> Three("none", "reused", "reused"), env |-> {"close", "writeerr"}],
   [kind |-> Three("call", "oneway", "ping"), env |-> {"cancel"}],
   [kind |-> Three("call", "oneway", "none"), env |-> {"cancel", "writeerr", "close"}],
   [kind |-> Three("call", "ping", "none"),
    env |-> {"srvping", "peerclose", "timeout", "writeerr", "close"}]}
=============================================================================
