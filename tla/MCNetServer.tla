---------------------------- MODULE MCNetServer -----------------------------
EXTENDS NetServer

\* Two requests against a Shutdown with a deadline; peers that send heartbeats and
\* leave; Start and two Shutdowns in any order with writes that time out; and a
\* server with a rate limit and a read timeout on TLS connections.
Surroundings ==
  {{"oneway", "deadline"}, {"peerclose", "ping"}, {"deadline", "late", "stall", "again"},
   {"limit", "tls", "idle", "ping", "stall"}}
=============================================================================
