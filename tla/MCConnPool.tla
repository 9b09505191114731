----------------------------- MODULE MCConnPool -----------------------------
EXTENDS ConnPool

\* Probes, dials that fail and Gets that give up; Release against all of it with
\* connections the pool did not make; and a caller that closes a handle twice.
Surroundings ==
  {{"ping", "factory", "cancel"}, {"ping", "release", "foreign"}, {"reclose"}}
=============================================================================
