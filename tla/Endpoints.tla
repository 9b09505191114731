----------------------------- MODULE Endpoints -----------------------------
(***************************************************************************)
(* How the client of micro/net turns its address string, its extra         *)
(* endpoints and DNS into the list of endpoints it dials                   *)
(* (micro/net/endpoint.go, Client.buildEndpoints).                         *)
(*                                                                         *)
(* A field of the address string is its text before the last '@' and its   *)
(* weight suffix: 0 stands for no suffix, a negative number for a suffix   *)
(* that is not a positive number.  A name resolves to the addresses dns    *)
(* gives for it, in order and possibly with repetitions; other addresses   *)
(* are IP addresses or malformed.                                          *)
(***************************************************************************)
EXTENDS Integers, Sequences, SequencesExt

CONSTANTS
  Names,      \* host:port with a host name
  Addrs,      \* host:port with an IP address
  Inet6,      \* the members of Addrs with an IPv6 address
  Failed      \* an error in the place of a result

ASSUME EndpointConstants == Names \cap Addrs = {} /\ Inet6 \subseteq Addrs

Ok(r) == r # Failed

Splits(a) == a \in Names \cup Addrs      \* net.SplitHostPort accepts a

Endpoint(a, w) == [addr |-> a, weight |-> w]

ListedAt(eps, a) == {i \in DOMAIN eps : eps[i].addr = a}

\* parseOneEndpoint.
parseOneEndpoint(f) ==
  IF f.weight < 0 \/ ~Splits(f.addr)
    THEN Failed
    ELSE Endpoint(f.addr, IF f.weight = 0 THEN 1 ELSE f.weight)

\* One turn of dedupeEndpoints' loop; the larger weight stays at the first place.
Merge(out, ep) ==
  LET w == IF ep.weight <= 0 THEN 1 ELSE ep.weight
      at == ListedAt(out, ep.addr)
  IN  IF at = {}
        THEN Append(out, Endpoint(ep.addr, w))
        ELSE [i \in DOMAIN out |->
                IF i \in at /\ w > out[i].weight THEN Endpoint(ep.addr, w) ELSE out[i]]

dedupeEndpoints(in) == FoldLeft(Merge, <<>>, in)

mergeEndpoints(base, extra) == dedupeEndpoints(base \o extra)

\* parseEndpointList: one bad field fails the whole list.
parseEndpointList(fields) ==
  LET eps == [i \in DOMAIN fields |-> parseOneEndpoint(fields[i])]
  IN  IF fields = <<>> \/ \E i \in DOMAIN eps : ~Ok(eps[i]) THEN Failed ELSE dedupeEndpoints(eps)

\* DNSResolver.Resolve: IP addresses stay, names are looked up, and what the
\* network cannot reach or has been seen is left out.
Usable(network, a) ==
  CASE network = "tcp4" -> a \notin Inet6
    [] network = "tcp6" -> a \in Inet6
    [] OTHER            -> TRUE

AddNew(out, a) == IF Contains(out, a) THEN out ELSE Append(out, a)

DNSResolve(dns, network, a) ==
  IF a \in Addrs THEN <<a>>
  ELSE FoldLeft(AddNew, <<>>, SelectSeq(dns[a], LAMBDA ip : Usable(network, ip)))

\* resolveEndpoints: one name without addresses fails the whole list.
resolveEndpoints(dns, network, eps) ==
  LET at(i) == DNSResolve(dns, network, eps[i].addr)
      expand(i) == [j \in DOMAIN at(i) |-> Endpoint(at(i)[j], eps[i].weight)]
  IN  IF \E i \in DOMAIN eps : at(i) = <<>>
        THEN Failed
        ELSE dedupeEndpoints(FlattenSeq([i \in DOMAIN eps |-> expand(i)]))

\* buildEndpoints; a configuration is the fields of the address, the extra
\* endpoints, whether names are resolved, and the network.
buildEndpoints(dns, cfg) ==
  LET parsed == IF cfg.fields = <<>> THEN <<>> ELSE parseEndpointList(cfg.fields)
      eps == mergeEndpoints(parsed, cfg.extra)
  IN  CASE ~Ok(parsed)   -> Failed
        [] eps = <<>>    -> Failed
        [] cfg.dnsResolve -> resolveEndpoints(dns, cfg.network, eps)
        [] OTHER         -> eps

\* The list NewClient starts with: an address of one endpoint is kept when
\* building the list fails.
StartList(dns, cfg) ==
  LET eps == buildEndpoints(dns, cfg)
      one == parseOneEndpoint(cfg.fields[1])
  IN  CASE Ok(eps) -> eps
        [] ~Ok(eps) /\ Len(cfg.fields) = 1 -> IF Ok(one) THEN <<one>> ELSE <<>>
        [] OTHER -> <<>>
=============================================================================
