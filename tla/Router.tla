------------------------------- MODULE Router -------------------------------
(***************************************************************************)
(* The route trees of web/route.go and the paths of web/group.go, as       *)
(* operators.  A path is a sequence of tokens: "/" and whole segments.  A  *)
(* tree is [nodes, handler]: a node is the sequence of the segments that   *)
(* lead to it (the root is the empty sequence, and the matchedPath of a    *)
(* match is the node itself), and handler maps the nodes that have one.    *)
(***************************************************************************)
EXTENDS Integers, Sequences, SequencesExt, FiniteSets

CONSTANTS
  ParamSegs,    \* segments of the form ":name"
  RegexSegs,    \* segments of the form ":name(expression)"
  ParamName,    \* parseParam: the name in a segment of either form
  Accepts       \* the segments of a request that a regex segment matches

ASSUME RouterConstants ==
  /\ ParamSegs \cap RegexSegs = {}
  /\ DOMAIN ParamName = ParamSegs \cup RegexSegs /\ DOMAIN Accepts = RegexSegs

-----------------------------------------------------------------------------
(* Paths *)

\* strings.Split(path, "/"): there is an empty segment between two slashes.
Split(path) ==
  FoldLeft(LAMBDA segs, t : IF t = "/" THEN Append(segs, "") ELSE [segs EXCEPT ![Len(segs)] = t],
           <<"">>, path)

\* strings.Trim(path, "/")
Trim(path) ==
  LET NotSlash(t) == t # "/"
  IN  IF \E i \in DOMAIN path : NotSlash(path[i])
      THEN SubSeq(path, SelectInSeq(path, NotSlash), SelectLastInSeq(path, NotSlash))
      ELSE <<>>

LeadingSlash(path) == IF path # <<>> /\ Head(path) = "/" THEN path ELSE <<"/">> \o path

CleanPrefix(prefix) ==
  LET p == LeadingSlash(prefix) IN IF Last(p) = "/" THEN Front(p) ELSE p

\* RouterGroup.fullPath, for the prefixes of the group's ancestors and its own.
fullPath(prefixes, path) ==
  LET Join(prefix, p) == CleanPrefix(prefix) \o LeadingSlash(p)
  IN  Join(FoldLeft(Join, prefixes[1], Tail(prefixes)), path)

\* HTTPServer.Static: the path that it registers.
StaticPath(prefix) == CleanPrefix(prefix) \o <<"/", "*">>

-----------------------------------------------------------------------------
(* Registration *)

NewTree == [nodes |-> {<<>>}, handler |-> <<>>]

Kids(nodes, n, segs) == {s \in segs : Append(n, s) \in nodes}

\* childOrCreate panics: at a node there is a wildcard, a parameter or an
\* expression.  A second route through an expression panics too: the new one is
\* compared with that of the parent (n.regExpr), and the first node of a route
\* with an expression has a parent without one.
Refuses(nodes, n, seg) ==
  \/ seg = "*" /\ Kids(nodes, n, ParamSegs \cup RegexSegs) # {}
  \/ seg \in ParamSegs /\ Kids(nodes, n, (ParamSegs \ {seg}) \cup RegexSegs \cup {"*"}) # {}
  \/ seg \in RegexSegs /\ Kids(nodes, n, ParamSegs \cup RegexSegs \cup {"*"}) # {}

childOrCreate(walk, seg) ==
  IF walk.panics \/ seg = "" \/ Refuses(walk.nodes, walk.at, seg)
  THEN [walk EXCEPT !.panics = TRUE]
  ELSE [walk EXCEPT !.at = Append(@, seg), !.nodes = @ \cup {Append(walk.at, seg)}]

\* addRoute refuses the path before it takes the lock.
Invalid(path) ==
  path = <<>> \/ Head(path) # "/" \/ (path # <<"/">> /\ Last(path) = "/")

\* addRoute.  When it panics, the nodes made on the way stay in the tree.
addRoute(trees, method, path, handler) ==
  LET tree == IF method \in DOMAIN trees THEN trees[method] ELSE NewTree
      segs == IF path = <<"/">> THEN <<>> ELSE Split(Tail(path))
      walk == FoldLeft(childOrCreate, [nodes |-> tree.nodes, at |-> <<>>, panics |-> FALSE], segs)
      set  == IF walk.panics \/ walk.at \in DOMAIN tree.handler THEN tree.handler
              ELSE [n \in DOMAIN tree.handler \cup {walk.at} |->
                      IF n = walk.at THEN handler ELSE tree.handler[n]]
  IN  IF Invalid(path) THEN trees
      ELSE [m \in DOMAIN trees \cup {method} |->
              IF m = method THEN [nodes |-> walk.nodes, handler |-> set] ELSE trees[m]]

-----------------------------------------------------------------------------
(* Lookup.  What is looked for is the set of what is found: one, or none.  *)

\* The dynamic children are tried before the static one.
childOf_DynamicFirst(nodes, n, seg) ==
  LET dynamic == Kids(nodes, n, ParamSegs \cup {"*"} \cup {s \in RegexSegs : seg \in Accepts[s]})
  IN  {Append(n, s) : s \in IF dynamic # {} THEN dynamic ELSE Kids(nodes, n, {seg})}

\* childOf: the static child, else the regex child if it matches, or the
\* parameter or wildcard child.
childOf(nodes, n, seg) ==
  LET static == Kids(nodes, n, {seg})
  IN  {Append(n, s) : s \in
         IF static # {} THEN static
         ELSE Kids(nodes, n, ParamSegs \cup {"*"} \cup {x \in RegexSegs : seg \in Accepts[x]})}

\* The loop of findInTree from node n on: the node that it ends at.  A wildcard
\* with a handler takes all the segments that are left.
RECURSIVE Descend(_, _, _, _)
Descend(tree, n, segs, i) ==
  IF i > Len(segs) THEN {n}
  ELSE UNION {IF Last(child) = "*" /\ child \in DOMAIN tree.handler THEN {child}
              ELSE Descend(tree, child, segs, i + 1) : child \in childOf(tree.nodes, n, segs[i])}

findInTree(tree, path) ==
  IF path = <<"/">> THEN {<<>>}
  ELSE UNION {Descend(tree, <<>>, segs, 1) : segs \in {Split(Trim(path))}}

\* addValue along the match: the last segment that a name stands for.
paramPath(node, path) ==
  LET segs  == Split(Trim(path))
      named == {i \in DOMAIN node : node[i] \in DOMAIN ParamName}
  IN  [x \in {ParamName[node[i]] : i \in named} |->
         segs[CHOOSE i \in named : /\ ParamName[node[i]] = x
                                   /\ \A j \in named : ParamName[node[j]] = x => j <= i]]

allowedMethods(trees, method, path) ==
  {m \in DOMAIN trees \ {method} : findInTree(trees[m], path) # {}}

\* findRoute, and what serve makes of it: the node whose handler runs, 405 or
\* 404.  A node of the method's own tree without a handler is a 404.
findRoute(trees, method, path) ==
  LET found == IF method \in DOMAIN trees THEN findInTree(trees[method], path) ELSE {}
      nodes == {n \in found : n \in DOMAIN trees[method].handler}
      allowed == IF found = {} THEN allowedMethods(trees, method, path) ELSE {}
  IN  [nodes |-> nodes, allowed |-> allowed,
       status |-> IF nodes # {} THEN 200 ELSE IF allowed # {} THEN 405 ELSE 404]

-----------------------------------------------------------------------------
(* What a route means, independently of the tree *)

SegMatches(p, seg) ==
  p = seg \/ p = "*" \/ p \in ParamSegs \/ (p \in RegexSegs /\ seg \in Accepts[p])

\* The pattern matches the path; one that ends in a wildcard also matches what
\* is longer.
Matches(pattern, path) ==
  LET segs == IF path = <<"/">> THEN <<>> ELSE Split(Trim(path))
      n == Len(pattern)
  IN  /\ IF n > 0 /\ pattern[n] = "*" THEN Len(segs) >= n ELSE Len(segs) = n
      /\ \A i \in 1..n : SegMatches(pattern[i], segs[i])

\* A static sibling stands in front of the pattern on the way to the path.
Shadowed(nodes, pattern, path) ==
  LET segs == Split(Trim(path))
  IN  \E i \in DOMAIN pattern : /\ pattern[i] # segs[i]
                                /\ Append(SubSeq(pattern, 1, i - 1), segs[i]) \in nodes
=============================================================================
