---------------------------- MODULE ConnPool_inv ----------------------------
(***************************************************************************)
(* The inductive invariants of the connection pool, for the theorems of    *)
(* ConnPool_owners, ConnPool_books and ConnPool_proofs.                    *)
(***************************************************************************)
EXTENDS ConnPool

\* Callers that own a wrapper refer to one, as do callers with a handle.
RefOK == \A p \in Callers : Owning(p) => ref[p] \in Wrappers

\* Who is inside a critical section holds the mutex, and Get only stays inside one
\* while the pool is not closed.
LockInv ==
  /\ \A p \in Callers : pc[p] \in {"locked", "parking"} => mutex = p /\ ~closed
  /\ cleanerPc = "scan" => mutex = Cleaner
  /\ releaserPc # "none" => closed

-----------------------------------------------------------------------------
(* Ownership.  A wrapper is idle, taken by the cleaner, owned by a caller  *)
(* or in the sync.Pool; owners are distinct; and the sync.Pool holds a     *)
(* wrapper at most once.                                                   *)

NoHandle == \A p \in Callers : ~Owning(p) => ref[p] = NoWrapper

StockPlaced ==
  /\ IsInjective(idle) /\ IsInjective(toClose)
  /\ Range(idle) \cap Range(toClose) = {}
  /\ \A w \in Range(idle) \cup Range(toClose) : free[w] = 0

OwnersPlaced ==
  /\ \A p \in Callers : Owning(p) =>
       ref[p] \notin Range(idle) \cup Range(toClose) /\ free[ref[p]] = 0
  /\ \A p, q \in Callers : p # q /\ Owning(p) /\ Owning(q) => ref[p] # ref[q]

Placed ==
  releaserPc # "done" =>
    /\ StockPlaced
    /\ OwnersPlaced
    /\ \A w \in Wrappers : free[w] <= 1

\* Without careless callers nobody keeps a handle it has returned.
Ownership == "reclose" \notin env => NoHandle /\ Placed

-----------------------------------------------------------------------------
(* Accounting.  Until Release closes what is left, and without careless    *)
(* callers, a wrapper carries an open connection of its own exactly while  *)
(* it is in a place of the pool: idle, with backgroundCleanup, or with a   *)
(* caller that owns it.  The counter counts those and the dials in flight. *)

Owned  == {ref[p] : p \in {q \in Callers : Owning(q)}}
Places == Range(idle) \cup Range(toClose) \cup Owned

Carry ==
  /\ \A w \in Places : conn[w] \in open
  /\ \A w \in Wrappers \ Places : conn[w] = NoConn
  /\ \A v, w \in Wrappers : v # w /\ conn[v] # NoConn => conn[v] # conn[w]
  /\ \A c \in open : \E w \in Wrappers : conn[w] = c

\* A connection that is held or on its way back is in activeConns, one that putConn
\* probes is not, and one that is held has not been marked as returned.
Listed ==
  \A p \in Callers :
    /\ pc[p] \in {"hold", "putting", "marking"} => ref[p] \in active
    /\ pc[p] = "pingPut" => ref[p] \notin active
    /\ pc[p] \in {"hold", "dialed"} => ~returned[ref[p]]

\* A step of p, which may change the place of wrapper u in activeConns and its mark,
\* while the other callers stay and own other wrappers.
Apart(p, u) ==
  /\ \A q \in Callers : q # p => pc'[q] = pc[q] /\ ref'[q] = ref[q]
  /\ \A q \in Callers : q # p /\ Owning(q) => ref[q] # u
  /\ \A v \in Wrappers : v # u => (v \in active <=> v \in active')
  /\ \A v \in Wrappers : v # u => returned'[v] = returned[v]

\* The step leaves p with its wrapper listed as Listed requires.
EntryRight(p) ==
  /\ pc'[p] \in {"hold", "putting", "marking"} => ref'[p] \in active'
  /\ pc'[p] = "pingPut" => ref'[p] \notin active'
  /\ pc'[p] \in {"hold", "dialed"} => ~returned'[ref'[p]]

Users    == {p \in Callers : Owning(p) \/ pc[p] = "dial"}
Dialling == {p \in Callers : pc[p] = "dial"}
Stock    == Len(idle) + Len(toClose)

Sums ==
  /\ IsFiniteSet(Users) /\ IsFiniteSet(Dialling) /\ IsFiniteSet(open)
  /\ connCnt = Len(idle) + Len(toClose) + Cardinality(Users)
  /\ connCnt = Cardinality(open) + Cardinality(Dialling)

Books == Carry /\ Listed /\ Sums

-----------------------------------------------------------------------------
(* After Release has closed what is left.  A connection that is still open *)
(* is idle, or with a caller that will close or keep it, unless a wrapper  *)
(* is twice in the sync.Pool or on its way to being so.                    *)

Carrier(p) == pc[p] \in {"pingGet", "dialed", "dialClose", "pingPut"}

Twice(w) ==
  \/ free[w] > 1
  \/ free[w] > 0 /\ \E p \in Callers : Carrier(p) /\ ref[p] = w
  \/ \E p, q \in Callers : p # q /\ Carrier(p) /\ Carrier(q) /\ ref[p] = w /\ ref[q] = w

Kept ==
  \A c \in open : \E w \in Wrappers :
    conn[w] = c /\ (w \in Range(idle) \/ \E p \in Callers : Carrier(p) /\ ref[p] = w)

\* What is idle or about to be is nobody else's.
Alone ==
  /\ \A w \in Range(idle) : free[w] = 0 /\ \A q \in Callers : Owning(q) => ref[q] # w
  /\ \A p \in Callers : pc[p] = "pingPut" =>
       free[ref[p]] = 0 /\ \A q \in Callers : q # p /\ Owning(q) => ref[q] # ref[p]

Leftover == Alone /\ ((\E w \in Wrappers : Twice(w)) \/ Kept)

\* The cleaner has closed what it took out before it stops, and Release waits for it.
CleanerOut ==
  /\ toClose # <<>> => cleanerPc \in {"scan", "closing"}
  /\ releaserPc = "done" => cleanerPc = "done"

\* The capacity bounds the counter and what is open or being dialled.
Capped ==
  /\ IsFiniteSet(open) /\ IsFiniteSet(Dialling)
  /\ connCnt <= MaxConnCap
  /\ Cardinality(open) + Cardinality(Dialling) <= MaxConnCap

\* The books are right until Release closes what is left; then what is still open
\* has somebody to close it.
Accounts ==
  /\ CleanerOut
  /\ "reclose" \notin env => IF releaserPc # "done" THEN Books ELSE Leftover
  /\ env \cap {"foreign", "reclose"} = {} => Capped

-----------------------------------------------------------------------------
(* Facts about data that the step lemmas assume.  ConnPool_proofs takes    *)
(* them from the library's theorems, which are kept out of the context of  *)
(* the step lemmas.                                                        *)

\* What append, the cut of the last element and the removal of an element do to a
\* slice of wrappers.
Slicing ==
  \A s \in Seq(Wrappers) :
    /\ s # <<>> =>
         /\ Front(s) \in Seq(Wrappers) /\ Len(Front(s)) = Len(s) - 1
         /\ Last(s) \in Range(s) /\ Last(s) \in Wrappers
         /\ Range(s) = Range(Front(s)) \cup {Last(s)}
         /\ IsInjective(s) => IsInjective(Front(s)) /\ Last(s) \notin Range(Front(s))
    /\ \A i \in DOMAIN s :
         /\ RemoveAt(s, i) \in Seq(Wrappers) /\ Len(RemoveAt(s, i)) = Len(s) - 1
         /\ s[i] \in Wrappers
         /\ Range(s) = Range(RemoveAt(s, i)) \cup {s[i]}
         /\ IsInjective(s) =>
              IsInjective(RemoveAt(s, i)) /\ s[i] \notin Range(RemoveAt(s, i))
    /\ \A w \in Wrappers :
         /\ Append(s, w) \in Seq(Wrappers) /\ Len(Append(s, w)) = Len(s) + 1
         /\ Range(Append(s, w)) = Range(s) \cup {w}
         /\ IsInjective(s) /\ w \notin Range(s) => IsInjective(Append(s, w))

\* Cardinalities of finite sets.
Counting ==
  /\ IsFiniteSet({}) /\ Cardinality({}) = 0
  /\ \A S : IsFiniteSet(S) => Cardinality(S) \in Nat
  /\ \A S, T : IsFiniteSet(S) /\ T \subseteq S =>
       IsFiniteSet(T) /\ Cardinality(T) <= Cardinality(S)
  /\ \A S, x : IsFiniteSet(S) =>
       /\ IsFiniteSet(S \cup {x}) /\ IsFiniteSet(S \ {x})
       /\ x \notin S => Cardinality(S \cup {x}) = Cardinality(S) + 1
       /\ x \in S => Cardinality(S \ {x}) = Cardinality(S) - 1
=============================================================================
