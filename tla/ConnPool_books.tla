--------------------------- MODULE ConnPool_books ---------------------------
(***************************************************************************)
(* The steps of the connection pool keep its books.                        *)
(***************************************************************************)
EXTENDS ConnPool_inv, TLAPS

\* A caller that moves joins or leaves the users and the diallers.
LEMMA MovePc ==
  ASSUME Counting, NEW p \in Callers, \A q \in Callers : q # p => pc'[q] = pc[q], Sums
  PROVE  /\ IsFiniteSet(Users') /\ IsFiniteSet(Dialling')
         /\ Cardinality(Users) \in Nat /\ Cardinality(Dialling) \in Nat
         /\ Cardinality(Users') = Cardinality(Users)
              + (IF p \in Users' THEN 1 ELSE 0) - (IF p \in Users THEN 1 ELSE 0)
         /\ Cardinality(Dialling') = Cardinality(Dialling)
              + (IF p \in Dialling' THEN 1 ELSE 0) - (IF p \in Dialling THEN 1 ELSE 0)
<1>1. Users' \cup {p} = Users \cup {p} /\ Dialling' \cup {p} = Dialling \cup {p}
  BY DEF Users, Dialling, Owning
<1>2. ASSUME NEW S, NEW T, IsFiniteSet(S), T \cup {p} = S \cup {p}
      PROVE  /\ IsFiniteSet(T) /\ Cardinality(S) \in Nat
             /\ Cardinality(T) = Cardinality(S)
                  + (IF p \in T THEN 1 ELSE 0) - (IF p \in S THEN 1 ELSE 0)
  <2>1. IsFiniteSet(S \cup {p}) /\ Cardinality(S) \in Nat
        /\ Cardinality(S \cup {p}) = IF p \in S THEN Cardinality(S)
                                     ELSE Cardinality(S) + 1
    BY Zenon, <1>2 DEF Counting
  <2>2. T = IF p \in T THEN S \cup {p} ELSE (S \cup {p}) \ {p}
    BY <1>2
  <2>3. IsFiniteSet((S \cup {p}) \ {p})
        /\ Cardinality((S \cup {p}) \ {p}) = Cardinality(S \cup {p}) - 1
    BY <2>1 DEF Counting
  <2>4. CASE p \in T
    <3>1. T = S \cup {p}
      BY <2>2, <2>4
    <3>2. QED
      BY <2>1, <2>4, <3>1
  <2>5. CASE p \notin T
    <3>1. T = (S \cup {p}) \ {p}
      BY <2>2, <2>5
    <3>2. QED
      BY <2>1, <2>3, <2>5, <3>1
  <2>6. QED
    BY <2>4, <2>5
<1>3. IsFiniteSet(Users) /\ IsFiniteSet(Dialling)
  BY DEF Sums
<1>4. QED
  BY ZenonT(30), <1>1, <1>2, <1>3

\* Closing a connection and wrapping a fresh one, counted.
LEMMA CountOpen ==
  ASSUME Counting, TypeOK, IsFiniteSet(open)
  PROVE  /\ Cardinality(open) \in Nat
         /\ \A w \in Wrappers : closeConnLocked(w) /\ conn[w] \in open =>
              /\ IsFiniteSet(open') /\ Cardinality(open') = Cardinality(open) - 1
              /\ connCnt' = connCnt - 1
         /\ \A w \in Wrappers, c \in Conns : wrapConn(w, c) =>
              IsFiniteSet(open') /\ Cardinality(open') = Cardinality(open) + 1
<1>1. Cardinality(open) \in Nat
  BY DEF Counting
<1>2. ASSUME NEW w \in Wrappers, closeConnLocked(w), conn[w] \in open
      PROVE  /\ IsFiniteSet(open') /\ Cardinality(open') = Cardinality(open) - 1
             /\ connCnt' = connCnt - 1
  BY Zenon, <1>2 DEF closeConnLocked, Counting
<1>3. ASSUME NEW w \in Wrappers, NEW c \in Conns, wrapConn(w, c)
      PROVE  IsFiniteSet(open') /\ Cardinality(open') = Cardinality(open) + 1
  BY <1>3 DEF wrapConn, Counting
<1>4. QED
  BY <1>1, <1>2, <1>3

\* A step that changes the numbers on both sides alike keeps them equal.
LEMMA SumsStep ==
  ASSUME Counting, Sums,
         IsFiniteSet(Users'), IsFiniteSet(Dialling'), IsFiniteSet(open'),
         NEW n \in Int, NEW s \in Int, NEW u \in Int, NEW o \in Int, NEW d \in Int,
         connCnt' = connCnt + n, Stock' = Stock + s,
         Cardinality(Users') = Cardinality(Users) + u,
         Cardinality(open') = Cardinality(open) + o,
         Cardinality(Dialling') = Cardinality(Dialling) + d,
         Stock \in Int, n = s + u, n = o + d
  PROVE  Sums'
<1>1. PICK a \in Int : a = Stock
  OBVIOUS
<1>2. PICK b \in Nat : b = Cardinality(Users)
  BY DEF Sums, Counting
<1>3. PICK c \in Nat : c = Cardinality(open)
  BY DEF Sums, Counting
<1>4. PICK e \in Nat : e = Cardinality(Dialling)
  BY DEF Sums, Counting
<1>5. connCnt = a + b /\ connCnt = c + e
  BY <1>1, <1>2, <1>3, <1>4 DEF Sums, Stock
<1>6. connCnt' = (a + s) + (b + u) /\ connCnt' = (c + o) + (e + d)
  BY <1>5
<1>7. connCnt' = Stock' + Cardinality(Users')
      /\ connCnt' = Cardinality(open') + Cardinality(Dialling')
  BY <1>1, <1>2, <1>3, <1>4, <1>6
<1>8. QED
  BY <1>7 DEF Sums, Stock

\* The numbers when caller p takes an idle connection, reserves one to dial, has
\* dialled it, or has failed to.
LEMMA SumsOfGet ==
  ASSUME Counting, Sums, Stock \in Int, connCnt \in Int, IsFiniteSet(open'),
         NEW p \in Callers, \A q \in Callers : q # p => pc'[q] = pc[q]
  PROVE  /\ /\ p \notin Users /\ p \in Users' /\ p \notin Dialling /\ p \notin Dialling'
            /\ open' = open /\ connCnt' = connCnt /\ Stock' = Stock - 1
            => Sums'
         /\ /\ p \notin Users /\ p \in Users' /\ p \notin Dialling /\ p \in Dialling'
            /\ open' = open /\ connCnt' = connCnt + 1 /\ Stock' = Stock
            => Sums'
         /\ /\ p \in Users /\ p \in Users' /\ p \in Dialling /\ p \notin Dialling'
            /\ Cardinality(open') = Cardinality(open) + 1
            /\ connCnt' = connCnt /\ Stock' = Stock
            => Sums'
         /\ /\ p \in Users /\ p \notin Users' /\ p \in Dialling /\ p \notin Dialling'
            /\ open' = open /\ connCnt' = connCnt - 1 /\ Stock' = Stock
            => Sums'
<1>1. /\ IsFiniteSet(Users') /\ IsFiniteSet(Dialling')
      /\ Cardinality(Users) \in Nat /\ Cardinality(Dialling) \in Nat
      /\ Cardinality(Users') = Cardinality(Users)
           + (IF p \in Users' THEN 1 ELSE 0) - (IF p \in Users THEN 1 ELSE 0)
      /\ Cardinality(Dialling') = Cardinality(Dialling)
           + (IF p \in Dialling' THEN 1 ELSE 0) - (IF p \in Dialling THEN 1 ELSE 0)
  BY MovePc
<1>2. /\ Cardinality(open) \in Nat /\ connCnt = Stock + Cardinality(Users)
      /\ connCnt = Cardinality(open) + Cardinality(Dialling)
  BY DEF Sums, Counting, Stock
<1>3. /\ connCnt' = Stock' + Cardinality(Users')
      /\ connCnt' = Cardinality(open') + Cardinality(Dialling')
      => Sums'
  BY <1>1 DEF Sums, Stock
<1>4. QED
  BY <1>1, <1>2, <1>3

\* One caller moves.
LEMMA PcMoves ==
  ASSUME TypeOK, NEW p \in Callers, NEW l, pc' = [pc EXCEPT ![p] = l]
  PROVE  pc'[p] = l /\ \A q \in Callers : q # p => pc'[q] = pc[q]
BY DEF TypeOK

\* One handle changes.
LEMMA RefMoves ==
  ASSUME TypeOK, NEW p \in Callers, NEW w, ref' = [ref EXCEPT ![p] = w]
  PROVE  ref'[p] = w /\ \A q \in Callers : q # p => ref'[q] = ref[q]
BY DEF TypeOK

\* One wrapper is marked, or its mark removed.
LEMMA MarkMoves ==
  ASSUME TypeOK, NEW w \in Wrappers, NEW b, returned' = [returned EXCEPT ![w] = b]
  PROVE  returned'[w] = b /\ \A v \in Wrappers : v # w => returned'[v] = returned[v]
BY DEF TypeOK

\* The wrappers with callers, after caller p has moved.
LEMMA OwnedMove ==
  ASSUME TypeOK, OwnersPlaced, NEW p \in Callers, NEW l, pc' = [pc EXCEPT ![p] = l],
         \A q \in Callers : q # p => ref'[q] = ref[q]
  PROVE  /\ ~Owning(p) /\ ~Owning(p)' => Owned' = Owned
         /\ Owning(p) /\ Owning(p)' /\ ref'[p] = ref[p] => Owned' = Owned
         /\ ~Owning(p) /\ Owning(p)' => Owned' = Owned \cup {ref'[p]}
         /\ Owning(p) /\ ~Owning(p)' => Owned' = Owned \ {ref[p]}
<1>1. \A q \in Callers : q # p => (Owning(q)' <=> Owning(q)) /\ ref'[q] = ref[q]
  BY DEF Owning, TypeOK
<1>2. \A w : w \in Owned <=> \E q \in Callers : Owning(q) /\ w = ref[q]
  BY DEF Owned
<1>3. \A w : w \in Owned' <=> \E q \in Callers : Owning(q)' /\ w = ref'[q]
  BY DEF Owned
<1>4. \A q \in Callers : q # p /\ Owning(p) /\ Owning(q) => ref[q] # ref[p]
  BY DEF OwnersPlaced
<1>5. ASSUME ~Owning(p), ~Owning(p)' PROVE Owned' = Owned
  BY <1>1, <1>2, <1>3, <1>5
<1>6. ASSUME Owning(p), Owning(p)', ref'[p] = ref[p] PROVE Owned' = Owned
  BY <1>1, <1>2, <1>3, <1>6
<1>7. ASSUME ~Owning(p), Owning(p)' PROVE Owned' = Owned \cup {ref'[p]}
  BY <1>1, <1>2, <1>3, <1>7
<1>8. ASSUME Owning(p), ~Owning(p)' PROVE Owned' = Owned \ {ref[p]}
  BY <1>1, <1>2, <1>3, <1>4, <1>8
<1>9. QED
  BY <1>5, <1>6, <1>7, <1>8

\* A step that leaves the places and their connections alone.
LEMMA CarrySame ==
  ASSUME Carry, UNCHANGED <<conn, open>>, Places' = Places
  PROVE  Carry'
BY DEF Carry

\* A wrapper leaves its place and its connection is closed.
LEMMA CarryClose ==
  ASSUME TypeOK, Carry, NEW w \in Wrappers, w \in Places, closeConnLocked(w),
         Places' = Places \ {w}, Places \subseteq Wrappers
  PROVE  Carry'
<1>1. /\ open' = open \ {conn[w]} /\ conn[w] \in open
      /\ conn'[w] = NoConn /\ \A v \in Wrappers : v # w => conn'[v] = conn[v]
  BY DEF closeConnLocked, Carry, TypeOK
<1>2. conn[w] # NoConn
  BY <1>1, ConstantsAssumption DEF TypeOK
<1>3. \A v \in Wrappers : v # w => conn[v] # conn[w]
  BY <1>2 DEF Carry
<1>4. \A v \in Places' : conn'[v] \in open'
  BY <1>1, <1>3 DEF Carry
<1>5. \A v \in Wrappers \ Places' : conn'[v] = NoConn
  BY <1>1 DEF Carry
<1>6. \A u, v \in Wrappers : u # v /\ conn'[u] # NoConn => conn'[u] # conn'[v]
  BY <1>1 DEF Carry
<1>7. \A c \in open' : \E v \in Wrappers : conn'[v] = c
  BY <1>1 DEF Carry
<1>8. QED
  BY <1>4, <1>5, <1>6, <1>7 DEF Carry

\* A wrapper enters a place with a fresh connection.
LEMMA CarryWrap ==
  ASSUME TypeOK, Carry, NEW w \in Wrappers, NEW c \in Conns, wrapConn(w, c),
         w \notin Places, Places' = Places \cup {w}, Places \subseteq Wrappers
  PROVE  Carry'
<1>1. /\ open' = open \cup {c} /\ c \notin open
      /\ conn'[w] = c /\ \A v \in Wrappers : v # w => conn'[v] = conn[v]
  BY DEF wrapConn, TypeOK
<1>2. \A v \in Wrappers : conn[v] # c
  BY <1>1, ConstantsAssumption DEF Carry
<1>3. conn[w] = NoConn /\ c # NoConn
  BY ConstantsAssumption DEF Carry
<1>4. \A v \in Places' : conn'[v] \in open'
  BY <1>1 DEF Carry
<1>5. \A v \in Wrappers \ Places' : conn'[v] = NoConn
  BY <1>1 DEF Carry
<1>6. \A u, v \in Wrappers : u # v /\ conn'[u] # NoConn => conn'[u] # conn'[v]
  BY <1>1, <1>2 DEF Carry
<1>7. \A d \in open' : \E v \in Wrappers : conn'[v] = d
  <2> SUFFICES ASSUME NEW d \in open PROVE \E v \in Wrappers : conn'[v] = d
    BY <1>1
  <2>1. PICK v \in Wrappers : conn[v] = d
    BY DEF Carry
  <2>2. v # w
    BY <1>3, <2>1, ConstantsAssumption DEF TypeOK
  <2>3. QED
    BY <1>1, <2>1, <2>2
<1>8. QED
  BY <1>4, <1>5, <1>6, <1>7 DEF Carry

\* What one caller does to its own wrapper concerns no other caller.
LEMMA ListedMove ==
  ASSUME RefOK, Listed, NEW p \in Callers, NEW u, Apart(p, u), EntryRight(p)
  PROVE  Listed'
<1> SUFFICES ASSUME NEW q \in Callers
             PROVE  /\ pc'[q] \in {"hold", "putting", "marking"} => ref'[q] \in active'
                    /\ pc'[q] = "pingPut" => ref'[q] \notin active'
                    /\ pc'[q] \in {"hold", "dialed"} => ~returned'[ref'[q]]
  BY DEF Listed
<1>1. CASE q = p
  BY <1>1 DEF EntryRight
<1>2. CASE q # p
  <2>1. /\ pc'[q] = pc[q] /\ ref'[q] = ref[q]
        /\ Owning(q) => ref[q] # u
        /\ \A v \in Wrappers : v # u => (v \in active <=> v \in active')
        /\ \A v \in Wrappers : v # u => returned'[v] = returned[v]
    BY <1>2 DEF Apart
  <2>2. pc[q] \in {"hold", "putting", "marking", "dialed", "pingPut"} =>
          ref[q] # u /\ ref[q] \in Wrappers
    BY <2>1 DEF Owning, RefOK
  <2>3. QED
    BY <2>1, <2>2 DEF Listed
<1>3. QED
  BY <1>1, <1>2

\* A mark on a wrapper that nobody owns concerns no caller.
LEMMA ListedMark ==
  ASSUME RefOK, Listed, UNCHANGED <<pc, ref, active>>,
         NEW w, \A q \in Callers : Owning(q) => ref[q] # w,
         \A v \in Wrappers : v # w => returned'[v] = returned[v]
  PROVE  Listed'
<1>1. \A q \in Callers :
        pc[q] \in {"hold", "dialed"} => returned'[ref[q]] = returned[ref[q]]
  BY DEF Owning, RefOK
<1>2. QED
  BY <1>1 DEF Listed

\* What the sync.Pool gives out is in no place.
LEMMA ObtainedApart ==
  ASSUME StockPlaced, OwnersPlaced, NEW w \in Wrappers, Obtainable(w)
  PROVE  /\ w \notin Range(idle) \cup Range(toClose)
         /\ \A q \in Callers : Owning(q) => ref[q] # w
<1>1. free[w] > 0 \/ w \notin Referenced
  BY DEF Obtainable
<1>2. w \in Range(idle) \cup Range(toClose) => free[w] = 0
  BY DEF StockPlaced
<1>3. \A q \in Callers : Owning(q) /\ ref[q] = w => free[w] = 0
  BY DEF OwnersPlaced
<1>4. QED
  BY <1>1, <1>2, <1>3 DEF Referenced

\* Nor does an owner that goes.
LEMMA ListedLeave ==
  ASSUME TypeOK, RefOK, OwnersPlaced, Listed, NEW p \in Callers, Owning(p),
         NEW l \in {"out", "locked"}, pc' = [pc EXCEPT ![p] = l],
         \A q \in Callers : q # p => ref'[q] = ref[q],
         UNCHANGED returned,
         \A v \in Wrappers : v # ref[p] => (v \in active <=> v \in active')
  PROVE  Listed'
<1>1. /\ pc'[p] \notin {"hold", "putting", "marking", "dialed", "pingPut"}
      /\ \A q \in Callers : q # p => pc'[q] = pc[q] /\ ref'[q] = ref[q]
  BY DEF TypeOK
<1>2. \A q \in Callers : q # p /\ Owning(q) => ref[q] # ref[p]
  BY DEF OwnersPlaced
<1>3. Apart(p, ref[p]) /\ EntryRight(p)
  BY <1>1, <1>2 DEF Apart, EntryRight
<1>4. QED
  BY <1>3, ListedMove

\* The wrappers in their places are wrappers, and an owner's is among them.
LEMMA PlacesOK ==
  ASSUME TypeOK, RefOK
  PROVE  /\ Places \subseteq Wrappers
         /\ \A p \in Callers : Owning(p) => ref[p] \in Places /\ ref[p] \in Wrappers
         /\ Len(idle) \in Nat /\ Len(toClose) \in Nat /\ connCnt \in Int
<1>1. Range(idle) \subseteq Wrappers /\ Range(toClose) \subseteq Wrappers
  BY DEF TypeOK, Range
<1>2. Owned \subseteq Wrappers
  BY DEF Owned, RefOK
<1>3. \A p \in Callers : Owning(p) => ref[p] \in Owned /\ ref[p] \in Wrappers
  BY DEF Owned, RefOK
<1>4. Len(idle) \in Nat /\ Len(toClose) \in Nat /\ connCnt \in Int
  BY DEF TypeOK
<1>5. QED
  BY <1>1, <1>2, <1>3, <1>4 DEF Places

\* An owner closes its connection and goes.
LEMMA OwnerCloses ==
  ASSUME Counting, TypeOK, RefOK, OwnersPlaced, Books, NEW p \in Callers, Owning(p),
         closeConnLocked(ref[p]), UNCHANGED <<idle, toClose, returned>>,
         NEW l \in {"out", "locked"}, pc' = [pc EXCEPT ![p] = l],
         ref' = ref \/ ref' = [ref EXCEPT ![p] = NoWrapper],
         \A v \in Wrappers : v # ref[p] => (v \in active <=> v \in active')
  PROVE  Books'
<1>1. /\ Places \subseteq Wrappers /\ ref[p] \in Places /\ ref[p] \in Wrappers
      /\ Len(idle) \in Nat /\ Len(toClose) \in Nat /\ connCnt \in Int
  BY PlacesOK
<1>2. \A q \in Callers : q # p => ref'[q] = ref[q]
  BY DEF TypeOK
<1>3. pc'[p] = l /\ ~Owning(p)' /\ pc[p] # "dial"
  BY DEF TypeOK, Owning
<1>4. Owned' = Owned \ {ref[p]}
  BY ZenonT(30), <1>2, <1>3, OwnedMove
<1>5. Places' = Places \ {ref[p]}
  BY <1>4 DEF Places, OwnersPlaced
<1>6. Carry /\ Listed /\ Sums /\ conn[ref[p]] \in open
  BY <1>1 DEF Books, Carry
<1>7. Carry'
  BY <1>1, <1>5, <1>6, CarryClose
<1>9. Listed'
  BY ZenonT(30), <1>2, <1>6, ListedLeave
<1>10. Sums'
  <2>1. p \in Users /\ p \notin Users' /\ p \notin Dialling /\ p \notin Dialling'
        /\ \A q \in Callers : q # p => pc'[q] = pc[q]
    BY <1>3 DEF Users, Dialling, Owning, TypeOK
  <2>2. /\ IsFiniteSet(Users') /\ IsFiniteSet(Dialling')
        /\ Cardinality(Users) \in Nat /\ Cardinality(Dialling) \in Nat
        /\ Cardinality(Users') = Cardinality(Users) - 1
        /\ Cardinality(Dialling') = Cardinality(Dialling)
    BY <2>1, <1>6, MovePc
  <2>3. /\ IsFiniteSet(open') /\ Cardinality(open') = Cardinality(open) - 1
        /\ connCnt' = connCnt - 1 /\ Cardinality(open) \in Nat
    BY <1>1, <1>6, CountOpen DEF Sums
  <2>4. Stock' = Stock /\ Stock \in Int
    BY <1>1 DEF Stock
  <2>5. /\ connCnt' = connCnt + (-1) /\ Stock' = Stock + 0
        /\ Cardinality(Users') = Cardinality(Users) + (-1)
        /\ Cardinality(open') = Cardinality(open) + (-1)
        /\ Cardinality(Dialling') = Cardinality(Dialling) + 0
    BY <1>1, <2>2, <2>3, <2>4
  <2>6. QED
    BY <1>6, <2>2, <2>3, <2>4, <2>5, SumsStep, -1 \in Int, 0 \in Int
<1>11. QED
  BY <1>7, <1>9, <1>10 DEF Books

\* An owner puts its connection back among the idle ones.
LEMMA OwnerKeeps ==
  ASSUME Counting, Slicing, TypeOK, RefOK, OwnersPlaced, Books,
         NEW p \in Callers, Owning(p),
         idle' = Append(idle, ref[p]),
         UNCHANGED <<toClose, returned, conn, open, connCnt>>,
         pc' = [pc EXCEPT ![p] = "out"],
         ref' = ref \/ ref' = [ref EXCEPT ![p] = NoWrapper],
         \A v \in Wrappers : v # ref[p] => (v \in active <=> v \in active')
  PROVE  Books'
<1>1. /\ Places \subseteq Wrappers /\ ref[p] \in Places /\ ref[p] \in Wrappers
      /\ Len(idle) \in Nat /\ Len(toClose) \in Nat /\ connCnt \in Int
  BY PlacesOK
<1>2. \A q \in Callers : q # p => ref'[q] = ref[q]
  BY DEF TypeOK
<1>3. pc'[p] = "out" /\ ~Owning(p)' /\ pc[p] # "dial"
  BY DEF TypeOK, Owning
<1>4. Owned' = Owned \ {ref[p]}
  BY ZenonT(30), <1>2, <1>3, OwnedMove
<1>5. Range(idle') = Range(idle) \cup {ref[p]} /\ Len(idle') = Len(idle) + 1
  BY <1>1 DEF TypeOK, Slicing
<1>6. ref[p] \in Owned
  BY DEF Owned
<1>7. Places' = Places
  BY <1>4, <1>5, <1>6 DEF Places
<1>8. Carry /\ Listed /\ Sums
  BY DEF Books
<1>10. Listed'
  BY ZenonT(30), <1>2, <1>8, ListedLeave
<1>11. p \in Users /\ p \notin Users' /\ p \notin Dialling /\ p \notin Dialling'
       /\ \A q \in Callers : q # p => pc'[q] = pc[q]
  BY <1>3 DEF Users, Dialling, Owning, TypeOK
<1>12. /\ IsFiniteSet(Users') /\ IsFiniteSet(Dialling')
       /\ Cardinality(Users) \in Nat /\ Cardinality(Dialling) \in Nat
       /\ Cardinality(Users') = Cardinality(Users) - 1
       /\ Cardinality(Dialling') = Cardinality(Dialling)
  BY <1>8, <1>11, MovePc
<1>13. Sums'
  BY SMTT(30), <1>1, <1>5, <1>8, <1>12 DEF Sums
<1>14. QED
  BY <1>7, <1>8, <1>10, <1>13, CarrySame DEF Books

\* A caller moves and takes or gives nothing.
LEMMA CallerMoves ==
  ASSUME Counting, TypeOK, RefOK, OwnersPlaced, Books, NEW p \in Callers, NEW l,
         pc' = [pc EXCEPT ![p] = l],
         \A q \in Callers : q # p => ref'[q] = ref[q],
         UNCHANGED <<idle, toClose, conn, open, connCnt>>,
         \/ Owning(p) /\ Owning(p)' /\ ref'[p] = ref[p]
         \/ ~Owning(p) /\ ~Owning(p)' /\ (pc[p] = "dial" <=> l = "dial"),
         Listed'
  PROVE  Books'
<1>1. Carry /\ Listed /\ Sums
  BY DEF Books
<1>2. Owned' = Owned
  BY ZenonT(30), OwnedMove
<1>3. Places' = Places
  BY <1>2 DEF Places
<1>4. pc'[p] = l
  BY DEF TypeOK
<1>5. pc'[p] = "dial" <=> pc[p] = "dial"
  BY <1>4 DEF Owning
<1>6. /\ p \in Users' <=> p \in Users
      /\ p \in Dialling' <=> p \in Dialling
      /\ \A q \in Callers : q # p => pc'[q] = pc[q]
  BY Zenon, <1>5 DEF Users, Dialling, TypeOK
<1>7. /\ IsFiniteSet(Users') /\ IsFiniteSet(Dialling')
      /\ Cardinality(Users) \in Nat /\ Cardinality(Dialling) \in Nat
      /\ Cardinality(Users') = Cardinality(Users)
      /\ Cardinality(Dialling') = Cardinality(Dialling)
  BY <1>1, <1>6, MovePc
<1>8. Sums'
  BY <1>1, <1>7 DEF Sums
<1>9. QED
  BY Zenon, <1>1, <1>3, <1>8, CarrySame DEF Books

\* A connection in stock is closed.
LEMMA StockCloses ==
  ASSUME Counting, TypeOK, RefOK, OwnersPlaced, Books,
         NEW w \in Range(idle) \cup Range(toClose), closeConnLocked(w),
         Range(idle') \cup Range(toClose') = (Range(idle) \cup Range(toClose)) \ {w},
         Stock' = Stock - 1,
         UNCHANGED <<pc, ref, active, returned>>
  PROVE  Books'
<1>1. /\ Places \subseteq Wrappers /\ w \in Places /\ w \in Wrappers
      /\ Len(idle) \in Nat /\ Len(toClose) \in Nat /\ connCnt \in Int
  BY PlacesOK DEF Places
<1>2. Carry /\ Listed /\ Sums /\ conn[w] \in open
  BY <1>1 DEF Books, Carry
<1>3. Owned' = Owned /\ w \notin Owned /\ Users' = Users /\ Dialling' = Dialling
  BY DEF Owned, Owning, OwnersPlaced, Users, Dialling
<1>4. Places' = Places \ {w}
  BY <1>3 DEF Places
<1>5. Carry'
  BY Zenon, <1>1, <1>2, <1>4, CarryClose
<1>6. Listed'
  BY <1>2 DEF Listed
<1>7. /\ IsFiniteSet(open') /\ Cardinality(open') = Cardinality(open) - 1
      /\ connCnt' = connCnt - 1 /\ Cardinality(open) \in Nat
  BY Zenon, <1>1, <1>2, CountOpen DEF Sums
<1>8. Cardinality(Users) \in Nat /\ Cardinality(Dialling) \in Nat
  BY Zenon, <1>2 DEF Sums, Counting
<1>9. Sums'
  <2>1. IsFiniteSet(Users') /\ IsFiniteSet(Dialling') /\ Stock \in Int
    BY <1>1, <1>2, <1>3 DEF Sums, Stock
  <2>2. /\ connCnt' = connCnt + (-1) /\ Stock' = Stock + (-1)
        /\ Cardinality(Users') = Cardinality(Users) + 0
        /\ Cardinality(open') = Cardinality(open) + (-1)
        /\ Cardinality(Dialling') = Cardinality(Dialling) + 0
    BY <1>1, <1>3, <1>7, <1>8, <2>1
  <2>3. QED
    BY <1>2, <1>7, <2>1, <2>2, SumsStep, -1 \in Int, 0 \in Int
<1>10. QED
  BY <1>5, <1>6, <1>9 DEF Books

\* A step that touches none of it.
LEMMA BooksSame ==
  ASSUME Books,
         UNCHANGED <<pc, ref, idle, toClose, conn, open, connCnt, active, returned>>
  PROVE  Books'
<1>1. \A p \in Callers : Owning(p)' <=> Owning(p)
  BY DEF Owning
<1>2. Users' = Users /\ Dialling' = Dialling /\ Owned' = Owned
  BY <1>1 DEF Users, Dialling, Owned
<1>3. Places' = Places
  BY <1>2 DEF Places
<1>4. Carry'
  BY Zenon, <1>3, CarrySame DEF Books
<1>5. Listed'
  BY DEF Books, Listed
<1>6. Sums'
  BY <1>2 DEF Books, Sums
<1>7. QED
  BY <1>4, <1>5, <1>6 DEF Books

\* A caller that owns nothing before and after moves, and the pool is as it was.
LEMMA IdleMove ==
  ASSUME Counting, TypeOK, RefOK, OwnersPlaced, Books, NEW p \in Callers, NEW l,
         pc' = [pc EXCEPT ![p] = l],
         \A q \in Callers : q # p => ref'[q] = ref[q],
         UNCHANGED <<idle, toClose, conn, open, connCnt, active, returned>>,
         pc[p] \in {"out", "locked", "dialFailed", "parking", "wait"},
         l \in {"out", "locked", "dialFailed", "parking", "wait"}
  PROVE  Books'
<1>1. pc'[p] = l /\ \A q \in Callers : q # p => pc'[q] = pc[q]
  BY DEF TypeOK
<1>2. ~Owning(p) /\ ~Owning(p)' /\ pc[p] # "dial" /\ l # "dial"
  BY Zenon, <1>1 DEF Owning
<1>3. Listed'
  BY <1>1 DEF Books, Listed
<1>4. QED
  BY ZenonT(30), <1>2, <1>3, CallerMoves

\* The steps of Get keep the books.
LEMMA GetBooks ==
  ASSUME Counting, Slicing, TypeOK, RefOK, NoHandle, StockPlaced, OwnersPlaced, Books,
         NEW p \in Callers, GetBegin(p) \/ GetStep(p)
  PROVE  Books'
<1> USE DEF Goto, Leave, connVars, lockVars, callerVars
<1>a. /\ Places \subseteq Wrappers
      /\ Owning(p) => ref[p] \in Places /\ ref[p] \in Wrappers
      /\ Len(idle) \in Nat /\ Len(toClose) \in Nat /\ connCnt \in Int
      /\ Stock \in Int
  BY PlacesOK DEF Stock
<1>b. Carry /\ Listed /\ Sums
  BY DEF Books
<1>c. /\ idle \in Seq(Wrappers) /\ IsInjective(idle)
      /\ Range(idle) \cap Range(toClose) = {}
  BY Zenon DEF TypeOK, StockPlaced
<1>d. ASSUME idle # <<>>
      PROVE  /\ Last(idle) \in Range(idle) /\ Last(idle) \in Wrappers
             /\ Last(idle) \notin Range(toClose)
             /\ Range(Front(idle)) = Range(idle) \ {Last(idle)}
             /\ Len(Front(idle)) = Len(idle) - 1
  <2>1. /\ Last(idle) \in Range(idle) /\ Last(idle) \in Wrappers
        /\ Range(idle) = Range(Front(idle)) \cup {Last(idle)}
        /\ Last(idle) \notin Range(Front(idle))
        /\ Len(Front(idle)) = Len(idle) - 1
    BY Zenon, <1>c, <1>d DEF Slicing
  <2>2. QED
    BY <1>c, <2>1
<1>1. CASE GetBegin(p)
  <2>1. CASE closed
    <3>1. UNCHANGED <<pc, ref, idle, toClose, conn, open, connCnt, active, returned>>
      BY <1>1, <2>1 DEF GetBegin
    <3>2. QED
      BY Zenon, <3>1, BooksSame
  <2>2. CASE ~closed
    <3>1. /\ pc[p] = "out" /\ pc' = [pc EXCEPT ![p] = "locked"]
          /\ ref' = [ref EXCEPT ![p] = NoWrapper]
          /\ UNCHANGED <<idle, toClose, conn, open, connCnt, active, returned>>
      BY Zenon, <1>1, <2>2 DEF GetBegin
    <3>2. \A q \in Callers : q # p => ref'[q] = ref[q]
      BY Zenon, <3>1 DEF TypeOK
    <3>3. QED
      BY ZenonT(30), <3>1, <3>2, IdleMove
  <2>3. QED
    BY <2>1, <2>2
<1>2. CASE PopExpired(p)
  <2>1. /\ idle # <<>> /\ closeConnLocked(Last(idle)) /\ idle' = Front(idle)
        /\ UNCHANGED <<toClose, pc, ref, active, returned>>
    BY Zenon, <1>2 DEF PopExpired
  <2>2. Stock' = Stock - 1
    <3>1. Len(idle') = Len(idle) - 1 /\ Len(toClose') = Len(toClose)
      BY Zenon, <1>d, <2>1
    <3>2. QED
      BY <1>a, <3>1 DEF Stock
  <2>3. Range(idle') \cup Range(toClose')
          = (Range(idle) \cup Range(toClose)) \ {Last(idle)}
    BY <1>d, <2>1
  <2>4. QED
    BY <1>d, <2>1, <2>2, <2>3, StockCloses
<1>3. CASE PopIdle(p)
  <2> DEFINE w == Last(idle)
  <2>1. /\ pc[p] = "locked" /\ idle # <<>> /\ idle' = Front(idle)
        /\ ref' = [ref EXCEPT ![p] = w]
        /\ \/ pc' = [pc EXCEPT ![p] = "pingGet"] /\ UNCHANGED <<active, returned>>
           \/ /\ pc' = [pc EXCEPT ![p] = "hold"]
              /\ active' = active \cup {w}
              /\ returned' = [returned EXCEPT ![w] = FALSE]
        /\ UNCHANGED <<toClose, conn, open, connCnt>>
    BY Zenon, <1>3 DEF PopIdle
  <2>2. /\ w \in Range(idle) /\ w \in Wrappers
        /\ w \notin Range(toClose) /\ Range(idle') = Range(idle) \ {w}
        /\ Len(idle') = Len(idle) - 1
    BY <1>d, <2>1
  <2> HIDE DEF w
  <2>3. /\ \A q \in Callers : q # p => pc'[q] = pc[q] /\ ref'[q] = ref[q]
        /\ ref'[p] = w
        /\ \/ pc'[p] = "pingGet"
           \/ /\ pc'[p] = "hold" /\ active' = active \cup {w}
              /\ returned' = [returned EXCEPT ![w] = FALSE]
    <3>1. ref'[p] = w /\ \A q \in Callers : q # p => ref'[q] = ref[q]
      BY Zenon, <2>1, RefMoves
    <3>2. CASE pc' = [pc EXCEPT ![p] = "pingGet"]
      BY Zenon, <3>1, <3>2, PcMoves
    <3>3. CASE /\ pc' = [pc EXCEPT ![p] = "hold"] /\ active' = active \cup {w}
               /\ returned' = [returned EXCEPT ![w] = FALSE]
      BY Zenon, <3>1, <3>3, PcMoves
    <3>4. QED
      BY Zenon, <2>1, <3>2, <3>3
  <2>4. ~Owning(p) /\ Owning(p)'
    BY Zenon, <2>1, <2>3 DEF Owning
  <2>5. Owned' = Owned \cup {w}
    BY <2>1, <2>3, <2>4, OwnedMove
  <2>6. Places' = Places
    BY Zenon, <2>1, <2>2, <2>5 DEF Places
  <2>7. \A q \in Callers : q # p /\ Owning(q) => ref[q] # w
    BY Zenon, <2>2 DEF OwnersPlaced
  <2>8. Listed'
    <3>1. \A v \in Wrappers : v # w => (v \in active <=> v \in active')
      BY Zenon, <2>1
    <3>2. \A v \in Wrappers : v # w => returned'[v] = returned[v]
      BY Zenon, <2>1, <2>2, MarkMoves
    <3>3. Apart(p, w)
      BY Zenon, <2>3, <2>7, <3>1, <3>2 DEF Apart
    <3>4. pc'[p] = "pingGet" \/ (pc'[p] = "hold" /\ w \in active' /\ ~returned'[w])
      BY Zenon, <2>2, <2>3, MarkMoves
    <3>5. EntryRight(p)
      BY Zenon, <2>3, <3>4 DEF EntryRight
    <3>6. QED
      BY Zenon, <1>b, <3>3, <3>5, ListedMove
  <2>9. p \notin Users /\ p \in Users' /\ p \notin Dialling /\ p \notin Dialling'
    BY <2>1, <2>3, <2>4 DEF Users, Dialling
  <2>10. IsFiniteSet(open') /\ open' = open /\ connCnt' = connCnt
    BY Zenon, <1>b, <2>1 DEF Sums
  <2>11. Stock' = Stock - 1
    <3>1. Len(idle') = Len(idle) - 1 /\ Len(toClose') = Len(toClose)
      BY Zenon, <2>1, <2>2
    <3>2. QED
      BY <1>a, <3>1 DEF Stock
  <2>12. Sums'
    BY Zenon, <1>a, <1>b, <2>3, <2>9, <2>10, <2>11, SumsOfGet
  <2>13. QED
    BY Zenon, <1>b, <2>1, <2>6, <2>8, <2>12, CarrySame DEF Books
<1>4. CASE PingGetDone(p)
  <2>1. Owning(p) /\ pc[p] = "pingGet" /\ UNCHANGED <<idle, toClose>>
    BY Zenon, <1>4 DEF PingGetDone, Owning
  <2>2. \/ /\ closeConnLocked(ref[p]) /\ UNCHANGED <<active, returned>>
           /\ \E l \in {"out", "locked"} : pc' = [pc EXCEPT ![p] = l]
           /\ ref' = [ref EXCEPT ![p] = NoWrapper]
        \/ /\ active' = active \cup {ref[p]}
           /\ returned' = [returned EXCEPT ![ref[p]] = FALSE]
           /\ pc' = [pc EXCEPT ![p] = "hold"]
           /\ UNCHANGED <<ref, conn, open, connCnt>>
    BY <1>4 DEF PingGetDone
  <2>3. CASE closeConnLocked(ref[p]) /\ UNCHANGED <<active, returned>>
             /\ (\E l \in {"out", "locked"} : pc' = [pc EXCEPT ![p] = l])
             /\ ref' = [ref EXCEPT ![p] = NoWrapper]
    BY ZenonT(30), <2>1, <2>3, OwnerCloses
  <2>4. CASE active' = active \cup {ref[p]}
             /\ returned' = [returned EXCEPT ![ref[p]] = FALSE]
             /\ pc' = [pc EXCEPT ![p] = "hold"]
             /\ UNCHANGED <<ref, conn, open, connCnt>>
    <3>1. /\ pc'[p] = "hold"
          /\ \A q \in Callers : q # p => pc'[q] = pc[q] /\ ref'[q] = ref[q]
      BY Zenon, <2>4, PcMoves
    <3>2. \A q \in Callers : q # p /\ Owning(q) => ref[q] # ref[p]
      BY Zenon, <2>1 DEF OwnersPlaced
    <3>3. /\ \A v \in Wrappers : v # ref[p] => returned'[v] = returned[v]
          /\ \A v \in Wrappers : v # ref[p] => (v \in active <=> v \in active')
          /\ ~returned'[ref'[p]] /\ ref'[p] \in active'
      BY <1>a, <2>1, <2>4 DEF TypeOK
    <3>4. Listed'
      <4>1. Apart(p, ref[p])
        BY ZenonT(30), <3>1, <3>2, <3>3 DEF Apart
      <4>2. EntryRight(p)
        BY SMTT(30), <3>1, <3>3 DEF EntryRight
      <4>3. QED
        BY ZenonT(30), <1>b, <4>1, <4>2, ListedMove
    <3>5. Owning(p)'
      BY <3>1 DEF Owning
    <3>6. QED
      BY ZenonT(30), <2>1, <2>4, <3>1, <3>4, <3>5, CallerMoves
  <2>5. QED
    BY Zenon, <2>2, <2>3, <2>4
<1>5. CASE Reserve(p)
  <2>1. /\ pc[p] = "locked" /\ pc' = [pc EXCEPT ![p] = "dial"] /\ connCnt' = connCnt + 1
        /\ UNCHANGED <<idle, toClose, conn, open, ref, active, returned>>
    BY <1>5 DEF Reserve
  <2>2. pc'[p] = "dial" /\ \A q \in Callers : q # p => pc'[q] = pc[q]
    BY Zenon, <2>1, PcMoves
  <2>3. ~Owning(p) /\ ~Owning(p)'
    BY <2>1, <2>2 DEF Owning
  <2>4. Places' = Places
    <3>1. Owned' = Owned
      BY ZenonT(30), <2>1, <2>3, OwnedMove
    <3>2. QED
      BY <2>1, <3>1 DEF Places
  <2>5. Listed'
    BY ZenonT(30), <1>b, <2>1, <2>2 DEF Listed
  <2>6. p \notin Users /\ p \in Users' /\ p \notin Dialling /\ p \in Dialling'
    BY SMTT(30), <2>1, <2>2, <2>3 DEF Users, Dialling
  <2>7. IsFiniteSet(open') /\ Stock' = Stock
    BY Zenon, <1>b, <2>1 DEF Sums, Stock
  <2>8. Sums'
    BY Zenon, <1>a, <1>b, <2>1, <2>2, <2>6, <2>7, SumsOfGet
  <2>9. QED
    BY Zenon, <1>b, <2>1, <2>4, <2>5, <2>8, CarrySame DEF Books
<1>6. CASE DialOk(p)
  <2>1. PICK w \in Wrappers, c \in Conns :
          wrapConn(w, c) /\ ref' = [ref EXCEPT ![p] = w]
    BY Zenon, <1>6 DEF DialOk
  <2>2. /\ pc[p] = "dial" /\ pc' = [pc EXCEPT ![p] = "dialed"]
        /\ UNCHANGED <<idle, toClose, connCnt, active>>
        /\ returned' = [returned EXCEPT ![w] = FALSE]
    BY ZenonT(30), <1>6, <2>1 DEF DialOk, wrapConn
  <2>3. /\ \A q \in Callers : q # p => pc'[q] = pc[q] /\ ref'[q] = ref[q]
        /\ ref'[p] = w /\ pc'[p] = "dialed"
    BY Zenon, <2>1, <2>2, PcMoves, RefMoves
  <2>4. ~Owning(p) /\ Owning(p)'
    BY <2>2, <2>3 DEF Owning
  <2>5. Owned' = Owned \cup {w}
    BY ZenonT(30), <2>2, <2>3, <2>4, OwnedMove
  <2>6. w \notin Range(idle) \cup Range(toClose)
        /\ \A q \in Callers : Owning(q) => ref[q] # w
    BY Zenon, <2>1, ObtainedApart DEF wrapConn
  <2>7. w \notin Places /\ Places' = Places \cup {w}
    BY ZenonT(30), <2>2, <2>5, <2>6 DEF Places, Owned
  <2>8. Carry'
    BY <1>a, <1>b, <2>1, <2>7, CarryWrap
  <2>9. Listed'
    <3>1. /\ \A v \in Wrappers : v # w => returned'[v] = returned[v]
          /\ ~returned'[ref'[p]]
      BY Zenon, <2>2, <2>3, MarkMoves
    <3>2. Apart(p, w)
      BY Zenon, <2>2, <2>3, <2>6, <3>1 DEF Apart
    <3>3. EntryRight(p)
      BY Zenon, <2>3, <3>1 DEF EntryRight
    <3>4. QED
      BY Zenon, <1>b, <3>2, <3>3, ListedMove
  <2>10. p \in Users /\ p \in Users' /\ p \in Dialling /\ p \notin Dialling'
    BY <2>2, <2>3, <2>4 DEF Users, Dialling
  <2>11. IsFiniteSet(open') /\ Cardinality(open') = Cardinality(open) + 1
    BY Zenon, <1>b, <2>1, CountOpen DEF Sums
  <2>12. connCnt' = connCnt /\ Stock' = Stock
    BY Zenon, <2>2 DEF Stock
  <2>13. Sums'
    BY Zenon, <1>a, <1>b, <2>3, <2>10, <2>11, <2>12, SumsOfGet
  <2>14. QED
    BY Zenon, <2>8, <2>9, <2>13 DEF Books
<1>7. CASE DialFail(p)
  <2>1. /\ pc[p] = "dial" /\ pc' = [pc EXCEPT ![p] = "dialFailed"]
        /\ connCnt' = connCnt - 1
        /\ UNCHANGED <<idle, toClose, conn, open, ref, active, returned>>
    BY <1>7 DEF DialFail
  <2>2. pc'[p] = "dialFailed" /\ \A q \in Callers : q # p => pc'[q] = pc[q]
    BY Zenon, <2>1, PcMoves
  <2>3. ~Owning(p) /\ ~Owning(p)'
    BY <2>1, <2>2 DEF Owning
  <2>4. Places' = Places
    <3>1. Owned' = Owned
      BY ZenonT(30), <2>1, <2>3, OwnedMove
    <3>2. QED
      BY <2>1, <3>1 DEF Places
  <2>5. Listed'
    BY Zenon, <1>b, <2>1, <2>2 DEF Listed
  <2>6. p \in Users /\ p \notin Users' /\ p \in Dialling /\ p \notin Dialling'
    BY <2>1, <2>2, <2>3 DEF Users, Dialling
  <2>7. IsFiniteSet(open') /\ Stock' = Stock
    BY Zenon, <1>b, <2>1 DEF Sums, Stock
  <2>8. Sums'
    BY Zenon, <1>a, <1>b, <2>1, <2>2, <2>6, <2>7, SumsOfGet
  <2>9. QED
    BY Zenon, <1>b, <2>1, <2>4, <2>5, <2>8, CarrySame DEF Books
<1>8. CASE DialFailBroadcast(p) \/ Park(p) \/ Sleep(p) \/ Wake(p)
  <2>1. /\ pc[p] \in {"locked", "dialFailed", "parking", "wait"}
        /\ \E l \in {"out", "locked", "parking", "wait"} : pc' = [pc EXCEPT ![p] = l]
        /\ ref' = ref \/ ref' = [ref EXCEPT ![p] = NoWrapper]
        /\ UNCHANGED <<idle, toClose, conn, open, connCnt, active, returned>>
    BY Zenon, <1>8 DEF DialFailBroadcast, Park, Sleep, Wake
  <2>2. \A q \in Callers : q # p => ref'[q] = ref[q]
    BY Zenon, <2>1 DEF TypeOK
  <2>3. QED
    BY ZenonT(30), <2>1, <2>2, IdleMove
<1>9. CASE DialRegister(p)
  <2>1. /\ pc[p] = "dialed" /\ Owning(p)
        /\ \/ pc' = [pc EXCEPT ![p] = "dialClose"] /\ UNCHANGED active
           \/ pc' = [pc EXCEPT ![p] = "hold"] /\ active' = active \cup {ref[p]}
        /\ UNCHANGED <<idle, toClose, conn, open, connCnt, ref, returned>>
    BY Zenon, <1>9 DEF DialRegister, Owning
  <2>2. /\ pc'[p] \in {"dialClose", "hold"} /\ Owning(p)'
        /\ \A q \in Callers : q # p => pc'[q] = pc[q]
        /\ pc'[p] = "hold" => ref[p] \in active'
    BY SMTT(30), <2>1 DEF TypeOK, Owning
  <2>3. Listed'
    <3>1. \A q \in Callers : q # p /\ Owning(q) => ref[q] # ref[p]
      BY ZenonT(30), <2>1 DEF OwnersPlaced
    <3>2. \A v \in Wrappers : v # ref[p] => (v \in active <=> v \in active')
      BY Zenon, <2>1
    <3>3. Apart(p, ref[p])
      BY Zenon, <2>1, <2>2, <3>1, <3>2 DEF Apart
    <3>4. ~returned'[ref'[p]] /\ ref'[p] = ref[p]
      BY Zenon, <1>b, <2>1 DEF Listed
    <3>5. EntryRight(p)
      BY Zenon, <2>2, <3>4 DEF EntryRight
    <3>6. QED
      BY Zenon, <1>b, <3>3, <3>5, ListedMove
  <2>4. QED
    BY Zenon, <2>1, <2>2, <2>3, CallerMoves
<1>10. CASE DialClose(p)
  <2>1. /\ Owning(p) /\ closeConnLocked(ref[p])
        /\ pc' = [pc EXCEPT ![p] = "out"] /\ ref' = [ref EXCEPT ![p] = NoWrapper]
        /\ UNCHANGED <<idle, toClose, returned, active>>
    BY <1>10 DEF DialClose, Owning
  <2>2. QED
    BY ZenonT(30), <2>1, OwnerCloses
<1>11. QED
  BY Zenon, <1>1, <1>2, <1>3, <1>4, <1>5, <1>6, <1>7, <1>8, <1>9, <1>10 DEF GetStep

\* The steps of putConn and markUnhealthy keep the books.
LEMMA PutBooks ==
  ASSUME Counting, Slicing, TypeOK, RefOK, NoHandle, StockPlaced, OwnersPlaced, Books,
         NEW p \in Callers, PutStep(p)
  PROVE  Books'
<1> USE DEF Goto, Leave, connVars, lockVars, callerVars
<1>a. Carry /\ Listed /\ Sums
  BY DEF Books
<1>b. ASSUME Return(p)
      PROVE  /\ pc' = [pc EXCEPT ![p] = "out"]
             /\ ref' = ref \/ ref' = [ref EXCEPT ![p] = NoWrapper]
  BY <1>b DEF Return
<1>c. ASSUME Owning(p), closeConnLocked(ref[p]), Return(p),
             UNCHANGED <<idle, toClose, returned>>,
             \A v \in Wrappers : v # ref[p] => (v \in active <=> v \in active')
      PROVE  Books'
  BY <1>b, <1>c, OwnerCloses
<1>d. ASSUME Owning(p), KeepOrClose(ref[p]), Return(p), UNCHANGED <<toClose, returned>>,
             \A v \in Wrappers : v # ref[p] => (v \in active <=> v \in active')
      PROVE  Books'
  <2>1. CASE closeConnLocked(ref[p]) /\ UNCHANGED idle
    BY <2>1, <1>c, <1>d
  <2>2. CASE idle' = Append(idle, ref[p]) /\ UNCHANGED <<conn, open, connCnt>>
    BY SMTT(30), <2>2, <1>b, <1>d, OwnerKeeps
  <2>3. QED
    BY <1>d, <2>1, <2>2 DEF KeepOrClose
<1>1. CASE GiveBack(p)
  <2>1. pc[p] = "hold" /\ Owning(p)
    BY <1>1 DEF GiveBack, HasHandle, NoHandle, Owning
  <2>2. ~returned[ref[p]] /\ ref[p] \in active /\ ref[p] \in Wrappers
    BY Zenon, <1>a, <2>1 DEF Listed, RefOK
  <2>3. PICK l \in {"putting", "marking"} : pc' = [pc EXCEPT ![p] = l]
    BY Zenon, <1>1, <2>2 DEF GiveBack
  <2>4. /\ returned' = [returned EXCEPT ![ref[p]] = TRUE]
        /\ UNCHANGED <<idle, toClose, conn, open, connCnt, ref, active>>
    BY Zenon, <1>1, <2>2 DEF GiveBack
  <2>5. /\ pc'[p] \in {"putting", "marking"} /\ Owning(p)'
        /\ \A q \in Callers : q # p => pc'[q] = pc[q] /\ ref'[q] = ref[q]
    BY <2>3, <2>4 DEF TypeOK, Owning
  <2>6. \A v \in Wrappers : v # ref[p] => returned'[v] = returned[v]
    BY Zenon, <2>2, <2>4, MarkMoves
  <2>7. \A q \in Callers : q # p /\ Owning(q) => ref[q] # ref[p]
    BY Zenon, <2>1 DEF OwnersPlaced
  <2>8. Listed'
    <3>1. Apart(p, ref[p])
      BY Zenon, <2>4, <2>5, <2>6, <2>7 DEF Apart
    <3>2. EntryRight(p)
      BY Zenon, <2>2, <2>4, <2>5 DEF EntryRight
    <3>3. QED
      BY ZenonT(30), <1>a, <3>1, <3>2, ListedMove
  <2>9. QED
    BY ZenonT(30), <2>1, <2>3, <2>4, <2>5, <2>8, CallerMoves
<1>2. CASE PutConn(p)
  <2>1. /\ Owning(p) /\ pc[p] = "putting" /\ UNCHANGED <<toClose, returned>>
        /\ \A v \in Wrappers : v # ref[p] => (v \in active <=> v \in active')
    BY Zenon, <1>2 DEF PutConn, Owning
  <2>2. \/ closeConnLocked(ref[p]) /\ Return(p) /\ UNCHANGED idle
        \/ /\ pc' = [pc EXCEPT ![p] = "pingPut"] /\ active' = active \ {ref[p]}
           /\ UNCHANGED <<ref, idle, conn, open, connCnt>>
        \/ KeepOrClose(ref[p]) /\ Return(p)
    BY Zenon, <1>2 DEF PutConn
  <2>3. CASE closeConnLocked(ref[p]) /\ Return(p) /\ UNCHANGED idle
    BY Zenon, <1>c, <2>1, <2>3
  <2>4. CASE /\ pc' = [pc EXCEPT ![p] = "pingPut"] /\ active' = active \ {ref[p]}
             /\ UNCHANGED <<ref, idle, conn, open, connCnt>>
    <3>1. /\ pc'[p] = "pingPut" /\ Owning(p)'
          /\ \A q \in Callers : q # p => pc'[q] = pc[q] /\ ref'[q] = ref[q]
      BY Zenon, <2>4 DEF TypeOK, Owning
    <3>2. \A q \in Callers : q # p /\ Owning(q) => ref[q] # ref[p]
      BY <2>1 DEF OwnersPlaced
    <3>3. Listed'
      <4>1. Apart(p, ref[p])
        BY ZenonT(30), <2>1, <3>1, <3>2 DEF Apart
      <4>2. ref'[p] \notin active'
        BY Zenon, <2>4
      <4>3. EntryRight(p)
        BY Zenon, <3>1, <4>2 DEF EntryRight
      <4>4. QED
        BY ZenonT(30), <1>a, <4>1, <4>3, ListedMove
    <3>4. QED
      BY ZenonT(30), <2>1, <2>4, <3>1, <3>3, CallerMoves
  <2>5. QED
    BY Zenon, <1>d, <2>1, <2>2, <2>3, <2>4
<1>3. CASE PingPutDone(p)
  <2>1. /\ Owning(p) /\ UNCHANGED <<toClose, returned, active>> /\ Return(p)
        /\ \/ closeConnLocked(ref[p]) /\ UNCHANGED idle
           \/ KeepOrClose(ref[p])
    BY ZenonT(30), <1>3 DEF PingPutDone, Owning
  <2>2. QED
    BY <2>1, <1>c, <1>d
<1>4. CASE MarkUnhealthy(p)
  <2>1. /\ Owning(p) /\ UNCHANGED <<idle, toClose, returned>> /\ Return(p)
        /\ closeConnLocked(ref[p]) /\ active' = active \ {ref[p]}
    BY <1>4 DEF MarkUnhealthy, Owning
  <2>2. QED
    BY Zenon, <2>1, <1>c
<1>5. QED
  BY <1>1, <1>2, <1>3, <1>4 DEF PutStep

\* So do a Put of a foreign connection, contexts, backgroundCleanup, and Release
\* until it closes what is left.
LEMMA OthersBooks ==
  ASSUME Counting, Slicing, TypeOK, RefOK, StockPlaced, OwnersPlaced, Books,
         \/ \E p \in Callers : Cancel(p) \/ AfterFunc(p)
         \/ PutForeign
         \/ CleanTick \/ CleanStep
         \/ ReleaseBegin \/ ReleaseBroadcast
         \/ UNCHANGED vars
  PROVE  Books'
<1> USE DEF connVars, lockVars, callerVars
<1>a. /\ Places \subseteq Wrappers
      /\ Len(idle) \in Nat /\ Len(toClose) \in Nat /\ connCnt \in Int
      /\ Stock \in Int
  BY PlacesOK DEF Stock
<1>b. Carry /\ Listed /\ Sums
  BY Zenon DEF Books
<1>c. /\ idle \in Seq(Wrappers) /\ IsInjective(idle)
      /\ toClose \in Seq(Wrappers) /\ IsInjective(toClose)
      /\ Range(idle) \cap Range(toClose) = {}
  BY DEF TypeOK, StockPlaced
<1>1. ASSUME NEW p \in Callers, Cancel(p) \/ AfterFunc(p) PROVE Books'
  <2>1. UNCHANGED <<pc, ref, idle, toClose, conn, open, connCnt, active, returned>>
    BY <1>1 DEF Cancel, AfterFunc
  <2>2. QED
    BY Zenon, <2>1, BooksSame
<1>2. CASE CleanTick \/ CleanUnlock \/ CleanBroadcast \/ CleanStop
           \/ ReleaseBegin \/ ReleaseBroadcast \/ UNCHANGED vars
  <2>1. UNCHANGED <<pc, ref, idle, toClose, conn, open, connCnt, active, returned>>
    BY ZenonT(30), <1>2 DEF CleanTick, CleanUnlock, CleanBroadcast, CleanStop,
       ReleaseBegin, ReleaseBroadcast, vars, poolVars
  <2>2. QED
    BY Zenon, <2>1, BooksSame
<1>3. CASE PutForeign
  <2>1. UNCHANGED <<pc, ref, toClose, active>>
    BY Zenon, <1>3 DEF PutForeign
  <2>2. Owned' = Owned /\ Users' = Users /\ Dialling' = Dialling
    BY Zenon, <2>1 DEF Owned, Owning, Users, Dialling
  <2>3. IsFiniteSet(Users) /\ IsFiniteSet(Dialling) /\ IsFiniteSet(open)
        /\ Cardinality(Users) \in Nat /\ Cardinality(Dialling) \in Nat
    BY <1>b DEF Sums, Counting
  <2>4. CASE Len(idle) < MaxIdleCnt
    <3>1. PICK w \in Wrappers, c \in Conns :
            wrapConn(w, c) /\ idle' = Append(idle, w)
      BY Zenon, <1>3, <2>4 DEF PutForeign
    <3>2. connCnt' = connCnt + 1
      BY Zenon, <1>3, <2>4 DEF PutForeign
    <3>3. Range(idle') = Range(idle) \cup {w} /\ Len(idle') = Len(idle) + 1
      BY SMTT(30), <1>c, <3>1 DEF Slicing
    <3>4. w \notin Range(idle) \cup Range(toClose)
          /\ \A q \in Callers : Owning(q) => ref[q] # w
      BY Zenon, <3>1, ObtainedApart DEF wrapConn
    <3>5. w \notin Places /\ Places' = Places \cup {w}
      BY ZenonT(30), <2>1, <2>2, <3>3, <3>4 DEF Places, Owned
    <3>6. Carry'
      BY <1>a, <1>b, <3>1, <3>5, CarryWrap
    <3>7. \A v \in Wrappers : v # w => returned'[v] = returned[v]
      BY Zenon, <3>1, MarkMoves DEF wrapConn
    <3>8. Listed'
      BY Zenon, <1>b, <2>1, <3>4, <3>7, ListedMark
    <3>9. IsFiniteSet(open') /\ Cardinality(open') = Cardinality(open) + 1
      BY Zenon, <2>3, <3>1, CountOpen
    <3>10. /\ Stock' = Stock + 1 /\ Cardinality(Users') = Cardinality(Users) + 0
           /\ Cardinality(Dialling') = Cardinality(Dialling) + 0
      BY SMTT(30), <1>a, <2>1, <2>2, <2>3, <3>3 DEF Stock
    <3>11. Sums'
      BY SMTT(30), <1>a, <1>b, <2>2, <2>3, <3>2, <3>9, <3>10, SumsStep,
         0 \in Int, 1 \in Int
    <3>12. QED
      BY Zenon, <3>6, <3>8, <3>11 DEF Books
  <2>5. CASE ~(Len(idle) < MaxIdleCnt)
    <3>1. PICK w \in Wrappers :
            Obtainable(w) /\ returned' = [returned EXCEPT ![w] = FALSE]
      BY Zenon, <1>3, <2>5 DEF PutForeign
    <3>2. UNCHANGED <<idle, connCnt, conn, open>>
      BY Zenon, <1>3, <2>5 DEF PutForeign
    <3>3. \A q \in Callers : Owning(q) => ref[q] # w
      BY Zenon, <3>1, ObtainedApart
    <3>4. \A v \in Wrappers : v # w => returned'[v] = returned[v]
      BY Zenon, <3>1, MarkMoves
    <3>5. Listed'
      BY Zenon, <1>b, <2>1, <3>3, <3>4, ListedMark
    <3>6. Places' = Places
      BY <2>1, <2>2, <3>2 DEF Places
    <3>7. Carry'
      BY Zenon, <1>b, <3>2, <3>6, CarrySame
    <3>8. Sums'
      BY <1>b, <2>1, <2>2, <3>2 DEF Sums
    <3>9. QED
      BY Zenon, <3>5, <3>7, <3>8 DEF Books
  <2>6. QED
    BY Zenon, <2>4, <2>5
<1>4. CASE CleanTake
  <2>1. PICK i \in DOMAIN idle : /\ toClose' = Append(toClose, idle[i])
                                 /\ idle' = RemoveAt(idle, i)
    BY Zenon, <1>4 DEF CleanTake
  <2>2. UNCHANGED <<pc, ref, active, returned, conn, open, connCnt>>
    BY Zenon, <1>4 DEF CleanTake
  <2>3. /\ idle[i] \in Wrappers /\ Len(idle') = Len(idle) - 1
        /\ Range(idle) = Range(idle') \cup {idle[i]}
    BY Zenon, <1>c, <2>1 DEF Slicing
  <2>4. /\ Len(toClose') = Len(toClose) + 1
        /\ Range(toClose') = Range(toClose) \cup {idle[i]}
    BY SMTT(30), <1>c, <2>1, <2>3 DEF Slicing
  <2>5. Owned' = Owned /\ Users' = Users /\ Dialling' = Dialling
    BY ZenonT(30), <2>2 DEF Owned, Owning, Users, Dialling
  <2>6. Places' = Places
    BY <2>3, <2>4, <2>5 DEF Places
  <2>7. Carry'
    BY Zenon, <1>b, <2>2, <2>6, CarrySame
  <2>8. Listed'
    BY Zenon, <1>b, <2>2 DEF Listed
  <2>9. Len(idle') + Len(toClose') = Len(idle) + Len(toClose)
    BY <1>a, <2>3, <2>4
  <2>10. Sums'
    BY ZenonT(30), <1>b, <2>2, <2>5, <2>9 DEF Sums
  <2>11. QED
    BY <2>7, <2>8, <2>10 DEF Books
<1>5. CASE CleanClose
  <2>1. /\ toClose # <<>> /\ closeConnLocked(Last(toClose))
        /\ toClose' = Front(toClose)
        /\ UNCHANGED <<idle, pc, ref, active, returned>>
    BY Zenon, <1>5 DEF CleanClose
  <2>2. /\ Last(toClose) \in Range(toClose)
        /\ Range(toClose) = Range(toClose') \cup {Last(toClose)}
        /\ Last(toClose) \notin Range(toClose')
        /\ Len(toClose') = Len(toClose) - 1
    BY ZenonT(30), <1>c, <2>1 DEF Slicing
  <2>3. Stock' = Stock - 1
    BY SMTT(30), <1>a, <2>1, <2>2 DEF Stock
  <2>4. Range(idle') \cup Range(toClose')
          = (Range(idle) \cup Range(toClose)) \ {Last(toClose)}
    BY <1>c, <2>1, <2>2
  <2>5. QED
    BY Zenon, <2>1, <2>2, <2>3, <2>4, StockCloses
<1>6. QED
  BY Zenon, <1>1, <1>2, <1>3, <1>4, <1>5 DEF CleanStep

=============================================================================
