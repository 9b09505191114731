-------------------------- MODULE LocalCache_proofs --------------------------
(***************************************************************************)
(* Theorems about the local cache and the write-through cache, for every   *)
(* number of writers, getters and closers and every capacity.  What the    *)
(* recency list and the size add up to is a fold over a sequence and stays *)
(* with TLC.                                                               *)
(***************************************************************************)
EXTENDS LocalCache, TLAPS

Item == [key : Keys, val : Values, size : 1..(Word - 1), expires : BOOLEAN]

\* A node carries a value that was Set for its key, and the map leads from a key
\* to a node with that key.
Entries ==
  /\ node \in Seq(Item) /\ data \in [Keys -> 0..Len(node)]
  /\ stored \in [Keys -> SUBSET Values]
  /\ \A i \in 1..Len(node) : node[i].val \in stored[node[i].key]
  /\ \A k \in Keys : data[k] # Nothing => node[data[k]].key = k

\* What Get and the cleaner have seen to be past its deadline has expired.
Marks == gNow \in [Getters -> SUBSET expired] /\ tick \subseteq expired

\* What a Set is about to cache was stored, unless SemiAsyncSet overlooked an error.
Through ==
  /\ sc \in Scenarios
  /\ DOMAIN wPc = Writers /\ DOMAIN wArg = Writers
  /\ db \in [Keys -> SUBSET Values]
  /\ \A w \in Writers : wPc[w] = "set" =>
       /\ wArg[w][1] \in Keys /\ wArg[w][2] \in Values /\ wArg[w][3] \in BOOLEAN
       /\ sc.mode \in {"sync", "async"} => wArg[w][2] \in db[wArg[w][1]]
  /\ OnlyStoredIsCached

\* A value that Get put together: its two words were Set for the key.
Read(k, v) ==
  \E a, b \in stored[k] : v = <<a[1], b[2]>>

\* A getter reads a node with its key, and returns what it found there.
Getting ==
  /\ DOMAIN gPc = Getters /\ DOMAIN gKey = Getters /\ DOMAIN got = Getters
  /\ gNode \in [Getters -> 0..Len(node)]
  /\ \A g \in Getters :
       /\ gPc[g] \in {"now", "lock", "type", "data"} =>
            gKey[g] \in Keys /\ gNode[g] # Nothing /\ node[gNode[g]].key = gKey[g]
       /\ gPc[g] = "data" => \E a \in stored[gKey[g]] : got[g][1] = a[1]
       /\ gPc[g] = "idle" /\ got[g] # NoValue =>
            gKey[g] \in Keys /\ (got[g] \in stored[gKey[g]] \/ Read(gKey[g], got[g]))

-----------------------------------------------------------------------------
(* Set                                                                     *)

\* The effect of a Set on the nodes and the map: one node more.
Added(k, v) ==
  /\ Len(node') = Len(node) + 1
  /\ \A i \in 1..Len(node) : node'[i].key = node[i].key
  /\ stored' = [stored EXCEPT ![k] = @ \cup {v}]

\* Set adds a node for its key and leaves the others their keys; Set of a key
\* that is in the map also changes the value of the node that was there.
LEMMA SetAdds ==
  ASSUME Entries, NEW k \in Keys, NEW v \in Values, NEW exp \in BOOLEAN,
         SetCache(k, v, exp)
  PROVE  \/ UNCHANGED <<node, data, stored>>
         \/ Entries' /\ Added(k, v)
<1>0. SUFFICES ASSUME v \notin Unsized
               PROVE  UNCHANGED <<node, data, stored>> \/ (Entries' /\ Added(k, v))
  BY Zenon DEF SetCache, items
<1> DEFINE n == Len(node)
           new == NewItem(k, v, exp)
<1>1. /\ n \in Nat /\ new \in Item /\ new.key = k /\ new.val = v
      /\ node \in Seq(Item) /\ \A i \in 1..n : node[i] \in Item
  <2>1. PairSize[v] \in 1..(Word - 1)
    BY <1>0, CacheConstants
  <2>2. new \in Item /\ new.key = k /\ new.val = v
    BY <2>1 DEF NewItem, Item
  <2>3. node \in Seq(Item)
    BY Zenon DEF Entries
  <2>4. n \in Nat /\ \A i \in 1..n : node[i] \in Item
    BY <2>3
  <2>5. QED
    BY <2>2, <2>3, <2>4
<1>2. CASE UNCHANGED <<items, stored>>
  BY <1>2 DEF items
<1>3. CASE /\ data[k] = Nothing /\ SetNew(k, v, exp)
           /\ stored' = [stored EXCEPT ![k] = @ \cup {v}]
  <2>1. PICK gone : data' = [[j \in Keys |-> IF j \in gone THEN Nothing ELSE data[j]]
                               EXCEPT ![k] = n + 1]
    BY Zenon, <1>3 DEF SetNew, add
  <2>2. node' = Append(node, new)
    BY <1>3 DEF SetNew
  <2> HIDE DEF new
  <2>3. /\ node' \in Seq(Item) /\ Len(node') = n + 1 /\ node'[n + 1] = new
        /\ \A i \in 1..n : node'[i] = node[i]
    BY <1>1, <2>2
  <2>4. data' \in [Keys -> 0..(n + 1)]
    BY <1>1, <2>1 DEF Entries, Nothing
  <2>5. \A j \in Keys : data'[j] # Nothing => node'[data'[j]].key = j
    <3> SUFFICES ASSUME NEW j \in Keys, data'[j] # Nothing
                 PROVE  node'[data'[j]].key = j
      OBVIOUS
    <3>1. CASE j = k
      BY <1>1, <2>1, <2>3, <3>1
    <3>2. CASE j # k
      <4>1. data'[j] = data[j] /\ data[j] \in 1..n
        BY <1>1, <2>1, <3>2 DEF Entries, Nothing
      <4>2. QED
        BY <2>3, <4>1 DEF Entries
    <3>3. QED
      BY <3>1, <3>2
  <2>6. /\ stored' \in [Keys -> SUBSET Values]
        /\ \A j \in Keys : stored[j] \subseteq stored'[j] /\ v \in stored'[k]
    BY <1>3 DEF Entries
  <2>7. \A i \in 1..(n + 1) : node'[i].val \in stored'[node'[i].key]
    <3> SUFFICES ASSUME NEW i \in 1..(n + 1) PROVE node'[i].val \in stored'[node'[i].key]
      OBVIOUS
    <3>1. CASE i = n + 1
      BY <1>1, <2>3, <2>6, <3>1
    <3>2. CASE i \in 1..n
      <4>1. node[i].key \in Keys /\ node[i].val \in stored[node[i].key]
        BY Zenon, <1>1, <3>2 DEF Entries, Item
      <4>2. QED
        BY <2>3, <2>6, <3>2, <4>1
    <3>3. QED
      BY <1>1, <3>1, <3>2
  <2>8. Entries'
    BY <2>3, <2>4, <2>5, <2>6, <2>7 DEF Entries
  <2>9. QED
    BY <1>3, <2>3, <2>8 DEF Added
<1>4. CASE /\ data[k] # Nothing /\ SetAgain(k, v, exp)
           /\ stored' = [stored EXCEPT ![k] = @ \cup {v}]
  <2> DEFINE d == data[k]
             old == [node EXCEPT ![d].val = v]
  <2>1. d \in 1..n /\ node[d].key = k
    BY <1>1, <1>4 DEF Entries, Nothing
  <2>2. node' = Append(old, new) /\ data' = [data EXCEPT ![k] = n + 1]
    BY <1>4 DEF SetAgain, add
  <2>3. /\ old \in Seq(Item) /\ Len(old) = n
        /\ old[d].key = k /\ old[d].val = v
        /\ \A i \in 1..n : i # d => old[i] = node[i]
    <3>1. [node[d] EXCEPT !.val = v] \in Item
      BY Zenon, <1>1, <2>1 DEF Item
    <3>2. old = [node EXCEPT ![d] = [node[d] EXCEPT !.val = v]]
      BY <1>1, <2>1
    <3> DEFINE e == [node[d] EXCEPT !.val = v]
    <3>3. e.key = k /\ e.val = v /\ e \in Item
      BY <1>1, <2>1, <3>1 DEF Item
    <3> HIDE DEF e
    <3>4. old = [node EXCEPT ![d] = e]
      BY <3>2 DEF e
    <3> HIDE DEF old
    <3>5. QED
      BY <1>1, <2>1, <3>3, <3>4
  <2> HIDE DEF old, new, d
  <2>4. /\ node' \in Seq(Item) /\ Len(node') = n + 1 /\ node'[n + 1] = new
        /\ \A i \in 1..n : node'[i] = old[i]
    BY <1>1, <2>2, <2>3
  <2>5. \A i \in 1..n : node'[i].key = node[i].key
    BY <2>1, <2>3, <2>4
  <2>6. data' \in [Keys -> 0..(n + 1)]
    BY <1>1, <2>2 DEF Entries
  <2>7. \A j \in Keys : data'[j] # Nothing => node'[data'[j]].key = j
    <3> SUFFICES ASSUME NEW j \in Keys, data'[j] # Nothing
                 PROVE  node'[data'[j]].key = j
      OBVIOUS
    <3>1. CASE j = k
      BY <1>1, <2>2, <2>4, <3>1 DEF Entries
    <3>2. CASE j # k
      <4>1. data'[j] = data[j] /\ data[j] \in 1..n
        BY <1>1, <2>2, <3>2 DEF Entries, Nothing
      <4>2. QED
        BY <2>5, <4>1 DEF Entries
    <3>3. QED
      BY <3>1, <3>2
  <2>8. /\ stored' \in [Keys -> SUBSET Values]
        /\ \A j \in Keys : stored[j] \subseteq stored'[j] /\ v \in stored'[k]
    BY <1>4 DEF Entries
  <2>9. \A i \in 1..(n + 1) : node'[i].val \in stored'[node'[i].key]
    <3> SUFFICES ASSUME NEW i \in 1..(n + 1) PROVE node'[i].val \in stored'[node'[i].key]
      OBVIOUS
    <3>1. CASE i = n + 1
      BY <1>1, <2>4, <2>8, <3>1
    <3>2. CASE i \in 1..n /\ i = d
      BY Zenon, <2>1, <2>3, <2>4, <2>8, <3>2
    <3>3. CASE i \in 1..n /\ i # d
      <4>1. node[i].key \in Keys /\ node[i].val \in stored[node[i].key]
        BY Zenon, <1>1, <3>3 DEF Entries, Item
      <4>2. QED
        BY <2>3, <2>4, <2>8, <3>3, <4>1
    <3>4. QED
      BY <1>1, <3>1, <3>2, <3>3
  <2>10. Entries'
    BY <2>4, <2>6, <2>7, <2>8, <2>9 DEF Entries
  <2>11. QED
    BY <1>4, <2>4, <2>5, <2>10 DEF Added
<1>5. QED
  BY Zenon, <1>0, <1>2, <1>3, <1>4 DEF SetCache

-----------------------------------------------------------------------------
(* The steps, part by part.                                                *)

\* A Set leaves the getters what they have: nodes keep their keys.
LEMMA SetGetting ==
  ASSUME Entries, Getting, UNCHANGED getting,
         \/ UNCHANGED <<node, stored>>
         \/ \E k \in Keys, v \in Values : Entries' /\ Added(k, v)
  PROVE  Getting'
<1>1. CASE UNCHANGED <<node, stored>>
  BY <1>1 DEF Getting, getting, Read
<1>2. CASE \E k \in Keys, v \in Values : Entries' /\ Added(k, v)
  <2>1. PICK k \in Keys, v \in Values : Entries' /\ Added(k, v)
    BY <1>2
  <2>2. /\ Len(node) \in Nat /\ Len(node') = Len(node) + 1
        /\ \A i \in 1..Len(node) : node'[i].key = node[i].key
        /\ \A j \in Keys : stored[j] \subseteq stored'[j]
    BY <2>1 DEF Added, Entries
  <2>3. UNCHANGED <<gPc, gKey, gNode, got>>
    BY DEF getting
  <2>4. gNode' \in [Getters -> 0..Len(node')]
    BY <2>2, <2>3 DEF Getting
  <2>5. ASSUME NEW g \in Getters
        PROVE  /\ gPc'[g] \in {"now", "lock", "type", "data"} =>
                    gKey'[g] \in Keys /\ gNode'[g] # Nothing /\ node'[gNode'[g]].key = gKey'[g]
               /\ gPc'[g] = "data" => \E a \in stored'[gKey'[g]] : got'[g][1] = a[1]
               /\ gPc'[g] = "idle" /\ got'[g] # NoValue =>
                    gKey'[g] \in Keys /\ 
                       (\/ got'[g] \in stored'[gKey'[g]]
                        \/ \E a, b \in stored'[gKey'[g]] : got'[g] = <<a[1], b[2]>>)
    <3>1. gNode[g] # Nothing => gNode[g] \in 1..Len(node)
      BY <2>2 DEF Getting, Nothing
    <3>2. gPc[g] \in {"now", "lock", "type", "data"} =>
            gKey[g] \in Keys /\ gNode[g] # Nothing /\ node'[gNode[g]].key = gKey[g]
      BY <2>2, <3>1 DEF Getting
    <3>3. gPc[g] = "data" => \E a \in stored'[gKey[g]] : got[g][1] = a[1]
      BY <2>2 DEF Getting
    <3>4. gPc[g] = "idle" /\ got[g] # NoValue =>
            gKey[g] \in Keys /\ 
               (\/ got[g] \in stored'[gKey[g]]
                \/ \E a, b \in stored'[gKey[g]] : got[g] = <<a[1], b[2]>>)
      BY <2>2 DEF Getting, Read
    <3>5. QED
      BY Zenon, <2>3, <3>2, <3>3, <3>4
  <2>6. QED
    BY <2>3, <2>4, <2>5 DEF Getting, Read
<1>3. QED
  BY Zenon, <1>1, <1>2

\* Removing entries from the map.
LEMMA DropEntries ==
  ASSUME Entries, UNCHANGED <<node, stored>>, DOMAIN data' = Keys,
         data' = [k \in Keys |-> data'[k]],
         \A k \in Keys : data'[k] = data[k] \/ data'[k] = Nothing
  PROVE  Entries'
BY DEF Entries, Nothing

\* The steps of the writers.
LEMMA WriterStep ==
  ASSUME Entries, Through, Getting, NEW w \in Writers, Set(w) \/ Store(w) \/ SetStored(w)
  PROVE  /\ Entries' /\ Through' /\ Getting'
         /\ data' = data \/ Len(node') > Len(node)
<1>0. UNCHANGED getting /\ sc' = sc
  BY DEF Set, Store, SetStored, WriteUnchanged
<1>1. CASE Set(w)
  <2>1. PICK k \in sc.keys, v \in Values, exp \in BOOLEAN : SetCache(k, v, exp)
    BY <1>1 DEF Set
  <2>2. k \in Keys /\ sc.mode = "direct"
    BY <1>1, CacheConstants DEF Through, Set
  <2>3. UNCHANGED <<node, data, stored>> \/ (Entries' /\ Added(k, v))
    BY Zenon, <2>1, <2>2, SetAdds
  <2>4. Entries'
    BY Zenon, <2>3 DEF Entries
  <2>5. Getting'
    BY <1>0, <2>2, <2>3, SetGetting
  <2>6. Through'
    BY <1>0, <1>1, <2>2 DEF Through, Set, OnlyStoredIsCached
  <2>7. data' = data \/ Len(node') > Len(node)
    BY <2>3 DEF Added, Entries
  <2>8. QED
    BY <2>4, <2>5, <2>6, <2>7
<1>2. CASE Store(w)
  <2>1. UNCHANGED <<items, stored>>
    BY <1>2 DEF Store
  <2>2. Entries' /\ Getting' /\ data' = data
    BY Zenon, <1>0, <2>1, SetGetting DEF Entries, items
  <2>3. PICK k \in sc.keys, v \in Values, exp \in BOOLEAN :
          \/ /\ wArg' = [wArg EXCEPT ![w] = <<k, v, exp>>] /\ wPc' = [wPc EXCEPT ![w] = "set"]
             /\ db' = [db EXCEPT ![k] = @ \cup {v}]
          \/ /\ wArg' = [wArg EXCEPT ![w] = <<k, v, exp>>] /\ wPc' = [wPc EXCEPT ![w] = "set"]
             /\ sc.mode = "semi" /\ db' = db
          \/ UNCHANGED <<db, wArg, wPc>>
    BY Zenon, <1>2 DEF Store
  <2>4. k \in Keys
    BY CacheConstants DEF Through
  <2>5. CASE UNCHANGED <<db, wArg, wPc>>
    <3>1. db' = db /\ wArg' = wArg /\ wPc' = wPc /\ stored' = stored
      BY <2>1, <2>5
    <3>2. Through'
      BY Zenon, <1>0, <3>1 DEF Through, OnlyStoredIsCached
    <3>3. QED
      BY Zenon, <2>2, <3>2
  <2>6. CASE /\ wArg' = [wArg EXCEPT ![w] = <<k, v, exp>>] /\ wPc' = [wPc EXCEPT ![w] = "set"]
             /\ db' = [db EXCEPT ![k] = @ \cup {v}] \/ (sc.mode = "semi" /\ db' = db)
    <3>1. /\ DOMAIN wPc' = Writers /\ DOMAIN wArg' = Writers
          /\ db' \in [Keys -> SUBSET Values] /\ \A j \in Keys : db[j] \subseteq db'[j]
          /\ wArg'[w] = <<k, v, exp>>
          /\ \A x \in Writers : x # w => wPc'[x] = wPc[x] /\ wArg'[x] = wArg[x]
          /\ sc.mode \in {"sync", "async"} => v \in db'[k]
      BY <2>4, <2>6 DEF Through
    <3>2. /\ wArg'[w][1] \in Keys /\ wArg'[w][2] \in Values /\ wArg'[w][3] \in BOOLEAN
          /\ sc.mode \in {"sync", "async"} => wArg'[w][2] \in db'[wArg'[w][1]]
      BY <2>4, <3>1
    <3>3. ASSUME NEW x \in Writers, x # w, wPc'[x] = "set"
          PROVE  /\ wArg'[x][1] \in Keys /\ wArg'[x][2] \in Values /\ wArg'[x][3] \in BOOLEAN
                 /\ sc.mode \in {"sync", "async"} => wArg'[x][2] \in db'[wArg'[x][1]]
      BY Zenon, <3>1, <3>3 DEF Through
    <3>4. OnlyStoredIsCached'
      BY <1>0, <2>1, <3>1 DEF Through, OnlyStoredIsCached
    <3>5. \A x \in Writers : wPc'[x] = "set" =>
             /\ wArg'[x][1] \in Keys /\ wArg'[x][2] \in Values /\ wArg'[x][3] \in BOOLEAN
             /\ sc'.mode \in {"sync", "async"} => wArg'[x][2] \in db'[wArg'[x][1]]
      BY Zenon, <1>0, <3>2, <3>3
    <3>6. sc' \in Scenarios
      BY Zenon, <1>0 DEF Through
    <3>7. Through'
      BY Zenon, <3>1, <3>4, <3>5, <3>6 DEF Through
    <3>8. QED
      BY Zenon, <2>2, <3>7
  <2>7. QED
    BY Zenon, <2>2, <2>3, <2>5, <2>6
<1>3. CASE SetStored(w)
  <2> DEFINE k == wArg[w][1]
             v == wArg[w][2]
  <2>1. /\ wPc[w] = "set" /\ (UNCHANGED <<items, stored>> \/ SetCache(k, v, wArg[w][3])) /\ db' = db
        /\ wPc' = [wPc EXCEPT ![w] = "idle"] /\ wArg' = [wArg EXCEPT ![w] = <<>>]
    BY Zenon, <1>3 DEF SetStored
  <2>2. /\ k \in Keys /\ v \in Values /\ wArg[w][3] \in BOOLEAN
        /\ sc.mode \in {"sync", "async"} => v \in db[k]
    BY Zenon, <2>1 DEF Through
  <2> HIDE DEF k, v
  <2>3. UNCHANGED <<node, data, stored>> \/ (Entries' /\ Added(k, v))
    BY Zenon, <2>1, <2>2, SetAdds DEF items
  <2>4. Entries'
    BY Zenon, <2>3 DEF Entries
  <2>5. Getting'
    BY <1>0, <2>2, <2>3, SetGetting
  <2>6. OnlyStoredIsCached'
    <3>1. stored' = stored \/ stored' = [stored EXCEPT ![k] = @ \cup {v}]
      BY <2>3 DEF Added
    <3>2. /\ stored \in [Keys -> SUBSET Values]
          /\ sc.mode \in {"sync", "async"} => \A j \in Keys : stored[j] \subseteq db[j]
      BY Zenon DEF OnlyStoredIsCached, Through, Entries
    <3>3. SUFFICES ASSUME sc.mode \in {"sync", "async"}, NEW j \in Keys, NEW x \in stored'[j]
                   PROVE  x \in db[j]
      BY Zenon, <1>0, <2>1 DEF OnlyStoredIsCached
    <3>4. x \in stored[j] \/ (j = k /\ x = v)
      BY <3>1, <3>2
    <3>5. QED
      BY Zenon, <2>2, <3>2, <3>3, <3>4
  <2>7. Through'
    BY <1>0, <2>1, <2>6 DEF Through
  <2>8. data' = data \/ Len(node') > Len(node)
    BY <2>3 DEF Added, Entries
  <2>9. QED
    BY <2>4, <2>5, <2>7, <2>8
<1>4. QED
  BY <1>1, <1>2, <1>3

\* A getter that ends, or goes on, with the others as they were.
LEMMA GetterMoves ==
  ASSUME Getting, UNCHANGED <<node, stored>>, NEW g \in Getters,
         DOMAIN gPc' = Getters, DOMAIN gKey' = Getters, DOMAIN got' = Getters,
         gNode' \in [Getters -> 0..Len(node)],
         \A h \in Getters : h # g => /\ gPc'[h] = gPc[h] /\ gKey'[h] = gKey[h]
                                     /\ gNode'[h] = gNode[h] /\ got'[h] = got[h],
         gPc'[g] \in {"now", "lock", "type", "data"} =>
           gKey'[g] \in Keys /\ gNode'[g] # Nothing /\ node[gNode'[g]].key = gKey'[g],
         gPc'[g] = "data" => \E a \in stored[gKey'[g]] : got'[g][1] = a[1],
         gPc'[g] = "idle" /\ got'[g] # NoValue =>
           gKey'[g] \in Keys /\ (got'[g] \in stored[gKey'[g]] \/ Read(gKey'[g], got'[g]))
  PROVE  Getting'
<1>1. \A k, v : Read(k, v)' <=> Read(k, v)
  BY Zenon DEF Read
<1>2. ASSUME NEW h \in Getters
      PROVE  /\ gPc'[h] \in {"now", "lock", "type", "data"} =>
                  gKey'[h] \in Keys /\ gNode'[h] # Nothing /\ node'[gNode'[h]].key = gKey'[h]
             /\ gPc'[h] = "data" => \E a \in stored'[gKey'[h]] : got'[h][1] = a[1]
             /\ gPc'[h] = "idle" /\ got'[h] # NoValue =>
                  gKey'[h] \in Keys /\ (got'[h] \in stored'[gKey'[h]] \/ Read(gKey'[h], got'[h]))
  <2>1. CASE h = g
    BY Zenon, <2>1
  <2>2. CASE h # g
    BY <2>2 DEF Getting
  <2>3. QED
    BY Zenon, <2>1, <2>2
<1>3. QED
  BY Zenon, <1>2 DEF Getting, Read

\* The steps of the getters.  One removes an entry only when it is past its
\* deadline.
LEMMA GetterStep ==
  ASSUME Entries, Marks, Through, Getting, NEW g \in Getters, g \in sc.getters,
         GetRead(g) \/ GetNow(g) \/ GetLocked(g) \/ GetValue(g)
  PROVE  /\ Entries' /\ Marks' /\ Through' /\ Getting'
         /\ \A k \in Keys : data'[k] = data[k] \/ data[k] \in expired
<1> USE DEF GetTo, GetEnd
<1>0. UNCHANGED <<expired, writing, tick, db, stored, node>>
  BY Zenon DEF GetRead, GetNow, GetLocked, GetValue, GetUnchanged, Drop, closing
<1>1. Through'
  BY Zenon, <1>0 DEF Through, writing, OnlyStoredIsCached
<1>2. CASE GetRead(g)
  <2>1. PICK k \in sc.keys :
          /\ gKey' = [gKey EXCEPT ![g] = k] /\ gNode' = [gNode EXCEPT ![g] = data[k]]
          /\ IF data[k] = Nothing THEN GetEnd(g, NoValue)
             ELSE GetTo(g, "now") /\ UNCHANGED <<got, gNow>>
    BY Zenon, <1>2 DEF GetRead
  <2>2. k \in Keys /\ data' = data
    BY Zenon, <1>2, CacheConstants DEF Through, GetRead
  <2>3. Entries'
    BY Zenon, <1>0, <2>2 DEF Entries
  <2>4. Marks'
    BY Zenon, <1>0, <2>1 DEF Marks
  <2>5. data[k] \in 0..Len(node) /\ (data[k] # Nothing => node[data[k]].key = k)
    BY Zenon, <2>2 DEF Entries
  <2>6. gNode' \in [Getters -> 0..Len(node)] /\ gNode'[g] = data[k]
    BY Zenon, <2>1, <2>5 DEF Getting
  <2>7. Getting'
    <3>1. CASE data[k] = Nothing
      <4>1. /\ DOMAIN gPc' = Getters /\ DOMAIN gKey' = Getters /\ DOMAIN got' = Getters
            /\ \A h \in Getters : h # g => /\ gPc'[h] = gPc[h] /\ gKey'[h] = gKey[h]
                                           /\ gNode'[h] = gNode[h] /\ got'[h] = got[h]
            /\ gPc'[g] = "idle" /\ got'[g] = NoValue
        BY Zenon, <2>1, <3>1 DEF Getting
      <4>2. QED
        BY Zenon, <1>0, <2>6, <4>1, GetterMoves
    <3>2. CASE data[k] # Nothing
      <4>1. /\ DOMAIN gPc' = Getters /\ DOMAIN gKey' = Getters /\ DOMAIN got' = Getters
            /\ \A h \in Getters : h # g => /\ gPc'[h] = gPc[h] /\ gKey'[h] = gKey[h]
                                           /\ gNode'[h] = gNode[h] /\ got'[h] = got[h]
            /\ gPc'[g] = "now" /\ gKey'[g] = k
        BY Zenon, <2>1, <3>2 DEF Getting
      <4>2. gKey'[g] \in Keys /\ gNode'[g] # Nothing /\ node[gNode'[g]].key = gKey'[g]
        BY Zenon, <2>2, <2>5, <2>6, <3>2, <4>1
      <4>3. QED
        BY Zenon, <1>0, <2>6, <4>1, <4>2, GetterMoves
    <3>3. QED
      BY Zenon, <3>1, <3>2
  <2>8. QED
    BY Zenon, <1>1, <2>2, <2>3, <2>4, <2>7
<1>3. CASE GetNow(g)
  <2>1. /\ gPc[g] = "now" /\ gNow' = [gNow EXCEPT ![g] = expired]
        /\ gPc' = [gPc EXCEPT ![g] = IF gNode[g] \in expired THEN "lock" ELSE "type"]
        /\ UNCHANGED <<data, gKey, gNode, got>>
    BY Zenon, <1>3 DEF GetNow
  <2>2. Entries'
    BY Zenon, <1>0, <2>1 DEF Entries
  <2>3. Marks'
    BY Zenon, <1>0, <2>1 DEF Marks
  <2>4. /\ DOMAIN gPc' = Getters /\ DOMAIN gKey' = Getters /\ DOMAIN got' = Getters
        /\ gNode' \in [Getters -> 0..Len(node)]
        /\ \A h \in Getters : h # g => /\ gPc'[h] = gPc[h] /\ gKey'[h] = gKey[h]
                                       /\ gNode'[h] = gNode[h] /\ got'[h] = got[h]
        /\ gPc'[g] \in {"lock", "type"}
        /\ gKey'[g] \in Keys /\ gNode'[g] # Nothing /\ node[gNode'[g]].key = gKey'[g]
    BY Zenon, <2>1 DEF Getting
  <2>5. Getting'
    BY Zenon, <1>0, <2>4, GetterMoves
  <2>6. QED
    BY Zenon, <1>1, <2>1, <2>2, <2>3, <2>5
<1>4. CASE GetLocked(g)
  <2> DEFINE k == gKey[g]
             i == data[k]
  <2>1. /\ gPc[g] = "lock" /\ UNCHANGED <<gKey, gNode>>
        /\ gPc' = [gPc EXCEPT ![g] = "idle"] /\ gNow' = [gNow EXCEPT ![g] = {}]
        /\ \/ data' = data /\ got' = [got EXCEPT ![g] = NoValue]
           \/ /\ i \in gNow[g] /\ data' = [data EXCEPT ![k] = Nothing]
              /\ got' = [got EXCEPT ![g] = NoValue]
           \/ i # Nothing /\ data' = data /\ got' = [got EXCEPT ![g] = node[i].val]
    BY Zenon, <1>4 DEF GetLocked, Drop
  <2>2. k \in Keys
    BY Zenon, <2>1 DEF Getting
  <2>3. i \in gNow[g] => i \in expired
    BY Zenon DEF Marks
  <2>4. i # Nothing => node[i].val \in stored[k]
    <3>1. i # Nothing => i \in 1..Len(node) /\ node[i].key = k
      BY <2>2 DEF Entries, Nothing
    <3>2. QED
      BY Zenon, <3>1 DEF Entries
  <2> HIDE DEF i
  <2>5. \A j \in Keys : data'[j] = data[j] \/ data[j] \in expired
    BY <2>1, <2>2, <2>3 DEF i, Entries
  <2>6. Entries'
    <3>1. /\ data' = [j \in Keys |-> data'[j]] /\ DOMAIN data' = Keys
          /\ \A j \in Keys : data'[j] = data[j] \/ data'[j] = Nothing
      BY Zenon, <2>1, <2>2 DEF Entries
    <3>2. QED
      BY Zenon, <1>0, <3>1, DropEntries
  <2>7. Marks'
    BY Zenon, <1>0, <2>1 DEF Marks
  <2>8. got'[g] = NoValue \/ got'[g] \in stored[k]
    BY Zenon, <2>1, <2>4 DEF Getting
  <2>9. /\ DOMAIN gPc' = Getters /\ DOMAIN gKey' = Getters /\ DOMAIN got' = Getters
        /\ gNode' \in [Getters -> 0..Len(node)]
        /\ \A h \in Getters : h # g => /\ gPc'[h] = gPc[h] /\ gKey'[h] = gKey[h]
                                       /\ gNode'[h] = gNode[h] /\ got'[h] = got[h]
        /\ gPc'[g] = "idle" /\ gKey'[g] = k
    BY Zenon, <2>1 DEF Getting
  <2>10. Getting'
    BY Zenon, <1>0, <2>2, <2>8, <2>9, GetterMoves
  <2>11. QED
    BY Zenon, <1>1, <2>5, <2>6, <2>7, <2>10
<1>5. CASE GetValue(g)
  <2> DEFINE v == node[gNode[g]].val
  <2>1. /\ UNCHANGED <<data, gKey, gNode>> /\ gNow' = [gNow EXCEPT ![g] = {}]
        /\ \/ /\ gPc[g] = "type" /\ gPc' = [gPc EXCEPT ![g] = "data"]
              /\ got' = [got EXCEPT ![g] = <<v[1], 0>>]
           \/ /\ gPc[g] = "data" /\ gPc' = [gPc EXCEPT ![g] = "idle"]
              /\ got' = [got EXCEPT ![g] = <<got[g][1], v[2]>>]
    BY Zenon, <1>5 DEF GetValue
  <2>2. gKey[g] \in Keys /\ v \in stored[gKey[g]]
    <3>1. gKey[g] \in Keys /\ gNode[g] \in 1..Len(node) /\ node[gNode[g]].key = gKey[g]
      BY <2>1 DEF Getting, Nothing
    <3>2. QED
      BY Zenon, <3>1 DEF Entries
  <2>3. gNode[g] # Nothing /\ node[gNode[g]].key = gKey[g]
    BY Zenon, <2>1 DEF Getting
  <2> HIDE DEF v
  <2>4. Entries' /\ Marks'
    BY Zenon, <1>0, <2>1 DEF Entries, Marks
  <2>5. /\ DOMAIN gPc' = Getters /\ DOMAIN gKey' = Getters /\ DOMAIN got' = Getters
        /\ gNode' \in [Getters -> 0..Len(node)]
        /\ \A h \in Getters : h # g => /\ gPc'[h] = gPc[h] /\ gKey'[h] = gKey[h]
                                       /\ gNode'[h] = gNode[h] /\ got'[h] = got[h]
        /\ gKey'[g] = gKey[g] /\ gNode'[g] = gNode[g]
    BY Zenon, <2>1 DEF Getting
  <2>6. CASE gPc[g] = "type"
    <3>1. gPc'[g] = "data" /\ got'[g][1] = v[1]
      BY <2>1, <2>6 DEF Getting
    <3>2. Getting'
      BY Zenon, <1>0, <2>2, <2>3, <2>5, <3>1, GetterMoves
    <3>3. QED
      BY Zenon, <1>1, <2>1, <2>4, <3>2
  <2>7. CASE gPc[g] = "data"
    <3>1. gPc'[g] = "idle" /\ got'[g] = <<got[g][1], v[2]>>
      BY <2>1, <2>7 DEF Getting
    <3>2. PICK a \in stored[gKey[g]] : got[g][1] = a[1]
      BY Zenon, <2>7 DEF Getting
    <3>3. Read(gKey[g], got'[g])
      BY Zenon, <2>2, <3>1, <3>2 DEF Read
    <3>4. Getting'
      BY Zenon, <1>0, <2>2, <2>5, <3>1, <3>3, GetterMoves
    <3>5. QED
      BY <1>1, <2>1, <2>4, <3>4
  <2>8. QED
    BY Zenon, <2>1, <2>6, <2>7
<1>6. QED
  BY Zenon, <1>2, <1>3, <1>4, <1>5

\* The other steps: Delete, the clock, the cleaner and Close.
LEMMA OtherStep ==
  ASSUME Entries, Marks, Through, Getting, deletes \in Nat,
         \/ \E k \in sc.keys : Delete(k)
         \/ \E i \in DOMAIN node : Expire(i)
         \/ Tick \/ Clean \/ CleanerEnds
         \/ \E c \in sc.closers : Close(c)
         \/ UNCHANGED vars
  PROVE  /\ Entries' /\ Marks' /\ Through' /\ Getting' /\ deletes' \in Nat
         /\ \A k \in Keys : \/ data'[k] = data[k] \/ data[k] \in expired
                            \/ deletes' > deletes
<1>0. UNCHANGED <<node, stored, writing, getting, db>>
  BY Zenon DEF Delete, Drop, Expire, Tick, Clean, CleanSeen, CleanerEnds, Close, CleanerUnchanged,
     items, vars
<1>1. Through' /\ Getting'
  BY Zenon, <1>0, SetGetting DEF Through, writing, OnlyStoredIsCached
<1>2. ASSUME data' = data PROVE Entries'
  BY Zenon, <1>0, <1>2 DEF Entries
<1>3. ASSUME UNCHANGED <<expired, tick>> PROVE Marks'
  BY <1>0, <1>3 DEF Marks, getting
<1>4. ASSUME NEW k \in sc.keys, Delete(k)
      PROVE  Entries' /\ Marks' /\ deletes' = deletes + 1
  <2>1. data' = [data EXCEPT ![k] = Nothing] /\ deletes' = deletes + 1
        /\ UNCHANGED <<expired, tick>>
    BY Zenon, <1>4 DEF Delete, Drop, closing
  <2>2. /\ data' = [j \in Keys |-> data'[j]] /\ DOMAIN data' = Keys
        /\ \A j \in Keys : data'[j] = data[j] \/ data'[j] = Nothing
    BY Zenon, <2>1 DEF Entries
  <2>3. QED
    BY Zenon, <1>0, <1>3, <2>1, <2>2, DropEntries
<1>5. ASSUME NEW i \in DOMAIN node, Expire(i)
      PROVE  Entries' /\ Marks' /\ UNCHANGED <<data, deletes>>
  <2>1. expired' = expired \cup {i} /\ UNCHANGED <<data, deletes, tick>>
    BY <1>5 DEF Expire, items, closing
  <2>2. Marks'
    BY <1>0, <2>1 DEF Marks, getting
  <2>3. QED
    BY <1>2, <2>1, <2>2
<1>6. CASE Tick
  <2>1. tick' = expired /\ UNCHANGED <<data, expired, deletes>>
    BY Zenon, <1>6 DEF Tick, CleanerUnchanged
  <2>2. Marks'
    BY Zenon, <1>0, <2>1 DEF Marks, getting
  <2>3. QED
    BY Zenon, <1>1, <1>2, <2>1, <2>2
<1>7. CASE Clean
  <2>1. PICK seen : data' = [k \in Keys |-> IF k \in seen /\ data[k] \in tick THEN Nothing
                                            ELSE data[k]]
    BY Zenon, <1>7 DEF Clean, CleanSeen
  <2>2. tick' = {} /\ UNCHANGED <<expired, deletes>>
    BY <1>7 DEF Clean, CleanSeen, CleanerUnchanged
  <2>3. Marks'
    BY <1>0, <2>2 DEF Marks, getting
  <2>4. /\ data' = [j \in Keys |-> data'[j]] /\ DOMAIN data' = Keys
        /\ \A j \in Keys : data'[j] = data[j] \/ data'[j] = Nothing
    BY <2>1
  <2>5. Entries'
    BY Zenon, <1>0, <2>4, DropEntries
  <2>6. \A k \in Keys : data'[k] = data[k] \/ data[k] \in expired
    BY <2>1 DEF Marks
  <2>7. QED
    BY Zenon, <1>1, <2>2, <2>3, <2>5, <2>6
<1>8. CASE CleanerEnds \/ (\E c \in sc.closers : Close(c)) \/ UNCHANGED vars
  <2>1. UNCHANGED <<data, expired, tick, deletes>>
    BY <1>8 DEF CleanerEnds, Close, CleanerUnchanged, items, vars, closing
  <2>2. QED
    BY Zenon, <1>1, <1>2, <1>3, <2>1
<1>9. QED
  BY <1>1, <1>4, <1>5, <1>6, <1>7, <1>8

-----------------------------------------------------------------------------
\* The inductive invariant.
CacheInv == Entries /\ Marks /\ Through /\ Getting /\ deletes \in Nat

\* NewBuildInMapCache.
LEMMA InitCache == Init => CacheInv
<1> SUFFICES ASSUME Init PROVE CacheInv
  OBVIOUS
<1>1. Len(node) = 0 /\ node \in Seq(Item)
  BY DEF Init
<1>2. Entries
  BY <1>1 DEF Init, Entries, Nothing
<1>3. Marks
  BY Zenon DEF Init, Marks
<1>4. Through
  BY Zenon DEF Init, Through, OnlyStoredIsCached
<1>5. Getting
  BY <1>1 DEF Init, Getting, Nothing
<1>6. deletes \in Nat
  BY Zenon DEF Init
<1>7. QED
  BY <1>2, <1>3, <1>4, <1>5, <1>6 DEF CacheInv

\* Every step keeps the invariant, and takes out of the map only what is expired,
\* evicted by a Set, or deleted.
LEMMA CacheStep ==
  ASSUME CacheInv, [Next]_vars
  PROVE  /\ CacheInv'
         /\ \A k \in Keys : \/ data'[k] = data[k] \/ data[k] \in expired
                            \/ Len(node') > Len(node) \/ deletes' > deletes
<1>0. Entries /\ Marks /\ Through /\ Getting /\ deletes \in Nat
  BY DEF CacheInv
<1>1. ASSUME NEW w \in Writers, Set(w) \/ Store(w) \/ SetStored(w)
      PROVE  CacheInv' /\ (data' = data \/ Len(node') > Len(node))
  <2>1. UNCHANGED <<expired, gNow, tick, deletes>>
    BY <1>1 DEF Set, Store, SetStored, WriteUnchanged, getting, closing
  <2>2. Marks'
    BY Zenon, <1>0, <2>1 DEF Marks
  <2>3. QED
    BY Zenon, <1>0, <1>1, <2>1, <2>2, WriterStep DEF CacheInv
<1>2. ASSUME NEW g \in sc.getters, GetRead(g) \/ GetNow(g) \/ GetLocked(g) \/ GetValue(g)
      PROVE  CacheInv' /\ \A k \in Keys : data'[k] = data[k] \/ data[k] \in expired
  <2>1. g \in Getters
    BY Zenon, <1>0, CacheConstants DEF Through
  <2>2. deletes' = deletes
    BY Zenon, <1>2 DEF GetRead, GetNow, GetLocked, GetValue, GetUnchanged
  <2>3. QED
    BY Zenon, <1>0, <1>2, <2>1, <2>2, GetterStep DEF CacheInv
<1>3. CASE \/ \E k \in sc.keys : Delete(k)
           \/ \E i \in DOMAIN node : Expire(i)
           \/ Tick \/ Clean \/ CleanerEnds
           \/ \E c \in sc.closers : Close(c)
           \/ UNCHANGED vars
  BY <1>0, <1>3, OtherStep DEF CacheInv
<1>4. QED
  BY <1>1, <1>2, <1>3 DEF Next

\* The invariant holds in every reachable state.
LEMMA CacheInvariant == Spec => []CacheInv
<1>1. CacheInv /\ [Next]_vars => CacheInv'
  BY CacheStep
<1>2. QED
  BY <1>1, InitCache, PTL DEF Spec

\* What comes out of the cache was put in: Get, which reads node.value without
\* the lock while Set overwrites it, returns words of values that were Set for
\* its key; and a WriteThroughCache whose storeFunc failed caches nothing, but for
\* SemiAsyncSet.
THEOREM CacheTellsTheTruth == Spec => []ValuesTrue
<1>1. CacheInv => ValuesTrue
  <2> SUFFICES ASSUME CacheInv PROVE GetReturnsSet /\ OnlyStoredIsCached
    BY Zenon DEF ValuesTrue
  <2>1. OnlyStoredIsCached
    BY Zenon DEF CacheInv, Through
  <2>2. ASSUME NEW g \in Getters, gPc[g] = "idle", got[g] # NoValue
        PROVE  \E v \in stored[gKey[g]] :
                 /\ v[2] = got[g][2]
                 /\ v[1] = got[g][1] \/ \E u \in stored[gKey[g]] : u[1] = got[g][1] /\ u[1] # v[1]
    <3>1. got[g] \in stored[gKey[g]] \/ Read(gKey[g], got[g])
      BY Zenon, <2>2 DEF CacheInv, Getting
    <3>2. CASE got[g] \in stored[gKey[g]]
      BY Zenon, <3>2
    <3>3. CASE Read(gKey[g], got[g])
      <4>1. PICK a, b \in stored[gKey[g]] : got[g] = <<a[1], b[2]>>
        BY Zenon, <3>3 DEF Read
      <4>2. b[2] = got[g][2] /\ a[1] = got[g][1]
        BY <4>1
      <4>3. QED
        BY <4>2
    <3>4. QED
      BY Zenon, <3>1, <3>2, <3>3
  <2>3. QED
    BY Zenon, <2>1, <2>2 DEF GetReturnsSet
<1>2. QED
  BY <1>1, CacheInvariant, PTL

\* Nobody loses an entry that is alive: when Get or the cleaner looks at the
\* deadline in one critical section and deletes in a later one, a Set between the
\* two saves the entry.
THEOREM LiveEntriesAreKept == Spec => LiveEntriesStay
<1>1. CacheInv /\ [Next]_vars =>
        [\A k \in Keys : data[k] # Nothing /\ data'[k] = Nothing /\ data[k] \notin expired
           => Len(node') > Len(node) \/ deletes' > deletes]_vars
  BY CacheStep
<1>2. QED
  BY <1>1, CacheInvariant, PTL DEF Spec, LiveEntriesStay
=============================================================================
