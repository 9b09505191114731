----------------------------- MODULE LocalCache -----------------------------
(***************************************************************************)
(* BuildInMapCache of cache/localCache.go: a map and an LRU list behind a  *)
(* lock, a goroutine that removes expired entries, Get, whose value is     *)
(* read outside the lock, and Close; and WriteThroughCache                 *)
(* (cache/write_through.go) on top of it.                                  *)
(*                                                                         *)
(* Nodes of the list are numbered as they are made.  A value is            *)
(* <<type, data>>, the two words of a Go interface.  Time is abstracted: a *)
(* node with a deadline expires at some point.                             *)
(***************************************************************************)
EXTENDS Integers, Sequences, FiniteSets, FiniteSetsExt

CONSTANTS
  Keys, Writers, Getters, Closers,
  Values, Unsized,    \* the values, and those among them that Of refuses (nil)
  PairSize,           \* the size of a pair with each of the others
  Capacity, Word,     \* capacity, and 2^32
  CleanMax,           \* the entries the cleaner visits: 1001
  Scenarios           \* how the writers write (mode: "direct", "sync", "semi" or
                      \* "async"), which processes there are, and bounds on the
                      \* calls of Set (sets) and Delete (deletes)

ASSUME CacheConstants ==
  /\ Unsized \subseteq Values /\ PairSize \in [Values \ Unsized -> 1..(Word - 1)]
  /\ Capacity \in 1..(Word - 1)
  /\ CleanMax \in Nat \ {0}
  /\ \A s \in Scenarios : /\ s.mode \in {"direct", "sync", "semi", "async"} /\ s.keys \subseteq Keys
                           /\ s.getters \subseteq Getters /\ s.closers \subseteq Closers

VARIABLES
  node,                       \* the items: key, value, size, whether it has a deadline
  list,                       \* from head to tail
  data, size, expired,        \* BuildInMapCache.data, size; nodes past their deadline
  sc, wPc, wArg,              \* the scenario; the writers
  gPc, gKey, gNode, gNow, got,   \* the getters
  cleaner, tick, chan,        \* the cleaner; BuildInMapCache.close
  closes,                     \* how Close ended, per caller
  db,                         \* the values storeFunc has stored, per key
  stored,                     \* history: the values Set, per key
  deletes,
  crashed                     \* whether the program has crashed, and why

items   == <<node, list, data, size>>
writing == <<sc, wPc, wArg>>
getting == <<gPc, gKey, gNode, gNow, got>>
closing == <<cleaner, tick, chan, closes>>
vars == <<items, expired, writing, getting, closing, db, stored, deletes, crashed>>

Nothing == 0
NoValue == <<"nil", 0>>

Runs == crashed = "no"

Init ==
  /\ node = <<>> /\ list = <<>> /\ data = [k \in Keys |-> Nothing] /\ size = 0 /\ expired = {}
  /\ sc \in Scenarios /\ wPc = [w \in Writers |-> "idle"] /\ wArg = [w \in Writers |-> <<>>]
  /\ gPc = [g \in Getters |-> "idle"] /\ gKey = [g \in Getters |-> Nothing]
  /\ gNode = [g \in Getters |-> Nothing] /\ gNow = [g \in Getters |-> {}]
  /\ got = [g \in Getters |-> NoValue]
  /\ cleaner = "select" /\ tick = {} /\ chan = "open"
  /\ closes = [c \in Closers |-> "none"]
  /\ db = [k \in Keys |-> {}] /\ stored = [k \in Keys |-> {}]
  /\ deletes = 0 /\ crashed = "no"

Sizes(ids) == SumFunction([i \in DOMAIN ids |-> node[ids[i]].size])

moveToHead(ids, i) == <<i>> \o SelectSeq(ids, LAMBDA j : j # i)

-----------------------------------------------------------------------------
(* Set *)

\* The nodes that the eviction loop of Set removes for a pair of size s: from
\* the tail, until the margin suffices; panicking at the head.
Margin == (Capacity - size) % Word
Suffices(c, s) == Margin + Sizes(SubSeq(list, Len(list) - c + 1, Len(list))) >= s

CanEvict(s) == \E c \in 0..Len(list) : Suffices(c, s)

Evicted(s) ==
  IF (size + s) % Word <= Capacity THEN <<>>
  ELSE LET c == Min({n \in 0..Len(list) : Suffices(n, s)})
       IN  SubSeq(list, Len(list) - c + 1, Len(list))

\* set: a new node at the head, in a list of nodes kept.
add(k, v, exp, kept, rest, total) ==
  LET i == Len(node) + 1
  IN  /\ list' = <<i>> \o kept
      /\ data' = [rest EXCEPT ![k] = i]
      /\ size' = (total + PairSize[v]) % Word

NewItem(k, v, exp) == [key |-> k, val |-> v, size |-> PairSize[v], expires |-> exp]

\* What is evicted stays in the map.
SetNew_KeepData(k, v, exp) ==
  LET out == Evicted(PairSize[v])
  IN  /\ add(k, v, exp, SubSeq(list, 1, Len(list) - Len(out)), data, size - Sizes(out))
      /\ node' = Append(node, NewItem(k, v, exp))

\* Set of a key that is not in the map: room is made from the tail, and the
\* keys of the nodes removed leave the map, whichever node they stand for now.
SetNew(k, v, exp) ==
  LET out == Evicted(PairSize[v])
      gone == {node[out[i]].key : i \in DOMAIN out}
  IN  /\ add(k, v, exp, SubSeq(list, 1, Len(list) - Len(out)),
             [j \in Keys |-> IF j \in gone THEN Nothing ELSE data[j]], size - Sizes(out))
      /\ node' = Append(node, NewItem(k, v, exp))

\* Set of a key that is in the map: its node takes the value and moves to the
\* head, and a second node is added without a look at the capacity.
SetAgain(k, v, exp) ==
  /\ add(k, v, exp, moveToHead(list, data[k]), data, size)
  /\ node' = Append([node EXCEPT ![data[k]].val = v], NewItem(k, v, exp))

\* The Set of the cache: an error when Of does not know the size of the value
\* (that of a key, a string, it always knows); a panic when eviction runs past the
\* head.
SetCache(k, v, exp) ==
  \/ v \in Unsized /\ UNCHANGED <<items, stored, crashed>>
  \/ /\ v \notin Unsized
     /\ IF data[k] = Nothing /\ (size + PairSize[v]) % Word > Capacity /\ ~CanEvict(PairSize[v])
          THEN crashed' = "overran" /\ UNCHANGED <<items, stored>>
          ELSE /\ IF data[k] = Nothing THEN SetNew(k, v, exp) ELSE SetAgain(k, v, exp)
               /\ stored' = [stored EXCEPT ![k] = @ \cup {v}] /\ UNCHANGED crashed

WriteUnchanged == UNCHANGED <<expired, sc, getting, closing, deletes>>

Set(w) ==
  /\ wPc[w] = "idle" /\ sc.mode = "direct" /\ Runs /\ Len(node) < sc.sets
  /\ \E k \in sc.keys, v \in Values, exp \in BOOLEAN : SetCache(k, v, exp)
  /\ WriteUnchanged /\ UNCHANGED <<wPc, wArg, db>>

\* Set, SemiAsyncSet and AsyncSet of a WriteThroughCache up to the Set of its
\* cache: storeFunc succeeds, or its error ends Set, is overlooked by
\* SemiAsyncSet's goroutine, and is fatal in AsyncSet's.
Store(w) ==
  /\ wPc[w] = "idle" /\ sc.mode # "direct" /\ Runs
  /\ \E k \in sc.keys, v \in Values, exp \in BOOLEAN :
       LET Goes == wArg' = [wArg EXCEPT ![w] = <<k, v, exp>>] /\ wPc' = [wPc EXCEPT ![w] = "set"]
       IN  \/ Goes /\ db' = [db EXCEPT ![k] = @ \cup {v}] /\ UNCHANGED crashed
           \/ sc.mode = "semi" /\ Goes /\ UNCHANGED <<db, crashed>>
           \/ sc.mode = "sync" /\ UNCHANGED <<db, crashed, wArg, wPc>>
           \/ sc.mode = "async" /\ crashed' = "fatal" /\ UNCHANGED <<db, wArg, wPc>>
  /\ WriteUnchanged /\ UNCHANGED <<items, stored>>

\* ... and the Set of its cache, whose error is fatal in the two goroutines.
SetStored(w) ==
  /\ wPc[w] = "set" /\ Runs /\ Len(node) < sc.sets
  /\ IF wArg[w][2] \in Unsized /\ sc.mode # "sync"
       THEN crashed' = "fatal" /\ UNCHANGED <<items, stored>>
       ELSE SetCache(wArg[w][1], wArg[w][2], wArg[w][3])
  /\ wPc' = [wPc EXCEPT ![w] = "idle"] /\ wArg' = [wArg EXCEPT ![w] = <<>>]
  /\ WriteUnchanged /\ UNCHANGED db

-----------------------------------------------------------------------------
(* Get and Delete *)

Expire(i) ==
  /\ node[i].expires /\ i \notin expired /\ expired' = expired \cup {i}
  /\ UNCHANGED <<items, writing, getting, closing, db, stored, deletes, crashed>>

GetTo(g, l) == gPc' = [gPc EXCEPT ![g] = l]
GetEnd(g, v) == GetTo(g, "idle") /\ got' = [got EXCEPT ![g] = v] /\ gNow' = [gNow EXCEPT ![g] = {}]
GetUnchanged == UNCHANGED <<size, expired, writing, closing, db, stored, deletes, crashed>>

\* Under the read lock.
GetRead(g) ==
  /\ gPc[g] = "idle" /\ Runs
  /\ \E k \in sc.keys : /\ gKey' = [gKey EXCEPT ![g] = k] /\ gNode' = [gNode EXCEPT ![g] = data[k]]
                     /\ IF data[k] = Nothing THEN GetEnd(g, NoValue)
                        ELSE GetTo(g, "now") /\ UNCHANGED <<got, gNow>>
  /\ GetUnchanged /\ UNCHANGED <<node, list, data>>

\* now := time.Now(), and the first look at the deadline, without a lock.
GetNow(g) ==
  /\ gPc[g] = "now" /\ Runs /\ gNow' = [gNow EXCEPT ![g] = expired]
  /\ GetTo(g, IF gNode[g] \in expired THEN "lock" ELSE "type")
  /\ GetUnchanged /\ UNCHANGED <<node, list, data, gKey, gNode, got>>

\* delete also clears the value.
Drop_Clear(k) ==
  /\ data' = [data EXCEPT ![k] = Nothing] /\ UNCHANGED list
  /\ node' = [node EXCEPT ![data[k]].val = NoValue]

\* delete: the node stays in the list.
Drop(k) == data' = [data EXCEPT ![k] = Nothing] /\ UNCHANGED <<node, list>>

\* Under the lock, without a second look at the deadline.
GetLocked_Once(g) ==
  /\ gPc[g] = "lock" /\ Runs
  /\ IF data[gKey[g]] = Nothing THEN UNCHANGED <<node, list, data>> ELSE Drop(gKey[g])
  /\ GetEnd(g, NoValue) /\ GetUnchanged /\ UNCHANGED <<gKey, gNode>>

\* Under the lock: the map and the deadline once more.
GetLocked(g) ==
  /\ gPc[g] = "lock" /\ Runs
  /\ LET i == data[gKey[g]]
     IN  \/ i = Nothing /\ GetEnd(g, NoValue) /\ UNCHANGED <<node, list, data>>
         \/ i # Nothing /\ i \in gNow[g] /\ Drop(gKey[g]) /\ GetEnd(g, NoValue)
         \/ /\ i # Nothing /\ i \notin gNow[g] /\ list' = moveToHead(list, i)
            /\ GetEnd(g, node[i].val) /\ UNCHANGED <<node, data>>
  /\ GetUnchanged /\ UNCHANGED <<gKey, gNode>>

\* node.value is read without a lock: its type and its data may come from two
\* values when a Set of the key comes between.
GetValue(g) ==
  /\ Runs
  /\ LET v == node[gNode[g]].val
     IN  \/ /\ gPc[g] = "type" /\ GetTo(g, "data")
            /\ got' = [got EXCEPT ![g] = <<v[1], 0>>] /\ gNow' = [gNow EXCEPT ![g] = {}]
         \/ gPc[g] = "data" /\ GetEnd(g, <<got[g][1], v[2]>>)
  /\ GetUnchanged /\ UNCHANGED <<node, list, data, gKey, gNode>>

Delete(k) ==
  /\ deletes < sc.deletes /\ Runs /\ deletes' = deletes + 1
  /\ data[k] # Nothing /\ Drop(k)
  /\ UNCHANGED <<size, expired, writing, getting, closing, db, stored, crashed>>

-----------------------------------------------------------------------------
(* The cleaner and Close *)

CleanerUnchanged == UNCHANGED <<size, expired, writing, getting, db, stored, deletes, crashed>>

\* The deadlines are compared with the time the cleaner was started.
Tick_Stale ==
  /\ cleaner = "select" /\ sc.ticks /\ Runs /\ cleaner' = "clean" /\ UNCHANGED tick
  /\ CleanerUnchanged /\ UNCHANGED <<node, list, data, chan, closes>>

Tick ==
  /\ cleaner = "select" /\ sc.ticks /\ Runs /\ cleaner' = "clean" /\ tick' = expired
  /\ CleanerUnchanged /\ UNCHANGED <<node, list, data, chan, closes>>

\* The loop over the map visits the keys in seen: all, or as many as the limit
\* allows, in an order that is random.
CleanSeen(seen) ==
  /\ cleaner = "clean" /\ Runs /\ cleaner' = "select" /\ tick' = {}
  /\ LET held == {k \in Keys : data[k] # Nothing}
     IN  seen \subseteq held /\ Cardinality(seen) = Min({CleanMax, Cardinality(held)})
  /\ data' = [k \in Keys |-> IF k \in seen /\ data[k] \in tick THEN Nothing ELSE data[k]]
  /\ CleanerUnchanged /\ UNCHANGED <<node, list, chan, closes>>

Clean == \E seen \in SUBSET Keys : CleanSeen(seen)

Closed(c, res) == closes' = [closes EXCEPT ![c] = res]

\* Close sends to a cleaner that waits in its select, gives up when it does
\* not, and panics once the cleaner has closed the channel.
Close(c) ==
  /\ closes[c] = "none" /\ Runs
  /\ \/ chan = "closed" /\ crashed' = "close" /\ Closed(c, "panic") /\ UNCHANGED cleaner
     \/ /\ chan = "open" /\ cleaner = "select" /\ cleaner' = "closing"
        /\ Closed(c, "nil") /\ UNCHANGED crashed
     \/ /\ chan = "open" /\ cleaner # "select" /\ Closed(c, "repeat")
        /\ UNCHANGED <<cleaner, crashed>>
  /\ UNCHANGED <<items, expired, writing, getting, tick, chan, db, stored, deletes>>

CleanerEnds ==
  /\ cleaner = "closing" /\ Runs /\ cleaner' = "gone" /\ chan' = "closed"
  /\ CleanerUnchanged /\ UNCHANGED <<node, list, data, tick, closes>>

-----------------------------------------------------------------------------
Next ==
  \/ \E w \in Writers : Set(w) \/ Store(w) \/ SetStored(w)
  \/ \E g \in sc.getters : GetRead(g) \/ GetNow(g) \/ GetLocked(g) \/ GetValue(g)
  \/ \E k \in sc.keys : Delete(k)
  \/ \E i \in DOMAIN node : Expire(i)
  \/ Tick \/ Clean \/ CleanerEnds
  \/ \E c \in sc.closers : Close(c)

Spec == Init /\ [][Next]_vars

\* The cleaner's goroutine runs, its ticker ticks, and the order in which it goes
\* over the map, being random, brings every key again and again.
FairSpec ==
  /\ Spec
  /\ WF_vars(Tick) /\ WF_vars(Clean) /\ WF_vars(CleanerEnds)
  /\ \A k \in Keys : SF_vars(\E seen \in SUBSET Keys : k \in seen /\ CleanSeen(seen))

-----------------------------------------------------------------------------
TypeOK ==
  /\ Len(node) <= sc.sets /\ data \in [Keys -> 0..Len(node)] /\ size \in 0..(Word - 1)
  /\ \A i \in DOMAIN list : list[i] \in DOMAIN node
  /\ gNode \in [Getters -> 0..Len(node)] /\ gPc \in [Getters -> {"idle", "now", "lock", "type", "data"}]
  /\ cleaner \in {"select", "clean", "closing", "gone"} /\ chan \in {"open", "closed"}
  /\ crashed \in {"no", "overran", "fatal", "close"}

\* The size that Set compares with the capacity is the size of the nodes in
\* the list, those of overwritten, deleted and expired entries included.
SizeOfList == size = Sizes(list) % Word

\* Every entry of the map is one node of the list, with its key: so eviction
\* reaches it, and moveToHead never touches a node that has left the list.
EntriesListed ==
  \A k \in Keys : data[k] # Nothing =>
    /\ Cardinality({i \in DOMAIN list : list[i] = data[k]}) = 1
    /\ node[data[k]].key = k

\* Eviction never runs past the head of the list while every pair fits into
\* the capacity.  (The program may still end by a Close after the channel was
\* closed, or by the log.Fatalln of SemiAsyncSet and AsyncSet.)
SetNeverPanics ==
  crashed = "overran" => \E v \in Values \ Unsized : PairSize[v] > Capacity

\* The map, the list and the size agree, which is what eviction in Set relies on.
ListAgrees == TypeOK /\ SizeOfList /\ EntriesListed /\ SetNeverPanics

\* Get and the cleaner remove an entry only when it has expired: not one that
\* was Set again between their look at the deadline and their delete.
LiveEntriesStay ==
  [][\A k \in Keys : data[k] # Nothing /\ data'[k] = Nothing /\ data[k] \notin expired
       => Len(node') > Len(node) \/ deletes' > deletes]_vars

\* Get returns a value that was Set for its key, though it reads node.value
\* without the lock; if values of several types were Set, the type of one with
\* the data of another.
GetReturnsSet ==
  \A g \in Getters : gPc[g] = "idle" /\ got[g] # NoValue =>
    \E v \in stored[gKey[g]] :
      /\ v[2] = got[g][2]
      /\ v[1] = got[g][1] \/ \E u \in stored[gKey[g]] : u[1] = got[g][1] /\ u[1] # v[1]

\* A WriteThroughCache caches only what was stored, except by SemiAsyncSet,
\* whose goroutine does not look at the error of storeFunc.
OnlyStoredIsCached ==
  sc.mode \in {"sync", "async"} => \A k \in Keys : stored[k] \subseteq db[k]

\* A value that comes out of the cache was put in, and stored if it was written
\* through.
ValuesTrue == GetReturnsSet /\ OnlyStoredIsCached

\* An entry that has expired leaves the map, or is Set again, though nobody asks
\* for it and the cleaner visits only so many entries in one tick; unless Close
\* ends the cleaner or the program crashes.
ExpiredLeave ==
  \A k \in Keys : sc.ticks /\ data[k] \in expired ~>
                    data[k] \notin expired \/ cleaner = "gone" \/ ~Runs
=============================================================================
