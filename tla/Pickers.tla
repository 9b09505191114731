------------------------------ MODULE Pickers ------------------------------
(***************************************************************************)
(* micro/loadBalance and micro/route: the gRPC pickers.  gRPC builds a new *)
(* picker whenever the set of ready connections changes; a pick and its    *)
(* Done belong to the picker they were made with.  Picks run concurrently, *)
(* a step being what happens under one lock or in one atomic access.       *)
(***************************************************************************)
EXTENDS Integers, Sequences, SequencesExt, FiniteSetsExt

CONSTANTS
  None,
  Callers,    \* goroutines that make calls, each of them sc.picks calls at most
  MaxUint     \* uint32 is 0..MaxUint

VARIABLES
  sc,         \* how: the balancer; callers, picks: who calls, how often; group:
              \* the group the calls ask for (and what Discovery adds)
  pickers,    \* every picker built so far; the last one is in use
  pick,       \* the callers
  panicked    \* a picker panicked

pvars == <<pickers, pick, panicked>>

Uint(n) == n % (MaxUint + 1)

IdlePick == [pc |-> "idle", n |-> 0, gen |-> 0, i |-> 0, total |-> 0, res |-> None]

PickersInit ==
  /\ pickers = <<>> /\ panicked = FALSE
  /\ pick = [p \in Callers |-> IdlePick]

\* Build of every balancer: the ready connections, a map, in some order; weights
\* and counters at their start.  Of the weighted balancer's history, credit is the
\* current weights as integers without a width, most is the largest total weight
\* that a pick has charged, and wrapped is set once a weight or a total that is
\* compared or charged was not a uint32.
Build(ready) ==
  \E conns \in SetToSeqs(ready) :
    \E next \in IF sc.how \in {"round_robin", "route"} /\ ready # {} THEN 0..(Len(conns) - 1) ELSE {0} :
      pickers' = Append(pickers,
        [conns |-> conns, next |-> next,
         eff |-> [i \in DOMAIN conns |-> conns[i].weight], cur |-> [i \in DOMAIN conns |-> conns[i].weight],
         credit |-> [i \in DOMAIN conns |-> conns[i].weight], most |-> 0, wrapped |-> FALSE,
         cnt |-> [i \in DOMAIN conns |-> 0], got |-> [i \in DOMAIN conns |-> 0], held |-> {}])

\* What GroupFilter lets through: Pick leaves out the connections it is true of.
Candidates(picker) ==
  {i \in DOMAIN picker.conns : ~(sc.how = "route" /\ picker.conns[i].group = sc.group)}

Goto(p, pc) == pick' = [pick EXCEPT ![p].pc = pc]

\* The beginning of Pick.  The error picker of a Build without connections; that
\* of the least active balancer is dropped, and it picks a nil connection.
\* Weighted random never stores its total weight, and random numbers below zero
\* do not exist; nor does a remainder by zero candidates.
Pick(p) ==
  /\ p \in sc.callers /\ pick[p].pc = "idle" /\ pick[p].n < sc.picks /\ pickers # <<>>
  /\ \E picker \in {Last(pickers)} :
       LET idle == [pick[p] EXCEPT !.n = @ + 1, !.gen = Len(pickers), !.i = 1, !.total = 0, !.res = None]
           n == Len(picker.conns)
           To(pc, i) == pick' = [pick EXCEPT ![p] = [idle EXCEPT !.pc = pc, !.res = i]]
       IN  \/ n = 0 /\ sc.how # "least_active" /\ To("idle", None) /\ UNCHANGED panicked
           \/ n = 0 /\ sc.how = "least_active" /\ To("picked", None) /\ UNCHANGED panicked
           \/ /\ n > 0 /\ sc.how = "random" /\ UNCHANGED panicked
              /\ \E i \in 1..n : To("picked", i)
           \/ /\ n > 0 /\ sc.how \in {"weighted", "least_active"}
              /\ To("scan", None) /\ UNCHANGED panicked
           \/ n > 0 /\ sc.how = "weight_random" /\ panicked' = TRUE /\ UNCHANGED pick
           \/ /\ n > 0 /\ sc.how \in {"round_robin", "route"}
              /\ \E list \in {SetToSortSeq(Candidates(picker), <)} :
                   IF list = <<>> THEN panicked' = TRUE /\ UNCHANGED pick
                   ELSE To("add", list[(picker.next % Len(list)) + 1]) /\ UNCHANGED panicked
  /\ UNCHANGED <<sc, pickers>>

\* The end of Pick: the atomic addition to the next of round robin, or to the
\* counter of the least active.  (got is history.)
Add(p) ==
  /\ pick[p].pc = "add" /\ Goto(p, "picked")
  /\ \E g \in {pick[p].gen}, i \in {pick[p].res} :
       pickers' = IF sc.how = "least_active" THEN [pickers EXCEPT ![g].cnt[i] = Uint(@ + 1)]
                  ELSE [pickers EXCEPT ![g].next = @ + 1, ![g].got[i] = @ + 1]
  /\ UNCHANGED <<sc, panicked>>

\* The loop of the least active: one counter after another, and the best so far
\* by what its counter is now (MaxUint before there is one).
LeastScan(p) ==
  LET w == pick[p]
      c == pickers[w.gen].cnt
  IN
  /\ sc.how = "least_active" /\ w.pc = "scan" /\ UNCHANGED <<sc, pickers, panicked>>
  /\ IF w.i > Len(c) THEN Goto(p, "add")
     ELSE pick' = [pick EXCEPT ![p].i = @ + 1,
                     ![p].res = IF (IF w.res = None THEN MaxUint ELSE c[w.res]) > c[w.i] THEN w.i ELSE w.res]

\* The loop of the weighted balancer, under the lock of one connection at a time;
\* the best so far is compared without its lock.
WeightScan(p) ==
  LET w == pick[p]
      b == pickers[w.gen]
      gained == Uint(b.cur[w.i] + b.eff[w.i])
      fits == {b.credit[w.i] + b.eff[w.i], w.total + b.eff[w.i]} \subseteq 0..MaxUint
  IN
  /\ sc.how = "weighted" /\ w.pc = "scan" /\ w.i <= Len(b.conns) /\ w.i \notin b.held
  /\ pickers' = [pickers EXCEPT ![w.gen].cur[w.i] = gained, ![w.gen].credit[w.i] = @ + b.eff[w.i],
                               ![w.gen].wrapped = @ \/ ~fits]
  /\ pick' = [pick EXCEPT ![p].i = @ + 1, ![p].total = Uint(@ + b.eff[w.i]),
                ![p].res = IF w.res = None \/ b.cur[w.res] < gained THEN w.i ELSE w.res]
  /\ UNCHANGED <<sc, panicked>>

\* The weights are summed again when the connection is chosen.
WeightTake_Late(p) ==
  LET w == pick[p]
      b == pickers[w.gen]
  IN
  /\ sc.how = "weighted" /\ w.pc = "scan" /\ w.i > Len(b.conns) /\ w.res \notin b.held
  /\ pickers' = [pickers EXCEPT ![w.gen].cur[w.res] = Uint(@ - FoldSeq(+, 0, b.eff))]
  /\ Goto(p, "picked") /\ UNCHANGED <<sc, panicked>>

\* The chosen one pays for all.
WeightTake(p) ==
  LET w == pick[p]
      b == pickers[w.gen]
  IN
  /\ sc.how = "weighted" /\ w.pc = "scan" /\ w.i > Len(b.conns) /\ w.res \notin b.held
  /\ pickers' = [pickers EXCEPT ![w.gen].cur[w.res] = Uint(@ - w.total),
                               ![w.gen].credit[w.res] = @ - w.total,
                               ![w.gen].most = Max({@, w.total})]
  /\ Goto(p, "picked") /\ UNCHANGED <<sc, panicked>>

Idle(p) == Goto(p, "idle") /\ UNCHANGED <<sc, panicked>>

\* Done of the least active.
DoneLeast(p, failed) ==
  /\ pick[p].pc = "picked" /\ sc.how = "least_active" /\ Idle(p)
  /\ pickers' = IF pick[p].res = None THEN pickers
                ELSE [pickers EXCEPT ![pick[p].gen].cnt[pick[p].res] = Uint(@ - 1)]

\* Every failed call returns with the lock held.
DoneWeight_Held(p, failed) ==
  LET w == pick[p]
      b == pickers[w.gen]
  IN
  /\ w.pc = "picked" /\ sc.how = "weighted" /\ w.res \notin b.held /\ Idle(p)
  /\ pickers' = IF failed THEN [pickers EXCEPT ![w.gen].held = @ \cup {w.res}]
                ELSE [pickers EXCEPT ![w.gen].eff[w.res] = Uint(@ + 1)]

\* Done of the weighted balancer.  At either limit it returns with the lock held.
DoneWeight(p, failed) ==
  LET w == pick[p]
      b == pickers[w.gen]
  IN
  /\ w.pc = "picked" /\ sc.how = "weighted" /\ w.res \notin b.held /\ Idle(p)
  /\ pickers' = IF b.eff[w.res] = (IF failed THEN 0 ELSE MaxUint)
                THEN [pickers EXCEPT ![w.gen].held = @ \cup {w.res}]
                ELSE [pickers EXCEPT ![w.gen].eff[w.res] = IF failed THEN @ - 1 ELSE @ + 1]

\* The others' Done does nothing.
DoneNothing(p) ==
  /\ pick[p].pc = "picked" /\ sc.how \notin {"weighted", "least_active"} /\ Idle(p) /\ UNCHANGED pickers

PickStep(p) ==
  \/ Pick(p) \/ Add(p) \/ LeastScan(p) \/ WeightScan(p) \/ WeightTake(p) \/ DoneNothing(p)
  \/ \E failed \in BOOLEAN : DoneLeast(p, failed) \/ DoneWeight(p, failed)

-----------------------------------------------------------------------------
Scanning(g) == {p \in Callers : pick[p].gen = g /\ pick[p].pc = "scan"}

Started(b) == FoldSeq(LAMBDA c, sum : c.weight + sum, 0, b.conns)

\* Whatever picks and Dones run at the same time, the current weights of a picker
\* add up to what they began with, plus what the picks under way have handed out
\* and not yet taken back, modulo 2^32.
WeightConserved ==
  sc.how = "weighted" =>
    \A g \in DOMAIN pickers :
      LET given == FoldSet(LAMBDA p, sum : pick[p].total + sum, 0, Scanning(g))
      IN  Uint(FoldSeq(+, 0, pickers[g].cur)) = Uint(Started(pickers[g]) + given)

\* Smooth weighted round robin: between the calls that one goroutine makes, no
\* connection of n is ahead of its weight by more than (n - 1) / n of a pick, less
\* the weight that each began with on average; though every Done changes a weight.
\* It holds until a current weight that is compared has gone below 0 or beyond
\* 2^32 - 1: one below 0 is then the largest of all, and is picked again and again.
WeightSmooth ==
  sc.how = "weighted" /\ Cardinality(sc.callers) = 1 =>
    \A g \in DOMAIN pickers :
      LET b == pickers[g]
          n == Len(b.conns)
      IN  \/ b.wrapped \/ Scanning(g) # {}
          \/ \A i \in DOMAIN b.conns :
               b.credit[i] >= 0 \/ n * b.credit[i] >= Started(b) - (n - 1) * b.most

\* The counter of a connection is the number of calls on it whose Done is to come.
ActiveCounted ==
  sc.how = "least_active" =>
    \A g \in DOMAIN pickers : \A i \in DOMAIN pickers[g].conns :
      pickers[g].cnt[i] = Cardinality({p \in Callers : pick[p].gen = g /\ pick[p].res = i /\ pick[p].pc = "picked"})

\* Calls that one goroutine makes go to every connection of a round-robin picker
\* in turn: no connection is ever two ahead of another.  (Concurrent picks may
\* read the same next, and so go to the same connection any number of times.)
RoundRobinEven ==
  sc.how = "round_robin" /\ Cardinality(sc.callers) = 1 =>
    \A g \in DOMAIN pickers : \A i, j \in DOMAIN pickers[g].got :
      pickers[g].got[i] <= pickers[g].got[j] + 1

\* The pickers' books of weights and of calls in progress are right under
\* concurrent picks, and the picks of one goroutine are spread evenly.
PickersEven == WeightConserved /\ WeightSmooth /\ ActiveCounted /\ RoundRobinEven

\* A picker's Pick comes to an end, unless a picker panicked, or a Done at the
\* limit of a weight has kept the lock.
PickEnds ==
  \A p \in Callers :
    pick[p].pc \in {"scan", "add"} ~>
      \/ pick[p].pc \in {"picked", "idle"} \/ panicked
      \/ \E g \in DOMAIN pickers : \E i \in pickers[g].held : pickers[g].eff[i] \in {0, MaxUint}
=============================================================================
