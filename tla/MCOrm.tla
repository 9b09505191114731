-------------------------------- MODULE MCOrm --------------------------------
(* The instance of Orm that TLC checks.                                    *)
EXTENDS Orm, TLC

CONSTANTS c1, c2

Field(name, tags, isInt) == [go |-> name, tags |-> tags, int |-> isInt]

\* A struct with every role, one whose roles come from tags, and a bare one.
Full == <<Field("ID", {}, TRUE), Field("A", {}, FALSE), Field("Version", {}, TRUE),
          Field("DeletedAt", {}, FALSE), Field("UpdatedAt", {}, FALSE), Field("CreatedAt", {}, FALSE)>>
Tagged == <<Field("ID", {}, TRUE), Field("A", {}, FALSE), Field("Rev", {"version"}, TRUE),
            Field("Gone", {"deleted_at"}, FALSE), Field("Version", {}, FALSE)>>
Bare == <<Field("ID", {}, TRUE), Field("A", {}, FALSE)>>

Idle == [prog |-> <<>>, tx |-> FALSE, where |-> <<>>, sets |-> <<>>, instance |-> FALSE, ids |-> <<>>,
         cols |-> <<>>, chunk |-> 0, upsert |-> <<>>, hook |-> "none", mw |-> "none",
         retries |-> 0, reuse |-> FALSE, page |-> 0, panics |-> FALSE]

Edit(w) == [Idle EXCEPT !.prog = <<"get", "update">>, !.instance = TRUE, !.where = w]
Bulk(w) == [Idle EXCEPT !.prog = <<"update">>, !.sets = <<[kind |-> "assign", col |-> "A", val |-> Null]>>, !.where = w]
Erase(w) == [Idle EXCEPT !.prog = <<"delete">>, !.where = w]
Insert(s, n) == [Idle EXCEPT !.prog = <<"insert">>, !.ids = s, !.chunk = n]
InTx(j) == [j EXCEPT !.tx = TRUE]

One == <<Eq("ID", 1)>>
Wheres == {<<Or(Eq("ID", 1), Eq("ID", 3)), Lt("ID", 2)>>, <<Not(Eq("ID", 2)), Not(Lt("ID", 1))>>,
           <<Not(Or(Eq("ID", 2), Eq("ID", 3)))>>, <<Or(Eq("ID", 1), Eq("ID", 3))>>,
           <<And(Eq("ID", 1), Or(Eq("CreatedAt", Now), Lt("ID", 0)))>>, <<Eq("Nope", 1)>>,
           <<Not(And(Eq("A", Null), Lt("ID", 2)))>>, <<Eq("A", Null)>>}
Sets == {<<[kind |-> "column", col |-> "A"]>>, <<[kind |-> "assign", col |-> "UpdatedAt", val |-> Now]>>,
         <<[kind |-> "column", col |-> "Version"], [kind |-> "column", col |-> "A"]>>}
Upserts == {<<>>, <<[kind |-> "column", col |-> "A"]>>,
            <<[kind |-> "assign", col |-> "UpdatedAt", val |-> Now], [kind |-> "column", col |-> "A"]>>}

Sc(j1, j2, fs, have, n) == [jobs |-> (c1 :> j1 @@ c2 :> j2), fields |-> fs, rows |-> have, faults |-> n]

MCScenarios ==
  \* two clients on one row, with retries
  {Sc([Edit(One) EXCEPT !.retries = 1, !.reuse = r], [j EXCEPT !.retries = 1], fs, {1, 2}, 2) :
     r \in BOOLEAN, j \in {Edit(One), Bulk(One), Erase(One)}, fs \in {Full, Tagged, Bare}}
  \* the shapes of WHERE and of SET, the hooks and the middlewares
  \cup {Sc(Edit(w), j, Full, {1, 2}, 0) : w \in Wheres, j \in {Edit(One), Erase(<<>>)}}
  \cup {Sc(j, Edit(One), Full, {1, 2}, 1) :
          j \in {Bulk(w) : w \in Wheres} \cup {Erase(w) : w \in Wheres} \cup {[Bulk(One) EXCEPT !.sets = <<>>]}}
  \cup {Sc([Edit(One) EXCEPT !.sets = s], Edit(One), Full, {1, 2}, 0) : s \in Sets}
  \cup {Sc([Edit(<<Not(Lt("ID", 2))>>) EXCEPT !.page = 1, !.hook = h, !.mw = m], Erase(One), Full, {1, 2}, 0) :
          h \in {"none", "before", "after", "query", "afterquery"}, m \in {"none", "log", "slow"}}
  \* inserts in chunks, tried again, with the same Inserter and with a new one
  \cup {Sc([Insert(<<1, 2, 3>>, n) EXCEPT !.retries = 1, !.reuse = r, !.upsert = u, !.mw = m, !.hook = h],
           Idle, Full, {}, 1) :
          n \in {0, 2}, r \in BOOLEAN, u \in Upserts, m \in {"none", "log", "slow"}, h \in {"none", "before", "after"}}
  \* transactions
  \cup {Sc([InTx(Insert(<<1, 2, 3>>, 2)) EXCEPT !.panics = TRUE], j, Full, {}, 1) :
          j \in {InTx(Insert(<<3>>, 0)), Insert(<<2>>, 0), Erase(<<>>), InTx([Bulk(<<>>) EXCEPT !.sets = <<[kind |-> "assign", col |-> "UpdatedAt", val |-> Now]>>])}}
  \cup {Sc([InTx(Edit(One)) EXCEPT !.panics = TRUE], InTx(j), Full, {1}, 1) : j \in {Edit(One), Erase(One)}}
  \cup {Sc([Insert(<<1, 2>>, 0) EXCEPT !.cols = <<"ID", "A">>], Edit(One), Full, {3}, 0)}
=============================================================================
