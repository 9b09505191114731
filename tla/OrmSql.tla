------------------------------- MODULE OrmSql -------------------------------
(***************************************************************************)
(* What the builders of orm/ make of a statement: the model of a struct    *)
(* (orm/internal/model/registry.go), WHERE clauses (orm/builder.go) and    *)
(* SET lists (orm/updater.go, orm/dialect.go), with the meaning that a     *)
(* database gives to a WHERE clause.                                       *)
(*                                                                         *)
(* The text of a clause is a sequence of comparisons, words (AND, OR, NOT) *)
(* and parenthesised texts.  An argument stands where its ? is written,    *)
(* because both are appended together.                                     *)
(***************************************************************************)
EXTENDS Integers, Sequences, SequencesExt

CONSTANTS Null,     \* SQL's NULL, and a nil pointer
          NoField,  \* a *Field that is nil
          Inc       \* a column set to itself plus one

-----------------------------------------------------------------------------
(* parseModel.  A field is [go, tags, int]: its name, the keys of its orm  *)
(* tag, and whether it is of an integer type.                              *)

\* The last field that a role's tag or name selects among the eligible ones.
RoleField(fields, tag, name, eligible) ==
  LET S == {i \in eligible : tag \in fields[i].tags \/ fields[i].go = name}
  IN  IF S = {} THEN NoField ELSE fields[CHOOSE i \in S : \A j \in S : j <= i].go

parseModel(fields) ==
  LET any == DOMAIN fields
      ints == {i \in any : fields[i].int}
  IN  [columns |-> [i \in any |-> fields[i].go],
       created |-> RoleField(fields, "created_at", "CreatedAt", any),
       updated |-> RoleField(fields, "updated_at", "UpdatedAt", any),
       deleted |-> RoleField(fields, "deleted_at", "DeletedAt", any),
       version |-> RoleField(fields, "version", "Version", ints)]

-----------------------------------------------------------------------------
(* Predicates: a comparison [op, col, val], or [op, left, right] with AND  *)
(* or OR, or [op, right] with NOT.                                         *)

Eq(c, v) == [op |-> "=", col |-> c, val |-> v]
Lt(c, v) == [op |-> "<", col |-> c, val |-> v]
And(p, q) == [op |-> "AND", left |-> p, right |-> q]
Or(p, q) == [op |-> "OR", left |-> p, right |-> q]
Not(p) == [op |-> "NOT", right |-> p]

\* Written by the builders only: a caller's EQ(nil) is = ? with a nil argument.
IsNull(c) == [op |-> "IS NULL", col |-> c]

Word(w) == [op |-> w]
Group(text) == [op |-> "()", body |-> text]

\* buildBinaryExpr: a predicate that is an operand is parenthesised, the
\* predicate itself is not.
RECURSIVE buildBinaryExpr(_)
buildBinaryExpr(p) ==
  LET buildSubExpr(q) == <<Group(buildBinaryExpr(q))>>
  IN  CASE p.op \in {"AND", "OR"} -> buildSubExpr(p.left) \o <<Word(p.op)>> \o buildSubExpr(p.right)
        [] p.op = "NOT" -> <<Word("NOT")>> \o buildSubExpr(p.right)
        [] OTHER -> <<p>>

\* Every predicate as it is, with AND between them.
buildPredicates_Flat(ps) ==
  FoldLeft(LAMBDA text, p : IF text = <<>> THEN buildBinaryExpr(p)
                            ELSE text \o <<Word("AND")>> \o buildBinaryExpr(p), <<>>, ps)

RECURSIVE AndAll(_)
AndAll(ps) == IF Len(ps) = 1 THEN ps[1] ELSE And(AndAll(Front(ps)), Last(ps))

buildPredicates(ps) == buildBinaryExpr(AndAll(ps))

\* The filter is forgotten when the caller has conditions.
buildWhereWithSoftDelete_Forget(m, ps) ==
  IF ps # <<>> THEN buildPredicates(ps)
  ELSE IF m.deleted # NoField THEN <<IsNull(m.deleted)>> ELSE <<>>

buildWhereWithSoftDelete(m, ps) ==
  LET soft == IF m.deleted # NoField THEN <<IsNull(m.deleted)>> ELSE <<>>
  IN  IF ps = <<>> THEN soft
      ELSE soft \o (IF soft # <<>> THEN <<Word("AND")>> ELSE <<>>) \o buildPredicates(ps)

\* buildColumn fails for a name that is not a field of the model.
RECURSIVE Known(_, _)
Known(m, p) ==
  CASE p.op \in {"AND", "OR"} -> Known(m, p.left) /\ Known(m, p.right)
    [] p.op = "NOT" -> Known(m, p.right)
    [] OTHER -> p.col \in Range(m.columns)

\* SQL's three truth values, as numbers: AND is the least, OR the greatest,
\* NOT the mirror image.
False == 0
Unknown == 1
True == 2

\* A comparison with NULL, of the row or of the argument, is unknown.
Compare(p, row) ==
  LET v == row[p.col]
      Truth(b) == IF b THEN True ELSE False
  IN  CASE p.op = "IS NULL" -> Truth(v = Null)
        [] v = Null \/ p.val = Null -> Unknown
        [] p.op = "=" -> Truth(v = p.val)
        [] OTHER -> Truth(v < p.val)

\* What a database makes of a text: NOT binds more than AND, and AND more
\* than OR.
RECURSIVE Value(_, _)
Value(text, row) ==
  LET Is(i, words) == text[i].op \in words
      Operand(i) == IF Is(i, {"()"}) THEN Value(text[i].body, row) ELSE Compare(text[i], row)
      Term(i) == IF i > 1 /\ Is(i - 1, {"NOT"}) THEN True - Operand(i) ELSE Operand(i)
      TermsAfter(o) == {i \in (o + 1)..Len(text) : /\ ~Is(i, {"AND", "NOT"})
                                                   /\ \A k \in (o + 1)..i : ~Is(k, {"OR"})}
  IN  Max({Min({True} \cup {Term(i) : i \in TermsAfter(o)}) :
             o \in {0} \cup {i \in DOMAIN text : Is(i, {"OR"})}})

\* A row is selected when the clause is true of it, and not when it is unknown.
Holds(text, row) == Value(text, row) = True

\* What a predicate of the caller says of a row, in SQL's own logic.
RECURSIVE Meaning(_, _)
Meaning(p, row) ==
  CASE p.op = "AND" -> Min({Meaning(p.left, row), Meaning(p.right, row)})
    [] p.op = "OR" -> Max({Meaning(p.left, row), Meaning(p.right, row)})
    [] p.op = "NOT" -> True - Meaning(p.right, row)
    [] OTHER -> Compare(p, row)

\* The one shape that escapes the parentheses: a single condition that is an OR.
LoneOr(ps) == Len(ps) = 1 /\ ps[1].op = "OR"

-----------------------------------------------------------------------------
(* SET lists: sequences of <<column, value>>.  An assignable is            *)
(* [kind, col, val]: an Assignment, or a Column whose value is the         *)
(* model instance's.                                                       *)

Assigned(as) == {as[i].col : i \in DOMAIN as}
ValueOf(a, val) == IF a.kind = "assign" THEN a.val ELSE val[a.col]

\* Updater.Build: what is set, the version by the database's own increment.
updaterSets(m, as, val) ==
  LET inc == IF m.version # NoField /\ val # Null /\ m.version \notin Assigned(as)
               THEN <<<<m.version, Inc>>>> ELSE <<>>
      plain == SelectSeq(m.columns, LAMBDA c : c # m.version)
  IN  IF as # <<>> THEN [i \in DOMAIN as |-> <<as[i].col, ValueOf(as[i], val)>>] \o inc
      ELSE [i \in DOMAIN plain |-> <<plain[i], val[plain[i]]>>] \o inc

\* Updater.Build: the version of the instance that was read.
updaterWhere(m, ps, val) ==
  LET text == buildWhereWithSoftDelete(m, ps)
  IN  IF m.version = NoField \/ val = Null THEN text
      ELSE text \o (IF text # <<>> THEN <<Word("AND")>> ELSE <<>>) \o <<Eq(m.version, val[m.version])>>

\* buildUpsert of both dialects returns after the first Assignment.
buildUpsert(as, row) ==
  LET firsts == {i \in DOMAIN as : as[i].kind = "assign"}
      n == IF firsts = {} THEN Len(as) ELSE CHOOSE i \in firsts : \A j \in firsts : i <= j
  IN  [i \in 1..n |-> <<as[i].col, ValueOf(as[i], row)>>]

\* The database: a row with the columns of a SET list written.
Apply(row, sets) ==
  [f \in DOMAIN row |->
     LET at == {i \in DOMAIN sets : sets[i][1] = f}
         v == sets[CHOOSE i \in at : \A j \in at : j <= i][2]
     IN  IF at = {} THEN row[f] ELSE IF v = Inc THEN row[f] + 1 ELSE v]

-----------------------------------------------------------------------------

splitChunk(values, size) ==
  IF size <= 0 \/ values = <<>> THEN <<values>>
  ELSE [k \in 1..((Len(values) + size - 1) \div size) |->
          SubSeq(values, (k - 1) * size + 1, IF k * size > Len(values) THEN Len(values) ELSE k * size)]

\* Paginate, and the LIMIT and OFFSET of Selector.Build, on the rows selected.
Paginate(rows, page, size) ==
  LET p == IF page < 1 THEN 1 ELSE page
      s == IF size <= 0 THEN 10 ELSE size
      from == (p - 1) * s
  IN  SubSeq(rows, from + 1, IF from + s > Len(rows) THEN Len(rows) ELSE from + s)
=============================================================================
