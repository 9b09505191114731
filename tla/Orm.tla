--------------------------------- MODULE Orm ---------------------------------
(***************************************************************************)
(* Clients that run Selector.Get, Updater.Exec, Deleter.Exec and           *)
(* Inserter.Exec of orm/ on one table, alone or in DB.DoTx.                *)
(*                                                                         *)
(* A client's statements are handlers that touch shared state only in the  *)
(* database, so each is one step; an insert in chunks is one step per      *)
(* chunk.  The database is external: a statement is atomic, reads what is  *)
(* committed, and waits for rows that an open transaction has written.     *)
(* Its answer may be an error, or be lost after the statement was applied. *)
(***************************************************************************)
EXTENDS OrmSql, FiniteSets, FiniteSetsExt

CONSTANTS Clients, Ids, Now,
          Scenarios   \* the jobs, the rows at the start, the fields and a bound on faults

VARIABLES
  sc, table,
  model,     \* the parsed model that the registry keeps
  undo,      \* per transaction: the rows that it has written, as they were
  at,        \* the step of the client's job
  val,       \* the instance it has read
  chunk,     \* the chunk that is next in its insert
  built,     \* the statements in the sqlStrBuilder of its statement object
  cause,     \* why its step failed, or "none"
  tries, txn, out, faults, affected

client == <<at, val, chunk, built, cause, tries, out, affected>>
vars == <<sc, model, table, undo, client, txn, faults>>

Job(c) == sc.jobs[c]
Prog(c) == Job(c).prog

\* What Inserter.Exec puts into the fields that its values leave zero.
AutoFilled(f) == CASE f = model.version -> 1 [] f = model.created -> Now [] OTHER -> Null

\* The row that an INSERT of the columns cols makes, all when there are none;
\* the database gives the others their defaults.
Row(c, i, cols) ==
  [f \in Range(model.columns) |->
     CASE f = "ID" -> i
       [] f = "A" -> c
       [] cols = <<>> \/ f \in Range(cols) -> AutoFilled(f)
       [] OTHER -> IF f = model.version THEN 0 ELSE Null]

Init ==
  /\ sc \in Scenarios /\ model = parseModel(sc.fields)
  /\ table = [i \in Ids |-> IF i \in sc.rows THEN Row(Null, i, <<>>) ELSE Null]
  /\ undo = [c \in Clients |-> <<>>] /\ at = [c \in Clients |-> 1] /\ val = [c \in Clients |-> Null]
  /\ chunk = [c \in Clients |-> 1] /\ built = [c \in Clients |-> 0] /\ cause = [c \in Clients |-> "none"]
  /\ tries = [c \in Clients |-> 0] /\ txn = [c \in Clients |-> "none"] /\ out = [c \in Clients |-> "run"]
  /\ faults = 0 /\ affected = [c \in Clients |-> 0]

-----------------------------------------------------------------------------
(* The database *)

Held(c) == UNION {DOMAIN undo[d] : d \in Clients \ {c}}

\* What is committed, and what c sees.
Seen(c) == [i \in Ids |-> IF \E d \in Clients \ {c} : i \in DOMAIN undo[d]
                           THEN undo[CHOOSE d \in Clients \ {c} : i \in DOMAIN undo[d]][i] ELSE table[i]]
Committed == [i \in Ids |-> IF \E d \in Clients : i \in DOMAIN undo[d]
                             THEN undo[CHOOSE d \in Clients : i \in DOMAIN undo[d]][i] ELSE table[i]]

Matching(tab, text) == {i \in Ids : tab[i] # Null /\ Holds(text, tab[i])}

Hit(c, text) == Matching(table, text) \cup Matching(Seen(c), text)

Write(c, tab) ==
  LET changed == {i \in Ids : tab[i] # table[i]}
  IN  /\ table' = tab
      /\ undo' = IF txn[c] # "open" THEN undo
                 ELSE [undo EXCEPT ![c] = [i \in DOMAIN @ \cup changed |-> IF i \in DOMAIN @ THEN @[i] ELSE table[i]]]

\* The statement of c that turns the table into tab, writing the rows S.
Statement(c, S, tab, res) ==
  /\ res = "ok" \/ faults < sc.faults
  /\ faults' = IF res = "ok" THEN faults ELSE faults + 1
  /\ res # "fail" => S \cap Held(c) = {}
  /\ IF res = "fail" THEN UNCHANGED <<table, undo>> ELSE \E t \in {tab} : Write(c, t)

-----------------------------------------------------------------------------
(* The steps of a client *)

Step(c, s) ==
  /\ out[c] = "run" /\ cause[c] = "none" /\ at[c] <= Len(Prog(c)) /\ Prog(c)[at[c]] = s
  /\ Job(c).tx <=> txn[c] = "open"
  /\ UNCHANGED <<sc, model, tries, txn, out>>

Ends(c, why) ==
  /\ cause' = [cause EXCEPT ![c] = why]
  /\ at' = IF why = "none" THEN [at EXCEPT ![c] = @ + 1] ELSE at
  /\ chunk' = [chunk EXCEPT ![c] = 1]

\* Ended without a statement for the database.
Refused(c, why) == Ends(c, why) /\ UNCHANGED <<table, undo, faults, val, affected>>

\* Build appends to the text: of the middlewares, querylog and opentelemetry
\* build before the handler does, slowquery after it.
TextOf(c) == built[c] + IF Job(c).mw = "log" THEN 2 ELSE 1
Built(c) ==
  built' = [built EXCEPT ![c] = IF Job(c).mw = "slow" THEN TextOf(c) + 1 ELSE TextOf(c)]
BuildsNew(c) == built' = [built EXCEPT ![c] = 0]

\* The rows of the query that Selector.Build makes, in order.
Selected(c) ==
  LET S == Matching(Seen(c), buildWhereWithSoftDelete(model, Job(c).where))
  IN  IF Job(c).page = 0 THEN SetToSortSeq(S, <) ELSE Paginate(SetToSortSeq(S, <), Job(c).page, 1)

KnownWhere(j) == \A i \in DOMAIN j.where : Known(model, j.where[i])

\* The query may fail, and so may the hooks before it and after it.
Get(c) ==
  /\ Step(c, "get") /\ BuildsNew(c)
  /\ LET j == Job(c)
         rows == Selected(c)
         sent == j.hook # "query" /\ TextOf(c) = 1 /\ KnownWhere(j)
     IN  \/ j.hook = "query" /\ Refused(c, "hook")
         \/ j.hook # "query" /\ ~KnownWhere(j) /\ Refused(c, "column")
         \/ j.hook # "query" /\ KnownWhere(j) /\ TextOf(c) > 1 /\ Refused(c, "text")
         \/ /\ sent /\ Ends(c, "fault") /\ Statement(c, {}, table, "fail")
            /\ UNCHANGED <<val, affected>>
         \/ sent /\ Len(rows) # 1 /\ Refused(c, "rows")
         \/ sent /\ Len(rows) = 1 /\ j.hook = "afterquery" /\ Refused(c, "hook")
         \/ /\ sent /\ Len(rows) = 1 /\ j.hook # "afterquery" /\ Ends(c, "none")
            /\ val' = [val EXCEPT ![c] = Seen(c)[rows[1]]]
            /\ UNCHANGED <<table, undo, faults, affected>>

\* What Updater.Exec adds to the assignments.
Assigns(j) ==
  IF model.updated # NoField /\ j.sets # <<>> /\ model.updated \notin Assigned(j.sets)
    THEN Append(j.sets, [kind |-> "assign", col |-> model.updated, val |-> Now]) ELSE j.sets

\* The instance: changed by its client, its UpdatedAt set by Updater.Exec.
Instance(c) ==
  IF ~Job(c).instance THEN Null
  ELSE [f \in DOMAIN val[c] |-> CASE f = "A" -> c [] f = model.updated -> Now [] OTHER -> val[c][f]]

\* Updater.Build fails when there is neither a Set nor an Update.
SetsGiven(j) == j.sets # <<>> \/ j.instance
SetsOf(c) == updaterSets(model, Assigns(Job(c)), Instance(c))
WhereOf(c) == updaterWhere(model, Job(c).where, Instance(c))

\* What Updater.Exec makes of the answer.
UpdateEnd(c, res, hit) ==
  CASE res # "ok" -> "fault"
    [] res = "ok" /\ model.version # NoField /\ Job(c).instance /\ hit = {} -> "version"
    [] OTHER -> IF Job(c).instance /\ Job(c).hook = "after" THEN "hook" ELSE "none"

UpdaterExec(c) ==
  /\ Step(c, "update") /\ UNCHANGED <<val, affected>>
  /\ LET j == Job(c)
         known == Assigned(j.sets) \subseteq Range(model.columns) /\ KnownWhere(j)
     IN  \/ j.instance /\ j.hook = "before" /\ UNCHANGED built /\ Refused(c, "hook")
         \/ /\ ~(j.instance /\ j.hook = "before") /\ Built(c)
            /\ \/ ~SetsGiven(j) /\ Refused(c, "sets")
               \/ SetsGiven(j) /\ ~known /\ Refused(c, "column")
               \/ SetsGiven(j) /\ known /\ TextOf(c) > 1 /\ Refused(c, "text")
               \/ /\ SetsGiven(j) /\ known /\ TextOf(c) = 1
                  /\ \E res \in {"ok", "fail", "lost"}, hit \in {Hit(c, WhereOf(c))}, sets \in {SetsOf(c)} :
                       /\ Statement(c, hit, [i \in Ids |-> IF i \in hit THEN Apply(table[i], sets) ELSE table[i]], res)
                       /\ Ends(c, UpdateEnd(c, res, hit))

\* Deleter.Build: a DELETE with the caller's conditions, ...
DeleteWhere(ps) ==
  CASE model.deleted # NoField -> buildWhereWithSoftDelete(model, ps)
    [] ps = <<>> -> <<>>
    [] OTHER -> buildPredicates(ps)

\* ... or buildSoftDelete: an UPDATE that sets the time.
Deleted(row) == IF model.deleted = NoField THEN Null ELSE [row EXCEPT ![model.deleted] = Now]

DeleterExec(c) ==
  /\ Step(c, "delete") /\ Built(c) /\ UNCHANGED <<val, affected>>
  /\ \/ ~KnownWhere(Job(c)) /\ Refused(c, "column")
     \/ KnownWhere(Job(c)) /\ TextOf(c) > 1 /\ Refused(c, "text")
     \/ KnownWhere(Job(c)) /\ TextOf(c) = 1 /\ \E res \in {"ok", "fail", "lost"}, hit \in {Hit(c, DeleteWhere(Job(c).where))} :
          /\ Statement(c, hit, [i \in Ids |-> IF i \in hit THEN Deleted(table[i]) ELSE table[i]], res)
          /\ Ends(c, IF res = "ok" THEN "none" ELSE "fault")

Chunked(j) == j.chunk > 0 /\ Len(j.ids) > j.chunk
Chunks(j) == IF Chunked(j) THEN splitChunk(j.ids, j.chunk) ELSE <<j.ids>>

\* execChunked without the Reset.
InsertText_Append(c) == TextOf(c)

\* execChunked resets the text before it builds, and what the middlewares
\* build is the chunk's query.
InsertText(c) == IF Chunked(Job(c)) THEN 1 ELSE TextOf(c)

\* Inserter.Exec up to its next statement: the whole of it, or one chunk.  The
\* driver counts a row that was upserted once, twice or, as MySQL does for a
\* row it leaves as it was, not at all.
InserterExec(c) ==
  /\ Step(c, "insert") /\ UNCHANGED val
  /\ LET j == Job(c)
         k == chunk[c]
         ids == Range(Chunks(j)[k])
         dup == {i \in ids : table[i] # Null}
         new(i) == IF i \in dup THEN Apply(table[i], buildUpsert(j.upsert, Row(c, i, j.cols))) ELSE Row(c, i, j.cols)
     IN  \/ j.hook = "before" /\ UNCHANGED built /\ Refused(c, "hook")
         \/ /\ j.hook # "before" /\ built' = [built EXCEPT ![c] = InsertText(c)]
            /\ \/ InsertText(c) > 1 /\ Refused(c, "text")
               \/ InsertText(c) = 1 /\ dup # {} /\ j.upsert = <<>> /\ ids \cap Held(c) = {} /\ Refused(c, "dup")
               \/ InsertText(c) = 1 /\ (dup = {} \/ j.upsert # <<>>) /\
                  \E res \in {"ok", "fail", "lost"}, more \in 0..(2 * Cardinality(dup)) :
                    /\ Statement(c, ids, [i \in Ids |-> IF i \in ids THEN new(i) ELSE table[i]], res)
                    /\ affected' = [affected EXCEPT ![c] = IF res = "ok" THEN @ + Cardinality(ids \ dup) + more ELSE @]
                    /\ IF res = "ok" /\ k < Len(Chunks(j))
                         THEN chunk' = [chunk EXCEPT ![c] = k + 1] /\ UNCHANGED <<at, cause>>
                         ELSE Ends(c, CASE res # "ok" -> "fault" [] j.hook = "after" -> "hook" [] OTHER -> "none")

\* The caller tries the failed step again, with the same statement object or
\* with a new one.
Retry(c) ==
  /\ out[c] = "run" /\ cause[c] # "none" /\ ~Job(c).tx /\ tries[c] < Job(c).retries
  /\ tries' = [tries EXCEPT ![c] = @ + 1] /\ cause' = [cause EXCEPT ![c] = "none"]
  /\ affected' = [affected EXCEPT ![c] = 0]
  /\ built' = IF Job(c).reuse THEN built ELSE [built EXCEPT ![c] = 0]
  /\ UNCHANGED <<sc, model, table, undo, at, val, chunk, txn, out, faults>>

Over(c) == cause[c] # "none" \/ at[c] > Len(Prog(c))

Finish(c) ==
  /\ out[c] = "run" /\ ~Job(c).tx /\ Over(c)
  /\ out' = [out EXCEPT ![c] = IF cause[c] = "none" THEN "nil" ELSE "err"]
  /\ UNCHANGED <<sc, model, table, undo, at, val, chunk, built, cause, tries, txn, faults, affected>>

-----------------------------------------------------------------------------
(* DB.DoTx *)

TxUnchanged == UNCHANGED <<sc, model, at, val, chunk, built, cause, tries, affected>>

BeginTx(c) ==
  /\ out[c] = "run" /\ Job(c).tx /\ txn[c] = "none"
  /\ \/ txn' = [txn EXCEPT ![c] = "open"] /\ UNCHANGED <<out, faults>>
     \/ /\ faults < sc.faults /\ faults' = faults + 1
        /\ out' = [out EXCEPT ![c] = "err"] /\ UNCHANGED txn
  /\ TxUnchanged /\ UNCHANGED <<table, undo>>

Rollback(c, how) ==
  /\ table' = [i \in Ids |-> IF i \in DOMAIN undo[c] THEN undo[c][i] ELSE table[i]]
  /\ undo' = [undo EXCEPT ![c] = <<>>]
  /\ txn' = [txn EXCEPT ![c] = "rolledback"] /\ out' = [out EXCEPT ![c] = how]

Commit(c, how) ==
  /\ undo' = [undo EXCEPT ![c] = <<>>] /\ UNCHANGED table
  /\ txn' = [txn EXCEPT ![c] = "committed"] /\ out' = [out EXCEPT ![c] = how]

\* Without the flag: fn has panicked, and err is nil.
Deferred_NoFlag(c, panicked) ==
  IF cause[c] # "none" THEN Rollback(c, "err") /\ UNCHANGED faults
  ELSE Commit(c, IF panicked THEN "panic" ELSE "nil") /\ UNCHANGED faults

\* The deferred function of DoTx.  An error of Rollback is joined to the error
\* of fn; a Commit that reports an error may have committed or not.
Deferred(c, panicked) ==
  IF panicked THEN Rollback(c, "panic") /\ UNCHANGED faults
  ELSE IF cause[c] # "none" THEN Rollback(c, "err") /\ UNCHANGED faults
  ELSE \/ Commit(c, "nil") /\ UNCHANGED faults
       \/ faults < sc.faults /\ faults' = faults + 1 /\ (Commit(c, "err") \/ Rollback(c, "err"))

\* fn returns.
DoTxEnd(c) == txn[c] = "open" /\ Over(c) /\ Deferred(c, FALSE) /\ TxUnchanged

\* fn, or a hook that it runs, panics.
Panic(c) == txn[c] = "open" /\ ~Over(c) /\ Job(c).panics /\ Deferred(c, TRUE) /\ TxUnchanged

-----------------------------------------------------------------------------
Progress(c) ==
  \/ Get(c) \/ UpdaterExec(c) \/ DeleterExec(c) \/ InserterExec(c)
  \/ Finish(c) \/ BeginTx(c) \/ DoTxEnd(c)

Next == \E c \in Clients : Progress(c) \/ Retry(c) \/ Panic(c)

Spec == Init /\ [][Next]_vars

-----------------------------------------------------------------------------
TypeOK ==
  /\ \A i \in Ids : table[i] # Null => DOMAIN table[i] = Range(model.columns)
  /\ \A c \in Clients : /\ DOMAIN undo[c] \subseteq Ids /\ at[c] \in 1..(Len(Prog(c)) + 1)
                        /\ chunk[c] \in 1..(Len(Job(c).ids) + 1) /\ built[c] \in 0..4
                        /\ txn[c] \in {"none", "open", "committed", "rolledback"}
                        /\ out[c] \in {"run", "nil", "err", "panic"}

\* Of the rows that are not deleted, the WHERE clause of an update selects those
\* of which all of the caller's conditions are true, whatever AND, OR and NOT
\* they are made of, and that have the version; except when the only condition
\* is an OR.  The conditions are SQL's: an EQ(nil) is true of no row, also of
\* one whose column is NULL.
WhereIsConjunction ==
  \A c \in Clients : "update" \in Range(Prog(c)) /\ (Job(c).instance => val[c] # Null)
                        /\ KnownWhere(Job(c)) /\ ~LoneOr(Job(c).where) =>
    \A i \in Ids : table[i] # Null /\ (model.deleted # NoField => table[i][model.deleted] = Null) =>
      (Holds(WhereOf(c), table[i]) <=>
         /\ \A p \in DOMAIN Job(c).where : Meaning(Job(c).where[p], table[i]) = True
         /\ model.version # NoField /\ Job(c).instance => table[i][model.version] = val[c][model.version])

\* An update sets a column once, though UpdatedAt and the version are added to
\* what the caller sets.
SetOnce ==
  \A c \in Clients : "update" \in Range(Prog(c)) /\ SetsGiven(Job(c)) /\ (Job(c).instance => val[c] # Null) =>
    LET s == SetsOf(c) IN \A i, j \in DOMAIN s : s[i][1] = s[j][1] => i = j

Updates(c) == at[c] <= Len(Prog(c)) /\ Prog(c)[at[c]] = "update"
Versioned(c) == /\ model.version # NoField /\ Job(c).instance /\ ~LoneOr(Job(c).where)
                /\ model.version \notin Assigned(Job(c).sets)

\* No lost update: an Update(val) writes a row only at the version that was
\* read into val, and moves it to the next, so of two clients that have read
\* the same version one is told of the conflict; except when its only condition
\* is an OR, which the version's comparison is bound to in part, or when the
\* caller sets the version.
NoLostUpdate ==
  [][\A c \in Clients : Updates(c) /\ Versioned(c) /\ <<at'[c], cause'[c]>> # <<at[c], cause[c]>> =>
       \A i \in Ids : table'[i] # table[i] =>
         /\ table[i][model.version] = val[c][model.version]
         /\ table'[i][model.version] = table[i][model.version] + 1]_vars

\* ErrOptimisticLock is true: the row is no longer there at that version.
ConflictIsReal ==
  \A c \in Clients : cause[c] = "version" /\ Job(c).where = <<Eq("ID", val[c].ID)>> =>
    LET r == Committed[val[c].ID]
    IN  r = Null \/ r[model.version] # val[c][model.version] \/ (model.deleted # NoField /\ r[model.deleted] # Null)

\* An update asks the database for what its caller asked for, and its answer is
\* read right.
StatementsRight == TypeOK /\ WhereIsConjunction /\ SetOnce /\ ConflictIsReal

\* A soft-deleted row stays as it is: no statement revives or changes it,
\* even an update that writes every field of an instance read before the
\* deletion; except an upsert, and a statement whose only condition is an OR.
DeletedStays ==
  [][model.deleted # NoField /\ (\A c \in Clients : ~LoneOr(Job(c).where) /\ Job(c).upsert = <<>>) =>
       \A i \in Ids : Committed[i] # Null /\ Committed[i][model.deleted] # Null => Committed'[i] = Committed[i]]_vars

\* No statement writes over a version it has not seen or over a deleted row.
RowsSafe == NoLostUpdate /\ DeletedStays

Mine(c) == {i \in Range(Job(c).ids) : Committed[i] # Null /\ Committed[i].A = c}
InsertsOnly(c) == Prog(c) = <<"insert">>

\* DoTx is all or nothing: nil means that every row is there; an error or a
\* panic of fn, that none is; an error of Commit, that all are or none.
\* However its function ends, no transaction is left open.
TxAtomic ==
  \A c \in Clients : Job(c).tx /\ out[c] # "run" => txn[c] # "open" /\ (InsertsOnly(c) =>
    /\ out[c] = "nil" => Mine(c) = Range(Job(c).ids)
    /\ out[c] = "panic" \/ (out[c] = "err" /\ cause[c] # "none") => Mine(c) = {}
    /\ Mine(c) \in {{}, Range(Job(c).ids)})

ChunkPrefixes(c) == {Range(FlattenSeq(SubSeq(Chunks(Job(c)), 1, k))) : k \in 0..Len(Chunks(Job(c)))}

\* Without a transaction an insert in chunks leaves whole chunks, in order,
\* also when an answer is lost or it is tried again; nil means that every row
\* is there and, unless rows of an earlier try were upserted, was counted once.
ChunksInOrder ==
  \A c \in Clients : ~Job(c).tx /\ InsertsOnly(c) /\ sc.rows = {} =>
    /\ Mine(c) \in ChunkPrefixes(c)
    /\ out[c] = "nil" => /\ Mine(c) = Range(Job(c).ids)
                         /\ (Job(c).upsert = <<>> \/ tries[c] = 0) => affected[c] = Len(Job(c).ids)

\* An insert in chunks is sent as single statements, chunk after chunk, with
\* any middleware and also when the Inserter is used again.
ChunkSentAlone ==
  \A c \in Clients : cause[c] = "text" => ~(InsertsOnly(c) /\ Chunked(Job(c)))

\* An insert in chunks is sent, and found in the table, chunk by chunk.
ChunksRight == ChunksInOrder /\ ChunkSentAlone
=============================================================================
