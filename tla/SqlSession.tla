---------------------------- MODULE SqlSession ----------------------------
(* std_pkg/database/sql/sql.go: one query read row by row, one update, one   *)
(* transaction with one insert. Every request to the server may succeed, be  *)
(* refused, or be carried out with the answer lost. database/sql lends a     *)
(* connection to the open rows, to the transaction and to each request; the  *)
(* rows give theirs back by themselves when Next returns false.              *)
(*                                                                           *)
(* The file assigns with := where both names exist (line 145), which no      *)
(* compiler accepts; it is read as the plain assignment it stands for.       *)
EXTENDS Integers

CONSTANTS MaxRows,  \* bound: persons that are alive
          Columns,  \* name, age, born_time: 3 in the code
          Dests     \* destinations given to Scan, &p.Name, &p.BornTime: 2 in the code

ASSUME SqlCountsAssumption == MaxRows \in Nat /\ Columns \in Nat /\ Dests \in Nat

VARIABLES pc,      \* the statement main is at
          rows,    \* rows the server still has to deliver
          total,   \* rows it found
          printed, \* rows main printed
          rowsOpen, \* the rows hold a connection
          tx,      \* the transaction: "none" "open" "committed" "aborted"
          updated, \* the update is in the database
          insert,  \* a row is inserted by the transaction
          newId,   \* main has announced the new id
          failed   \* history: the server or the connection failed once

sqlVars == <<pc, rows, total, printed, rowsOpen, tx, updated, insert, newId, failed>>

SqlTypeOK ==
  /\ pc \in {"ping", "query", "next", "scan", "update", "begin", "insert",
             "rollback", "commit", "id", "deferred", "panic", "end"}
  /\ total \in 0..MaxRows /\ rows \in 0..total /\ printed \in 0..total
  /\ tx \in {"none", "open", "committed", "aborted"}
  /\ rowsOpen \in BOOLEAN /\ updated \in BOOLEAN /\ insert \in BOOLEAN
  /\ newId \in BOOLEAN /\ failed \in BOOLEAN

SqlInit ==
  /\ pc = "ping" /\ rows = 0 /\ total = 0 /\ printed = 0 /\ rowsOpen = FALSE
  /\ tx = "none" /\ updated = FALSE /\ insert = FALSE /\ newId = FALSE /\ failed = FALSE

\* A request succeeds and main goes on, or main sees an error and goes elsewhere.
Succeed(next) == pc' = next /\ UNCHANGED failed
Fail(next) == pc' = next /\ failed' = TRUE

---------------------------------------------------------------------------

\* initDB: sql.Open and Ping panic alike.
InitDB ==
  /\ pc = "ping"
  /\ Succeed("query") \/ Fail("panic")
  /\ UNCHANGED <<rows, total, printed, rowsOpen, tx, updated, insert, newId>>

Query ==
  /\ pc = "query"
  /\ \/ /\ Succeed("next")
        /\ total' \in 0..MaxRows /\ rows' = total' /\ rowsOpen' = TRUE
     \/ Fail("end") /\ UNCHANGED <<rows, total, rowsOpen>>
  /\ UNCHANGED <<printed, tx, updated, insert, newId>>

\* Next is false at the end and on an error, which main does not ask about
\* (rows.Err); either way the rows are closed.
RowsNext ==
  /\ pc = "next"
  /\ \/ rows > 0 /\ rows' = rows - 1 /\ Succeed("scan") /\ UNCHANGED rowsOpen
     \/ rows = 0 /\ Succeed("update") /\ rowsOpen' = FALSE /\ UNCHANGED rows
     \/ Fail("update") /\ rowsOpen' = FALSE /\ UNCHANGED rows
  /\ UNCHANGED <<total, printed, tx, updated, insert, newId>>

\* Scan wants one destination for each column.
Scan ==
  /\ pc = "scan"
  /\ IF Dests = Columns
       THEN printed' = printed + 1 /\ pc' = "next"
       ELSE pc' = "deferred" /\ UNCHANGED printed
  /\ UNCHANGED <<rows, total, rowsOpen, tx, updated, insert, newId, failed>>

UpdateOn ==  \* Mutant: the error is printed, and main goes on.
  /\ pc = "update"
  /\ \/ Succeed("begin") /\ updated' = TRUE
     \/ Fail("begin") /\ updated' \in BOOLEAN
  /\ UNCHANGED <<rows, total, printed, rowsOpen, tx, insert, newId>>

\* The answer may be lost after the update was made. RowsAffected only reads it.
Update ==
  /\ pc = "update"
  /\ \/ Succeed("begin") /\ updated' = TRUE
     \/ Fail("deferred") /\ updated' \in BOOLEAN
  /\ UNCHANGED <<rows, total, printed, rowsOpen, tx, insert, newId>>

Begin ==
  /\ pc = "begin"
  /\ \/ Succeed("insert") /\ tx' = "open"
     \/ Fail("deferred") /\ UNCHANGED tx
  /\ UNCHANGED <<rows, total, printed, rowsOpen, updated, insert, newId>>

InsertNoRollback ==  \* Mutant: return without Rollback.
  /\ pc = "insert"
  /\ \/ Succeed("commit") /\ insert' = TRUE
     \/ Fail("deferred") /\ insert' \in BOOLEAN
  /\ UNCHANGED <<rows, total, printed, rowsOpen, tx, updated, newId>>

Insert ==
  /\ pc = "insert"
  /\ \/ Succeed("commit") /\ insert' = TRUE
     \/ Fail("rollback") /\ insert' \in BOOLEAN
  /\ UNCHANGED <<rows, total, printed, rowsOpen, tx, updated, newId>>

\* Its error is ignored; a connection that fails takes its transaction along.
Rollback ==
  /\ pc = "rollback"
  /\ Succeed("deferred") \/ Fail("deferred")
  /\ tx' = "aborted"
  /\ UNCHANGED <<rows, total, printed, rowsOpen, updated, insert, newId>>

\* Commit's error is ignored too.
Commit ==
  /\ pc = "commit"
  /\ \/ Succeed("id") /\ tx' = "committed"
     \/ Fail("id") /\ tx' \in {"committed", "aborted"}
  /\ UNCHANGED <<rows, total, printed, rowsOpen, updated, insert, newId>>

\* LastInsertId comes with the answer to the insert; its error cannot occur.
LastInsertId ==
  /\ pc = "id" /\ newId' = TRUE /\ pc' = "deferred"
  /\ UNCHANGED <<rows, total, printed, rowsOpen, tx, updated, insert, failed>>

NoRowsClose ==  \* Mutant: no deferred Close.
  /\ pc = "deferred" /\ pc' = "end"
  /\ UNCHANGED <<rows, total, printed, rowsOpen, tx, updated, insert, newId, failed>>

RowsClose ==
  /\ pc = "deferred" /\ rowsOpen' = FALSE /\ pc' = "end"
  /\ UNCHANGED <<rows, total, printed, tx, updated, insert, newId, failed>>

SqlNext ==
  \/ InitDB \/ Query \/ RowsNext \/ Scan \/ Update \/ Begin
  \/ Insert \/ Rollback \/ Commit \/ LastInsertId \/ RowsClose

SqlSpec == SqlInit /\ [][SqlNext]_sqlVars

---------------------------------------------------------------------------
(* Properties *)

\* When main returns, no connection is kept back: the rows are closed and the
\* transaction, if there was one, has ended. Nor does main ever hold the rows'
\* connection while it asks for a second one; with a pool of one connection it
\* would wait for itself.
NothingIsKept ==
  /\ pc = "end" => ~rowsOpen /\ tx # "open"
  /\ pc \in {"update", "begin", "insert", "rollback", "commit", "id"} => ~rowsOpen

\* A committed insert comes with the update before it, and a failed insert is
\* not committed; what main announces it has inserted.
InsertNeedsUpdate ==
  /\ tx = "committed" => updated /\ insert
  /\ newId => insert

\* Rows that the server delivers are printed: when nothing has failed, all of
\* them are when main returns.
RowsPrinted == pc = "end" /\ ~failed => printed = total
=============================================================================
