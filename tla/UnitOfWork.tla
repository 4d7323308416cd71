----------------------------- MODULE UnitOfWork -----------------------------
(***************************************************************************)
(* What a session of SQLAlchemy does for a handler, as the handlers of the *)
(* admin API use it: it hands out rows as they were when they were read    *)
(* and, at the commit, writes the COLUMNS that the handler changed, one    *)
(* row at a time.  Nothing compares the other columns, or the rows the     *)
(* handler only read, with what other sessions committed in the meantime:  *)
(* the models have no version column and the handlers take no lock.        *)
(*                                                                         *)
(* A database is a function from table names to tables, a table a function *)
(* from row ids to rows, a row a record with one field per column.  A row  *)
(* a handler adds has a negative id until the database gives it one.       *)
(***************************************************************************)
EXTENDS Integers, FiniteSets, Functions

\* The table with a row added, or put in the place of the one with this id.
With(table, id, row) ==
    [i \in DOMAIN table \cup {id} |-> IF i = id THEN row ELSE table[i]]

\* The ids of the rows that two states of a table do not share.
Touched(before, after) ==
    {id \in DOMAIN before \cup DOMAIN after :
        ~(id \in DOMAIN before \cap DOMAIN after /\ before[id] = after[id])}

\* What the session has to write when the handler read `before` and wants
\* `after`: the rows that go or change, and the rows that come or change.
TableChanges(before, after) ==
    LET ids == Touched(before, after)
    IN  [old |-> Restrict(before, ids \cap DOMAIN before),
         new |-> Restrict(after, ids \cap DOMAIN after)]

Changes(before, after) ==
    [t \in DOMAIN before |-> TableChanges(before[t], after[t])]

Written(changes) ==
    {t \in DOMAIN changes :
        DOMAIN changes[t].old \cup DOMAIN changes[t].new # {}}

Updated(change) == DOMAIN change.old \cap DOMAIN change.new
Removed(change) == DOMAIN change.old \ DOMAIN change.new

\* The UPDATE of a row that another session has deleted matches no row and
\* the session refuses the whole commit (StaleDataError).  Deleting a row
\* that is gone is only warned about.
RowsStillThere(db, changes) ==
    \A t \in DOMAIN changes : Updated(changes[t]) \subseteq DOMAIN db[t]

\* Mutant: an UPDATE writes the whole row as the handler holds it.
MergeWholeRow(current, old, new) == new

\* An UPDATE names the columns whose value the handler changed.
MergeRow(current, old, new) ==
    [c \in DOMAIN current |-> IF new[c] = old[c] THEN current[c] ELSE new[c]]

\* The table after the commit, when the last id it gave out is `last`.
MergeTable(current, change, last) ==
    LET Id(id) == last - id
        added == {id \in DOMAIN change.new : id < 0}
        kept == DOMAIN current \ Removed(change)
    IN  [id \in kept \cup {Id(n) : n \in added} |->
            CASE id \notin kept -> change.new[last - id]
              [] id \in kept \cap Updated(change) ->
                    MergeRow(current[id], change.old[id], change.new[id])
              [] OTHER -> current[id]]
=============================================================================
