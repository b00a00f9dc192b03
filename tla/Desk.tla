------------------------------- MODULE Desk --------------------------------
(***************************************************************************)
(* Requests of a back office that read rows, decide, and write them at     *)
(* their commit (app/core/database.py get_db, READ COMMITTED, no autoflush *)
(* and, except where a request says so, no row lock).                      *)
(*                                                                         *)
(* `db` is a record of tables, a table a function from row ids to rows.  A *)
(* request keeps the tables as it read them and as it left them in memory; *)
(* its flush inserts, updates and deletes what differs, column by column.  *)
(* A behaviour follows one script, chosen at the start: which operations   *)
(* are called, and whether requests overlap.                               *)
(***************************************************************************)
EXTENDS Integers, FiniteSets

CONSTANTS Clerks,   \* database sessions that may be open at the same time
          None

VARIABLES db, txn, script

deskVars == <<db, txn, script>>

\* An empty table.
Nothing == [x \in {} |-> {}]

Opens(tables, scripts) ==
    /\ db = tables
    /\ txn = [s \in Clerks |-> None]
    /\ script \in scripts

InTurn == ~script.overlap

Open == {txn[s] : s \in Clerks} \ {None}

\* The rows a request updates or deletes.
Writes(r) ==
    UNION {{<<t, k>> : k \in {x \in DOMAIN r.seen[t] :
                x \notin DOMAIN r.new[t] \/ r.new[t][x] # r.seen[t][x]}} : t \in DOMAIN db}

Locked(s, row) == \E o \in Clerks \ {s} : txn[o] # None /\ row \in txn[o].holds

Merged(table, seen, new) ==
    LET removed == DOMAIN seen \ DOMAIN new
        added == DOMAIN new \ DOMAIN seen
    IN  [k \in (DOMAIN table \ removed) \cup added |->
            IF k \in added THEN new[k]
            ELSE IF k \in DOMAIN seen
            THEN [c \in DOMAIN table[k] |->
                     IF new[k][c] # seen[k][c] THEN new[k][c] ELSE table[k][c]]
            ELSE table[k]]

\* An id nobody uses: ids are UUIDs.
Fresh(t, ids) ==
    ids \ UNION ({DOMAIN db[t]} \cup {DOMAIN r.seen[t] \cup DOMAIN r.new[t] : r \in Open})

Least(ids) == CHOOSE n \in ids : \A m \in ids : n <= m

\* A table of one row, and a table with more rows.
Only(id, row) == [k \in {id} |-> row]
Joined(table, rows) ==
    [k \in DOMAIN table \cup DOMAIN rows |-> IF k \in DOMAIN table THEN table[k] ELSE rows[k]]
Add(table, id, row) == Joined(table, Only(id, row))
Drop(table, ids) == [k \in DOMAIN table \ ids |-> table[k]]
Change(table, ids, New(_)) == [k \in DOMAIN table |-> IF k \in ids THEN New(table[k]) ELSE table[k]]

\* A request that holds row locks from its first read; `results` are the states
\* of the tables it may end in, Settle applies constraints and cascades.
ServeHolding(s, call, holds, results, Settle(_)) ==
    /\ call \in script.calls
    /\ txn[s] = None
    /\ \A row \in holds : ~Locked(s, row)
    /\ UNCHANGED script
    /\ IF script.overlap
       THEN /\ \E new \in results : txn' = [txn EXCEPT ![s] = [seen |-> db, new |-> new, holds |-> holds]]
            /\ UNCHANGED db
       ELSE /\ \E new \in results : db' \in Settle(new)
            /\ UNCHANGED txn

Serve(s, call, results, Settle(_)) == ServeHolding(s, call, {}, results, Settle)

\* One statement, committed at once.
Statement(call, results, Settle(_)) ==
    /\ call \in script.calls
    /\ \E new \in results :
          /\ db' \in Settle(new)
          /\ \A row \in Writes([seen |-> db, new |-> new]) : \A s \in Clerks :
                txn[s] # None => row \notin txn[s].holds
    /\ UNCHANGED <<txn, script>>

Commit(s, Settle(_)) ==
    /\ txn[s] # None
    /\ LET r == txn[s]
       IN  /\ \A row \in Writes(r) : row[2] \in DOMAIN db[row[1]] /\ ~Locked(s, row)
           /\ db' \in Settle([t \in DOMAIN db |-> Merged(db[t], r.seen[t], r.new[t])])
    /\ txn' = [txn EXCEPT ![s] = None]
    /\ UNCHANGED script

\* A constraint refused the flush, or the connection was lost.
Abort(s) ==
    /\ txn[s] # None
    /\ txn' = [txn EXCEPT ![s] = None]
    /\ UNCHANGED <<db, script>>
=============================================================================
