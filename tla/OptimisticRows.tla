--------------------------- MODULE OptimisticRows ---------------------------
(***************************************************************************)
(* How every service of the application changes its aggregates.            *)
(*                                                                         *)
(* A request has a session of its own (db/session.py: autoflush off, one   *)
(* commit at the end, READ COMMITTED).  It loads rows, decides in memory,  *)
(* and flushes the rows it changed.  Each aggregate has a version column   *)
(* (__mapper_args__ = {"version_id_col": version}), so the flush is        *)
(*     UPDATE ... WHERE id = :id AND version = :loaded                     *)
(* and a row that was written since it was loaded raises StaleDataError.   *)
(* Rows that were only read are not protected by anything, and a few       *)
(* tables (API keys, inbound events, projections) have no such column:     *)
(* their UPDATE sets the columns the request changed and takes the other   *)
(* ones as they have become.                                               *)
(*                                                                         *)
(* Versions are only ever compared for equality with the loaded one, and   *)
(* every write raises them.  So the model keeps no number: the moment a    *)
(* row is written, every other request that is going to write it becomes   *)
(* Doomed, for its flush can only fail.                                    *)
(*                                                                         *)
(* The services are modules that EXTEND this one: they share the database, *)
(* and each operation prepares a Plan.  Spec is what they promise.         *)
(***************************************************************************)
EXTENDS Integers

CONSTANTS
  Ids,        \* keys of the rows, of all tables, and entries of unique indexes
  Unversioned,  \* those of tables without a version column
  Scopes,     \* the sets of rows that are looked at together
  Requests,   \* requests that may be in flight at once
  CallsOf(_, _),  \* request, rows looked at -> the operations its client calls
  None        \* a NULL column

ASSUME RowsAssumption ==
  /\ \A scope \in Scopes : scope \subseteq Ids
  /\ Unversioned \subseteq Ids
  /\ None \notin Ids

VARIABLES
  db,   \* key -> row, for the rows of one scope
  req   \* request -> what it is about to do

rows == <<db, req>>

-----------------------------------------------------------------------------
(* Rows *)

\* A key nothing has been inserted under.
Absent == [status |-> "absent", deleted |-> FALSE]

Among(ids) == ids \cap DOMAIN db

Exists(x) == db[x].status # "absent"

\* get_by_id_or_raise, then the is_deleted guard.
Live(x) == Exists(x) /\ ~db[x].deleted

\* A reference to x is honoured (_owned).
Owned(x) == x \in DOMAIN db /\ Live(x)

InStatus(x, statuses) == Live(x) /\ db[x].status \in statuses

-----------------------------------------------------------------------------
(* Requests *)

Idle == [pc |-> "idle"]

\* A row this request is going to write has been written by another one.
Doomed == [pc |-> "doomed"]

\* writes: key -> row to flush; then: Idle, or what the request still does
\* after this commit.
Plan(op, writes, then) ==
  [pc |-> "flush", op |-> op, loaded |-> [x \in DOMAIN writes |-> db[x]],
   writes |-> writes, then |-> then]

Flushing(r) == req[r].pc = "flush"

Asked(r, op) == req[r] = Idle /\ op \in CallsOf(r, DOMAIN db)

Prepare(r, plan) == req' = [req EXCEPT ![r] = plan] /\ UNCHANGED db

Row(x, row) == [y \in {x} |-> row]

Write(r, op, x, row) == Prepare(r, Plan(op, Row(x, row), Idle))

\* No other request is about to use this key: keys are generated (uuid4).
Fresh(x) == ~Exists(x) /\ \A r \in Requests : Flushing(r) => x \notin DOMAIN req[r].writes

Insert(r, op, x, row) == Fresh(x) /\ Write(r, op, x, row)

\* The _transition every service has.  Asking for the status a row already has
\* returns the row and writes nothing, which is no step.
Transition(r, op, x, table, target, mutated) ==
  /\ Live(x)
  /\ target \in table[db[x].status]
  /\ Write(r, op, x, [mutated EXCEPT !.status = target])

\* The entry of a unique index that goes into the table with row x.
Entry(x) == [status |-> "entry", deleted |-> FALSE, of |-> x]

SoftDelete(r, op, x) ==
  Live(x) /\ Write(r, op, x, [db[x] EXCEPT !.deleted = TRUE])

Undelete(r, op, x) ==
  db[x].deleted /\ Write(r, op, x, [db[x] EXCEPT !.deleted = FALSE])

\* Fault: nobody notices that his row was overwritten.
ConflictsFault(q, written) == FALSE

\* Request q is going to write one of these rows and compares its version, or to
\* insert the same entry of a unique index.
Conflicts(q, written) ==
  Flushing(q) /\ (DOMAIN req[q].writes \cap written) \ Unversioned # {}

\* Fault: the whole row is written, with columns others have changed since.
StoredFault(x, loaded, planned) == planned

\* The row the database holds after the flush: of an unversioned one, only the
\* columns are set that the request changed.
Stored(x, loaded, planned) ==
  IF x \in Unversioned /\ DOMAIN loaded = DOMAIN planned
  THEN [column \in DOMAIN planned |->
          IF planned[column] = loaded[column] THEN db[x][column] ELSE planned[column]]
  ELSE planned

\* flush and commit.
Commit(r) ==
  LET written == DOMAIN req[r].writes
  IN /\ Flushing(r)
     /\ db' = [x \in DOMAIN db |->
                 IF x \in written THEN Stored(x, req[r].loaded[x], req[r].writes[x]) ELSE db[x]]
     /\ req' = [q \in Requests |-> IF q = r THEN req[r].then
                                   ELSE IF Conflicts(q, written) THEN Doomed
                                   ELSE req[q]]

\* The request ends without having written: an exception, StaleDataError, a
\* conflict on the version of an event, a lost connection, a crash.
Abort(r) ==
  /\ req[r] # Idle
  /\ req' = [req EXCEPT ![r] = Idle]
  /\ UNCHANGED db

-----------------------------------------------------------------------------
(* What any service built this way promises *)

\* A request takes up work: whatever it plans starts from the rows as they are.
TakeUp(r) ==
  /\ ~Flushing(r)
  /\ req' = [req EXCEPT ![r] = req'[r]]
  /\ req'[r].pc = "flush"
  /\ req'[r].then.pc # "flush"
  /\ DOMAIN req'[r].writes \subseteq DOMAIN db
  /\ req'[r].loaded = [x \in DOMAIN req'[r].writes |-> db[x]]
  /\ UNCHANGED db

Empty(scope) == [x \in scope |-> Absent]

Init ==
  /\ db \in {Empty(scope) : scope \in Scopes}
  /\ req = [r \in Requests |-> Idle]

Next == \E r \in Requests : TakeUp(r) \/ Commit(r) \/ Abort(r)

Spec == Init /\ [][Next]_rows

\* What a request loaded is still what the database holds, until it is doomed.
PlansAreCurrent ==
  \A r \in Requests : Flushing(r) =>
    /\ DOMAIN req[r].loaded = DOMAIN req[r].writes
    /\ DOMAIN req[r].writes \subseteq DOMAIN db
    /\ \A x \in DOMAIN req[r].writes \ Unversioned : req[r].loaded[x] = db[x]

\* No lost update: a row with a version is replaced only by a request that computed
\* the new row from the row it replaces, however many requests and tables are
\* involved.
NoLostUpdate ==
  [][\A x \in DOMAIN db \ Unversioned : db'[x] # db[x] =>
       \E r \in Requests : /\ Flushing(r)
                           /\ x \in DOMAIN req[r].writes
                           /\ req[r].loaded[x] = db[x]
                           /\ db'[x] = req[r].writes[x]]_rows
=============================================================================
