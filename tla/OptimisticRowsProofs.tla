------------------------ MODULE OptimisticRowsProofs ------------------------
(* Theorems about OptimisticRows, which hold for every service built on it. *)
EXTENDS OptimisticRows, TLAPS

\* A request holds nothing that would be written by surprise after its commit.
ThenQuiet == \A r \in Requests : Flushing(r) => req[r].then.pc # "flush"

RowsInv ==
  /\ req = [r \in Requests |-> req[r]]
  /\ PlansAreCurrent
  /\ ThenQuiet

\* The plan of one request is current.
Current(r) ==
  Flushing(r) =>
    /\ req[r].then.pc # "flush"
    /\ DOMAIN req[r].loaded = DOMAIN req[r].writes
    /\ DOMAIN req[r].writes \subseteq DOMAIN db
    /\ \A x \in DOMAIN req[r].writes \ Unversioned : req[r].loaded[x] = db[x]

\* The invariant, request by request.
LEMMA CurrentAll ==
  RowsInv <=> req = [r \in Requests |-> req[r]] /\ \A r \in Requests : Current(r)
BY DEF RowsInv, PlansAreCurrent, ThenQuiet, Current

\* Work is taken up from the rows as they are.
LEMMA TakeUpKeeps ==
  ASSUME RowsInv, NEW r \in Requests, TakeUp(r)
  PROVE  RowsInv'
<1>1. req' = [q \in Requests |-> req'[q]] /\ \A q \in Requests \ {r} : req'[q] = req[q]
  BY DEF TakeUp, RowsInv
<1>2. Current(r)'
  BY DEF TakeUp, Current, Flushing
<1>3. ASSUME NEW q \in Requests \ {r} PROVE Current(q)'
  BY <1>1, <1>3, CurrentAll DEF TakeUp, Current, Flushing
<1> QED
  BY <1>1, <1>2, <1>3, CurrentAll DEF RowsInv, PlansAreCurrent, ThenQuiet, Current

\* What a commit writes, every other request that planned to write it loses.
LEMMA CommitKeeps ==
  ASSUME RowsInv, NEW r \in Requests, Commit(r)
  PROVE  RowsInv'
<1> DEFINE written == DOMAIN req[r].writes
<1>1. /\ Flushing(r)
      /\ req' = [q \in Requests |-> IF q = r THEN req[r].then
                                    ELSE IF Conflicts(q, written) THEN Doomed
                                    ELSE req[q]]
      /\ DOMAIN db' = DOMAIN db
      /\ \A x \in DOMAIN db \ written : db'[x] = db[x]
  BY DEF Commit
<1>2. req' = [q \in Requests |-> req'[q]]
  BY <1>1
<1>3. Current(r)'
  BY <1>1 DEF RowsInv, ThenQuiet, Current, Flushing
<1>4. ASSUME NEW q \in Requests \ {r} PROVE Current(q)'
  <2>1. CASE Conflicts(q, written)
    <3>1. req'[q] = Doomed
      BY <1>1, <2>1
    <3> QED
      BY <3>1 DEF Current, Flushing, Doomed
  <2>2. CASE ~Conflicts(q, written)
    <3>1. req'[q] = req[q]
      BY <1>1, <2>2
    <3>2. CASE Flushing(q)
      <4>1. (DOMAIN req[q].writes \cap written) \ Unversioned = {}
        BY <2>2, <3>2 DEF Conflicts
      <4>2. \A x \in DOMAIN req[q].writes \ Unversioned : x \in DOMAIN db \ written
        BY <3>2, <4>1 DEF RowsInv, PlansAreCurrent
      <4> QED
        BY <1>1, <3>1, <3>2, <4>2, CurrentAll DEF Current, Flushing
    <3>3. CASE ~Flushing(q)
      BY <3>1, <3>3 DEF Current, Flushing
    <3> QED
      BY <3>2, <3>3
  <2> QED
    BY <2>1, <2>2
<1> QED
  BY <1>2, <1>3, <1>4 DEF RowsInv, PlansAreCurrent, ThenQuiet, Current

\* A request that ends leaves the others as they were.
LEMMA AbortKeeps ==
  ASSUME RowsInv, NEW r \in Requests, Abort(r)
  PROVE  RowsInv'
<1>1. req' = [q \in Requests |-> IF q = r THEN Idle ELSE req[q]] /\ UNCHANGED db
  BY DEF Abort, RowsInv
<1>2. ASSUME NEW q \in Requests PROVE Current(q)'
  BY <1>1, <1>2, CurrentAll DEF Current, Flushing, Idle
<1> QED
  BY <1>1, <1>2 DEF RowsInv, PlansAreCurrent, ThenQuiet, Current

\* At the start no request holds anything.
LEMMA InitQuiet == Init => RowsInv
BY DEF Init, RowsInv, PlansAreCurrent, ThenQuiet, Flushing, Idle

\* Every step of the protocol keeps the invariant.
LEMMA StepKeeps == RowsInv /\ [Next]_rows => RowsInv'
<1> SUFFICES ASSUME RowsInv, [Next]_rows PROVE RowsInv'
  OBVIOUS
<1>1. CASE Next
  BY <1>1, TakeUpKeeps, CommitKeeps, AbortKeeps DEF Next
<1>2. CASE UNCHANGED rows
  BY <1>2 DEF rows, RowsInv, PlansAreCurrent, ThenQuiet, Flushing
<1> QED
  BY <1>1, <1>2

\* Whatever a request is about to write was computed from the row that is there now.
THEOREM Invariance == Spec => []RowsInv
BY InitQuiet, StepKeeps, PTL DEF Spec

\* Plans are current for any number of requests, rows and tables.
THEOREM PlansStayCurrent == Spec => []PlansAreCurrent
BY Invariance, PTL DEF RowsInv

\* The version column protects every row that has one: no update is lost.
THEOREM NoUpdateIsLost == Spec => NoLostUpdate
<1>1. ASSUME RowsInv, [Next]_rows, NEW x \in DOMAIN db \ Unversioned, db'[x] # db[x]
      PROVE  \E r \in Requests : /\ Flushing(r)
                                 /\ x \in DOMAIN req[r].writes
                                 /\ req[r].loaded[x] = db[x]
                                 /\ db'[x] = req[r].writes[x]
  <2>1. PICK r \in Requests : Commit(r)
    BY <1>1 DEF Next, rows, TakeUp, Abort
  <2>2. x \in DOMAIN req[r].writes
    BY <1>1, <2>1 DEF Commit
  <2>3. db'[x] = Stored(x, req[r].loaded[x], req[r].writes[x])
    BY <1>1, <2>1, <2>2 DEF Commit
  <2>4. db'[x] = req[r].writes[x]
    BY <1>1, <2>3 DEF Stored
  <2>5. Flushing(r) /\ req[r].loaded[x] = db[x]
    BY <1>1, <2>1, <2>2 DEF Commit, RowsInv, PlansAreCurrent
  <2> QED
    BY <2>2, <2>4, <2>5
<1>2. RowsInv /\ [Next]_rows =>
        [\A x \in DOMAIN db \ Unversioned : db'[x] # db[x] =>
           \E r \in Requests : /\ Flushing(r)
                               /\ x \in DOMAIN req[r].writes
                               /\ req[r].loaded[x] = db[x]
                               /\ db'[x] = req[r].writes[x]]_rows
  BY <1>1
<1> QED
  BY <1>2, Invariance, PTL DEF Spec, NoLostUpdate

-----------------------------------------------------------------------------
(* For the services *)

\* A plan over rows that are looked at is a take-up of work.
LEMMA PrepareTakesUp ==
  ASSUME NEW r \in Requests, NEW op, NEW writes, NEW then,
         req = [q \in Requests |-> req[q]], ~Flushing(r),
         DOMAIN writes \subseteq DOMAIN db, then.pc # "flush",
         Prepare(r, Plan(op, writes, then))
  PROVE  TakeUp(r)
<1>1. /\ req' = [req EXCEPT ![r] = Plan(op, writes, then)]
      /\ req'[r] = Plan(op, writes, then)
      /\ UNCHANGED db
  BY DEF Prepare
<1>2. /\ Plan(op, writes, then).pc = "flush"
      /\ Plan(op, writes, then).then = then
      /\ Plan(op, writes, then).writes = writes
      /\ Plan(op, writes, then).loaded = [x \in DOMAIN writes |-> db[x]]
  BY DEF Plan
<1> QED
  BY <1>1, <1>2 DEF TakeUp

\* So is one that writes a single row.
LEMMA WriteTakesUp ==
  ASSUME NEW r \in Requests, NEW op, NEW x \in DOMAIN db, NEW row,
         req = [q \in Requests |-> req[q]], ~Flushing(r),
         Write(r, op, x, row)
  PROVE  TakeUp(r)
<1>1. DOMAIN Row(x, row) = {x} /\ Idle.pc # "flush"
  BY DEF Row, Idle
<1> QED
  BY <1>1, PrepareTakesUp DEF Write
=============================================================================
