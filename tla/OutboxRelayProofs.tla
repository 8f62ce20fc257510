------------------------- MODULE OutboxRelayProofs -------------------------
(***************************************************************************)
(* Proofs about the relay and an operator's replays, ReplaySpec: any       *)
(* number of runs, events, consumers, crashes and replays.  What only the  *)
(* relay alone promises is proved of Spec.                                 *)
(***************************************************************************)
EXTENDS OutboxRelay, FiniteSetTheorems, WellFoundedInduction, TLAPS

\* First picks the earliest event of a set that has one.
LEMMA FirstIsMember ==
  ASSUME NEW S \in SUBSET Nat, S # {}
  PROVE  First(S) \in S /\ \A e \in S : First(S) <= e
<1> DEFINE R == OpToRel(<, Nat)
<1>1. \E e \in S : \A f \in S : ~ (<<f, e>> \in R)
  <2>1. IsWellFoundedOn(R, Nat)
    BY NatLessThanWellFounded
  <2> HIDE DEF R
  <2> QED
    BY <2>1, WFMin
<1>2. \A e, f \in Nat : <<f, e>> \in R <=> f < e
  BY DEF OpToRel
<1> HIDE DEF R
<1>3. \E e \in S : \A f \in S : e <= f
  <2>1. PICK e \in S : \A f \in S : ~ (<<f, e>> \in R)
    BY <1>1
  <2>2. \A f \in S : e \in Nat /\ f \in Nat /\ ~ (f < e)
    BY <1>2, <2>1
  <2>3. \A f \in S : e <= f
    BY <2>2
  <2> QED
    BY <2>3
<1> QED
  BY <1>3 DEF First

\* What is left of a run when the loop moves on.
LEMMA AdvanceType ==
  ASSUME NEW run \in Run, run.batch # {}
  PROVE  /\ Advance(run) \in Run
         /\ Advance(run).batch \subseteq run.batch
         /\ Advance(run).pc \in {"idle", "next"}
         /\ (Advance(run).pc = "idle") <=> (Advance(run).batch = {})
         /\ Advance(run).batch # {} => Advance(run).prior = run.prior
  BY DEF Advance, Run, NoRun

\* The batch of a run holds events that were due when it was read, one at least.
LEMMA BatchNotEmpty ==
  ASSUME NEW S \in SUBSET Nat, S # {}
  PROVE  {e \in S : Cardinality({f \in S : f < e}) < BatchSize} # {}
<1> DEFINE e == First(S)
<1>1. e \in S /\ {f \in S : f < e} = {}
  <2>1. e \in S /\ e \in Nat /\ \A f \in S : f \in Nat /\ e <= f
    BY FirstIsMember
  <2> HIDE DEF e
  <2>2. \A f \in S : e \in Nat /\ f \in Nat /\ ~ (f < e)
    BY <2>1
  <2> QED
    BY <2>1, <2>2
<1>2. Cardinality({f \in S : f < e}) = 0
  BY <1>1, FS_EmptySet
<1> QED
  BY <1>1, <1>2, OutboxAssumption

\* Nothing was emitted and no run has started.
LEMMA InitIInv == Init => IInv
  BY OutboxAssumption DEF Init, IInv, TypeOK, ProcessedIsSettled, CountsAreFailures,
         ChancesAreReplays, Chances, HasLetter, LooksHold, NothingLost, GivenUpOnlyAfterMax,
         Run, NoRun

\* The event a run is at was committed and is one of its batch.
LEMMA CurrentInBatch ==
  ASSUME TypeOK, NEW r \in Relays, relay[r].pc # "idle"
  PROVE  /\ relay[r] \in Run /\ relay[r].batch # {}
         /\ Current(r) \in relay[r].batch /\ Current(r) \in emitted /\ Current(r) \in Events
<1>1. relay[r] \in Run /\ relay[r].batch # {} /\ relay[r].batch \subseteq emitted
  BY DEF TypeOK
<1>2. relay[r].batch \in SUBSET Nat
  BY <1>1, OutboxAssumption DEF TypeOK
<1> QED
  BY <1>1, <1>2, FirstIsMember DEF Current, TypeOK

\* A step in which no run opens a publish transaction, and no row of processed_events
\* comes to an event that a run publishes alone, changes nothing for that run.
LEMMA LooksKept ==
  ASSUME IInv, overlapped \subseteq overlapped',
         \A q \in Relays : relay'[q].pc = "publishing" =>
           relay[q].pc = "publishing" /\ relay'[q].batch = relay[q].batch /\ relay'[q].seen = relay[q].seen,
         \A q \in Relays : relay'[q].pc = "publishing" /\ Current(q) \notin overlapped' =>
           \A c \in Consumers : <<c, Current(q)>> \in processed' => <<c, Current(q)>> \in processed
  PROVE  LooksHold'
<1>1. \A q \in Relays : relay'[q].pc = "publishing" => Current(q)' = Current(q)
  BY DEF Current
<1> SUFFICES ASSUME NEW r \in Relays, relay'[r].pc = "publishing", Current(r) \notin overlapped'
             PROVE  /\ Publishing(Current(r))' = {r}
                    /\ \A c \in Subscribers(Current(r)) \ relay'[r].seen : <<c, Current(r)>> \notin processed'
  BY <1>1 DEF LooksHold, Subscribers, Publishing
<1>2. relay[r].pc = "publishing" /\ Current(r) \notin overlapped /\ relay'[r].seen = relay[r].seen
  OBVIOUS
<1>3. /\ Publishing(Current(r)) = {r}
      /\ \A c \in Subscribers(Current(r)) \ relay[r].seen : <<c, Current(r)>> \notin processed
  BY <1>2 DEF IInv, LooksHold
<1>4. \A q \in Relays : relay'[q].pc = "publishing" /\ Current(q) = Current(r) => q = r
  BY <1>3 DEF Publishing
<1>5. Publishing(Current(r))' = {r}
  BY <1>1, <1>4 DEF Publishing
<1>6. Subscribers(Current(r)) \subseteq Consumers
  BY DEF Subscribers
<1> QED
  BY <1>2, <1>3, <1>5, <1>6

\* Emitting, or waiting for the next attempt, adds to two sets no part of the
\* invariant looks into.
LEMMA EmitKeepsIInv ==
  ASSUME IInv, NEW e \in Events, Emit(e) \/ Elapse(e)
  PROVE  IInv'
<1>1. /\ emitted \subseteq emitted' /\ emitted' \subseteq Events /\ due' \subseteq emitted'
      /\ UNCHANGED <<published, attempts, processed, dlq, times, failed, overlapped, relay,
                     crashes, operator>>
  BY DEF IInv, TypeOK, Emit, Elapse
<1>2. LooksHold'
  BY <1>1, LooksKept
<1> QED
  BY <1>1, <1>2 DEF IInv, TypeOK, ProcessedIsSettled, CountsAreFailures, ChancesAreReplays,
              Chances, HasLetter, NothingLost, IsSettled, IsParked, GivenUpOnlyAfterMax,
              Current, operator

\* A run remembers counters as they are stored, of events that were committed.
LEMMA ReadKeepsIInv ==
  ASSUME IInv, NEW r \in Relays, Read(r)
  PROVE  IInv'
<1> DEFINE batch == {e \in Unpublished : Cardinality({f \in Unpublished : f < e}) < BatchSize}
           run == [NoRun EXCEPT !.pc = "next", !.batch = batch,
                     !.prior = [e \in Events |-> IF e \in batch THEN attempts[e] ELSE 0]]
<1>1. batch \subseteq emitted /\ batch # {}
  <2>1. Unpublished \in SUBSET Nat /\ Unpublished # {} /\ Unpublished \subseteq emitted
    BY OutboxAssumption DEF IInv, TypeOK, Read, Unpublished
  <2> QED
    BY <2>1, BatchNotEmpty
<1>2. relay' = [relay EXCEPT ![r] = run] /\ UNCHANGED <<store, crashes, operator>>
  BY DEF Read
<1> HIDE DEF batch
<1>3. /\ run \in Run /\ run.pc = "next" /\ run.batch = batch
      /\ \A e \in batch : run.prior[e] = attempts[e]
  BY <1>1 DEF IInv, TypeOK, Run, NoRun
<1> HIDE DEF run
<1>4. TypeOK'
  BY <1>1, <1>2, <1>3 DEF IInv, TypeOK, store, operator
<1>5. ProcessedIsSettled'
  BY <1>2, <1>3 DEF IInv, TypeOK, ProcessedIsSettled, IsSettled, IsParked, Current, store,
                    operator
<1>6. CountsAreFailures'
  BY <1>1, <1>2, <1>3 DEF IInv, TypeOK, CountsAreFailures, Current, store
<1>7. LooksHold'
  <2>1. \A q \in Relays : relay'[q].pc = "publishing" => relay'[q] = relay[q]
    BY <1>2, <1>3 DEF IInv, TypeOK
  <2>2. overlapped' = overlapped /\ processed' = processed
    BY <1>2 DEF store
  <2> QED
    BY <2>1, <2>2, LooksKept
<1> QED
  BY <1>2, <1>4, <1>5, <1>6, <1>7
  DEF IInv, NothingLost, IsSettled, IsParked, ChancesAreReplays, Chances, HasLetter,
      GivenUpOnlyAfterMax, store, operator

\* What a run sees in processed_events is there.
LEMMA StartKeepsIInv ==
  ASSUME IInv, NEW r \in Relays, StartPublish(r)
  PROVE  IInv'
<1> DEFINE saw == {c \in Consumers : <<c, Current(r)>> \in processed}
           run == [relay[r] EXCEPT !.pc = "publishing", !.seen = saw]
<1>1. /\ relay' = [relay EXCEPT ![r] = run] /\ overlapped' = Overlap(Current(r))
      /\ UNCHANGED <<emitted, published, attempts, due, processed, dlq, times, failed, crashes, operator>>
  BY DEF StartPublish, IInv, TypeOK, Run
<1>2. /\ run \in Run /\ run.pc = "publishing" /\ run.batch = relay[r].batch
      /\ run.prior = relay[r].prior /\ run.seen = saw /\ run.batch # {}
  BY CurrentInBatch DEF StartPublish, IInv, TypeOK, Run
<1>o. overlapped \subseteq overlapped' /\ overlapped' \subseteq Events
  BY <1>1, CurrentInBatch DEF Overlap, IInv, TypeOK, StartPublish
<1> HIDE DEF run
<1>3. TypeOK'
  BY <1>1, <1>2, <1>o DEF IInv, TypeOK, operator
<1>4. ProcessedIsSettled'
  <2>1. Current(r)' = Current(r)
    BY <1>1, <1>2 DEF Current, IInv, TypeOK
  <2> QED
    BY <1>1, <1>2, <2>1 DEF IInv, TypeOK, ProcessedIsSettled, IsSettled, IsParked, Current,
                            operator
<1>5. CountsAreFailures'
  BY <1>1, <1>2 DEF IInv, TypeOK, CountsAreFailures, Current
<1>6. LooksHold'
  <2>1. \A q \in Relays : Current(q)' = Current(q) /\ (q # r => relay'[q] = relay[q])
    BY <1>1, <1>2 DEF Current, IInv, TypeOK
  <2>2. relay'[r].pc = "publishing" /\ relay'[r].seen = saw /\ processed' = processed
    BY <1>1, <1>2 DEF IInv, TypeOK
  <2>3. Publishing(Current(r)) # {} => Current(r) \in overlapped'
    BY <1>1 DEF Overlap
  <2>4. ASSUME NEW q \in Relays, relay'[q].pc = "publishing", Current(q) \notin overlapped'
        PROVE  /\ Publishing(Current(q))' = {q}
               /\ \A c \in Subscribers(Current(q)) \ relay'[q].seen : <<c, Current(q)>> \notin processed'
    <3>1. CASE q = r
      <4>1. Publishing(Current(r)) = {}
        BY <2>3, <2>4, <3>1
      <4>2. \A x \in Relays : relay'[x].pc = "publishing" /\ Current(x) = Current(r) => x = r
        BY <2>1, <4>1 DEF Publishing
      <4>3. Publishing(Current(r))' = {r}
        BY <2>1, <2>2, <4>2 DEF Publishing
      <4> QED
        BY <2>2, <3>1, <4>3 DEF Subscribers
    <3>2. CASE q # r
      <4>1. relay[q].pc = "publishing" /\ relay'[q] = relay[q] /\ Current(q) \notin overlapped
        BY <1>o, <2>1, <2>4, <3>2
      <4>2. /\ Publishing(Current(q)) = {q}
            /\ \A c \in Subscribers(Current(q)) \ relay[q].seen : <<c, Current(q)>> \notin processed
        BY <4>1 DEF IInv, LooksHold
      <4>3. Current(q) # Current(r)
        BY <2>3, <2>4, <4>1 DEF Publishing
      <4>4. \A x \in Relays : relay'[x].pc = "publishing" /\ Current(x) = Current(q) => x = q
        BY <2>1, <4>2, <4>3 DEF Publishing
      <4>5. Publishing(Current(q))' = {q}
        BY <2>1, <2>4, <4>4 DEF Publishing
      <4> QED
        BY <2>2, <4>1, <4>2, <4>5
    <3> QED
      BY <3>1, <3>2
  <2>5. \A q \in Relays : relay'[q].pc = "publishing" /\ Current(q) \notin overlapped' =>
           /\ Publishing(Current(q))' = {q}
           /\ \A c \in Subscribers(Current(q)) \ relay'[q].seen : <<c, Current(q)>> \notin processed'
    BY <2>4
  <2> QED
    BY <2>1, <2>5 DEF LooksHold, Subscribers, Publishing
<1> QED
  BY <1>1, <1>3, <1>4, <1>5, <1>6, <1>o
  DEF IInv, NothingLost, IsSettled, IsParked, ChancesAreReplays, Chances, HasLetter,
      GivenUpOnlyAfterMax, operator

\* A failed publish transaction is one more failure than any counter read so far.
LEMMA FailKeepsIInv ==
  ASSUME IInv, NEW r \in Relays, Fail(r)
  PROVE  IInv'
<1> DEFINE e == Current(r)
           run == [relay[r] EXCEPT !.pc = "failing", !.seen = {}, !.read = attempts[e]]
<1>1. /\ relay' = [relay EXCEPT ![r] = run] /\ failed' = [failed EXCEPT ![e] = @ + 1]
      /\ UNCHANGED <<emitted, published, attempts, due, processed, dlq, times, overlapped,
                     crashes, operator>>
  BY DEF Fail, IInv, TypeOK, Run
<1>2. e \in Events /\ e \in relay[r].batch
  BY CurrentInBatch DEF IInv, Fail
<1>3. /\ run \in Run /\ run.pc = "failing" /\ run.batch = relay[r].batch
      /\ run.prior = relay[r].prior /\ run.read = attempts[e] /\ run.batch # {}
  BY <1>2, CurrentInBatch DEF Fail, IInv, TypeOK, Run
<1> HIDE DEF run
<1>4. e = First(relay'[r].batch) /\ e = Current(r)'
  BY <1>1, <1>3 DEF Current, IInv, TypeOK
<1>5. TypeOK'
  BY <1>1, <1>2, <1>3 DEF IInv, TypeOK, operator
<1>6. ProcessedIsSettled'
  BY <1>1, <1>3 DEF IInv, TypeOK, ProcessedIsSettled, IsSettled, IsParked, Current, operator
<1>7. failed' \in [Events -> Nat] /\ failed'[e] = failed[e] + 1 /\ \A f \in Events : failed'[f] >= failed[f]
  BY <1>1, <1>2 DEF IInv, TypeOK
<1>8. CountsAreFailures'
  <2>1. \A f \in Events : attempts'[f] <= failed'[f]
    BY <1>1, <1>7 DEF IInv, TypeOK, CountsAreFailures
  <2>2. \A q \in Relays : relay'[q].batch = relay[q].batch /\ relay'[q].prior = relay[q].prior
    BY <1>1, <1>3 DEF IInv, TypeOK
  <2>3. \A q \in Relays : \A f \in relay[q].batch : f \in Events /\ relay[q].prior[f] \in Nat
    BY DEF IInv, TypeOK, Run
  <2>4. \A q \in Relays : \A f \in relay'[q].batch : relay'[q].prior[f] <= failed'[f]
    BY <1>7, <2>2, <2>3 DEF IInv, TypeOK, CountsAreFailures
  <2>5. ASSUME NEW q \in Relays, relay'[q].pc = "failing"
        PROVE  relay'[q].read < failed'[Current(q)'] /\ relay'[q].prior[Current(q)'] < failed'[Current(q)']
    <3>1. CASE q = r
      <4>1. relay[r].prior[e] \in Nat /\ relay[r].prior[e] <= failed[e] /\ attempts[e] <= failed[e]
        BY <1>2, <2>3 DEF IInv, CountsAreFailures
      <4>2. failed[e] \in Nat /\ attempts[e] \in Nat
        BY <1>2 DEF IInv, TypeOK
      <4>3. relay'[r].read = attempts[e] /\ relay'[r].prior = relay[r].prior
        BY <1>1, <1>3 DEF IInv, TypeOK
      <4> HIDE DEF e
      <4> QED
        BY <1>4, <1>7, <3>1, <4>1, <4>2, <4>3
    <3>2. CASE q # r
      <4>1. relay'[q] = relay[q] /\ Current(q)' = Current(q)
        BY <1>1, <3>2 DEF Current, IInv, TypeOK
      <4>2. relay[q].read < failed[Current(q)] /\ relay[q].prior[Current(q)] < failed[Current(q)]
        BY <2>5, <4>1 DEF IInv, CountsAreFailures
      <4>3. Current(q) \in Events /\ relay[q].read \in Nat /\ relay[q].prior[Current(q)] \in Nat
        BY <2>5, <4>1, <2>3, CurrentInBatch DEF IInv, TypeOK, Run
      <4> QED
        BY <1>7, <4>1, <4>2, <4>3 DEF IInv, TypeOK
    <3> QED
      BY <3>1, <3>2
  <2> QED
    BY <2>1, <2>4, <2>5 DEF CountsAreFailures
<1>9. GivenUpOnlyAfterMax'
  <2>1. \A l \in dlq : l.event \in Events
    BY DEF IInv, TypeOK
  <2>2. \A f \in Events : failed[f] \in Nat /\ failed'[f] \in Nat
    BY <1>7 DEF IInv, TypeOK
  <2>3. SUFFICES ASSUME NEW l \in dlq, l.consumer = RelayConsumer
                PROVE  failed'[l.event] >= MaxPublishAttempts
    BY <1>1 DEF GivenUpOnlyAfterMax
  <2>4. failed[l.event] >= MaxPublishAttempts /\ failed'[l.event] >= failed[l.event]
    BY <1>7, <2>1, <2>3 DEF IInv, GivenUpOnlyAfterMax
  <2>5. failed[l.event] \in Nat /\ failed'[l.event] \in Nat /\ MaxPublishAttempts \in Nat
    BY <2>1, <2>2, OutboxAssumption
  <2> QED
    BY <2>4, <2>5
<1>10. LooksHold'
  <2>1. \A q \in Relays : relay'[q].pc = "publishing" => relay'[q] = relay[q]
    BY <1>1, <1>3 DEF IInv, TypeOK
  <2> QED
    BY <1>1, <2>1, LooksKept
<1> QED
  BY <1>1, <1>5, <1>6, <1>8, <1>9, <1>10 DEF IInv, NothingLost, IsSettled, IsParked,
                                      ChancesAreReplays, Chances, HasLetter, operator

\* A run that moves on, ends or dies has no counter or consumer to remember but
\* those it read with its batch.
LEMMA MovingOnKeepsRun ==
  ASSUME IInv, NEW r \in Relays, relay[r].pc # "idle", NEW run,
         run = Advance(relay[r]) \/ run = NoRun
  PROVE  /\ run \in Run /\ run.pc \in {"idle", "next"}
         /\ run.batch \subseteq relay[r].batch
         /\ (run.pc = "idle") <=> (run.batch = {})
         /\ \A e \in run.batch : run.prior[e] <= failed[e]
<1>1. relay[r] \in Run /\ relay[r].batch # {} /\ relay[r].batch \subseteq Events
  BY CurrentInBatch DEF IInv, TypeOK
<1>2. NoRun \in Run /\ NoRun.batch = {} /\ NoRun.pc = "idle"
  BY DEF NoRun, Run
<1>3. \A e \in relay[r].batch : relay[r].prior[e] <= failed[e]
  BY DEF IInv, CountsAreFailures
<1> QED
  BY <1>1, <1>2, <1>3, AdvanceType

\* Moving on with the rest of the state as it was, or grown by dead letters,
\* deliveries and published events that agree, keeps the invariants on runs.
LEMMA RunsAfterMovingOn ==
  ASSUME IInv, NEW r \in Relays, relay[r].pc # "idle", NEW run,
         run = Advance(relay[r]) \/ run = NoRun,
         relay' = [relay EXCEPT ![r] = run],
         \A p \in Handles : IsSettled(p) => IsSettled(p)', failed' = failed
  PROVE  /\ relay' \in [Relays -> Run]
         /\ \A q \in Relays : relay'[q].batch \subseteq emitted
                              /\ ((relay'[q].pc = "idle") <=> (relay'[q].batch = {}))
         /\ \A q \in Relays, c \in Consumers :
              /\ relay'[q].pc = "publishing"
              /\ c \in relay'[q].seen
              /\ <<c, Current(q)'>> \in Handles
              => IsSettled(<<c, Current(q)>>)'
         /\ \A q \in Relays : \A e \in relay'[q].batch : relay'[q].prior[e] <= failed'[e]
         /\ \A q \in Relays : relay'[q].pc = "failing" =>
              /\ relay'[q].read < failed'[Current(q)']
              /\ relay'[q].prior[Current(q)'] < failed'[Current(q)']
<1>1. /\ run \in Run /\ run.pc \in {"idle", "next"} /\ run.batch \subseteq relay[r].batch
      /\ (run.pc = "idle") <=> (run.batch = {})
      /\ \A e \in run.batch : run.prior[e] <= failed[e]
  BY MovingOnKeepsRun
<1>2. relay'[r] = run /\ \A q \in Relays : q # r => relay'[q] = relay[q] /\ Current(q)' = Current(q)
  BY DEF IInv, TypeOK, Current
<1>3. relay' \in [Relays -> Run]
  BY <1>1 DEF IInv, TypeOK
<1>4. ASSUME NEW q \in Relays, NEW c \in Consumers, relay'[q].pc = "publishing",
             c \in relay'[q].seen, <<c, Current(q)'>> \in Handles
      PROVE  IsSettled(<<c, Current(q)>>)'
  <2>1. q # r /\ relay'[q] = relay[q] /\ Current(q)' = Current(q)
    BY <1>1, <1>2, <1>4
  <2>2. PICK p \in Handles : p = <<c, Current(q)>>
    BY <1>4, <2>1
  <2>3. IsSettled(p)
    BY <1>4, <2>1, <2>2 DEF IInv, ProcessedIsSettled
  <2>4. IsSettled(p)'
    BY <2>3
  <2> QED
    BY <2>1, <2>2, <2>4 DEF IsSettled, IsParked
<1> QED
  BY <1>1, <1>2, <1>3, <1>4 DEF IInv, TypeOK, CountsAreFailures

\* A run that moves on has no publish transaction open.
LEMMA LooksAfterMovingOn ==
  ASSUME IInv, NEW r \in Relays, relay[r].pc # "idle", NEW run,
         run = Advance(relay[r]) \/ run = NoRun,
         relay' = [relay EXCEPT ![r] = run], overlapped' = overlapped, processed' = processed
  PROVE  LooksHold'
<1>1. \A q \in Relays : relay'[q].pc = "publishing" => relay'[q] = relay[q]
  BY MovingOnKeepsRun DEF IInv, TypeOK
<1> QED
  BY <1>1, LooksKept

\* A run that dies forgets; the store keeps what was committed.
LEMMA CrashKeepsIInv ==
  ASSUME IInv, NEW r \in Relays, Crash(r)
  PROVE  IInv'
<1>1. relay' = [relay EXCEPT ![r] = NoRun] /\ relay[r].pc # "idle" /\ crashes' = crashes + 1
      /\ UNCHANGED <<store, operator>>
  BY DEF Crash
<1>2. (\A p \in Handles : IsSettled(p) => IsSettled(p)') /\ failed' = failed
  BY <1>1 DEF store, IsSettled, IsParked
<1>3. TypeOK'
  <2>1. /\ relay' \in [Relays -> Run]
        /\ \A q \in Relays : relay'[q].batch \subseteq emitted
                             /\ ((relay'[q].pc = "idle") <=> (relay'[q].batch = {}))
    BY <1>1, <1>2, RunsAfterMovingOn
  <2>2. crashes' \in Nat
    BY <1>1 DEF IInv, TypeOK
  <2> QED
    BY <1>1, <2>1, <2>2 DEF IInv, TypeOK, store, operator
<1>4. ProcessedIsSettled'
  <2>1. \A p \in processed' : p[2] \in published' /\ IsSettled(p)'
    BY <1>1 DEF IInv, ProcessedIsSettled, IsSettled, IsParked, store
  <2>2. \A p \in Handles : times'[p] > 0 => p[2] \in published'
    BY <1>1 DEF IInv, ProcessedIsSettled, store
  <2>3. replaying' # NoEvent => replaying' \in published'
    BY <1>1 DEF IInv, ProcessedIsSettled, store, operator
  <2> QED
    BY <1>1, <1>2, <2>1, <2>2, <2>3, RunsAfterMovingOn DEF ProcessedIsSettled
<1>5. CountsAreFailures'
  BY <1>1, <1>2, RunsAfterMovingOn DEF IInv, CountsAreFailures, store
<1>6. LooksHold'
  BY <1>1, LooksAfterMovingOn DEF store
<1> QED
  BY <1>1, <1>3, <1>4, <1>5, <1>6
  DEF IInv, NothingLost, IsSettled, IsParked, ChancesAreReplays, Chances, HasLetter,
      GivenUpOnlyAfterMax, store, operator

\* A run parks an event whose failures have reached the maximum.
LEMMA ParkKeepsIInv ==
  ASSUME IInv, NEW r \in Relays, Park(r)
  PROVE  IInv'
<1> DEFINE e == Current(r)
           letter == DeadLetter(RelayConsumer, e)
<1>1. /\ relay' = [relay EXCEPT ![r] = Advance(relay[r])] /\ relay[r].pc = "failing"
      /\ dlq' = dlq \cup {letter} /\ published' = published \cup {e}
      /\ UNCHANGED <<emitted, attempts, due, processed, times, failed, overlapped, crashes, operator>>
  BY DEF Park, IInv, TypeOK
<1>2. e \in emitted /\ e \in Events
  BY <1>1, CurrentInBatch DEF IInv
<1>3. letter \in Letters /\ letter.event = e /\ letter.consumer = RelayConsumer
  BY <1>2 DEF DeadLetter, Letters
<1> HIDE DEF letter
<1>s. \A p \in Handles : IsSettled(p) => IsSettled(p)'
  BY <1>1 DEF IsSettled, IsParked
<1>4. \A p \in Handles : p[2] = e => IsSettled(p)'
  BY <1>1, <1>3 DEF IsSettled, IsParked
<1>5. \A p \in processed : p \in Handles
  BY DEF IInv, TypeOK
<1>6. TypeOK'
  <2>1. /\ relay' \in [Relays -> Run]
        /\ \A q \in Relays : relay'[q].batch \subseteq emitted
                             /\ ((relay'[q].pc = "idle") <=> (relay'[q].batch = {}))
    BY <1>1, <1>s, RunsAfterMovingOn
  <2> QED
    BY <1>1, <1>2, <1>3, <2>1 DEF IInv, TypeOK, operator
<1>7. ProcessedIsSettled'
  <2>1. \A p \in processed' : p[2] \in published' /\ IsSettled(p)'
    BY <1>1, <1>s, <1>5 DEF IInv, ProcessedIsSettled
  <2>2. \A p \in Handles : times'[p] > 0 => p[2] \in published'
    BY <1>1 DEF IInv, ProcessedIsSettled
  <2>3. replaying' # NoEvent => replaying' \in published'
    BY <1>1 DEF IInv, ProcessedIsSettled, operator
  <2> QED
    BY <1>1, <1>s, <2>1, <2>2, <2>3, RunsAfterMovingOn DEF ProcessedIsSettled
<1>8. CountsAreFailures'
  BY <1>1, <1>s, RunsAfterMovingOn DEF IInv, CountsAreFailures
<1>9. NothingLost' /\ ChancesAreReplays'
  <2>1. \A p \in Handles : HasLetter(p)' <=> HasLetter(p)
    BY <1>1, <1>3, OutboxAssumption DEF HasLetter
  <2> QED
    BY <1>1, <1>s, <1>4, <2>1 DEF IInv, NothingLost, ChancesAreReplays, Chances, operator
<1>10. GivenUpOnlyAfterMax'
  <2>1. relay[r].prior[e] < failed[e]
    BY <1>1 DEF IInv, CountsAreFailures
  <2>2. relay[r].prior[e] + 1 >= MaxPublishAttempts
    BY DEF Park, IsLastAttempt, Current
  <2>3. relay[r].prior[e] \in Nat /\ failed[e] \in Nat
    BY <1>1, <1>2, CurrentInBatch DEF IInv, TypeOK, Run
  <2> HIDE DEF e
  <2>4. failed[e] >= MaxPublishAttempts
    BY <2>1, <2>2, <2>3, OutboxAssumption
  <2> QED
    BY <1>1, <1>3, <2>4 DEF IInv, GivenUpOnlyAfterMax
<1>11. LooksHold'
  BY <1>1, LooksAfterMovingOn
<1> QED
  BY <1>6, <1>7, <1>8, <1>9, <1>10, <1>11 DEF IInv

\* The counter written back is the one read plus one: at most the failures so far.
LEMMA BackOffKeepsIInv ==
  ASSUME IInv, NEW r \in Relays, BackOff(r)
  PROVE  IInv'
<1> DEFINE e == Current(r)
<1>1. /\ relay' = [relay EXCEPT ![r] = Advance(relay[r])] /\ relay[r].pc = "failing"
      /\ attempts' = [attempts EXCEPT ![e] = relay[r].read + 1] /\ due' = due \ {e}
      /\ UNCHANGED <<emitted, published, processed, dlq, times, failed, overlapped, crashes,
                     operator>>
  BY DEF BackOff, IInv, TypeOK
<1>2. e \in Events /\ relay[r] \in Run
  BY <1>1, CurrentInBatch DEF IInv
<1>3. relay[r].read \in Nat /\ failed[e] \in Nat /\ relay[r].read + 1 <= failed[e]
  <2>1. relay[r].read < failed[e]
    BY <1>1 DEF IInv, CountsAreFailures
  <2>2. relay[r].read \in Nat /\ failed[e] \in Nat
    BY <1>2 DEF IInv, TypeOK, Run
  <2> HIDE DEF e
  <2> QED
    BY <2>1, <2>2
<1> HIDE DEF e
<1>s. \A p \in Handles : IsSettled(p) => IsSettled(p)'
  BY <1>1 DEF IsSettled, IsParked
<1>4. TypeOK'
  <2>1. attempts' \in [Events -> Nat]
    BY <1>1, <1>2, <1>3 DEF IInv, TypeOK
  <2>2. /\ relay' \in [Relays -> Run]
        /\ \A q \in Relays : relay'[q].batch \subseteq emitted
                             /\ ((relay'[q].pc = "idle") <=> (relay'[q].batch = {}))
    BY <1>1, <1>s, RunsAfterMovingOn
  <2> QED
    BY <1>1, <2>1, <2>2 DEF IInv, TypeOK, operator
<1>5. ProcessedIsSettled'
  <2>1. \A p \in processed' : p[2] \in published' /\ IsSettled(p)'
    BY <1>1 DEF IInv, ProcessedIsSettled, IsSettled, IsParked
  <2>2. \A p \in Handles : times'[p] > 0 => p[2] \in published'
    BY <1>1 DEF IInv, ProcessedIsSettled
  <2>3. replaying' # NoEvent => replaying' \in published'
    BY <1>1 DEF IInv, ProcessedIsSettled, operator
  <2> QED
    BY <1>1, <1>s, <2>1, <2>2, <2>3, RunsAfterMovingOn DEF ProcessedIsSettled
<1>6. CountsAreFailures'
  <2>1. \A f \in Events : attempts'[f] <= failed'[f]
    BY <1>1, <1>2, <1>3 DEF IInv, TypeOK, CountsAreFailures
  <2> QED
    BY <1>1, <1>s, <2>1, RunsAfterMovingOn DEF CountsAreFailures
<1>7. LooksHold'
  BY <1>1, LooksAfterMovingOn
<1> QED
  BY <1>1, <1>4, <1>5, <1>6, <1>7 DEF IInv, NothingLost, IsSettled, IsParked, ChancesAreReplays,
      Chances, HasLetter, GivenUpOnlyAfterMax, operator

-----------------------------------------------------------------------------
(***************************************************************************)
(* Dispatching: the commit of a publish transaction, and the two forms of  *)
(* a replay, do the same to the tables but for the rows of                 *)
(* processed_events ("gone") and the dead letters ("letters") an operator  *)
(* has touched before.                                                     *)
(***************************************************************************)

\* The same dead letters, but for their replayed_at.
SameLetters(letters) ==
  /\ letters \subseteq {l \in Letters : l.event \in published}
  /\ \A l \in dlq : \E m \in letters : m.consumer = l.consumer /\ m.event = l.event
  /\ \A m \in letters : \E l \in dlq : m.consumer = l.consumer /\ m.event = l.event

\* Event e is dispatched to the handlers of "todo" among those that wait for it.
Dispatched(e, todo, poison, letters, gone) ==
  /\ e \in emitted /\ todo \subseteq Subscribers(e) /\ poison \subseteq todo
  /\ SameLetters(letters)
  /\ Dispatch(e, todo, poison, letters)
  /\ processed' = (processed \ gone) \cup (todo \X {e})
  /\ e \notin overlapped' => \A c \in todo : <<c, e>> \notin processed \ gone
  /\ overlapped \subseteq overlapped' /\ overlapped' \subseteq overlapped \cup {e}
  /\ \A c \in Subscribers(e) \ todo : IsSettled(<<c, e>>)
  /\ \A p \in gone : HasLetter(p) /\ replays' = replays + 1
  /\ replays' \in {replays, replays + 1}
  /\ published' = published \cup {e}
  /\ UNCHANGED <<emitted, attempts, due, failed>>

\* What a dispatch does to one delivery.
LEMMA DispatchedPair ==
  ASSUME IInv, NEW e, NEW todo, NEW poison, NEW letters, NEW gone,
         Dispatched(e, todo, poison, letters, gone)
  PROVE  /\ times' \in [Handles -> Nat]
         /\ \A p \in Handles : /\ IsParked(p)' <=> IsParked(p) \/ (p[2] = e /\ p[1] \in poison)
                               /\ HasLetter(p)' <=> HasLetter(p) \/ (p[2] = e /\ p[1] \in poison)
                               /\ times'[p] = times[p] + (IF p[2] = e /\ p[1] \in todo \ poison
                                                          THEN 1 ELSE 0)
         /\ \A p \in Handles : p[1] \in Consumers /\ p[2] \in Events /\ p = <<p[1], p[2]>>
         /\ \A c \in todo : c \in Consumers /\ <<c, e>> \in Handles
         /\ RelayConsumer \notin todo
<1>1. \A p \in Handles : p[1] \in Consumers /\ p[2] \in Events /\ p = <<p[1], p[2]>>
  BY OutboxAssumption
<1>2. (\A c \in todo : c \in Consumers /\ <<c, e>> \in Handles) /\ RelayConsumer \notin todo
  BY OutboxAssumption DEF Dispatched, Subscribers
<1>3. \A p \in Handles : p \in (todo \ poison) \X {e} <=> p[2] = e /\ p[1] \in todo \ poison
  BY <1>1
<1>4. times' = [p \in Handles |-> IF p[2] = e /\ p[1] \in todo \ poison THEN times[p] + 1 ELSE times[p]]
  BY <1>3 DEF Dispatched, Dispatch
<1>5. times \in [Handles -> Nat]
  BY DEF IInv, TypeOK
<1>6. /\ times' \in [Handles -> Nat]
      /\ \A p \in Handles : times'[p] = times[p] + (IF p[2] = e /\ p[1] \in todo \ poison
                                                    THEN 1 ELSE 0)
  BY <1>4, <1>5
<1>7. dlq' = letters \cup {DeadLetter(c, e) : c \in poison}
  BY DEF Dispatched, Dispatch
<1>8. \A c \in poison : DeadLetter(c, e).consumer = c /\ DeadLetter(c, e).event = e /\ c # RelayConsumer
  BY <1>2 DEF DeadLetter, Dispatched
<1>9. ASSUME NEW p \in Handles, NEW C \in {{p[1]}, {p[1], RelayConsumer}}
      PROVE  (\E l \in dlq' : l.event = p[2] /\ l.consumer \in C)
               <=> (\E l \in dlq : l.event = p[2] /\ l.consumer \in C) \/ (p[2] = e /\ p[1] \in poison)
  <2>1. (\E l \in letters : l.event = p[2] /\ l.consumer \in C)
          <=> (\E l \in dlq : l.event = p[2] /\ l.consumer \in C)
    BY DEF Dispatched, SameLetters
  <2>2. (\E l \in {DeadLetter(c, e) : c \in poison} : l.event = p[2] /\ l.consumer \in C)
          <=> p[2] = e /\ p[1] \in poison
    BY <1>8
  <2> QED
    BY <1>7, <2>1, <2>2
<1>10. \A p \in Handles : /\ IsParked(p)' <=> IsParked(p) \/ (p[2] = e /\ p[1] \in poison)
                          /\ HasLetter(p)' <=> HasLetter(p) \/ (p[2] = e /\ p[1] \in poison)
  BY <1>9 DEF IsParked, HasLetter
<1> QED
  BY <1>1, <1>2, <1>6, <1>10

\* Every subscriber of a dispatched event is settled, and no delivery is lost.
LEMMA DispatchedSettles ==
  ASSUME IInv, NEW e, NEW todo, NEW poison, NEW letters, NEW gone,
         Dispatched(e, todo, poison, letters, gone)
  PROVE  /\ \A p \in Handles : IsSettled(p) => IsSettled(p)'
         /\ \A p \in Handles : p[2] = e => IsSettled(p)'
<1>1. ASSUME NEW p \in Handles, IsSettled(p) PROVE IsSettled(p)'
  <2>1. times[p] \in Nat
    BY DEF IInv, TypeOK
  <2> QED
    BY <1>1, <2>1, DispatchedPair DEF IsSettled
<1>2. ASSUME NEW p \in Handles, p[2] = e PROVE IsSettled(p)'
  <2>1. times[p] \in Nat /\ p[1] \in Consumers /\ p = <<p[1], e>>
    BY <1>2, DispatchedPair DEF IInv, TypeOK
  <2>2. CASE p[1] \in todo
    BY <1>2, <2>1, <2>2, DispatchedPair DEF IsSettled
  <2>3. CASE p[1] \notin todo
    <3>1. IsSettled(p)
      BY <2>1, <2>3 DEF Dispatched, Subscribers
    <3> QED
      BY <1>1, <3>1
  <2> QED
    BY <2>2, <2>3
<1> QED
  BY <1>1, <1>2

\* A handler is given an event only when its row is missing, and rows go only with
\* a replay of a dead letter.
LEMMA DispatchedKeepsChances ==
  ASSUME IInv, NEW e, NEW todo, NEW poison, NEW letters, NEW gone,
         Dispatched(e, todo, poison, letters, gone)
  PROVE  ChancesAreReplays'
<1> SUFFICES ASSUME NEW p \in Handles, p[2] \notin overlapped'
             PROVE  Chances(p)' <= IF HasLetter(p)' THEN replays' ELSE 1
  BY DEF ChancesAreReplays
<1>1. /\ times[p] \in Nat /\ replays \in Nat /\ replays' \in {replays, replays + 1}
      /\ Chances(p) <= IF HasLetter(p) THEN replays ELSE 1
      /\ times'[p] = times[p] + (IF p[2] = e /\ p[1] \in todo \ poison THEN 1 ELSE 0)
      /\ HasLetter(p)' <=> HasLetter(p) \/ (p[2] = e /\ p[1] \in poison)
      /\ p = <<p[1], p[2]>>
  <2>1. /\ times[p] \in Nat /\ replays \in Nat /\ replays' \in {replays, replays + 1}
        /\ Chances(p) <= IF HasLetter(p) THEN replays ELSE 1
    BY DEF IInv, TypeOK, ChancesAreReplays, Dispatched
  <2> QED
    BY <2>1, DispatchedPair
<1>2. p \in gone => HasLetter(p) /\ replays' = replays + 1
  BY DEF Dispatched
<1>3. poison \subseteq todo /\ processed' = (processed \ gone) \cup (todo \X {e})
  BY DEF Dispatched
<1>4. CASE p[2] = e /\ p[1] \in todo
  <2>1. p \in processed' /\ p \notin processed \ gone
    BY <1>1, <1>3, <1>4 DEF Dispatched
  <2>2. Chances(p)' = times'[p]
    BY <1>1, <2>1 DEF Chances
  <2>3. CASE p \in gone
    <3>1. times[p] <= replays
      BY <1>1, <1>2, <2>3 DEF Chances
    <3> QED
      BY <1>1, <1>2, <2>2, <2>3, <3>1
  <2>4. CASE p \notin gone
    <3>1. Chances(p) = times[p] + 1
      BY <2>1, <2>4 DEF Chances
    <3> QED
      BY <1>1, <1>4, <2>2, <3>1
  <2> QED
    BY <2>3, <2>4
<1>5. CASE ~ (p[2] = e /\ p[1] \in todo)
  <2>1. p \in processed' <=> p \in processed \ gone
    BY <1>1, <1>3, <1>5
  <2>2. times'[p] = times[p] /\ (HasLetter(p)' <=> HasLetter(p))
    BY <1>1, <1>3, <1>5
  <2>3. CASE p \in gone
    <3>1. times[p] <= replays /\ Chances(p)' = times[p] + 1
      BY <1>1, <1>2, <2>1, <2>2, <2>3 DEF Chances
    <3> QED
      BY <1>1, <1>2, <2>2, <2>3, <3>1
  <2>4. CASE p \notin gone
    <3>1. Chances(p)' = Chances(p)
      BY <2>1, <2>2, <2>4 DEF Chances
    <3>2. Chances(p) \in Nat
      BY <1>1 DEF Chances
    <3> QED
      BY <1>1, <2>2, <3>1, <3>2
  <2> QED
    BY <2>3, <2>4
<1> QED
  BY <1>4, <1>5

\* The tables after a dispatch: everything of the invariant but the runs.
LEMMA DispatchedTables ==
  ASSUME IInv, NEW e, NEW todo, NEW poison, NEW letters, NEW gone,
         Dispatched(e, todo, poison, letters, gone)
  PROVE  /\ published' \subseteq emitted' /\ processed' \subseteq Handles
         /\ dlq' \subseteq {l \in Letters : l.event \in published'}
         /\ times' \in [Handles -> Nat] /\ replays' \in Nat /\ overlapped' \subseteq Events
         /\ \A p \in processed' : p[2] \in published' /\ IsSettled(p)'
         /\ \A p \in Handles : times'[p] > 0 => p[2] \in published'
         /\ NothingLost'
         /\ GivenUpOnlyAfterMax'
<1>1. \A c \in todo : c \in Consumers /\ <<c, e>> \in Handles
  BY DispatchedPair
<1>2. /\ published' = published \cup {e} /\ e \in emitted /\ e \in Events
      /\ emitted' = emitted /\ failed' = failed
      /\ processed' = (processed \ gone) \cup (todo \X {e})
      /\ poison \subseteq todo
  BY DEF Dispatched, IInv, TypeOK
<1>3. published' \subseteq emitted' /\ processed' \subseteq Handles
  BY <1>1, <1>2 DEF IInv, TypeOK
<1>4. dlq' = letters \cup {DeadLetter(c, e) : c \in poison}
  BY DEF Dispatched, Dispatch
<1>5. \A c \in poison : /\ DeadLetter(c, e) \in Letters
                        /\ DeadLetter(c, e).event = e
                        /\ DeadLetter(c, e).consumer # RelayConsumer
  BY <1>1, <1>2, OutboxAssumption DEF DeadLetter, Letters
<1>6. dlq' \subseteq {l \in Letters : l.event \in published'}
  BY <1>2, <1>4, <1>5 DEF Dispatched, SameLetters
<1>7. times' \in [Handles -> Nat] /\ replays' \in Nat /\ overlapped' \subseteq Events
  <2>1. replays' \in Nat /\ overlapped' \subseteq Events
    BY DEF Dispatched, IInv, TypeOK
  <2> QED
    BY <2>1, DispatchedPair
<1>8. \A p \in processed' : p[2] \in published' /\ IsSettled(p)'
  <2>1. ASSUME NEW p \in processed PROVE p[2] \in published' /\ IsSettled(p)'
    BY <1>2, DispatchedSettles DEF IInv, TypeOK, ProcessedIsSettled
  <2>2. ASSUME NEW p \in todo \X {e} PROVE p[2] \in published' /\ IsSettled(p)'
    BY <1>1, <1>2, DispatchedSettles
  <2> QED
    BY <1>2, <2>1, <2>2
<1>9. \A p \in Handles : times'[p] > 0 => p[2] \in published'
  BY <1>2, DispatchedPair DEF IInv, TypeOK, ProcessedIsSettled
<1>10. NothingLost'
  BY <1>2, DispatchedSettles DEF IInv, NothingLost
<1>11. GivenUpOnlyAfterMax'
  <2> SUFFICES ASSUME NEW l \in dlq', l.consumer = RelayConsumer
               PROVE  failed[l.event] >= MaxPublishAttempts
    BY <1>2 DEF GivenUpOnlyAfterMax
  <2>1. l \in letters
    BY <1>4, <1>5
  <2>2. PICK m \in dlq : m.consumer = RelayConsumer /\ m.event = l.event
    BY <2>1 DEF Dispatched, SameLetters
  <2> QED
    BY <2>2 DEF IInv, GivenUpOnlyAfterMax
<1> QED
  BY <1>3, <1>6, <1>7, <1>8, <1>9, <1>10, <1>11

\* The commit of a publish transaction is a dispatch to the subscribers that found
\* no row of processed_events; whoever found one was settled before.
LEMMA CommitDispatches ==
  ASSUME IInv, NEW r \in Relays, CommitPublish(r)
  PROVE  \E todo, poison : Dispatched(Current(r), todo, poison, dlq, {})
<1>e. PICK e : e = Current(r)
  OBVIOUS
<1>1. PICK todo \in FoundNoRow(r) :
        /\ processed' = processed \cup (todo \X {e})
        /\ \E poison \in SUBSET todo : Dispatch(e, todo, poison, dlq)
  BY <1>e DEF CommitPublish
<1>p. PICK poison \in SUBSET todo : Dispatch(e, todo, poison, dlq)
  BY <1>1
<1>2. /\ relay[r].pc = "publishing" /\ published' = published \cup {e}
      /\ UNCHANGED <<emitted, attempts, due, failed, overlapped, operator>>
  BY <1>e DEF CommitPublish
<1>3. e \in emitted
  BY <1>e, <1>2, CurrentInBatch DEF IInv
<1>t. /\ todo \subseteq Subscribers(e)
      /\ \A c \in Subscribers(e) : (c \in relay[r].seen <=> <<c, e>> \in processed)
                                      => (c \in todo <=> c \notin relay[r].seen)
  BY <1>1, <1>e DEF FoundNoRow
<1>4. \A c \in Subscribers(e) \ todo : IsSettled(<<c, e>>)
  <2> SUFFICES ASSUME NEW c \in Subscribers(e) \ todo PROVE IsSettled(<<c, e>>)
    OBVIOUS
  <2>1. c \in Consumers /\ <<c, e>> \in Handles
    BY DEF Subscribers
  <2>2. c \in relay[r].seen \/ <<c, e>> \in processed
    BY <1>t
  <2>3. CASE c \in relay[r].seen
    BY <1>e, <1>2, <2>1, <2>3 DEF IInv, ProcessedIsSettled
  <2>4. CASE <<c, e>> \in processed
    BY <2>4 DEF IInv, ProcessedIsSettled
  <2> QED
    BY <2>2, <2>3, <2>4
<1>5. SameLetters(dlq)
  BY DEF SameLetters, IInv, TypeOK
<1>6. e \notin overlapped' => \A c \in todo : <<c, e>> \notin processed
  <2> SUFFICES ASSUME e \notin overlapped, NEW c \in todo PROVE <<c, e>> \notin processed
    BY <1>2
  <2>1. c \notin relay[r].seen => <<c, e>> \notin processed
    BY <1>e, <1>t, <1>2 DEF IInv, LooksHold
  <2> QED
    BY <1>t, <2>1
<1>7. Dispatched(e, todo, poison, dlq, {})
  BY <1>1, <1>p, <1>2, <1>3, <1>4, <1>5, <1>6, <1>t DEF Dispatched, operator
<1> QED
  BY <1>7, <1>e

\* A run's publication settles its event and the run moves on.
LEMMA CommitKeepsIInv ==
  ASSUME IInv, NEW r \in Relays, CommitPublish(r)
  PROVE  IInv'
<1>e. PICK e : e = Current(r)
  OBVIOUS
<1>1. PICK todo, poison : Dispatched(e, todo, poison, dlq, {})
  BY <1>e, CommitDispatches
<1>2. /\ relay' = [relay EXCEPT ![r] = Advance(relay[r])] /\ relay[r].pc # "idle"
      /\ UNCHANGED <<emitted, attempts, due, failed, overlapped, crashes, operator>>
      /\ relay[r].pc = "publishing"
  BY DEF CommitPublish, IInv, TypeOK
<1>3. \A p \in Handles : IsSettled(p) => IsSettled(p)'
  BY <1>1, DispatchedSettles
<1>4. TypeOK'
  <2>1. /\ relay' \in [Relays -> Run]
        /\ \A q \in Relays : relay'[q].batch \subseteq emitted
                             /\ ((relay'[q].pc = "idle") <=> (relay'[q].batch = {}))
    BY <1>2, <1>3, RunsAfterMovingOn
  <2> QED
    BY <1>1, <1>2, <2>1, DispatchedTables DEF IInv, TypeOK, operator
<1>5. ProcessedIsSettled'
  <2>1. replaying' # NoEvent => replaying' \in published'
    BY <1>1, <1>2 DEF IInv, ProcessedIsSettled, operator, Dispatched
  <2> QED
    BY <1>1, <1>2, <1>3, <2>1, DispatchedTables, RunsAfterMovingOn DEF ProcessedIsSettled
<1>6. CountsAreFailures'
  BY <1>2, <1>3, RunsAfterMovingOn DEF IInv, CountsAreFailures
<1>7. LooksHold'
  <2>1. \A q \in Relays : relay'[q].pc = "publishing" => q # r /\ relay'[q] = relay[q]
    BY <1>2, MovingOnKeepsRun DEF IInv, TypeOK
  <2>2. ASSUME NEW q \in Relays, relay'[q].pc = "publishing", Current(q) \notin overlapped
        PROVE  Current(q) # e
    <3>1. Publishing(Current(q)) = {q} /\ q # r
      BY <2>1, <2>2 DEF IInv, LooksHold
    <3> QED
      BY <1>2, <1>e, <3>1 DEF Publishing
  <2>3. processed' = processed \cup (todo \X {e})
    BY <1>1 DEF Dispatched
  <2>4. ASSUME NEW q \in Relays, relay'[q].pc = "publishing", Current(q) \notin overlapped',
               NEW c \in Consumers, <<c, Current(q)>> \in processed'
        PROVE  <<c, Current(q)>> \in processed
    BY <1>2, <2>2, <2>3, <2>4
  <2> QED
    BY <1>2, <2>1, <2>4, LooksKept
<1> QED
  BY <1>1, <1>4, <1>5, <1>6, <1>7, DispatchedTables, DispatchedKeepsChances DEF IInv

-----------------------------------------------------------------------------
(***************************************************************************)
(* Replays.                                                                *)
(***************************************************************************)

\* Stamping a dead letter replayed keeps the letters, and everything of an event
\* that has one is settled.
LEMMA StampKeepsLetters ==
  ASSUME IInv, NEW letter \in dlq
  PROVE  /\ SameLetters(Stamp(letter))
         /\ letter.event \in published /\ letter.event \in emitted
         /\ \A c \in Subscribers(letter.event) : IsSettled(<<c, letter.event>>)
         /\ HasLetter(<<letter.consumer, letter.event>>)
<1> DEFINE stamped == [letter EXCEPT !.replayed = TRUE]
<1>1. letter \in Letters /\ letter.event \in published /\ letter.event \in emitted
  BY DEF IInv, TypeOK
<1>2. stamped \in Letters /\ stamped.event = letter.event /\ stamped.consumer = letter.consumer
  BY <1>1 DEF Letters
<1>3. Stamp(letter) = (dlq \ {letter}) \cup {stamped}
  BY DEF Stamp
<1> HIDE DEF stamped
<1>4. SameLetters(Stamp(letter))
  BY <1>1, <1>2, <1>3 DEF SameLetters, IInv, TypeOK
<1>5. \A c \in Subscribers(letter.event) : IsSettled(<<c, letter.event>>)
  BY <1>1 DEF IInv, NothingLost, Subscribers
<1>6. HasLetter(<<letter.consumer, letter.event>>)
  BY DEF HasLetter
<1> QED
  BY <1>1, <1>4, <1>5, <1>6

\* The first unit of work of a replay dispatches nothing: it takes a row away.
LEMMA MarkDispatches ==
  ASSUME IInv, NEW letter \in dlq, MarkReplayed(letter)
  PROVE  Dispatched(letter.event, {}, {}, Stamp(letter), {<<letter.consumer, letter.event>>})
<1>1. /\ dlq' = Stamp(letter) /\ replays' = replays + 1
      /\ processed' = processed \ {<<letter.consumer, letter.event>>}
      /\ UNCHANGED <<emitted, published, attempts, due, times, failed, overlapped>>
  BY DEF MarkReplayed, ReplaySlot
<1>2. times' = [p \in Handles |-> times[p]]
  BY <1>1 DEF IInv, TypeOK
<1>3. \A p : p \notin {} \X {letter.event}
  OBVIOUS
<1>4. Dispatch(letter.event, {}, {}, Stamp(letter))
  BY <1>1, <1>2, <1>3 DEF Dispatch
<1>5. published' = published \cup {letter.event}
  BY <1>1, StampKeepsLetters
<1> QED
  BY <1>1, <1>4, <1>5, StampKeepsLetters DEF Dispatched

\* The second dispatches the event to the handlers without a row.
LEMMA RepublishDispatches ==
  ASSUME IInv, Republish
  PROVE  \E poison : Dispatched(replaying, {c \in Subscribers(replaying) : <<c, replaying>> \notin processed},
                                poison, dlq, {})
<1>e. PICK e : e = replaying
  OBVIOUS
<1>t. PICK todo : todo = {c \in Subscribers(e) : <<c, e>> \notin processed}
  OBVIOUS
<1>1. PICK poison \in SUBSET todo : Dispatch(e, todo, poison, dlq)
  BY <1>e, <1>t DEF Republish
<1>2. /\ processed' = processed \cup (todo \X {e}) /\ replays' = replays
      /\ UNCHANGED <<emitted, published, attempts, due, failed>>
      /\ overlapped \subseteq overlapped' /\ overlapped' \subseteq overlapped \cup {e}
  BY <1>e, <1>t DEF Republish, Overlap
<1>3. e \in published /\ e \in emitted
  BY <1>e DEF Republish, IInv, TypeOK, ProcessedIsSettled
<1>4. \A c \in Subscribers(e) : IsSettled(<<c, e>>)
  BY <1>3 DEF IInv, NothingLost, Subscribers
<1>5. SameLetters(dlq)
  BY DEF SameLetters, IInv, TypeOK
<1>6. published' = published \cup {e} /\ todo \subseteq Subscribers(e)
  BY <1>2, <1>3, <1>t
<1>7. Dispatched(e, todo, poison, dlq, {})
  BY <1>1, <1>2, <1>3, <1>4, <1>5, <1>6, <1>t DEF Dispatched
<1> QED
  BY <1>7, <1>e, <1>t

\* In one unit of work both happen; whether the handler of the letter is among
\* those dispatched depends on a flush in between.
LEMMA ReplayInOneDispatches ==
  ASSUME IInv, NEW letter \in dlq, ReplayInOne(letter)
  PROVE  \E todo, poison :
           Dispatched(letter.event, todo, poison, Stamp(letter), {<<letter.consumer, letter.event>>})
<1> DEFINE e == letter.event
           absent == {c \in Subscribers(e) : <<c, e>> \notin processed}
           flushed == IF absent = {} THEN {} ELSE {letter.consumer} \cap Subscribers(e)
<1>1. PICK todo \in {absent, absent \cup flushed} :
        /\ \E poison \in SUBSET todo : Dispatch(e, todo, poison, Stamp(letter))
        /\ processed' = (processed \ {<<letter.consumer, e>>}) \cup (todo \X {e})
  BY DEF ReplayInOne
<1>4. todo \subseteq Subscribers(e) /\ \A c \in todo : c = letter.consumer \/ <<c, e>> \notin processed
  OBVIOUS
<1> HIDE DEF absent, flushed
<1>2. PICK poison \in SUBSET todo : Dispatch(e, todo, poison, Stamp(letter))
  BY <1>1
<1>3. /\ replays' = replays + 1
      /\ UNCHANGED <<emitted, published, attempts, due, failed>>
      /\ overlapped \subseteq overlapped' /\ overlapped' \subseteq overlapped \cup {e}
  BY DEF ReplayInOne, ReplaySlot, Overlap
<1>5. published' = published \cup {e}
  BY <1>3, StampKeepsLetters
<1>6. Dispatched(e, todo, poison, Stamp(letter), {<<letter.consumer, e>>})
  BY <1>1, <1>2, <1>3, <1>4, <1>5, StampKeepsLetters DEF Dispatched
<1> QED
  BY <1>6

\* A dispatch outside the relay keeps the invariant.
LEMMA ReplayKeepsIInv ==
  ASSUME IInv, NEW e, NEW todo, NEW poison, NEW letters, NEW gone,
         Dispatched(e, todo, poison, letters, gone), UNCHANGED <<relay, crashes>>,
         replaying' \in {replaying, NoEvent, e},
         todo = {} \/ overlapped' = Overlap(e)
  PROVE  IInv'
<1>1. /\ UNCHANGED <<emitted, attempts, due, failed>> /\ published' = published \cup {e}
      /\ e \in Events
  BY DEF Dispatched, IInv, TypeOK
<1>2. TypeOK'
  BY <1>1, DispatchedTables DEF IInv, TypeOK
<1>3. ProcessedIsSettled'
  <2>1. ASSUME NEW q \in Relays, NEW c \in Consumers, relay[q].pc = "publishing",
               c \in relay[q].seen, <<c, Current(q)>> \in Handles
        PROVE  IsSettled(<<c, Current(q)>>)'
    <3>1. PICK p \in Handles : p = <<c, Current(q)>>
      BY <2>1
    <3>2. IsSettled(p)
      BY <2>1, <3>1 DEF IInv, ProcessedIsSettled
    <3>3. IsSettled(p)'
      BY <3>2, DispatchedSettles
    <3> QED
      BY <3>1, <3>3 DEF IsSettled, IsParked, Current
  <2>2. \A q \in Relays : Current(q)' = Current(q)
    BY DEF Current
  <2>3. replaying' # NoEvent => replaying' \in published'
    BY <1>1 DEF IInv, ProcessedIsSettled
  <2>4. ASSUME NEW q \in Relays, NEW c \in Consumers, relay'[q].pc = "publishing",
               c \in relay'[q].seen, <<c, Current(q)'>> \in Handles
        PROVE  IsSettled(<<c, Current(q)>>)'
    BY <2>1, <2>2, <2>4
  <2> QED
    BY <2>3, <2>4, DispatchedTables DEF ProcessedIsSettled
<1>4. CountsAreFailures'
  BY <1>1 DEF IInv, CountsAreFailures, Current
<1>5. LooksHold'
  <2>1. /\ overlapped \subseteq overlapped'
        /\ processed' = (processed \ gone) \cup (todo \X {e})
    BY DEF Dispatched
  <2>2. ASSUME NEW q \in Relays, relay'[q].pc = "publishing", Current(q) \notin overlapped',
               NEW c \in Consumers, <<c, Current(q)>> \in processed'
        PROVE  <<c, Current(q)>> \in processed
    <3>1. overlapped' = Overlap(e) => Current(q) # e
      BY <2>2 DEF Overlap, Publishing
    <3> QED
      BY <2>1, <2>2, <3>1
  <2> QED
    BY <2>1, <2>2, LooksKept
<1> QED
  BY <1>2, <1>3, <1>4, <1>5, DispatchedTables, DispatchedKeepsChances DEF IInv

\* The inductive step, one lemma per action of the relay and of a replay.
LEMMA StepIInv == IInv /\ [Next \/ ReplayNext]_vars => IInv'
<1> SUFFICES ASSUME IInv, [Next \/ ReplayNext]_vars
             PROVE  IInv'
  OBVIOUS
<1>1. CASE \E e \in Events : Emit(e) \/ Elapse(e)
  BY <1>1, EmitKeepsIInv
<1>2. CASE \E r \in Relays : RelayStep(r) \/ Crash(r)
  BY <1>2, ReadKeepsIInv, StartKeepsIInv, CommitKeepsIInv, FailKeepsIInv,
     ParkKeepsIInv, BackOffKeepsIInv, CrashKeepsIInv DEF RelayStep
<1>3. ASSUME NEW letter \in dlq, MarkReplayed(letter) PROVE IInv'
  BY <1>3, MarkDispatches, ReplayKeepsIInv DEF MarkReplayed
<1>4. ASSUME NEW letter \in dlq, ReplayInOne(letter) PROVE IInv'
  BY <1>4, ReplayInOneDispatches, ReplayKeepsIInv DEF ReplayInOne
<1>5. CASE Republish
  BY <1>5, RepublishDispatches, ReplayKeepsIInv DEF Republish
<1>6. CASE ReplayCrash \/ UNCHANGED vars
  <2>1. /\ UNCHANGED <<store, relay, replays>> /\ replaying' \in {NoEvent, replaying}
        /\ crashes' \in {crashes, crashes + 1}
    BY <1>6 DEF ReplayCrash, vars, operator
  <2>2. TypeOK'
    BY <2>1 DEF store, IInv, TypeOK
  <2>3. ProcessedIsSettled' /\ CountsAreFailures'
    BY <2>1 DEF store, IInv, ProcessedIsSettled, CountsAreFailures, IsSettled, IsParked, Current
  <2> QED
    BY <2>1, <2>2, <2>3 DEF store, IInv, ChancesAreReplays, Chances, HasLetter, NothingLost,
       IsSettled, IsParked, GivenUpOnlyAfterMax, LooksHold, Publishing, Current
<1> QED
  BY <1>1, <1>2, <1>3, <1>4, <1>5, <1>6 DEF Next, ReplayNext

\* The inductive invariant holds in every state the relay and replays can reach.
THEOREM Invariance == ReplaySpec => []IInv
  BY InitIInv, StepIInv, PTL DEF ReplaySpec

\* The relay alone is the relay without replays.
LEMMA RelayAlone == Spec => []IInv /\ [](replays = 0)
<1>1. Init => replays = 0
  BY DEF Init
<1>2. replays = 0 /\ [Next]_vars => (replays = 0)'
  BY DEF Next, RelayStep, Emit, Elapse, Read, StartPublish, CommitPublish, Fail, Park, BackOff,
         Crash, vars, operator
<1>3. IInv /\ [Next]_vars => IInv'
  BY StepIInv
<1> QED
  BY InitIInv, <1>1, <1>2, <1>3, PTL DEF Spec

\* Columns and runs keep their types (store of relay.py and dispatcher.py).
THEOREM TypeCorrect == ReplaySpec => []TypeOK
<1>1. IInv => TypeOK
  BY DEF IInv
<1> QED
  BY <1>1, Invariance, PTL

\* However many runs overlap and die, and whatever an operator replays meanwhile,
\* an event that left the outbox was applied or parked for each of its subscribers
\* (run_outbox_relay, dispatch).
THEOREM NoEventIsLost == ReplaySpec => []NothingLost
<1>1. IInv => NothingLost
  BY DEF IInv
<1> QED
  BY <1>1, Invariance, PTL

\* The chances bound the applications.
LEMMA ChancesBoundTimes ==
  ASSUME IInv, NEW p \in Handles, p[2] \notin overlapped
  PROVE  times[p] <= IF HasLetter(p) THEN replays ELSE 1
<1>1. times[p] \in Nat /\ replays \in Nat /\ Chances(p) <= IF HasLetter(p) THEN replays ELSE 1
  BY DEF IInv, TypeOK, ChancesAreReplays
<1>2. Chances(p) \in Nat /\ times[p] <= Chances(p)
  BY <1>1 DEF Chances
<1> QED
  BY <1>1, <1>2

\* The look at processed_events makes delivery effectively once: no sequence of runs,
\* failures and crashes commits a handler's writes for an event twice, unless two
\* transactions of the event were open at once (is_processed, mark_processed).
THEOREM EffectivelyOnce == Spec => []AppliedAtMostOnce
<1>1. IInv /\ replays = 0 => AppliedAtMostOnce
  <2> SUFFICES ASSUME IInv, replays = 0, NEW p \in Handles, p[2] \notin overlapped
               PROVE  times[p] <= 1
    BY DEF AppliedAtMostOnce
  <2>1. times[p] \in Nat
    BY DEF IInv, TypeOK
  <2> QED
    BY <2>1, ChancesBoundTimes
<1> QED
  BY <1>1, RelayAlone, PTL

\* Dead letters replayed in one unit of work or in two, by scripts that may die
\* between them, while the relay runs: each replay lets a consumer apply the event once
\* more at most, unless two transactions of it were open at once
\* (mark_dead_letter_replayed, publish).
THEOREM OncePerReplay == ReplaySpec => []AppliedOncePerReplay
<1>1. IInv => AppliedOncePerReplay
  <2> SUFFICES ASSUME IInv, NEW p \in Handles, p[2] \notin overlapped
               PROVE  times[p] <= IF replays = 0 THEN 1 ELSE replays
    BY DEF AppliedOncePerReplay
  <2>1. times[p] \in Nat /\ replays \in Nat
    BY DEF IInv, TypeOK
  <2> QED
    BY <2>1, ChancesBoundTimes
<1> QED
  BY <1>1, Invariance, PTL

\* No event is given up before max_publish_attempts real failures, for any
\* number of runs that decide on stale counters (run_outbox_relay's branch).
THEOREM GivenUpLate == ReplaySpec => []GivenUpOnlyAfterMax
<1>1. IInv => GivenUpOnlyAfterMax
  BY DEF IInv
<1> QED
  BY <1>1, Invariance, PTL

-----------------------------------------------------------------------------
(***************************************************************************)
(* The relay implements EventDelivery.                                     *)
(***************************************************************************)

\* The mapping of the deliveries, abbreviated.
Map == [p \in Handles |-> Status(p)]

\* A step that applies nothing, parks nothing and emits nothing is a stutter.
LEMMA QuietStep ==
  ASSUME UNCHANGED <<times, dlq, emitted>>
  PROVE  Map' = Map
  BY DEF Map, Status, IsParked

\* Before an event is emitted its deliveries are unsent.
LEMMA UnsentBeforeEmit ==
  ASSUME IInv, NEW p \in Handles, p[2] \notin emitted
  PROVE  Status(p) = "unsent"
<1>1. times[p] = 0 /\ ~IsParked(p)
  BY DEF IInv, TypeOK, ProcessedIsSettled, IsParked
<1> QED
  BY <1>1 DEF Status

\* Emit is Send: the deliveries of the event become pending, and no other.
LEMMA EmitSends ==
  ASSUME IInv, NEW e \in Events, Emit(e)
  PROVE  Delivery!Send(e)
<1>1. e \notin emitted /\ emitted' = emitted \cup {e} /\ UNCHANGED <<times, dlq>>
  BY DEF Emit
<1>2. \A p \in Handles : p[2] = e => Map[p] = "unsent"
  BY <1>1, UnsentBeforeEmit DEF Map
<1>3. ASSUME NEW p \in Handles
      PROVE  Map'[p] = IF p[2] = e THEN "pending" ELSE Map[p]
  <2>1. CASE p[2] = e
    <3>1. Status(p) = "unsent" /\ e \in emitted'
      BY <1>1, <2>1, UnsentBeforeEmit
    <3>2. Map'[p] = "pending"
      BY <1>1, <2>1, <3>1 DEF Map, Status, IsParked
    <3> QED
      BY <2>1, <3>2
  <2>2. CASE p[2] # e
    BY <1>1, <2>2 DEF Map, Status, IsParked
  <2> QED
    BY <2>1, <2>2
<1>4. Map' = [p \in Handles |-> IF p[2] = e THEN "pending" ELSE Map[p]]
  BY <1>3 DEF Map
<1> QED
  BY <1>2, <1>4 DEF Delivery!Send, Map

\* Park settles the pending deliveries of the event, applying none.
LEMMA ParkSettles ==
  ASSUME IInv, NEW r \in Relays, Park(r)
  PROVE  \E e \in Events : Delivery!Settle(e, {})
<1>1. PICK e : e = Current(r)
  OBVIOUS
<1>2. /\ dlq' = dlq \cup {DeadLetter(RelayConsumer, e)} /\ UNCHANGED <<times, emitted>>
      /\ e \in emitted /\ e \in Events
  BY <1>1, CurrentInBatch DEF Park, IInv
<1>3. ASSUME NEW p \in Handles
      PROVE  Map'[p] = IF p[2] = e /\ Map[p] = "pending" THEN "parked" ELSE Map[p]
  <2>1. IsParked(p)' <=> IsParked(p) \/ p[2] = e
    <3>1. /\ DeadLetter(RelayConsumer, e).consumer = RelayConsumer
          /\ DeadLetter(RelayConsumer, e).event = e
      BY DEF DeadLetter
    <3> QED
      BY <1>2, <3>1 DEF IsParked
  <2>2. Map[p] = Status(p) /\ Map'[p] = Status(p)'
    BY DEF Map
  <2> QED
    BY <1>2, <2>1, <2>2 DEF Status
<1>4. Map' = [p \in Handles |-> IF p[2] = e /\ Map[p] = "pending" THEN "parked" ELSE Map[p]]
  BY <1>3 DEF Map
<1> QED
  BY <1>2, <1>4 DEF Delivery!Settle, Map

\* A dispatch settles every pending delivery of its event, and no other.
LEMMA DispatchSettles ==
  ASSUME IInv, NEW e, NEW todo, NEW poison, NEW letters, NEW gone,
         Dispatched(e, todo, poison, letters, gone)
  PROVE  \E d \in Events : \E applied \in SUBSET Handles : Delivery!Settle(d, applied)
<1> DEFINE applied == {p \in Handles : p[2] = e /\ p[1] \in todo \ poison /\ times[p] = 0}
<1>1. e \in Events /\ e \in emitted /\ emitted' = emitted
  BY DEF Dispatched, IInv, TypeOK
<1>2. ASSUME NEW p \in Handles
      PROVE  Map'[p] = IF p \in applied THEN "applied"
                       ELSE IF p[2] = e /\ Map[p] = "pending" THEN "parked"
                       ELSE Map[p]
  <2>1. Map[p] = Status(p) /\ Map'[p] = Status(p)'
    BY DEF Map
  <2>2. times[p] \in Nat
    BY DEF IInv, TypeOK
  <2>3. /\ IsParked(p)' <=> IsParked(p) \/ (p[2] = e /\ p[1] \in poison)
        /\ times'[p] = times[p] + (IF p[2] = e /\ p[1] \in todo \ poison THEN 1 ELSE 0)
    BY DispatchedPair
  <2>4. p[2] = e => times'[p] > 0 \/ IsParked(p)'
    BY DispatchedSettles DEF IsSettled
  <2> QED
    BY <1>1, <2>1, <2>2, <2>3, <2>4 DEF Status
<1>3. \A p \in applied : p[2] = e /\ Map[p] \in {"pending", "parked"}
  BY <1>1 DEF Map, Status
<1>4. applied \in SUBSET Handles
  OBVIOUS
<1> HIDE DEF applied
<1>5. Map' = [p \in Handles |-> IF p \in applied THEN "applied"
                                ELSE IF p[2] = e /\ Map[p] = "pending" THEN "parked"
                                ELSE Map[p]]
  BY <1>2 DEF Map
<1> QED
  BY <1>1, <1>3, <1>4, <1>5 DEF Delivery!Settle, Map

\* The relay and replays implement the promise of EventDelivery: every step of any
\* number of runs and of an operator's scripts is a Send, a Settle or leaves all
\* deliveries as they are.
THEOREM Refinement == ReplaySpec => DeliverySafe
<1>1. Init => Delivery!Init
  BY DEF Init, Delivery!Init, Status, IsParked
<1>2. IInv /\ [Next \/ ReplayNext]_vars => [Delivery!Next]_Map
  <2> SUFFICES ASSUME IInv, [Next \/ ReplayNext]_vars
               PROVE  Delivery!Next \/ UNCHANGED Map
    OBVIOUS
  <2>1. ASSUME NEW e \in Events, Emit(e) PROVE Delivery!Next
    BY <2>1, EmitSends DEF Delivery!Next
  <2>2. ASSUME NEW r \in Relays, CommitPublish(r) PROVE Delivery!Next
    BY <2>2, CommitDispatches, DispatchSettles DEF Delivery!Next
  <2>3. ASSUME NEW r \in Relays, Park(r) PROVE Delivery!Next
    BY <2>3, ParkSettles DEF Delivery!Next
  <2>4. ASSUME NEW letter \in dlq, MarkReplayed(letter) \/ ReplayInOne(letter)
        PROVE  Delivery!Next
    BY <2>4, MarkDispatches, ReplayInOneDispatches, DispatchSettles DEF Delivery!Next
  <2>5. CASE Republish
    BY <2>5, RepublishDispatches, DispatchSettles DEF Delivery!Next
  <2>6. ASSUME NEW e \in Events, Elapse(e) PROVE UNCHANGED Map
    BY <2>6, QuietStep DEF Elapse
  <2>7. ASSUME NEW r \in Relays,
               Read(r) \/ StartPublish(r) \/ Fail(r) \/ BackOff(r) \/ Crash(r)
        PROVE  UNCHANGED Map
    BY <2>7, QuietStep DEF Read, StartPublish, Fail, BackOff, Crash, store
  <2>8. CASE ReplayCrash \/ UNCHANGED vars
    BY <2>8, QuietStep DEF ReplayCrash, vars, store
  <2> QED
    BY <2>1, <2>2, <2>3, <2>4, <2>5, <2>6, <2>7, <2>8 DEF Next, RelayStep, ReplayNext
<1> QED
  BY <1>1, <1>2, Invariance, PTL DEF ReplaySpec, DeliverySafe, Delivery!SafeSpec, Map

\* In particular the relay alone does.
THEOREM RelayRefinement == Spec => DeliverySafe
<1>1. Spec => ReplaySpec
  BY PTL DEF Spec, ReplaySpec
<1> QED
  BY <1>1, Refinement, PTL
=============================================================================
