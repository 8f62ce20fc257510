----------------------- MODULE WebhookDeliveryProofs -----------------------
(***************************************************************************)
(* Proofs about webhook deliveries: any number of sweeps, clients and      *)
(* deliveries, and any bounds.                                             *)
(***************************************************************************)
EXTENDS WebhookDelivery, TLAPS

\* No delivery, no attempt, no worker under way.
LEMMA InitIInv == Init => IInv
  BY WebhookAssumption
  DEF Init, IInv, TypeOK, OneSendAtATime, CountsAreAttempts, DeliveredWasAccepted,
      CreatedFirst, NumbersAreNext, CallsAreCounted, GivenUpByCount, Row, Absent, Call, NoCall, Holds

\* What the invariant asks of the call of one worker.
CallFits(c) ==
  c.pc # "idle" =>
    /\ c.delivery \in Deliveries /\ row[c.delivery].status # "absent"
    /\ c.snap.count <= tries[c.delivery]
    /\ c.pc \in {"numbered", "sending", "sent"} =>
         c.snap.count < c.number /\ c.number <= tries[c.delivery] + 1
    /\ c.pc = "sent" =>
         /\ tries[c.delivery] < sent[c.delivery] + skipped[c.delivery]
         /\ c.ok => c.delivery \in accepted

\* The invariant, worker by worker.
LEMMA CallsFit ==
  ASSUME IInv, NEW w \in Workers
  PROVE  req[w] \in Call /\ CallFits(req[w])
  BY DEF IInv, TypeOK, CreatedFirst, NumbersAreNext, CallsAreCounted, CallFits

\* A step that touches neither the rows nor the attempts, and leaves one worker
\* with a call that fits, keeps the invariant.
LEMMA CallKeepsIInv ==
  ASSUME IInv, NEW w \in Workers, NEW c \in Call,
         req' = [req EXCEPT ![w] = c],
         UNCHANGED <<row, tries, skipped>>,
         sent' \in [Deliveries -> Nat], \A d \in Deliveries : sent[d] <= sent'[d],
         accepted \subseteq accepted', accepted' \subseteq Deliveries,
         readable' \subseteq Deliveries, todo' \in [Sweeps -> SUBSET Deliveries],
         calls' \in Nat, aborts' \in Nat,
         CallFits(c)',
         c.pc \in {"sending", "sent"} => \A v \in Workers \ {w} : ~Holds(v, c.delivery)
  PROVE  IInv'
<1>1. /\ req'[w] = c
      /\ \A v \in Workers \ {w} : req'[v] = req[v]
      /\ req' \in [Workers -> Call]
  BY DEF IInv, TypeOK
<1>2. TypeOK'
  BY <1>1 DEF IInv, TypeOK, CallFits
<1>3. OneSendAtATime'
  BY <1>1 DEF IInv, OneSendAtATime, Holds
<1>4. CountsAreAttempts' /\ DeliveredWasAccepted' /\ GivenUpByCount'
  BY DEF IInv, TypeOK, CountsAreAttempts, DeliveredWasAccepted, GivenUpByCount
<1>5. \A v \in Workers : CallFits(req[v])'
  <2> SUFFICES ASSUME NEW v \in Workers PROVE CallFits(req[v])'
    OBVIOUS
  <2>1. CASE v = w
    BY <1>1, <2>1 DEF CallFits
  <2>2. CASE v # w
    <3>1. CallFits(req[v]) /\ req'[v] = req[v]
      BY <1>1, <2>2, CallsFit
    <3> QED
      BY <3>1 DEF CallFits, IInv, TypeOK
  <2> QED
    BY <2>1, <2>2
<1>6. NumbersAreNext' /\ CallsAreCounted'
  BY <1>5 DEF CallFits, NumbersAreNext, CallsAreCounted
<1>7. CreatedFirst'
  BY <1>5 DEF CallFits, CreatedFirst, IInv
<1> QED
  BY <1>2, <1>3, <1>4, <1>6, <1>7 DEF IInv

\* A call that moves on keeps the delivery row it loaded.
LEMMA CallUpdate ==
  ASSUME NEW c \in Call, NEW pc \in {"numbered", "sending"}, NEW n \in Nat
  PROVE  /\ [c EXCEPT !.pc = pc, !.number = n] \in Call
         /\ [c EXCEPT !.pc = pc, !.number = n].pc = pc
         /\ [c EXCEPT !.pc = pc, !.number = n].number = n
         /\ [c EXCEPT !.pc = pc, !.number = n].snap = c.snap
         /\ [c EXCEPT !.pc = pc, !.number = n].delivery = c.delivery
  BY DEF Call

\* A worker that is rid of its call fits.
LEMMA EndedFits == NoCall \in Call /\ NoCall.pc = "idle" /\ CallFits(NoCall) /\ CallFits(NoCall)'
  BY DEF NoCall, Call, CallFits, Absent, Row

\* A worker takes up a delivery as it is.
LEMMA LoadKeepsIInv ==
  ASSUME IInv, NEW w \in Workers, NEW d \in Deliveries, NEW pc \in {"loaded", "cancelling"},
         Loaded(w, d, pc), Attemptable(d),
         UNCHANGED <<row, tries, history, readable>>,
         todo' \in [Sweeps -> SUBSET Deliveries], calls' \in Nat, aborts' \in Nat
  PROVE  IInv'
<1>1. PICK c \in Call : c = [NoCall EXCEPT !.pc = pc, !.delivery = d, !.snap = row[d]]
  BY DEF NoCall, Call, IInv, TypeOK
<1>2. c.pc = pc /\ c.delivery = d /\ c.snap = row[d]
  BY <1>1 DEF NoCall
<1>3. req' = [req EXCEPT ![w] = c]
  BY <1>1 DEF Loaded
<1>4. CallFits(c)'
  BY <1>2 DEF CallFits, IInv, CountsAreAttempts, Attemptable
<1>5. /\ sent' \in [Deliveries -> Nat] /\ \A e \in Deliveries : sent[e] <= sent'[e]
      /\ accepted' = accepted /\ accepted \subseteq Deliveries /\ readable' \subseteq Deliveries
      /\ UNCHANGED <<row, tries, skipped>>
  BY DEF history, IInv, TypeOK
<1> QED
  BY <1>2, <1>3, <1>4, <1>5, CallKeepsIInv

\* The sweep takes up the next delivery of its list, or passes over it.
LEMMA SweepAttemptKeepsIInv ==
  ASSUME IInv, NEW w \in Sweeps, NEW d \in Deliveries, SweepAttempt(w, d)
  PROVE  IInv'
<1>1. w \in Workers /\ todo' \in [Sweeps -> SUBSET Deliveries] /\ calls' \in Nat /\ aborts' \in Nat
  BY DEF SweepAttempt, Workers, IInv, TypeOK, bounds
<1>2. CASE Attemptable(d)
  BY <1>1, <1>2, LoadKeepsIInv DEF SweepAttempt
<1>3. CASE ~Attemptable(d)
  <2>1. UNCHANGED <<row, tries, history, readable, req, bounds>>
    BY <1>3 DEF SweepAttempt
  <2> QED
    BY <1>1, <2>1
    DEF IInv, TypeOK, OneSendAtATime, CountsAreAttempts, DeliveredWasAccepted, CreatedFirst,
        NumbersAreNext, CallsAreCounted, GivenUpByCount, Holds, history, bounds
<1> QED
  BY <1>2, <1>3

\* Listing the due deliveries is a read.
LEMMA ListDueKeepsIInv ==
  ASSUME IInv, NEW w \in Sweeps, ListDue(w)
  PROVE  IInv'
<1>1. todo' \in [Sweeps -> SUBSET Deliveries]
  BY DEF ListDue, IInv, TypeOK
<1> QED
  BY <1>1
  DEF ListDue, IInv, TypeOK, OneSendAtATime, CountsAreAttempts, DeliveredWasAccepted,
      CreatedFirst, NumbersAreNext, CallsAreCounted, GivenUpByCount, Holds, history, bounds

\* A skipped attempt adds to both sides of what is counted.
LEMMA SkipKeepsIInv ==
  ASSUME IInv, NEW w \in Workers, SkipUnsigned(w)
  PROVE  IInv'
<1> DEFINE d == req[w].delivery
<1>1. /\ d \in Deliveries
      /\ tries' = [tries EXCEPT ![d] = @ + 1]
      /\ skipped' = [skipped EXCEPT ![d] = @ + 1]
      /\ req' = [req EXCEPT ![w] = NoCall]
      /\ \A v \in Workers : ~Holds(v, d)
      /\ UNCHANGED <<row, sent, accepted, readable, todo, bounds>>
  BY DEF SkipUnsigned, IInv, TypeOK, LockFree
<1> HIDE DEF d
<1>2. /\ tries' \in [Deliveries -> Nat] /\ skipped' \in [Deliveries -> Nat]
      /\ \A e \in Deliveries : e # d => tries'[e] = tries[e] /\ skipped'[e] = skipped[e]
      /\ tries'[d] = tries[d] + 1 /\ skipped'[d] = skipped[d] + 1
  BY <1>1 DEF IInv, TypeOK
<1>3. \A v \in Workers : req'[v] = req[v] \/ req'[v] = NoCall
  BY <1>1 DEF IInv, TypeOK
<1>4. TypeOK'
  BY <1>1, <1>2, EndedFits DEF IInv, TypeOK, bounds
<1>5. OneSendAtATime'
  BY <1>3, EndedFits DEF IInv, OneSendAtATime, Holds
<1>6. CountsAreAttempts' /\ DeliveredWasAccepted' /\ GivenUpByCount'
  BY <1>1, <1>2 DEF IInv, TypeOK, CountsAreAttempts, DeliveredWasAccepted, GivenUpByCount, Row
<1>7. CreatedFirst'
  <2>1. row[d].status # "absent"
    BY CallsFit DEF d, SkipUnsigned, CallFits
  <2> QED
    BY <1>1, <1>2, <1>3, <2>1, EndedFits DEF IInv, CreatedFirst
<1>8. NumbersAreNext' /\ CallsAreCounted'
  <2> SUFFICES ASSUME NEW v \in Workers, req'[v] # NoCall
               PROVE  CallFits(req[v])'
    BY <1>3, EndedFits DEF CallFits, NumbersAreNext, CallsAreCounted
  <2>1. req'[v] = req[v] /\ req[v] \in Call /\ CallFits(req[v])
    BY <1>3, CallsFit
  <2> QED
    BY <1>1, <1>2, <2>1 DEF CallFits, IInv, TypeOK, Call, Row
<1> QED
  BY <1>4, <1>5, <1>6, <1>7, <1>8 DEF IInv

\* Taking the lock: no other worker holds it.
LEMMA LockKeepsIInv ==
  ASSUME IInv, NEW w \in Workers, Resign(w) \/ Number(w) \/ Lock(w)
  PROVE  IInv'
<1>0. PICK call \in Call : call = req[w]
  BY CallsFit
<1>d. PICK d \in Deliveries : d = call.delivery
  BY <1>0, CallsFit DEF Resign, Number, Lock, CallFits
<1>1. /\ CallFits(call) /\ call.pc \in {"loaded", "numbered"}
      /\ tries[d] \in Nat /\ call.snap \in Row /\ call.snap.count \in Nat /\ call.number \in Nat
  BY <1>0, CallsFit DEF Resign, Number, Lock, IInv, TypeOK, Call, Row
<1>n. PICK n \in Nat : n = tries[d] + 1
  BY <1>1
<1>2. PICK c \in Call :
        /\ req' = [req EXCEPT ![w] = c]
        /\ c.delivery = d /\ c.snap = call.snap
        /\ c.pc = "numbered" \/ (c.pc = "sending" /\ LockFree(d))
        /\ c.number = n \/ (call.pc = "numbered" /\ c.number = call.number)
  <2>1. CASE Resign(w)
    <3>1. PICK c \in Call : c = [call EXCEPT !.pc = "sending", !.number = n]
      BY CallUpdate
    <3>2. c.pc = "sending" /\ c.number = n /\ c.snap = call.snap /\ c.delivery = d
      BY <1>d, <3>1, CallUpdate
    <3>3. req' = [req EXCEPT ![w] = c]
      BY <1>0, <1>d, <1>n, <2>1, <3>1 DEF Resign, IInv, TypeOK
    <3>4. LockFree(d)
      BY <1>0, <1>d, <2>1 DEF Resign
    <3> QED
      BY <3>2, <3>3, <3>4
  <2>2. CASE Number(w)
    <3>1. PICK c \in Call : c = [call EXCEPT !.pc = "numbered", !.number = n]
      BY CallUpdate
    <3>2. c.pc = "numbered" /\ c.number = n /\ c.snap = call.snap /\ c.delivery = d
      BY <1>d, <3>1, CallUpdate
    <3>3. req' = [req EXCEPT ![w] = c]
      BY <1>0, <1>d, <1>n, <2>2, <3>1 DEF Number, IInv, TypeOK
    <3> QED
      BY <3>2, <3>3
  <2>3. CASE Lock(w)
    <3>1. [call EXCEPT !.pc = "sending"] \in Call
      BY DEF Call
    <3>2. req' = [req EXCEPT ![w] = [call EXCEPT !.pc = "sending"]]
      BY <1>0, <2>3 DEF Lock, IInv, TypeOK
    <3> QED
      BY <1>0, <1>d, <2>3, <3>1, <3>2 DEF Lock, Call
  <2> QED
    BY <2>1, <2>2, <2>3
<1>3. UNCHANGED <<row, tries, history, readable, todo, bounds>>
  BY DEF Resign, Number, Lock
<1>4. CallFits(c)'
  BY <1>1, <1>2, <1>3, <1>d, <1>n DEF CallFits
<1>5. c.pc \in {"sending", "sent"} => \A v \in Workers \ {w} : ~Holds(v, c.delivery)
  BY <1>2 DEF LockFree
<1>6. /\ sent' \in [Deliveries -> Nat] /\ \A e \in Deliveries : sent[e] <= sent'[e]
      /\ accepted' = accepted /\ accepted \subseteq Deliveries /\ readable' \subseteq Deliveries
      /\ todo' \in [Sweeps -> SUBSET Deliveries] /\ calls' \in Nat /\ aborts' \in Nat
      /\ UNCHANGED <<row, tries, skipped>>
  BY <1>3 DEF history, bounds, IInv, TypeOK
<1> QED
  BY <1>2, <1>4, <1>5, <1>6, CallKeepsIInv

\* The call is counted, and the lock still held by this worker alone.
LEMMA SendKeepsIInv ==
  ASSUME IInv, NEW w \in Workers, Send(w)
  PROVE  IInv'
<1>0. PICK call \in Call : call = req[w]
  BY CallsFit
<1>d. PICK d \in Deliveries : d = call.delivery
  BY <1>0, CallsFit DEF Send, CallFits
<1>1. /\ CallFits(call) /\ call.pc = "sending"
      /\ tries[d] \in Nat /\ sent[d] \in Nat /\ skipped[d] \in Nat
      /\ tries[d] <= sent[d] + skipped[d]
  BY <1>0, CallsFit DEF Send, IInv, TypeOK, CountsAreAttempts
<1>2. PICK ok, taken \in BOOLEAN :
        /\ ok => taken
        /\ req' = [req EXCEPT ![w].pc = "sent", ![w].ok = ok]
        /\ accepted' = IF taken THEN accepted \cup {d} ELSE accepted
  BY <1>0, <1>d DEF Send
<1>3. PICK c \in Call : c = [call EXCEPT !.pc = "sent", !.ok = ok]
  BY DEF Call
<1>4. c.delivery = d /\ c.snap = call.snap /\ c.number = call.number /\ c.pc = "sent" /\ c.ok = ok
  BY <1>3, <1>d DEF Call
<1>5. req' = [req EXCEPT ![w] = c]
  BY <1>0, <1>2, <1>3 DEF IInv, TypeOK
<1>6. /\ accepted \subseteq accepted' /\ accepted' \subseteq Deliveries
      /\ ok => d \in accepted'
  BY <1>2 DEF IInv, TypeOK
<1>7. /\ sent' = [sent EXCEPT ![d] = @ + 1]
      /\ UNCHANGED <<row, tries, skipped, readable, todo, bounds>>
  BY <1>0, <1>d DEF Send
<1>8. /\ sent' \in [Deliveries -> Nat]
      /\ \A e \in Deliveries : sent[e] <= sent'[e]
      /\ sent'[d] = sent[d] + 1
  BY <1>1, <1>7 DEF IInv, TypeOK
<1>9. CallFits(c)'
  BY <1>d, <1>1, <1>4, <1>6, <1>7, <1>8 DEF CallFits
<1>10. \A v \in Workers \ {w} : ~Holds(v, c.delivery)
  BY <1>0, <1>d, <1>1, <1>4 DEF IInv, OneSendAtATime, Holds
<1> QED
  BY <1>5, <1>6, <1>7, <1>8, <1>9, <1>10, CallKeepsIInv DEF bounds, IInv, TypeOK

\* The attempt is recorded under its number, which is the next one: the worker
\* alone holds the row, and what it writes was counted and accepted.
LEMMA CommitKeepsIInv ==
  ASSUME IInv, NEW w \in Workers, CommitAttempt(w)
  PROVE  IInv'
<1>0. PICK call \in Call : call = req[w]
  BY CallsFit
<1>d. PICK d \in Deliveries : d = call.delivery
  BY <1>0, CallsFit DEF CommitAttempt, CallFits
<1>1. /\ CallFits(call) /\ call.pc = "sent"
      /\ tries[d] \in Nat /\ sent[d] \in Nat /\ skipped[d] \in Nat
      /\ call.snap \in Row /\ call.snap.count \in Nat /\ call.number \in Nat /\ row[d] \in Row
  BY <1>0, <1>d, CallsFit DEF CommitAttempt, IInv, TypeOK, Call, Row
<1>2. call.number = tries[d] + 1
  BY <1>0, <1>d, <1>1 DEF CommitAttempt, NumberIsFree, CallFits
<1>3. /\ tries' = [tries EXCEPT ![d] = call.number]
      /\ row' = [row EXCEPT ![d] = Attempted(call, row[d])]
      /\ req' = [req EXCEPT ![w] = NoCall]
      /\ UNCHANGED <<history, readable, todo, bounds>>
  BY <1>0, <1>d DEF CommitAttempt
<1>n. PICK count \in Nat : count = call.snap.count + 1
  BY <1>1
<1>4. PICK due \in {"none", "waiting", "due"} :
        /\ due = Written(call.snap.due, NextDue(call.ok, count), row[d].due)
        /\ ~call.ok /\ due = "none" => count > MaxRetries
  <2>1. /\ NextDue(call.ok, count) \in {"none", "waiting"}
        /\ ~call.ok /\ NextDue(call.ok, count) = "none" => count > MaxRetries
    BY <1>1, WebhookAssumption DEF NextDue
  <2>2. row[d].due \in {"none", "waiting", "due"}
    BY <1>1 DEF Row
  <2> QED
    BY <2>1, <2>2 DEF Written
<1>a. PICK status \in {"delivered", "failed"} : status = IF call.ok THEN "delivered" ELSE "failed"
  OBVIOUS
<1>b. PICK after \in Row : after = [status |-> status, count |-> count, due |-> due, signed |-> TRUE]
  BY <1>a DEF Row
<1>c. after = Attempted(call, row[d])
  BY <1>4, <1>a, <1>b, <1>n DEF Attempted
<1>5. /\ after.count = call.snap.count + 1
      /\ after.count = count /\ after.status = status /\ after.due = due
  BY <1>b, <1>n
<1>6. /\ row' \in [Deliveries -> Row] /\ tries' \in [Deliveries -> Nat]
      /\ row'[d] = after /\ tries'[d] = tries[d] + 1
      /\ \A e \in Deliveries : e # d => row'[e] = row[e] /\ tries'[e] = tries[e]
  BY <1>1, <1>2, <1>3, <1>c DEF IInv, TypeOK
<1>7. \A v \in Workers : (v = w /\ req'[v] = NoCall) \/ (v # w /\ req'[v] = req[v])
  BY <1>3 DEF IInv, TypeOK
<1>8. TypeOK'
  BY <1>3, <1>6, EndedFits DEF IInv, TypeOK, history, bounds
<1>9. OneSendAtATime'
  BY <1>7, EndedFits DEF IInv, OneSendAtATime, Holds
<1>10. CountsAreAttempts'
  <2>1. after.count <= tries[d] + 1 /\ tries[d] + 1 <= sent[d] + skipped[d]
    BY <1>1, <1>5, <1>d DEF CallFits
  <2> QED
    BY <1>3, <1>6, <2>1 DEF IInv, CountsAreAttempts, history
<1>11. DeliveredWasAccepted' /\ GivenUpByCount'
  <2>1. after.status = "delivered" => d \in accepted
    BY <1>1, <1>5, <1>a, <1>d DEF CallFits
  <2>2. after.status = "failed" /\ after.due = "none" => after.count > MaxRetries
    BY <1>4, <1>5, <1>a
  <2> QED
    BY <1>3, <1>6, <2>1, <2>2 DEF IInv, DeliveredWasAccepted, GivenUpByCount, history
<1>12. CreatedFirst'
  <2>1. row'[d].status # "absent"
    BY <1>a, <1>5, <1>6
  <2>2. \A e \in Deliveries : row'[e].status = "absent" => tries'[e] = 0
    BY <1>6, <2>1 DEF IInv, CreatedFirst
  <2>3. ASSUME NEW v \in Workers, req'[v].pc # "idle"
        PROVE  row'[req'[v].delivery].status # "absent"
    <3>1. req'[v] = req[v] /\ req[v].delivery \in Deliveries /\ row[req[v].delivery].status # "absent"
      BY <1>7, <2>3, EndedFits, CallsFit DEF CallFits
    <3> QED
      BY <1>6, <2>1, <3>1
  <2> QED
    BY <2>2, <2>3 DEF CreatedFirst
<1>13. NumbersAreNext' /\ CallsAreCounted'
  <2> SUFFICES ASSUME NEW v \in Workers, v # w
               PROVE  CallFits(req[v])'
    BY <1>7, EndedFits DEF CallFits, NumbersAreNext, CallsAreCounted
  <2>1. req'[v] = req[v] /\ req[v] \in Call /\ CallFits(req[v])
    BY <1>7, CallsFit
  <2>2. req[v].pc = "sent" => req[v].delivery # d
    BY <1>0, <1>1, <1>d DEF IInv, OneSendAtATime, Holds
  <2>3. CASE req[v].pc = "idle"
    BY <2>1, <2>3 DEF CallFits
  <2>4. CASE req[v].pc # "idle"
    <3>1. PICK c \in Call : c = req[v]
      BY <2>1
    <3>2. PICK e \in Deliveries : e = c.delivery
      BY <2>1, <2>4, <3>1 DEF CallFits
    <3>3. /\ tries[e] \in Nat /\ c.snap.count \in Nat /\ c.number \in Nat
          /\ tries'[e] \in Nat /\ tries[e] <= tries'[e]
          /\ e # d => tries'[e] = tries[e]
      BY <1>6, <1>1, <3>1 DEF Call, Row, IInv, TypeOK
    <3>4. row'[e].status # "absent" /\ UNCHANGED <<sent, skipped, accepted>>
      BY <1>3, <1>12, <2>1, <2>4, <3>1, <3>2 DEF history, CreatedFirst
    <3>5. CallFits(c)'
      BY <2>1, <2>2, <3>1, <3>2, <3>3, <3>4 DEF CallFits
    <3> QED
      BY <2>1, <3>1, <3>5 DEF CallFits
  <2> QED
    BY <2>3, <2>4
<1> QED
  BY <1>8, <1>9, <1>10, <1>11, <1>12, <1>13 DEF IInv

\* The other writers of a row keep its count, and give nothing up.
LEMMA RowKeepsIInv ==
  ASSUME IInv, NEW d \in Deliveries, NEW after \in Row,
         row' = [row EXCEPT ![d] = after],
         after.count = row[d].count,
         after.status \in {"pending", "cancelled"} \/
           (after.status = row[d].status /\ (after.due = "none" => row[d].due = "none")
              /\ after.signed = row[d].signed),
         UNCHANGED <<tries, history, readable, todo, bounds>>,
         req' \in [Workers -> Call],
         \A w \in Workers : req'[w] = req[w] \/ req'[w] = NoCall
  PROVE  IInv'
<1>1. /\ row' \in [Deliveries -> Row] /\ row'[d] = after
      /\ \A e \in Deliveries : e # d => row'[e] = row[e]
  BY DEF IInv, TypeOK
<1>2. TypeOK'
  BY <1>1, EndedFits DEF IInv, TypeOK, history, bounds
<1>3. OneSendAtATime'
  BY EndedFits DEF IInv, OneSendAtATime, Holds
<1>4. CountsAreAttempts' /\ DeliveredWasAccepted' /\ GivenUpByCount'
  BY <1>1 DEF IInv, CountsAreAttempts, DeliveredWasAccepted, GivenUpByCount, history
<1>5. CreatedFirst' /\ NumbersAreNext' /\ CallsAreCounted'
  BY EndedFits DEF IInv, CreatedFirst, NumbersAreNext, CallsAreCounted, history
<1> QED
  BY <1>2, <1>3, <1>4, <1>5 DEF IInv

\* A cancellation changes neither the count of a delivery nor its attempts.
LEMMA CancelKeepsIInv ==
  ASSUME IInv, NEW w \in Workers, CommitCancel(w)
  PROVE  IInv'
<1>1. PICK d \in Deliveries : d = req[w].delivery
  BY CallsFit DEF CommitCancel, CallFits
<1> DEFINE after == [row[d] EXCEPT !.status = "cancelled",
                                   !.due = Written(req[w].snap.due, "none", @)]
<1>2. row' = [row EXCEPT ![d] = after]
  BY <1>1 DEF CommitCancel, IInv, TypeOK
<1>3. after \in Row /\ after.count = row[d].count /\ after.status = "cancelled"
  BY DEF Written, Row, IInv, TypeOK
<1> HIDE DEF after
<1>4. /\ req' \in [Workers -> Call]
      /\ \A v \in Workers : req'[v] = req[v] \/ req'[v] = NoCall
      /\ UNCHANGED <<tries, history, readable, todo, bounds>>
  BY EndedFits DEF CommitCancel, IInv, TypeOK
<1> QED
  BY <1>2, <1>3, <1>4, RowKeepsIInv

\* Time makes a delivery due and nothing else.
LEMMA ElapseKeepsIInv ==
  ASSUME IInv, NEW d \in Deliveries, Elapse(d)
  PROVE  IInv'
<1> DEFINE after == [row[d] EXCEPT !.due = "due"]
<1>1. row' = [row EXCEPT ![d] = after]
  BY DEF Elapse, IInv, TypeOK
<1>2. /\ after \in Row /\ after.count = row[d].count /\ after.status = row[d].status
      /\ after.due = "due" /\ after.signed = row[d].signed
  BY DEF Row, IInv, TypeOK
<1> HIDE DEF after
<1>3. /\ req' \in [Workers -> Call]
      /\ \A v \in Workers : req'[v] = req[v]
      /\ UNCHANGED <<tries, history, readable, todo, bounds>>
  BY DEF Elapse, IInv, TypeOK
<1> QED
  BY <1>1, <1>2, <1>3, RowKeepsIInv

\* A new delivery has no attempts; without a readable secret it has a skipped one.
LEMMA CreateKeepsIInv ==
  ASSUME IInv, NEW d \in Deliveries, CreateDelivery(d)
  PROVE  IInv'
<1>1. CASE d \in readable
  <2> DEFINE after == [status |-> "pending", count |-> 0, due |-> "due", signed |-> TRUE]
  <2>1. row' = [row EXCEPT ![d] = after]
    BY <1>1 DEF CreateDelivery
  <2>2. after \in Row /\ after.count = row[d].count /\ after.status = "pending"
    BY DEF Row, CreateDelivery, Absent
  <2> HIDE DEF after
  <2>3. /\ req' \in [Workers -> Call]
        /\ \A v \in Workers : req'[v] = req[v]
        /\ UNCHANGED <<tries, history, readable, todo, bounds>>
    BY <1>1 DEF CreateDelivery, IInv, TypeOK, history
  <2> QED
    BY <2>1, <2>2, <2>3, RowKeepsIInv
<1>2. CASE d \notin readable
  <2> DEFINE after == [Absent EXCEPT !.status = "failed"]
  <2>1. /\ row[d] = Absent
        /\ row' = [row EXCEPT ![d] = after]
        /\ tries' = [tries EXCEPT ![d] = 1]
        /\ skipped' = [skipped EXCEPT ![d] = 1]
        /\ UNCHANGED <<sent, accepted, readable, req, todo, bounds>>
    BY <1>2 DEF CreateDelivery, IInv, TypeOK
  <2>2. /\ after \in Row /\ after.count = 0 /\ after.status = "failed" /\ ~after.signed
    BY DEF Absent, Row
  <2> HIDE DEF after
  <2>3. /\ row' \in [Deliveries -> Row] /\ row'[d] = after
        /\ tries' \in [Deliveries -> Nat] /\ tries'[d] = 1
        /\ skipped' \in [Deliveries -> Nat] /\ skipped'[d] = 1
        /\ sent[d] \in Nat
        /\ \A e \in Deliveries : e # d => row'[e] = row[e] /\ tries'[e] = tries[e]
                                          /\ skipped'[e] = skipped[e]
    BY <2>1, <2>2 DEF IInv, TypeOK
  <2>4. \A v \in Workers : req[v].pc # "idle" => req[v].delivery # d
    BY <2>1 DEF IInv, CreatedFirst, Absent
  <2>5. TypeOK'
    BY <2>1, <2>3 DEF IInv, TypeOK, bounds
  <2>6. OneSendAtATime'
    BY <2>1 DEF IInv, OneSendAtATime, Holds
  <2>7. CountsAreAttempts' /\ DeliveredWasAccepted' /\ GivenUpByCount'
    BY <2>1, <2>2, <2>3
    DEF IInv, CountsAreAttempts, DeliveredWasAccepted, GivenUpByCount
  <2>8. CreatedFirst'
    BY <2>1, <2>2, <2>3, <2>4 DEF IInv, CreatedFirst
  <2>9. NumbersAreNext' /\ CallsAreCounted'
    <3> SUFFICES ASSUME NEW v \in Workers, req[v].pc # "idle"
                 PROVE  CallFits(req[v])'
      BY <2>1 DEF CallFits, NumbersAreNext, CallsAreCounted
    <3>1. CallFits(req[v]) /\ req[v].delivery \in Deliveries /\ req[v].delivery # d
      BY <2>4, CallsFit DEF CallFits
    <3> QED
      BY <2>1, <2>3, <3>1 DEF CallFits
  <2> QED
    BY <2>5, <2>6, <2>7, <2>8, <2>9 DEF IInv
<1> QED
  BY <1>1, <1>2

\* A call that ends without a trace, and a secret that comes or goes.
LEMMA EndKeepsIInv ==
  ASSUME IInv, NEW w \in Workers, req' = [req EXCEPT ![w] = NoCall],
         UNCHANGED <<row, tries, history, readable>>,
         todo' \in [Sweeps -> SUBSET Deliveries], calls' \in Nat, aborts' \in Nat
  PROVE  IInv'
<1>1. /\ sent' \in [Deliveries -> Nat] /\ \A e \in Deliveries : sent[e] <= sent'[e]
      /\ accepted' = accepted /\ accepted \subseteq Deliveries /\ readable' \subseteq Deliveries
      /\ UNCHANGED <<row, tries, skipped>>
  BY DEF history, IInv, TypeOK
<1>2. PICK c \in Call : c = NoCall
  BY EndedFits
<1>3. c.pc = "idle" /\ CallFits(c)'
  BY <1>2, EndedFits DEF CallFits
<1>4. req' = [req EXCEPT ![w] = c]
  BY <1>2
<1> QED
  BY <1>1, <1>3, <1>4, CallKeepsIInv

\* A worker that gives up leaves the rows as they were committed.
LEMMA AbortKeepsIInv ==
  ASSUME IInv, NEW w \in Workers,
         Collide(w) \/ Abort(w) \/ (w \in Sweeps /\ Crash(w))
  PROVE  IInv'
<1>1. /\ req' = [req EXCEPT ![w] = NoCall]
      /\ UNCHANGED <<row, tries, history, readable>>
      /\ todo' \in [Sweeps -> SUBSET Deliveries] /\ calls' \in Nat /\ aborts' \in Nat
  BY DEF Collide, Abort, Crash, bounds, IInv, TypeOK
<1> QED
  BY <1>1, EndKeepsIInv

\* Secrets come and go; no part of the invariant reads them.
LEMMA SetReadableKeepsIInv ==
  ASSUME IInv, NEW d \in Deliveries, SetReadable(d)
  PROVE  IInv'
  BY DEF SetReadable, IInv, TypeOK, OneSendAtATime, CountsAreAttempts, DeliveredWasAccepted,
         CreatedFirst, NumbersAreNext, CallsAreCounted, GivenUpByCount, Holds, history, bounds

\* The steps of an attempt, together.
LEMMA AttemptKeepsIInv ==
  ASSUME IInv, NEW w \in Workers, AttemptStep(w)
  PROVE  IInv'
  BY SkipKeepsIInv, LockKeepsIInv, SendKeepsIInv, CommitKeepsIInv, AbortKeepsIInv DEF AttemptStep

\* A client's resend or cancellation loads the row first.
LEMMA ClientCallKeepsIInv ==
  ASSUME IInv, NEW w \in Clients, NEW d \in Deliveries, ClientAttempt(w, d) \/ ClientCancel(w, d)
  PROVE  IInv'
<1>1. /\ w \in Workers /\ Attemptable(d)
      /\ Loaded(w, d, "loaded") \/ Loaded(w, d, "cancelling")
      /\ UNCHANGED <<row, tries, history, readable>>
      /\ todo' \in [Sweeps -> SUBSET Deliveries] /\ calls' \in Nat /\ aborts' \in Nat
  BY DEF ClientAttempt, ClientCancel, Workers, IInv, TypeOK
<1> QED
  BY <1>1, LoadKeepsIInv

\* Every step keeps the invariant.
LEMMA NextKeepsIInv == IInv /\ [Next]_vars => IInv'
<1> SUFFICES ASSUME IInv, [Next]_vars
             PROVE  IInv'
  OBVIOUS
<1>1. CASE UNCHANGED vars
  BY <1>1 DEF vars, IInv, TypeOK, OneSendAtATime, CountsAreAttempts, DeliveredWasAccepted,
         CreatedFirst, NumbersAreNext, CallsAreCounted, GivenUpByCount, Holds, history, bounds
<1>2. ASSUME NEW d \in Deliveries, CreateDelivery(d) \/ Elapse(d) \/ SetReadable(d)
      PROVE  IInv'
  BY <1>2, CreateKeepsIInv, ElapseKeepsIInv, SetReadableKeepsIInv
<1>3. ASSUME NEW w \in Sweeps, SweepStep(w) \/ Crash(w)
      PROVE  IInv'
  <2>1. w \in Workers
    BY DEF Workers
  <2> QED
    BY <1>3, <2>1, ListDueKeepsIInv, SweepAttemptKeepsIInv, AttemptKeepsIInv, AbortKeepsIInv
    DEF SweepStep
<1>4. ASSUME NEW w \in Clients,
             ClientStep(w) \/ \E d \in Deliveries : ClientAttempt(w, d) \/ ClientCancel(w, d)
      PROVE  IInv'
  <2>1. w \in Workers
    BY DEF Workers
  <2> QED
    BY <1>4, <2>1, AttemptKeepsIInv, CancelKeepsIInv, ClientCallKeepsIInv DEF ClientStep
<1>5. ASSUME NEW w \in Workers, Abort(w)
      PROVE  IInv'
  BY <1>5, AbortKeepsIInv
<1> QED
  BY <1>1, <1>2, <1>3, <1>4, <1>5 DEF Next

(***************************************************************************)
(* The theorems.                                                           *)
(***************************************************************************)

\* The inductive invariant holds of every reachable state, whatever the number
\* of sweeps, clients and deliveries.
THEOREM Invariance == Spec => []IInv
  BY InitIInv, NextKeepsIInv, PTL DEF Spec

\* The row lock taken by the flush before provider.send keeps two workers from
\* calling the partner with the same delivery at the same time.
THEOREM NoParallelSends == Spec => []OneSendAtATime
<1>1. IInv => OneSendAtATime
  BY DEF IInv
<1> QED
  BY <1>1, Invariance, PTL

\* attempt_count never exceeds the attempts on record, nor those the calls made.
THEOREM AttemptsAreReal == Spec => []CountsAreAttempts
<1>1. IInv => CountsAreAttempts
  BY DEF IInv
<1> QED
  BY <1>1, Invariance, PTL

\* What the service reports delivered, the partner has accepted.
THEOREM DeliveredIsTrue == Spec => []DeliveredWasAccepted
<1>1. IInv => DeliveredWasAccepted
  BY DEF IInv
<1> QED
  BY <1>1, Invariance, PTL

\* No interleaving of attempts and cancellations makes a signed delivery be given
\* up with retries left.
THEOREM NeverGivenUpEarly == Spec => []GivenUpLate
<1>1. IInv => GivenUpLate
  BY WebhookAssumption DEF IInv, TypeOK, Row, GivenUpByCount, CountsAreAttempts, GivenUpLate
<1> QED
  BY <1>1, Invariance, PTL
=============================================================================
