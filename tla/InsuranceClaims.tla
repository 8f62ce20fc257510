-------------------------- MODULE InsuranceClaims ---------------------------
(***************************************************************************)
(* InsuranceService and ClaimsService: policies and their coverage rules,  *)
(* claims from report to settlement and back (reopening), and what hangs   *)
(* on a claim: damage reports and liability shares.                        *)
(*                                                                         *)
(* A claim is approved on the strength of a policy row that is only read,  *)
(* and a liability record on the strength of a sum over other records:     *)
(* neither is protected by the version column of what is written.          *)
(***************************************************************************)
EXTENDS OptimisticRows, FiniteSetsExt

CONSTANTS
  Policies, CoverageRules, Claims, DamageReports, LiabilityRecords,
  Amounts,      \* amounts that are claimed and approved
  Shares,       \* liability percentages
  Overrides     \* allow_override: TRUE reaches the service from an ADMIN only

ASSUME ClaimsAssumption ==
  /\ UNION {Policies, CoverageRules, Claims, DamageReports, LiabilityRecords} \subseteq Ids
  /\ Amounts \subseteq Nat
  /\ Shares \subseteq 0..100
  /\ None \notin Amounts \cup Shares
  /\ Overrides \subseteq BOOLEAN

PolicyTransitions ==
  [draft |-> {"active", "cancelled"}, active |-> {"suspended", "expired", "cancelled"},
   suspended |-> {"active", "expired", "cancelled"}, expired |-> {}, cancelled |-> {}]

ClaimTransitions ==
  [created |-> {"under_review"}, under_review |-> {"approved", "rejected"},
   approved |-> {"settled"}, settled |-> {"closed"}, rejected |-> {"closed"},
   closed |-> {"under_review"}]

\* covers: the flags of the policy, as sets of the claim kinds they stand for.
PolicyRow(covers) == [status |-> "draft", deleted |-> FALSE, covers |-> covers]

PolicyRows == [status : DOMAIN PolicyTransitions, deleted : BOOLEAN, covers : BOOLEAN]

RuleRows == [status : {"rule"}, deleted : BOOLEAN, policy : Policies, active : BOOLEAN]

\* flagged: the claim's type has a flag in _COVERAGE_FLAG.
ClaimRows == [status : DOMAIN ClaimTransitions, deleted : BOOLEAN,
              policy : Policies \cup {None}, flagged : BOOLEAN,
              claimed : Amounts \cup {None}, approved : Amounts \cup {None}]

ReportRows == [status : {"reported"}, deleted : {FALSE}, claim : Claims]

\* overridden and beside are history: whether the sum was not asked, and the records
\* it was taken over.
LiabilityRows == [status : {"determined"}, deleted : {FALSE}, claim : Claims,
                  share : Shares \cup {None}, overridden : BOOLEAN,
                  beside : SUBSET LiabilityRecords]

-----------------------------------------------------------------------------
(* Policies *)

CreatePolicy(r) ==
  /\ Asked(r, "create_policy")
  /\ \E p \in Among(Policies), covers \in BOOLEAN :
       Insert(r, "create_policy", p, PolicyRow(covers))

PolicyOperations ==
  [activate_policy |-> "active", suspend_policy |-> "suspended",
   expire_policy |-> "expired", cancel_policy |-> "cancelled"]

\* Nothing is asked but the table.
PolicyTransition(r) ==
  \E op \in DOMAIN PolicyOperations, p \in Among(Policies) :
    /\ Asked(r, op)
    /\ Transition(r, op, p, PolicyTransitions, PolicyOperations[op], db[p])

UpdatePolicy(r) ==
  /\ Asked(r, "update_policy")
  /\ \E p \in Among(Policies), covers \in BOOLEAN :
       /\ InStatus(p, {"draft", "active", "suspended"})
       /\ Write(r, "update_policy", p, [db[p] EXCEPT !.covers = covers])

CreateCoverageRule(r) ==
  /\ Asked(r, "create_rule")
  /\ \E p \in Among(Policies), u \in Among(CoverageRules) :
       /\ Owned(p)
       /\ Insert(r, "create_rule", u, [status |-> "rule", deleted |-> FALSE,
                                       policy |-> p, active |-> TRUE])

UpdateCoverageRule(r) ==
  /\ Asked(r, "update_rule")
  /\ \E u \in Among(CoverageRules), active \in BOOLEAN :
       Live(u) /\ Write(r, "update_rule", u, [db[u] EXCEPT !.active = active])

-----------------------------------------------------------------------------
(* Claims *)

\* validate_claim_references, for the one reference that is looked at later.
ValidReferences(p) == p # None => Owned(p)

CreateClaim(r) ==
  /\ Asked(r, "create_claim")
  /\ \E c \in Among(Claims), p \in Among(Policies) \cup {None},
        flagged \in BOOLEAN, claimed \in Amounts \cup {None} :
       /\ ValidReferences(p)
       /\ Insert(r, "create_claim", c,
                 [status |-> "created", deleted |-> FALSE, policy |-> p,
                  flagged |-> flagged, claimed |-> claimed, approved |-> None])

\* submit_claim_for_review and reopen_claim lead to the same status along the
\* same table, so either can be called where the other is meant.
SubmitClaimForReview(r) ==
  /\ Asked(r, "review_claim")
  /\ \E c \in Among(Claims) :
       Transition(r, "review_claim", c, ClaimTransitions, "under_review", db[c])

\* Reopening forgets nothing: the amount once approved stays.
ReopenClaim(r) ==
  /\ Asked(r, "reopen_claim")
  /\ \E c \in Among(Claims) :
       Transition(r, "reopen_claim", c, ClaimTransitions, "under_review", db[c])

\* validate_policy_coverage
Covered(c) ==
  LET p == db[c].policy
  IN /\ p # None
     /\ Owned(p)
     /\ db[p].status = "active"
     /\ db[c].flagged => db[p].covers

ApproveClaim(r) ==
  /\ Asked(r, "approve_claim")
  /\ \E c \in Among(Claims), amount \in Amounts, override \in Overrides :
       /\ Live(c)
       /\ Covered(c)
       /\ db[c].claimed # None /\ ~override => amount <= db[c].claimed
       /\ Transition(r, "approve_claim", c, ClaimTransitions, "approved",
                     [db[c] EXCEPT !.approved = amount])

RejectClaim(r) ==
  /\ Asked(r, "reject_claim")
  /\ \E c \in Among(Claims) :
       Transition(r, "reject_claim", c, ClaimTransitions, "rejected", db[c])

SettleClaim(r) ==
  /\ Asked(r, "settle_claim")
  /\ \E c \in Among(Claims) :
       /\ Live(c)
       /\ db[c].approved # None
       /\ Transition(r, "settle_claim", c, ClaimTransitions, "settled", db[c])

CloseClaim(r) ==
  /\ Asked(r, "close_claim")
  /\ \E c \in Among(Claims) :
       Transition(r, "close_claim", c, ClaimTransitions, "closed", db[c])

\* Of what an update can change, the claimed amount is what others look at.
UpdateClaim(r) ==
  /\ Asked(r, "update_claim")
  /\ \E c \in Among(Claims), claimed \in Amounts :
       /\ Live(c)
       /\ db[c].status # "closed"
       /\ Write(r, "update_claim", c, [db[c] EXCEPT !.claimed = claimed])

DeleteClaim(r) ==
  /\ Asked(r, "delete_claim")
  /\ \E c \in Among(Claims) : SoftDelete(r, "delete_claim", c)

RestoreClaim(r) ==
  /\ Asked(r, "restore_claim")
  /\ \E c \in Among(Claims) : Undelete(r, "restore_claim", c)

-----------------------------------------------------------------------------
(* What hangs on a claim *)

CreateDamageReport(r) ==
  /\ Asked(r, "create_report")
  /\ \E c \in Among(Claims), d \in Among(DamageReports) :
       /\ Owned(c)
       /\ Insert(r, "create_report", d,
                 [status |-> "reported", deleted |-> FALSE, claim |-> c])

RecordsOf(c) ==
  {l \in Among(LiabilityRecords) : Live(l) /\ db[l].claim = c /\ db[l].share # None}

\* total_liability_percentage: a NULL percentage does not count.
TotalLiability(c) == MapThenSumSet(LAMBDA l : db[l].share, RecordsOf(c))

\* Fault: the new share is left out of the sum.
ValidDistributionFault(c, share, override) ==
  share # None /\ ~override => TotalLiability(c) <= 100

\* validate_liability_distribution
ValidDistribution(c, share, override) ==
  share # None /\ ~override => TotalLiability(c) + share <= 100

CreateLiabilityRecord(r) ==
  /\ Asked(r, "create_liability")
  /\ \E c \in Among(Claims), l \in Among(LiabilityRecords),
        share \in Shares \cup {None}, override \in Overrides :
       /\ Owned(c)
       /\ ValidDistribution(c, share, override)
       /\ Insert(r, "create_liability", l,
                 [status |-> "determined", deleted |-> FALSE, claim |-> c,
                  share |-> share, overridden |-> override, beside |-> RecordsOf(c)])

\* By the routes that lead to them: policies and rules, claims, what hangs on a claim.
InsuranceStep(r) ==
  \/ CreatePolicy(r) \/ PolicyTransition(r) \/ UpdatePolicy(r)
  \/ CreateCoverageRule(r) \/ UpdateCoverageRule(r)

ClaimStep(r) ==
  \/ CreateClaim(r) \/ SubmitClaimForReview(r) \/ ReopenClaim(r) \/ ApproveClaim(r)
  \/ RejectClaim(r) \/ SettleClaim(r) \/ CloseClaim(r) \/ UpdateClaim(r)
  \/ DeleteClaim(r) \/ RestoreClaim(r)

FindingStep(r) == CreateDamageReport(r) \/ CreateLiabilityRecord(r)

-----------------------------------------------------------------------------
(* Properties *)

ClaimsTyped ==
  /\ \A p \in Among(Policies) : Exists(p) => db[p] \in PolicyRows
  /\ \A u \in Among(CoverageRules) : Exists(u) => db[u] \in RuleRows
  /\ \A c \in Among(Claims) : Exists(c) => db[c] \in ClaimRows
  /\ \A d \in Among(DamageReports) : Exists(d) => db[d] \in ReportRows
  /\ \A l \in Among(LiabilityRecords) : Exists(l) => db[l] \in LiabilityRows

\* docs/22 section 4: a claim in status approved or settled has an amount that
\* was approved, whichever way it got there (a reopened claim comes around again).
DecidedHasAmount(row) == row.status \in {"approved", "settled"} => row.approved # None

\* Both shares were checked against a sum without the other one.
Unseen(l, m) == l \notin db[m].beside /\ m \notin db[l].beside

\* docs/22 section 4: the shares of a claim sum to at most 100 unless overridden; but
\* the sum is only read, so two recorders who asked before either committed can take
\* it further.  Nobody else can: of shares that were all checked one after the other,
\* however they came about, the whole is kept.
OnlyUnseenExceed ==
  \A c \in Among(Claims) :
    \/ TotalLiability(c) <= 100
    \/ \E l \in RecordsOf(c) : db[l].overridden
    \/ \E l, m \in RecordsOf(c) : l # m /\ Unseen(l, m)
=============================================================================
