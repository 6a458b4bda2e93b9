------------------------------ MODULE GlyphCards ------------------------------
(***************************************************************************)
(* Cards, their differences and the promotion policy: the pure functions   *)
(* of packages/core/src/index.ts and client/src/promotion-policy.ts that   *)
(* the consumer's gates are built from.                                    *)
(*                                                                         *)
(* computeGlyphId is a hash of the canonical fields; it is modelled as an  *)
(* injection, so an id stands for the content it commits to and `content'  *)
(* gives the fields back.  The signing key is deliberately not part of it. *)
(***************************************************************************)
EXTENDS Integers

CONSTANTS
  Ids,      \* content-addressed card ids
  Keys,     \* signing keys
  content,  \* the canonical fields behind each id
  None

(* FIELD_SEVERITY, without publicKey, which is not content. *)
BreakingFields ==
  {"version", "cost.sideEffects", "cost.reversible", "cost.riskTier",
   "cost.requiresConfirmation", "idempotent", "input", "output", "provider",
   "requiredScopes", "attestation"}

ReviewFields ==
  {"name", "intent", "tags", "cost.latency", "examples", "failureModes"}

RISK_ORDER == [safe |-> 0, caution |-> 1, danger |-> 2]

Fields == BreakingFields \cup ReviewFields

(* What an attestation says once the registered verifiers looked at it. *)
AttestationResults == {"absent", "valid", "invalid"}

ASSUME ContentAssumption ==
  /\ \A i \in Ids :
       /\ DOMAIN content[i] = Fields
       /\ content[i]["cost.riskTier"] \in DOMAIN RISK_ORDER
       /\ content[i]["attestation"] \in AttestationResults
  /\ \A i, j \in Ids : content[i] = content[j] => i = j

(* signature: what verifyGlyph finds.  The cards of one server at one depth *)
(* always carry a valid one; a proxy or another server may drop or spoil it. *)
Card == [id : Ids, publicKey : Keys, signature : {"valid", "absent", "invalid"}]

verifyGlyph(c) == c.signature = "valid"

sameCard(a, b) == a.id = b.id /\ a.publicKey = b.publicKey

isRiskEscalation(before, after) == RISK_ORDER[after] > RISK_ORDER[before]

Diff == [keyChanged : BOOLEAN, requiresApproval : BOOLEAN, escalates : BOOLEAN]

(* Faulty variant: a key swap is not a breaking change. *)
diffCards_KeyIsReview(approved, next) ==
  [requiresApproval |-> \E f \in BreakingFields :
                          content[approved.id][f] # content[next.id][f],
   keyChanged       |-> approved.publicKey # next.publicKey,
   escalates        |-> isRiskEscalation(content[approved.id]["cost.riskTier"],
                                         content[next.id]["cost.riskTier"])]

(* diffCards, reduced to what the gates ask of it. *)
diffCards(approved, next) ==
  [requiresApproval |-> \/ approved.publicKey # next.publicKey
                        \/ \E f \in BreakingFields :
                             content[approved.id][f] # content[next.id][f],
   keyChanged       |-> approved.publicKey # next.publicKey,
   escalates        |-> isRiskEscalation(content[approved.id]["cost.riskTier"],
                                         content[next.id]["cost.riskTier"])]

AutoPromotionPolicy ==
  [requireManifest : BOOLEAN, requireAttestation : BOOLEAN,
   allowBreaking : BOOLEAN, allowRiskEscalation : BOOLEAN,
   allowKeyChange : BOOLEAN]

(* Faulty variant: the signature of the new card is not asked for. *)
AuditOk_Unsigned(report) ==
  report.manifest # "invalid" /\ report.attestation # "invalid"

(* AuditReport.ok *)
AuditOk(report) ==
  /\ report.signatureValid
  /\ report.manifest # "invalid"
  /\ report.attestation # "invalid"

(* Faulty variant: the change class is not looked at. *)
evaluatePromotion_AnyChange(report, policy) ==
  /\ AuditOk(report)
  /\ policy.requireManifest => report.manifest = "valid"
  /\ policy.requireAttestation => report.attestation = "valid"

evaluatePromotion(report, policy) ==
  /\ AuditOk(report)
  /\ policy.requireManifest => report.manifest = "valid"
  /\ policy.requireAttestation => report.attestation = "valid"
  /\ report.diff.requiresApproval => policy.allowBreaking
  /\ report.diff.keyChanged => policy.allowKeyChange
  /\ report.diff.escalates => policy.allowRiskEscalation
==============================================================================
