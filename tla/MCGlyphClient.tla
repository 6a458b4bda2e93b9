---------------------------- MODULE MCGlyphClient ----------------------------
(* Small instances of GlyphClient. *)
EXTENDS GlyphClient, TLC

CONSTANTS i1, i2, i3, k1, k2, UsedCards

base == [f \in Fields |->
  CASE f = "cost.riskTier" -> "safe" [] f = "attestation" -> "absent"
    [] OTHER -> "v1"]

(* i2 rewords the intent of i1; i3 raises its risk. *)
MCcontent ==
  i1 :> base @@ i2 :> [base EXCEPT !["intent"] = "v2"]
             @@ i3 :> [base EXCEPT !["cost.riskTier"] = "danger"]

cardOf(name) ==
  CASE name = "first"    -> [id |-> i1, publicKey |-> k1, signature |-> "valid"]
    [] name = "reworded" -> [id |-> i2, publicKey |-> k1, signature |-> "valid"]
    [] name = "riskier"  -> [id |-> i3, publicKey |-> k1, signature |-> "valid"]
    [] name = "rekeyed"  -> [id |-> i1, publicKey |-> k2, signature |-> "valid"]
    [] name = "unsigned" -> [id |-> i2, publicKey |-> k1, signature |-> "absent"]
    [] name = "stripped" -> [id |-> i3, publicKey |-> k1, signature |-> "absent"]
    [] name = "spoiled"  -> [id |-> i3, publicKey |-> k1, signature |-> "invalid"]

MCCards == {cardOf(n) : n \in UsedCards}

(* The keys of the provider are trusted; no card is attested to be risky. *)
MCPasses ==
  [g \in {"trust", "attestation"} |->
     IF g = "trust" THEN {c \in MCCards : c.publicKey = k1} ELSE MCCards]

(* Promotion policies: the default, with a manifest, and anything goes. *)
ReviewPolicy ==
  [requireManifest |-> FALSE, requireAttestation |-> FALSE,
   allowBreaking |-> FALSE, allowRiskEscalation |-> FALSE,
   allowKeyChange |-> FALSE]
ManifestPolicy == [ReviewPolicy EXCEPT !.requireManifest = TRUE]
OpenPolicy ==
  [ReviewPolicy EXCEPT !.allowBreaking = TRUE, !.allowRiskEscalation = TRUE,
                       !.allowKeyChange = TRUE]

(* A client with a pin store and default options. *)
Default ==
  [uses |-> {"call", "approve", "revoke"}, unreliable |-> FALSE,
   deploys |-> {cardOf("first"), cardOf("reworded"), cardOf("unsigned")},
   gates |-> {"pin"}, secureMode |-> FALSE, verifyReceipts |-> TRUE,
   tofu |-> FALSE, autoApproveReviewChanges |-> FALSE,
   resilientUpdates |-> FALSE, autoPromotionPolicy |-> None]

(* Trust on first use, automatic review updates, all three gates. *)
Trusting ==
  [Default EXCEPT !.tofu = TRUE, !.gates = {"pin", "trust", "attestation"},
                  !.deploys = {cardOf("first"), cardOf("unsigned"),
                               cardOf("rekeyed"), cardOf("spoiled")}]

(* Secure mode with first-use pins, over a bad network. *)
SecureFirstUse ==
  [Default EXCEPT !.secureMode = TRUE, !.tofu = TRUE, !.unreliable = TRUE,
                  !.uses = {"getCard", "call", "approve"},
                  !.deploys = {cardOf("first"), cardOf("reworded"),
                               cardOf("stripped")}]

(* Secure mode with updates parked and promoted: review changes that a     *)
(* manifest announces, next to revocations and approvals; or any change,   *)
(* over a bad network.                                                     *)
Announced ==
  [Default EXCEPT !.secureMode = TRUE, !.resilientUpdates = TRUE,
                  !.autoPromotionPolicy = ManifestPolicy,
                  !.uses = {"call", "approve", "revoke", "audit"},
                  !.deploys = {cardOf("first"), cardOf("reworded"),
                               cardOf("riskier")}]
AnyUpdate ==
  [Announced EXCEPT !.unreliable = TRUE, !.autoPromotionPolicy = OpenPolicy,
                    !.uses = {"call", "audit"},
                    !.deploys = {cardOf("first"), cardOf("reworded"),
                                 cardOf("stripped")}]

AllUses == {Trusting, SecureFirstUse, Announced, AnyUpdate}
DefaultUse == {Default}

(* Pin stores a session may start from: none, the first card approved or   *)
(* revoked, or a risky card approved.                                      *)
SomeStore ==
  {None} \cup [card : {cardOf("first")}, revoked : BOOLEAN]
         \cup [card : {cardOf("riskier")}, revoked : {FALSE}]

symmetry == Permutations(Tasks)
==============================================================================
