------------------------- MODULE ProviderTrust_proofs -------------------------
(***************************************************************************)
(* The trust gate and the attestation gate for every number of calls and   *)
(* any set of cards, documents, client options and policies.               *)
(*                                                                         *)
(* SentWithEvidence is inductive next to the shape of the state, and       *)
(* OneGenesis next to what Pinned adds.  GatesSeeSameCard is not: that     *)
(* both gates see the same card rests on what the cache holds between      *)
(* them, which SameCard states for every point of a call.                  *)
(***************************************************************************)
EXTENDS ProviderTrust, TLAPS

Shape == TypeOK /\ DOMAIN passed = Calls /\ DOMAIN refreshed = Calls

(* OneGenesis, and that an entry with which a call passed claimed a        *)
(* genesis or an empty one.                                                *)
Pinned ==
  /\ OneGenesis
  /\ config.resolver = "restored" /\ ~config.allowUnknown =>
       \A t \in Calls : passed[t] # None => genesisKey(passed[t].entry) # None

(* Before the second gate a signed card of a call is the cached one, if    *)
(* nobody else replaced it; from there on the call goes with the card that *)
(* passed.                                                                 *)
SameCard ==
  \A t \in Calls :
    /\ pc[t] \in {"resolve", "filesystem", "http", "trusted"} =>
         /\ card[t] \in Cards
         /\ card[t].signed => cardCache # None
         /\ card[t].signed /\ ~refreshed[t] => cardCache = card[t]
    /\ pc[t] = "trusted" => passed[t].card = card[t]
    /\ pc[t] = "getCardAgain" => ~passed[t].card.signed
    /\ pc[t] = "attest" => card[t] \in Cards
    /\ pc[t] \in {"attest", "posted"} /\ config.require # "none" =>
         (passed[t].card.signed /\ ~refreshed[t] => card[t] = passed[t].card)

IInv == Shape /\ Pinned /\ SameCard /\ SentWithEvidence

------------------------------------------------------------------------------
(* A verifier that says valid and trusted has seen evidence, bound unless  *)
(* it is a bundle and no digest is expected (the five verifiers of         *)
(* attestation.ts, keyless.ts and attestation-sigstore).                   *)
LEMMA TrustedHasEvidence ==
  ASSUME NEW c \in Cards, config \in Configs, attestationValid(c)
  PROVE  BoundEvidence(c) \/ UnboundBundle(c)
<1>1. PICK type \in config.verifiers : verify(type, c).valid /\ verify(type, c).trusted
  BY DEF attestationValid
<1>2. type \in {"sigstore", "slsa", "container-digest", "glyph-keyless-v1",
                "sigstore-bundle"}
  BY TrustAssumption
<1>3. CASE type = "sigstore"
  BY <1>1, <1>3 DEF verify, SigstoreVerifier, Result
<1>4. CASE type = "slsa"
  BY <1>1, <1>4 DEF verify, SlsaVerifier, Result
<1>5. CASE type = "container-digest"
  BY <1>1, <1>5 DEF verify, DigestVerifier, Result, BoundEvidence
<1>6. CASE type = "glyph-keyless-v1"
  BY <1>1, <1>6
     DEF verify, KeylessVerifier, keylessSubjectDigest, Result, BoundEvidence
<1>7. CASE type = "sigstore-bundle"
  BY <1>1, <1>7
     DEF verify, SigstoreBundleVerifier, Result, BoundEvidence, UnboundBundle
<1> QED
  BY <1>2, <1>3, <1>4, <1>5, <1>6, <1>7

(* The end of enforceTrust, with an entry or none. *)
LEMMA GateKeepsIInv ==
  ASSUME IInv, NEW t \in Calls, NEW e,
         pc[t] \in {"resolve", "filesystem", "http"},
         TrustGate(t, e), e # None => e.publicKeys \in Seq(Keys),
         genesis # None => genesis' = genesis,
         entries' = entries \/ (entries' \in Documents /\ isValidEntry(entries')),
         UNCHANGED <<config, world, cardCache, card, refreshed>>
  PROVE  IInv'
<1>1. Shape'
  BY DEF IInv, Shape, TypeOK, TrustGate, Goto, world, isValidEntry
<1>2. Pinned'
  <2>1. /\ passed' = [passed EXCEPT ![t] = [card |-> card[t], entry |-> e]]
        /\ config.resolver = "restored" /\ ~config.allowUnknown =>
             /\ e # None /\ Member(card[t].publicKey, e.publicKeys)
             /\ genesisKey(e) \in {genesis', None, Empty}
        \/ passed' = passed
    BY DEF TrustGate, Matches, Claims
  <2>2. ASSUME e # None, Member(card[t].publicKey, e.publicKeys) PROVE genesisKey(e) # None
    BY <2>2, TrustAssumption DEF Member, genesisKey
  <2>3. config' = config
    OBVIOUS
  <2>4. CASE passed' = passed
    BY <2>3, <2>4 DEF IInv, Shape, Pinned, OneGenesis, genesisKey, Member
  <2>5. CASE passed' # passed
    BY <2>1, <2>2, <2>3, <2>5
       DEF IInv, Shape, Pinned, OneGenesis, genesisKey, Member
  <2> QED
    BY <2>4, <2>5
<1>3. SameCard'
  BY DEF IInv, Shape, TypeOK, SameCard, TrustGate, Goto
<1>4. SentWithEvidence'
  BY
     DEF IInv, Shape, TypeOK, SentWithEvidence, TrustGate, Goto,
         BoundEvidence, UnboundBundle
<1> QED
  BY <1>1, <1>2, <1>3, <1>4 DEF IInv

LEMMA InitIInv == Init => IInv
BY TrustAssumption
   DEF Init, IInv, Shape, TypeOK, Pinned, OneGenesis, SameCard, SentWithEvidence

(* The steps that leave the history of the trust gate alone, of a call     *)
(* that is not yet through.                                                *)
LEMMA CallKeepsIInv ==
  ASSUME IInv, NEW t \in Calls,
         Begin(t) \/ getCard(t) \/ ensureAttested(t) \/ attest(t) \/ BackendThrows(t)
  PROVE  IInv'
<1>1. CASE Begin(t)
  <2>1. Shape'
    BY <1>1 DEF IInv, Shape, TypeOK, Begin, Goto, world
  <2>2. Pinned'
    BY <1>1
       DEF IInv, Shape, TypeOK, Pinned, OneGenesis, Begin, Goto, genesisKey,
           Member
  <2>3. SameCard'
    BY <1>1, TrustAssumption DEF IInv, Shape, TypeOK, SameCard, Begin, Goto
  <2>4. SentWithEvidence'
    BY <1>1
       DEF IInv, Shape, TypeOK, SentWithEvidence, Begin, Goto, BoundEvidence,
           UnboundBundle
  <2> QED
    BY <2>1, <2>2, <2>3, <2>4 DEF IInv
<1>2. CASE getCard(t)
  <2>1. Shape'
    BY <1>2 DEF IInv, Shape, TypeOK, getCard, Goto, Received, world
  <2>2. Pinned'
    BY <1>2
       DEF IInv, Shape, TypeOK, Pinned, OneGenesis, getCard, Goto, genesisKey,
           Member
  <2>3. SameCard'
    <3>1. CASE published.signed /\ ~published.genuine
      BY <1>2, <3>1 DEF IInv, Shape, TypeOK, SameCard, getCard, Goto
    <3>2. CASE ~(published.signed /\ ~published.genuine)
      <4>1. /\ card' = [card EXCEPT ![t] = published]
            /\ cardCache' = IF published.signed THEN published ELSE cardCache
            /\ pc' = [pc EXCEPT ![t] = IF pc[t] = "getCard" THEN "resolve"
                                       ELSE "attest"]
            /\ UNCHANGED <<config, passed>>
            /\ pc[t] \in {"getCard", "getCardAgain"}
        BY <1>2, <3>2 DEF getCard, Goto, Received
      <4>2. \A u \in Calls : u # t /\ ~refreshed'[u] =>
              ~refreshed[u] /\ cardCache' = cardCache
        BY <1>2, <3>2 DEF getCard, Received
      <4>3. published \in Cards /\ None \notin Cards
        BY TrustAssumption DEF IInv, Shape, TypeOK
      <4> SUFFICES ASSUME NEW u \in Calls PROVE SameCard!(u)'
        BY DEF SameCard
      <4>4. CASE u = t
        <5>1. card'[t] = published /\ t \in DOMAIN pc
          BY <4>1 DEF IInv, Shape, TypeOK
        <5>2. CASE pc[t] = "getCard"
          BY <4>1, <4>3, <4>4, <5>1, <5>2
        <5>3. CASE pc[t] = "getCardAgain"
          <6>1. ~passed[t].card.signed /\ pc'[t] = "attest"
            BY <4>1, <5>1, <5>3 DEF IInv, SameCard
          <6> QED
            BY <4>1, <4>3, <4>4, <5>1, <6>1
        <5> QED
          BY <4>1, <5>2, <5>3
      <4>5. CASE u # t
        BY <4>1, <4>2, <4>3, <4>5 DEF IInv, Shape, TypeOK, SameCard
      <4> QED
        BY <4>4, <4>5
    <3> QED
      BY <3>1, <3>2
  <2>4. SentWithEvidence'
    BY <1>2
       DEF IInv, Shape, TypeOK, SentWithEvidence, getCard, Goto,
           BoundEvidence, UnboundBundle
  <2> QED
    BY <2>1, <2>2, <2>3, <2>4 DEF IInv
<1>3. CASE ensureAttested(t)
  <2>1. Shape'
    BY <1>3 DEF IInv, Shape, TypeOK, ensureAttested, Goto, world
  <2>2. Pinned'
    BY <1>3
       DEF IInv, Shape, TypeOK, Pinned, OneGenesis, ensureAttested, Goto,
           genesisKey, Member
  <2>3. SameCard'
    BY <1>3, TrustAssumption
       DEF IInv, Shape, TypeOK, SameCard, ensureAttested, Goto
  <2>4. SentWithEvidence'
    BY <1>3
       DEF IInv, Shape, TypeOK, SentWithEvidence, ensureAttested, Goto,
           BoundEvidence, UnboundBundle
  <2> QED
    BY <2>1, <2>2, <2>3, <2>4 DEF IInv
<1>4. CASE attest(t)
  <2>1. Shape'
    BY <1>4 DEF IInv, Shape, TypeOK, attest, Goto, world
  <2>2. Pinned'
    BY <1>4
       DEF IInv, Shape, TypeOK, Pinned, OneGenesis, attest, Goto, genesisKey,
           Member
  <2>3. SameCard'
    BY <1>4, TrustAssumption DEF IInv, Shape, TypeOK, SameCard, attest, Goto
  <2>4. SentWithEvidence'
    <3>1. Attested(card[t]) => \/ config.require = "none"
                               \/ config.require = "danger" /\ card[t].tier # "danger"
                               \/ BoundEvidence(card[t]) \/ UnboundBundle(card[t])
      <4>1. card[t] \in Cards /\ config \in Configs
        BY <1>4 DEF IInv, Shape, TypeOK, SameCard, attest
      <4> QED
        BY <4>1, TrustedHasEvidence DEF Attested
    <3> QED
      BY <1>4, <3>1
         DEF IInv, Shape, TypeOK, SentWithEvidence, attest, Goto,
             BoundEvidence, UnboundBundle
  <2> QED
    BY <2>1, <2>2, <2>3, <2>4 DEF IInv
<1>5. CASE BackendThrows(t)
  <2>1. Shape'
    BY <1>5 DEF IInv, Shape, TypeOK, BackendThrows, Goto, world
  <2>2. Pinned'
    BY <1>5
       DEF IInv, Shape, TypeOK, Pinned, OneGenesis, BackendThrows, Goto,
           genesisKey, Member
  <2>3. SameCard'
    BY <1>5 DEF IInv, Shape, TypeOK, SameCard, BackendThrows, Goto
  <2>4. SentWithEvidence'
    BY <1>5
       DEF IInv, Shape, TypeOK, SentWithEvidence, BackendThrows, Goto,
           BoundEvidence, UnboundBundle
  <2> QED
    BY <2>1, <2>2, <2>3, <2>4 DEF IInv
<1> QED
  BY <1>1, <1>2, <1>3, <1>4, <1>5

LEMMA StepKeepsIInv == IInv /\ [Next]_vars => IInv'
<1> SUFFICES ASSUME IInv, [Next]_vars PROVE IInv'
  OBVIOUS
<1>1. ASSUME NEW t \in Calls, Step(t) PROVE IInv'
  <2>1. CASE Begin(t) \/ getCard(t) \/ ensureAttested(t) \/ attest(t)
             \/ BackendThrows(t)
    BY <2>1, CallKeepsIInv
  <2>2. CASE resolve(t)
    <3>1. CASE entries # None
      <4>0. entries # None => entries.publicKeys \in Seq(Keys)
        BY TrustAssumption DEF IInv, Shape, TypeOK
      <4>1. /\ TrustGate(t, entries) /\ (genesis # None => genesis' = genesis)
            /\ entries' = entries /\ pc[t] \in {"resolve", "filesystem", "http"}
            /\ UNCHANGED <<config, world, cardCache, card, refreshed>>
        BY <2>2, <3>1 DEF resolve, enforceGenesis
      <4> QED
        BY <4>0, <4>1, GateKeepsIInv
    <3>2. CASE entries = None
      BY <2>2, <3>2
         DEF resolve, Goto, world, IInv, Shape, TypeOK, Pinned, OneGenesis,
             SameCard,
         SentWithEvidence, BoundEvidence, UnboundBundle, Member, genesisKey
    <3> QED
      BY <3>1, <3>2
  <2>3. CASE resolveFromFilesystem(t)
    <3>1. CASE isValidEntry(document.file) /\ document.file.own
      <4>1. document.file \in Documents
        BY <3>1 DEF IInv, Shape, TypeOK, isValidEntry
      <4> QED
        BY <2>3, <3>1, <4>1, TrustAssumption, GateKeepsIInv
           DEF resolveFromFilesystem, Found, enforceGenesis
    <3>2. CASE ~(isValidEntry(document.file) /\ document.file.own) /\ config.http
      BY <2>3, <3>2
         DEF resolveFromFilesystem, Goto, world, IInv, Shape, TypeOK, Pinned,
             OneGenesis,
         SameCard, SentWithEvidence, BoundEvidence, UnboundBundle, Member, genesisKey
    <3>3. CASE ~(isValidEntry(document.file) /\ document.file.own) /\ ~config.http
      <4>1. /\ TrustGate(t, None) /\ (genesis # None => genesis' = genesis)
            /\ entries' = entries /\ pc[t] \in {"resolve", "filesystem", "http"}
            /\ UNCHANGED <<config, world, cardCache, card, refreshed>>
        BY <2>3, <3>3 DEF resolveFromFilesystem, NotFound
      <4> QED
        BY <4>1, GateKeepsIInv
    <3> QED
      BY <3>1, <3>2, <3>3
  <2>4. CASE resolveFromHttp(t)
    <3>1. CASE isValidEntry(document.http) /\ Found(t, document.http)
      <4>1. document.http \in Documents
        BY <3>1 DEF IInv, Shape, TypeOK, isValidEntry
      <4> QED
        BY <2>4, <3>1, <4>1, TrustAssumption, GateKeepsIInv
           DEF resolveFromHttp, Found, enforceGenesis
    <3>2. CASE NotFound(t)
      <4>1. /\ TrustGate(t, None) /\ (genesis # None => genesis' = genesis)
            /\ entries' = entries /\ pc[t] \in {"resolve", "filesystem", "http"}
            /\ UNCHANGED <<config, world, cardCache, card, refreshed>>
        BY <2>4, <3>2 DEF resolveFromHttp, NotFound
      <4> QED
        BY <4>1, GateKeepsIInv
    <3> QED
      BY <2>4, <3>1, <3>2 DEF resolveFromHttp
  <2> QED
    BY <1>1, <2>1, <2>2, <2>3, <2>4 DEF Step
<1>2. CASE Change
  <2>1. document' \in [file : Documents \cup {None}, http : Documents \cup {None}]
    BY <1>2 DEF Change, IInv, Shape, TypeOK
  <2>2. published' \in Cards /\ changes' \in 0 .. MaxChanges
    BY <1>2, TrustAssumption DEF Change, IInv, Shape, TypeOK
  <2>3. Shape'
    BY <1>2, <2>1, <2>2 DEF Change, IInv, Shape, TypeOK, isValidEntry
  <2>4. Pinned' /\ SameCard' /\ SentWithEvidence'
    BY <1>2
       DEF Change, IInv, Pinned, OneGenesis, SameCard, SentWithEvidence,
           BoundEvidence, UnboundBundle,
       Member, genesisKey
  <2> QED
    BY <2>3, <2>4 DEF IInv
<1>3. CASE Refresh
  <2>1. Shape'
    BY <1>3 DEF IInv, Shape, TypeOK, Refresh, Received, world
  <2>2. Pinned'
    BY <1>3 DEF IInv, Pinned, OneGenesis, Refresh, genesisKey, Member
  <2>3. SameCard'
    <3>1. /\ published \in Cards /\ None \notin Calls \cup Cards
          /\ cardCache' = published
      BY <1>3, TrustAssumption DEF IInv, Shape, TypeOK, Refresh, Received
    <3>2. \A u \in Calls : ~refreshed'[u] => ~refreshed[u] /\ cardCache' = cardCache
      BY <1>3, <3>1 DEF Refresh, Received
    <3> QED
      BY <1>3, <3>1, <3>2 DEF IInv, SameCard, Refresh
  <2>4. SentWithEvidence'
    BY <1>3 DEF IInv, SentWithEvidence, Refresh, BoundEvidence, UnboundBundle
  <2> QED
    BY <2>1, <2>2, <2>3, <2>4 DEF IInv
<1>4. CASE Restart
  <2>1. Shape'
    BY <1>4, TrustAssumption DEF IInv, Shape, TypeOK, Restart
  <2>2. Pinned'
    BY <1>4 DEF IInv, Pinned, OneGenesis, Restart, genesisKey, Member
  <2>3. SameCard'
    BY <1>4 DEF IInv, Shape, TypeOK, SameCard, Restart
  <2>4. SentWithEvidence'
    BY <1>4
       DEF IInv, Shape, TypeOK, SentWithEvidence, Restart, BoundEvidence,
           UnboundBundle
  <2> QED
    BY <2>1, <2>2, <2>3, <2>4 DEF IInv
<1>5. CASE UNCHANGED vars
  BY <1>5
     DEF vars, world, IInv, Shape, TypeOK, Pinned, OneGenesis, SameCard,
         SentWithEvidence,
     BoundEvidence, UnboundBundle, Member, genesisKey
<1> QED
  BY <1>1, <1>2, <1>3, <1>4, <1>5 DEF Next

LEMMA Invariance == Spec => []IInv
BY InitIInv, StepKeepsIInv, PTL DEF Spec

------------------------------------------------------------------------------
(* The client and its resolver hold what their declarations say; only      *)
(* signed cards and valid discovered entries are cached (getCard, resolve).*)
THEOREM TypeCorrect == Spec => []TypeOK
<1>1. IInv => TypeOK
  BY DEF IInv, Shape
<1> QED
  BY <1>1, Invariance, PTL

(* Whatever sources answer, in whatever order, and through restarts with   *)
(* the saved pins: a call let through carried a key of an entry with the   *)
(* pinned genesis, or of one with an empty genesis, which passes unchecked *)
(* (enforceGenesis, enforceTrust).                                         *)
THEOREM GenesisIsPinned == Spec => []OneGenesis
<1>1. IInv => OneGenesis
  BY DEF IInv, Pinned
<1> QED
  BY <1>1, Invariance, PTL

(* Both gates of a call see one signed card, also one that the call        *)
(* fetched for itself, unless another operation's fetch is answered in     *)
(* between (getCard, ensureAttested).                                      *)
THEOREM OneCardForBothGates == Spec => []GatesSeeSameCard
<1>1. IInv => GatesSeeSameCard
  BY DEF IInv, SameCard, GatesSeeSameCard
<1> QED
  BY <1>1, Invariance, PTL

(* No combination of verifiers and options sends a call that needs an      *)
(* attestation without evidence bound to its subject, but for a Sigstore   *)
(* bundle without an expected digest (ensureAttested).                     *)
THEOREM EvidenceBeforeSending == Spec => []SentWithEvidence
<1>1. IInv => SentWithEvidence
  BY DEF IInv
<1> QED
  BY <1>1, Invariance, PTL
==============================================================================
