---------------------------- MODULE ProviderTrust -----------------------------
(***************************************************************************)
(* The two gates of GlyphClient.call() behind the pin gate: enforceTrust,  *)
(* which asks a ProviderTrustResolver (client/src/trust.ts) for the keys   *)
(* of the card's provider, and ensureAttested, which runs the registered   *)
(* attestation verifiers (client, core, attestation-sigstore).             *)
(*                                                                         *)
(* One tool is called, by calls that interleave from await to await while  *)
(* its server publishes other cards, the trust file and the provider's     *)
(* well-known document change, and the client process restarts.  What a    *)
(* payload parses as is its shape; an X.509 chain verifies or does not.    *)
(* All cards of the tool name one provider.                                *)
(***************************************************************************)
EXTENDS Integers, Sequences

CONSTANTS
  Calls,
  Cards,      \* cards the server may publish
  Documents,  \* trust entries the file and the well-known document may hold
  Configs,    \* options of the client, of its resolver and of its verifiers
  Keys,       \* what an entry may list as a key or claim as its genesis
  Empty,      \* the empty string among them
  Policy,     \* identities the keyless policy admits
  MaxChanges, \* bound on what happens outside the client, and on restarts
  None

ASSUME TrustAssumption ==
  /\ MaxChanges \in Nat
  /\ None \notin Calls \cup Cards \cup Documents \cup Keys
  /\ \A e \in Documents \cup {cfg.explicit : cfg \in Configs} :
       e # None => e.publicKeys \in Seq(Keys)
  /\ \A f \in Configs :
       /\ f.resolver \in {"none", "fresh", "restored"}
       /\ f.resolver = "none" => f.explicit = None /\ ~f.http
  /\ \A f \in Configs : f.verifiers \subseteq
       {"sigstore", "slsa", "container-digest", "glyph-keyless-v1",
        "sigstore-bundle"}

VARIABLES
  config,
  published, \* the card the server serves
  document,  \* .glyph-trust.json and the provider's well-known document
  cardCache, \* GlyphClient.cardCache of the tool
  entries,   \* ProviderTrustResolver.cache of the card's provider
  genesis,   \* its genesisPins
  pc,
  card,      \* the card a gate of the call looks at
  passed,    \* history: card and entry with which the trust gate let it pass
  refreshed, \* history: has somebody else replaced the cached card since the
             \* call took its own?
  changes

world == <<published, document, changes>>
vars == <<config, world, cardCache, entries, genesis, pc, card, passed,
          refreshed>>

Init ==
  /\ config \in Configs
  /\ published \in Cards
  /\ document = [file |-> None, http |-> None]
  /\ cardCache = None
  /\ entries = config.explicit
  /\ genesis = None
  /\ pc = [t \in Calls |-> "idle"]
  /\ card = [t \in Calls |-> None]
  /\ passed = [t \in Calls |-> None]
  /\ refreshed = [t \in Calls |-> FALSE]
  /\ changes = 0

------------------------------------------------------------------------------
(* The attestation verifiers: is the attestation valid, and is it trusted? *)

Result(valid, trusted) == [valid |-> valid, trusted |-> trusted]

(* Structure only: never trusted. *)
SigstoreVerifier(c) ==
  Result(c.attestation # None /\ c.attestation.shape = "sigstore", FALSE)

(* Faulty variant: a well-formed provenance statement is evidence. *)
SlsaVerifier_Trusting(c) ==
  LET ok == c.attestation # None /\ c.attestation.shape = "slsa"
  IN Result(ok, ok)

SlsaVerifier(c) ==
  Result(c.attestation # None /\ c.attestation.shape = "slsa", FALSE)

(* A well-formed digest is trusted when it is the one the consumer expects *)
(* and invalid when it is another; without an expectation nothing is bound.*)
DigestVerifier(c) ==
  LET formed == c.attestation # None /\ c.attestation.shape = "digest"
      bound == formed /\ config.expected = c.attestation.subject
  IN IF config.expected = None THEN Result(formed, FALSE) ELSE Result(bound, bound)

(* The digest of the content without the attestation that carries it. *)
keylessSubjectDigest(c) == c.content

matchesPolicy(identity) == Policy = {} \/ identity \in Policy

KeylessVerifier(c) ==
  LET bound == /\ c.attestation # None
               /\ c.attestation.type = "glyph-keyless-v1"
               /\ c.attestation.shape = "keyless"
               /\ c.attestation.subject = keylessSubjectDigest(c)
      trusted == /\ config.backend
                 /\ c.attestation.chain
                 /\ matchesPolicy(c.attestation.identity)
  IN Result(bound, bound /\ trusted)

(* DSSE signature and chain against the injected trust root, and the       *)
(* subject of the statement when the consumer expects one.                 *)
SigstoreBundleVerifier(c) ==
  LET ok == /\ c.attestation # None
            /\ c.attestation.shape = "dsse"
            /\ c.attestation.chain
            /\ config.expected # None => c.attestation.subject = config.expected
  IN Result(ok, ok)

verify(type, c) ==
  CASE type = "sigstore" -> SigstoreVerifier(c)
    [] type = "slsa" -> SlsaVerifier(c)
    [] type = "container-digest" -> DigestVerifier(c)
    [] type = "glyph-keyless-v1" -> KeylessVerifier(c)
    [] type = "sigstore-bundle" -> SigstoreBundleVerifier(c)

(* One valid and trusted attestation is enough (attestationValid and       *)
(* ensureAttested ask the same).                                           *)
attestationValid(c) ==
  \E type \in config.verifiers : verify(type, c).valid /\ verify(type, c).trusted

Attested(c) ==
  \/ config.require = "none"
  \/ config.require = "danger" /\ c.tier # "danger"
  \/ c.attestation # None /\ attestationValid(c)

------------------------------------------------------------------------------
(* ProviderTrustResolver *)

Member(k, keys) == \E i \in DOMAIN keys : keys[i] = k

(* Keys are looked at, the genesis is not: it may be empty. *)
isValidEntry(e) ==
  e # None /\ e.publicKeys # <<>> /\ ~Member(Empty, e.publicKeys)

(* The genesis an entry claims, be it empty, else its first key, if any. *)
genesisKey(e) ==
  IF e.genesisKey # None \/ e.publicKeys = <<>> THEN e.genesisKey
  ELSE e.publicKeys[1]

Claims(e) == e # None /\ genesisKey(e) \notin {None, Empty}

(* Faulty variant: a mismatch replaces the pin. *)
enforceGenesis_Repins(e) ==
  genesis' = IF Claims(e) THEN genesisKey(e) ELSE genesis

(* The first entry that claims a genesis pins it; the pin is never         *)
(* replaced.                                                               *)
enforceGenesis(e) ==
  genesis' = IF Claims(e) /\ genesis = None THEN genesisKey(e) ELSE genesis

(* An entry whose genesis is not the pinned one is as good as none; one    *)
(* that claims none is not measured.  Without a resolver among the options *)
(* each call makes itself a new one, which has no pin.                     *)
Matches(e) ==
  /\ e # None
  /\ config.resolver = "none" \/ ~Claims(e) \/ genesisKey(e) = genesis'

------------------------------------------------------------------------------
(* The steps of a call *)

Goto(t, point) == pc' = [pc EXCEPT ![t] = point]

(* The end of enforceTrust: the entry resolved, or none, admits the card. *)
TrustGate(t, e) ==
  IF IF Matches(e) THEN Member(card[t].publicKey, e.publicKeys)
                   ELSE config.allowUnknown
  THEN /\ Goto(t, "trusted")
       /\ passed' = [passed EXCEPT ![t] = [card |-> card[t], entry |-> e]]
  ELSE Goto(t, "refused") /\ UNCHANGED passed

(* call() reaches enforceTrust, which takes the cached card or fetches it. *)
Begin(t) ==
  /\ pc[t] = "idle"
  /\ Goto(t, IF cardCache = None THEN "getCard" ELSE "resolve")
  /\ card' = [card EXCEPT ![t] = cardCache]
  /\ passed' = [passed EXCEPT ![t] = None]
  /\ refreshed' = [refreshed EXCEPT ![t] = FALSE]
  /\ UNCHANGED <<config, world, cardCache, entries, genesis>>

(* The card arrives for call t, or, as None, for the application.  With a  *)
(* signature it must verify and is cached; without, it is used, and not    *)
(* cached.                                                                 *)
Received(t, c) ==
  /\ cardCache' = IF c.signed THEN c ELSE cardCache
  /\ refreshed' = [u \in Calls |->
       u # t /\ (refreshed[u] \/ cardCache' # cardCache)]

getCard(t) ==
  /\ pc[t] \in {"getCard", "getCardAgain"}
  /\ IF published.signed /\ ~published.genuine
     THEN Goto(t, "refused") /\ UNCHANGED <<card, cardCache, refreshed>>
     ELSE /\ card' = [card EXCEPT ![t] = published]
          /\ Received(t, published)
          /\ Goto(t, IF pc[t] = "getCard" THEN "resolve" ELSE "attest")
  /\ UNCHANGED <<config, world, entries, genesis, passed>>

resolve(t) ==
  /\ pc[t] = "resolve"
  /\ IF entries # None
     THEN /\ enforceGenesis(entries)
          /\ TrustGate(t, entries)
     ELSE /\ Goto(t, "filesystem")
          /\ UNCHANGED <<genesis, passed>>
  /\ UNCHANGED <<config, world, cardCache, entries, card, refreshed>>

(* What a source returned is cached first and measured against the pin     *)
(* afterwards; a resolver made for this call is gone with its cache.       *)
Found(t, e) ==
  /\ \/ config.resolver # "none" /\ entries' = e /\ enforceGenesis(e)
     \/ config.resolver = "none" /\ UNCHANGED <<entries, genesis>>
  /\ TrustGate(t, e)

NotFound(t) ==
  /\ UNCHANGED <<entries, genesis>>
  /\ TrustGate(t, None)

(* The trust file counts when it is valid and names this provider. *)
resolveFromFilesystem(t) ==
  /\ pc[t] = "filesystem"
  /\ LET e == document.file
     IN IF isValidEntry(e) /\ e.own THEN Found(t, e)
        ELSE IF config.http
        THEN Goto(t, "http") /\ UNCHANGED <<entries, genesis, passed>>
        ELSE NotFound(t)
  /\ UNCHANGED <<config, world, cardCache, card, refreshed>>

(* The well-known document counts when it is valid, whomever it names; a   *)
(* request that fails finds nothing.                                       *)
resolveFromHttp(t) ==
  /\ pc[t] = "http"
  /\ \/ isValidEntry(document.http) /\ Found(t, document.http)
     \/ NotFound(t)
  /\ UNCHANGED <<config, world, cardCache, card, refreshed>>

(* Faulty variant: the attestation gate always fetches the card again. *)
ensureAttested_Refetches(t) ==
  /\ pc[t] = "trusted"
  /\ Goto(t, IF config.require = "none" THEN "posted" ELSE "getCardAgain")
  /\ UNCHANGED <<config, world, cardCache, entries, genesis, card, passed,
                 refreshed>>

(* The second gate takes the cached card as well. *)
ensureAttested(t) ==
  /\ pc[t] = "trusted"
  /\ Goto(t, IF config.require = "none" THEN "posted"
             ELSE IF cardCache = None THEN "getCardAgain" ELSE "attest")
  /\ card' = [card EXCEPT ![t] = IF cardCache = None THEN @ ELSE cardCache]
  /\ UNCHANGED <<config, world, cardCache, entries, genesis, passed, refreshed>>

(* The verifiers have answered; the request goes out or the call throws. *)
attest(t) ==
  /\ pc[t] = "attest"
  /\ Goto(t, IF Attested(card[t]) THEN "posted" ELSE "refused")
  /\ UNCHANGED <<config, world, cardCache, entries, genesis, card, passed,
                 refreshed>>

(* The keyless backend rejects: the call rejects with it. *)
BackendThrows(t) ==
  /\ pc[t] = "attest"
  /\ config.backend /\ "glyph-keyless-v1" \in config.verifiers
  /\ KeylessVerifier(card[t]).valid
  /\ config.require = "danger" => card[t].tier = "danger"
  /\ Goto(t, "refused")
  /\ UNCHANGED <<config, world, cardCache, entries, genesis, card, passed,
                 refreshed>>

------------------------------------------------------------------------------
(* Around the calls *)

Change ==
  /\ changes < MaxChanges
  /\ changes' = changes + 1
  /\ \/ \E c \in Cards : published' = c /\ UNCHANGED document
     \/ \E e \in Documents, where \in {"file", "http"} :
          document' = [document EXCEPT ![where] = e] /\ UNCHANGED published
  /\ UNCHANGED <<config, cardCache, entries, genesis, pc, card, passed,
                 refreshed>>

(* The application fetches the card while calls are under way. *)
Refresh ==
  /\ published.signed /\ published.genuine /\ cardCache # published
  /\ Received(None, published)
  /\ UNCHANGED <<config, world, entries, genesis, pc, card, passed>>

(* A new process; its resolver is given the saved pins, or none. *)
Restart ==
  /\ changes < MaxChanges
  /\ changes' = changes + 1
  /\ pc' = [t \in Calls |-> IF pc[t] \in {"posted", "refused"} THEN pc[t]
                            ELSE "idle"]
  /\ entries' = config.explicit
  /\ genesis' = IF config.resolver = "restored" THEN genesis ELSE None
  /\ cardCache' = None
  /\ UNCHANGED <<config, published, document, card, passed, refreshed>>

Step(t) ==
  \/ Begin(t) \/ getCard(t) \/ resolve(t) \/ resolveFromFilesystem(t)
  \/ resolveFromHttp(t) \/ ensureAttested(t) \/ attest(t) \/ BackendThrows(t)

Next == (\E t \in Calls : Step(t)) \/ Change \/ Refresh \/ Restart

Spec == Init /\ [][Next]_vars

------------------------------------------------------------------------------
(* Properties *)

(* The state of the client and its resolver, as client/src/index.ts and    *)
(* trust.ts declare it: only signed cards are cached, and what a discovery *)
(* caches is a valid entry.                                                *)
TypeOK ==
  /\ config \in Configs /\ published \in Cards
  /\ document \in [file : Documents \cup {None}, http : Documents \cup {None}]
  /\ cardCache # None => cardCache \in Cards /\ cardCache.signed
  /\ entries # None /\ entries # config.explicit =>
       entries \in Documents /\ isValidEntry(entries)
  /\ pc \in [Calls -> {"idle", "getCard", "resolve", "filesystem", "http",
                       "trusted", "getCardAgain", "attest", "posted",
                       "refused"}]
  /\ card \in [Calls -> Cards \cup {None}]
  /\ changes \in 0 .. MaxChanges

(* Unless unknown providers are allowed, every call ever let through, by   *)
(* whatever source and in whatever order the answers came, carried a key   *)
(* of an entry with the pinned genesis: overlapping discoveries, a changed *)
(* document and restarts with the saved pins included.  The exception is   *)
(* an entry whose genesis is the empty string: it is let through past any  *)
(* pin.  And a client without a configured resolver pins nothing beyond    *)
(* the call (enforceTrust, enforceGenesis).                                *)
OneGenesis ==
  config.resolver = "restored" /\ ~config.allowUnknown =>
    \A t \in Calls : passed[t] # None =>
      /\ passed[t].entry # None
      /\ Member(passed[t].card.publicKey, passed[t].entry.publicKeys)
      /\ genesisKey(passed[t].entry) \in {genesis, Empty}

(* A call that is sent passed both gates with the same card, if the first  *)
(* gate saw a signed one, be it from the cache or fetched by the call      *)
(* itself: a server that changes its card between the gates cannot show    *)
(* the second another one.  Another call or the application can, when its  *)
(* own fetch of the card is answered in between (getCard, ensureAttested). *)
GatesSeeSameCard ==
  config.require # "none" =>
    \A t \in Calls : pc[t] = "posted" /\ passed[t].card.signed /\ ~refreshed[t] =>
      card[t] = passed[t].card

(* An attestation bound to the card, or to the artifact that the consumer  *)
(* expects.                                                                *)
BoundEvidence(c) ==
  LET a == c.attestation
  IN /\ a # None
     /\ \/ /\ a.shape = "digest" \/ (a.shape = "dsse" /\ a.chain)
           /\ config.expected # None /\ a.subject = config.expected
        \/ a.shape = "keyless" /\ a.chain /\ a.subject = c.content

(* A Sigstore bundle whose verifier was given no expected digest: its      *)
(* chain verifies, and its subject may be any artifact.                    *)
UnboundBundle(c) ==
  /\ c.attestation # None /\ config.expected = None
  /\ c.attestation.shape = "dsse" /\ c.attestation.chain

(* A call sent under requireAttestation is of a tier that needs none or    *)
(* carries cryptographic evidence bound to its subject; the structure-only *)
(* verifiers "can never satisfy requireAttestation".  The one exception to *)
(* the binding is a Sigstore bundle under a verifier without an expected   *)
(* digest, which RFC-0008 3.2 does not allow for: "a conforming verifier   *)
(* MUST enforce a subject binding" (ensureAttested, attestation.ts,        *)
(* attestation-sigstore).                                                  *)
SentWithEvidence ==
  \A t \in Calls : pc[t] = "posted" =>
    \/ config.require = "none"
    \/ config.require = "danger" /\ card[t].tier # "danger"
    \/ BoundEvidence(card[t])
    \/ UnboundBundle(card[t])
==============================================================================
