--------------------------- MODULE MCProviderTrust ----------------------------
(* The instance of ProviderTrust that TLC checks.                          *)
EXTENDS ProviderTrust, TLC

CONSTANTS ka, kb, bundle, other

MCKeys == {ka, kb, Empty}

Attestation(type, shape, subject, chain, identity) ==
  [type |-> type, shape |-> shape, subject |-> subject, chain |-> chain,
   identity |-> identity]

Card(k, signed, genuine, tier, attestation) ==
  [publicKey |-> k, signed |-> signed, genuine |-> genuine, tier |-> tier,
   content |-> bundle, attestation |-> attestation]

Keyless(subject, identity) ==
  Attestation("glyph-keyless-v1", "keyless", subject, TRUE, identity)

(* Cards with a trusted and with an untrusted key, unsigned and tampered   *)
(* ones, and one attestation of every kind, bound to this card or lifted   *)
(* from another.                                                           *)
MCCards ==
  { Card(ka, TRUE, TRUE, "danger", Keyless(bundle, "ci")),
    Card(kb, TRUE, TRUE, "danger", Keyless(other, "ci")),
    Card(ka, TRUE, TRUE, "safe", None),
    Card(ka, FALSE, TRUE, "danger", Attestation("d", "digest", bundle, FALSE, "ci")),
    Card(kb, FALSE, TRUE, "danger", Attestation("s", "slsa", other, FALSE, "ci")),
    Card(ka, TRUE, FALSE, "danger", Keyless(bundle, "ci")),
    Card(ka, TRUE, TRUE, "danger", Attestation("b", "dsse", other, TRUE, "ci")),
    Card(ka, TRUE, TRUE, "danger", Attestation("l", "sigstore", bundle, FALSE, "ci")) }

Trust(own, genesisKeyOf, keys) ==
  [own |-> own, genesisKey |-> genesisKeyOf, publicKeys |-> keys]

(* A provider, the same after a rotation, another one under its name, one  *)
(* more with an empty genesis, the entry of somebody else, and an invalid  *)
(* one.                                                                    *)
MCDocuments ==
  { Trust(TRUE, None, <<ka>>), Trust(TRUE, ka, <<kb, ka>>),
    Trust(TRUE, None, <<kb>>), Trust(TRUE, Empty, <<kb>>), Trust(FALSE, None, <<ka>>),
    Trust(TRUE, ka, <<>>) }

Legacy == {"sigstore", "slsa"}
Current == {"container-digest", "glyph-keyless-v1", "sigstore-bundle"}

Config(unknown, http, require, verifiers, expected, resolver, explicit) ==
  [allowUnknown |-> unknown, http |-> http, require |-> require,
   verifiers |-> verifiers, expected |-> expected, resolver |-> resolver,
   explicit |-> explicit, backend |-> TRUE]

MCConfigs ==
  { Config(FALSE, TRUE, "danger", Legacy \cup Current, bundle, "restored", None),
    Config(FALSE, TRUE, "all", Legacy \cup Current, None, "fresh", None),
    Config(TRUE, FALSE, "none", {}, None, "restored", None),
    Config(FALSE, FALSE, "all", Current, None, "none", None),
    Config(FALSE, TRUE, "none", {}, None, "restored", Trust(TRUE, ka, <<kb, ka>>)),
    Config(FALSE, FALSE, "danger", Legacy, None, "restored", Trust(TRUE, None, <<>>)) }

Symmetry == Permutations(Calls)
==============================================================================
