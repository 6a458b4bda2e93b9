------------------------------ MODULE KeyEntries ------------------------------
(***************************************************************************)
(* The pure functions of core/src/key-registry.ts: entries, registries,    *)
(* their verification and the status of a key, and the copies of the two   *)
(* readers in the Go and the Python SDK.                                   *)
(*                                                                         *)
(* A key stands for both halves of its pair.  A signature is the pair of   *)
(* key and message (ideal cryptography).  Time 0 is an absent timestamp.   *)
(***************************************************************************)
EXTENDS Integers, Sequences

CONSTANTS
  Keys,
  Ttl,  \* ttlSeconds of every registry (the CLI never changes it)
  None

fingerprintKey(k) == <<"sha256", k>>

Sign(k, message) == [by |-> k, over |-> message]
Verifies(signature, message, k) == signature = Sign(k, message)

entrySigningPayload(e) ==
  <<e.fingerprint, e.publicKey, e.validFrom, e.signedBy>>

registrySigningPayload(r) == <<r.version, r.active, r.keys, r.issuedAt, r.ttl>>

buildKeyEntry(k, validFrom, parent, private) ==
  LET base == [fingerprint |-> fingerprintKey(k), publicKey |-> k,
               validFrom |-> validFrom, validUntil |-> 0, revokedAt |-> 0,
               signedBy |-> parent, signature |-> None]
  IN IF parent = None THEN base
     ELSE [base EXCEPT !.signature = Sign(private, entrySigningPayload(base))]

Usable(e) == e.validUntil = 0 /\ e.revokedAt = 0

(* The active key is the last one neither retired nor revoked; building    *)
(* throws without one.                                                     *)
CanBuild(entries) == \E i \in DOMAIN entries : Usable(entries[i])

buildKeyRegistry(entries, private, at) ==
  LET last == CHOOSE i \in DOMAIN entries :
                /\ Usable(entries[i])
                /\ \A j \in DOMAIN entries : Usable(entries[j]) => j <= i
      base == [version |-> "1.0", active |-> entries[last].fingerprint,
               keys |-> entries, issuedAt |-> at, ttl |-> Ttl,
               signature |-> None]
  IN IF ~CanBuild(entries) THEN None
     ELSE [base EXCEPT !.signature = Sign(private, registrySigningPayload(base))]

(* byFingerprint: a later entry of one fingerprint replaces an earlier. *)
Entries(r) == {r.keys[i] : i \in DOMAIN r.keys}
Known(r) == {e.fingerprint : e \in Entries(r)}
Entry(r, fp) == r.keys[CHOOSE i \in DOMAIN r.keys :
                         /\ r.keys[i].fingerprint = fp
                         /\ \A j \in DOMAIN r.keys :
                              r.keys[j].fingerprint = fp => j <= i]

Genuine(r, e) ==
  \/ e.signedBy = None
  \/ /\ e.signature # None
     /\ e.signedBy \in Known(r)
     /\ Verifies(e.signature, entrySigningPayload(e),
                 Entry(r, e.signedBy).publicKey)

(* Faulty variant: the outer signature may come from any entry. *)
verifyKeyRegistry_AnySigner(r) ==
  /\ r.version = "1.0"
  /\ \A e \in Entries(r) : e.fingerprint = fingerprintKey(e.publicKey)
  /\ \A e \in Entries(r) : Genuine(r, e)
  /\ r.active \in Known(r)
  /\ Entry(r, r.active).revokedAt = 0
  /\ \E e \in Entries(r) :
       Verifies(r.signature, registrySigningPayload(r), e.publicKey)

verifyKeyRegistry(r) ==
  /\ r.version = "1.0"
  /\ \A e \in Entries(r) : e.fingerprint = fingerprintKey(e.publicKey)
  /\ \A e \in Entries(r) : Genuine(r, e)
  /\ r.active \in Known(r)
  /\ Entry(r, r.active).revokedAt = 0
  /\ Verifies(r.signature, registrySigningPayload(r),
              Entry(r, r.active).publicKey)

(* The first entry of the key decides. *)
First(r, k) == r.keys[CHOOSE i \in DOMAIN r.keys :
                        /\ r.keys[i].fingerprint = fingerprintKey(k)
                        /\ \A j \in DOMAIN r.keys :
                             r.keys[j].fingerprint = fingerprintKey(k) => i <= j]

resolveKey(r, k, at) ==
  IF fingerprintKey(k) \notin Known(r) THEN "unknown"
  ELSE LET e == First(r, k) IN
       IF e.revokedAt # 0 /\ e.revokedAt <= at THEN "revoked"
       ELSE IF e.validFrom > at THEN "not-yet-valid"
       ELSE IF e.validUntil = 0 THEN "active"
       ELSE IF e.validUntil <= at THEN "expired" ELSE "retired"

(* The Go SDK refuses an empty list, and looks whether the active entry    *)
(* has a revokedAt at all; its resolution knows no clock.                  *)
VerifyKeyRegistry_go(r) ==
  /\ r.version = "1.0" /\ r.keys # <<>>
  /\ \A e \in Entries(r) : fingerprintKey(e.publicKey) = e.fingerprint
  /\ \A e \in Entries(r) : e.signedBy # None =>
       /\ e.signature # None /\ e.signedBy \in Known(r)
       /\ Verifies(e.signature, entrySigningPayload(e),
                   Entry(r, e.signedBy).publicKey)
  /\ r.active \in Known(r) /\ Entry(r, r.active).revokedAt = 0
  /\ Verifies(r.signature, registrySigningPayload(r),
              Entry(r, r.active).publicKey)

ResolveKey_go(r, k) ==
  IF fingerprintKey(k) \notin Known(r) THEN "unknown"
  ELSE IF First(r, k).revokedAt # 0 THEN "revoked"
  ELSE IF First(r, k).validUntil # 0 THEN "retired" ELSE "active"

(* The Python SDK, entry by entry and then the active one. *)
verify_key_registry_py(r) ==
  LET fails(e) == \/ fingerprintKey(e.publicKey) # e.fingerprint
                  \/ e.signedBy # None /\ ~Genuine(r, e)
  IN /\ r.version = "1.0"
     /\ ~ \E e \in Entries(r) : fails(e)
     /\ r.active \in Known(r) /\ Entry(r, r.active).revokedAt = 0
     /\ Verifies(r.signature, registrySigningPayload(r),
                 Entry(r, r.active).publicKey)

resolve_key_py(r, k) ==
  CASE fingerprintKey(k) \notin Known(r) -> "unknown"
    [] OTHER -> LET e == First(r, k) IN
                IF e.revokedAt # 0 THEN "revoked"
                ELSE IF e.validUntil # 0 THEN "retired" ELSE "active"

------------------------------------------------------------------------------
(* A registry changed on its way to a verifier: with another active key,   *)
(* with its first entry missing or given another key, with an entry        *)
(* stripped of its signature; and a document signed again, by another key. *)
Variants(r) ==
  {r, [r EXCEPT !.keys = Tail(@)]}
    \cup {[r EXCEPT !.active = fingerprintKey(k)] : k \in Keys}
    \cup {[r EXCEPT !.keys[1].publicKey = k] : k \in Keys}
    \cup {[r EXCEPT !.keys[i].signature = None] : i \in DOMAIN r.keys}

Resigned(r, k) == [r EXCEPT !.signature = Sign(k, registrySigningPayload(r))]

(* The three verifiers give one verdict on a document. *)
SameVerdict(r) ==
  LET verdict == verifyKeyRegistry(r)
  IN VerifyKeyRegistry_go(r) = verdict /\ verify_key_registry_py(r) = verdict

(* The three readers give one status to a key, but that the SDKs call      *)
(* retired what the TypeScript code calls expired.                         *)
SameStatus(r, k, at) ==
  LET ts == resolveKey(r, k, at)
  IN /\ ResolveKey_go(r, k) = IF ts = "expired" THEN "retired" ELSE ts
     /\ resolve_key_py(r, k) = ResolveKey_go(r, k)
==============================================================================
