------------------------------- MODULE Canonical -------------------------------
(***************************************************************************)
(* The canonical form that ids and signatures are computed over, in        *)
(* core/src/index.ts and its copies in the browser verifier and the Go and *)
(* Python SDKs, and the verifiers of signed documents built on it.         *)
(*                                                                         *)
(* Of a JSON object only its keys are modelled, in the order in which the  *)
(* document lists them: what may differ between two encodings of one       *)
(* object.  A hash is the list of keys that enters it (no collisions).     *)
(***************************************************************************)
EXTENDS Orders, SequencesExt

CONSTANTS
  Names,       \* the names an object may have
  Units,       \* the UTF-16 code units of each name
  ArrayIndex,  \* the value of each name that is an array index to JavaScript
  Signers, NoValue

ASSUME CanonicalAssumption ==
  /\ IsFiniteSet(Names)
  /\ Units \in [Names -> Seq(Nat)]
  /\ \A a, b \in Names : Units[a] = Units[b] => a = b
  /\ DOMAIN ArrayIndex \subseteq Names
  /\ \A a \in DOMAIN ArrayIndex : ArrayIndex[a] \in Nat
  /\ \A a, b \in DOMAIN ArrayIndex : ArrayIndex[a] = ArrayIndex[b] => a = b
  /\ NoValue \notin Signers

Less(a, b) ==
  \/ Len(a) < Len(b) /\ \A i \in 1 .. Len(a) : a[i] = b[i]
  \/ \E i \in 1 .. Len(a) :
       /\ i <= Len(b) /\ a[i] < b[i]
       /\ \A j \in 1 .. i - 1 : a[j] = b[j]

utf16Less(a, b) == Less(Units[a], Units[b])

Utf16Order == {p \in Names \X Names : utf16Less(p[1], p[2])}

(* A decimal without a leading zero is an array index to JavaScript. *)
ArrayIndices == DOMAIN ArrayIndex

(* The order in which JavaScript lists the properties of an object that    *)
(* was filled in the order s: Object.keys and JSON.stringify.  Indices     *)
(* come first, by value.                                                   *)
PropertyOrder(s) ==
  {p \in ToSet(s) \X ToSet(s) :
     \/ /\ p[1] \in ArrayIndices
        /\ p[2] \in ArrayIndices => ArrayIndex[p[1]] < ArrayIndex[p[2]]
     \/ /\ {p[1], p[2]} \cap ArrayIndices = {}
        /\ \E i, j \in DOMAIN s : i < j /\ s[i] = p[1] /\ s[j] = p[2]}

Enumerated(s) == Sorted(ToSet(s), PropertyOrder(s))

(* Faulty variant: copies the object without sorting its keys. *)
canonicalize_Unsorted(s) == Enumerated(s)

(* Sorts the keys by code units and fills a new object in that order. *)
canonicalize(s) == Enumerated(Sorted(ToSet(s), Utf16Order))

canonicalHash(s) == canonicalize(s)

(* The browser's own copy. *)
canonicalHash_browser(s) == Enumerated(Sorted(ToSet(s), Utf16Order))

(* appendCanonical writes the keys of a map as it sorts them. *)
CanonicalHash_go(s) == Sorted(ToSet(s), Utf16Order)

(* rfc8785.dumps sorts by code units, whatever order canonicalize left. *)
canonical_hash_py(s) == Sorted(ToSet(s), Utf16Order)

------------------------------------------------------------------------------
(* Cards carry the hash of their content and a signature over it; receipts *)
(* and manifests a signature over all their other fields, the key of the   *)
(* signer being one of them.                                               *)

Sign(k, message) == [by |-> k, over |-> message]

Verifies(signature, message, k) ==
  k # NoValue /\ signature # NoValue /\ signature = Sign(k, message)

signGlyph(s, k) ==
  [content |-> s, publicKey |-> k, id |-> canonicalHash(s),
   signature |-> Sign(k, canonicalHash(s))]

signReceipt(s, k) ==
  [content |-> s, serverPublicKey |-> k,
   signature |-> Sign(k, <<canonicalHash(s), k>>)]

signManifest(s, k) == signReceipt(s, k)

verifyGlyph(c) ==
  /\ canonicalHash(c.content) = c.id
  /\ Verifies(c.signature, c.id, c.publicKey)

verifyGlyph_browser(c) ==
  /\ canonicalHash_browser(c.content) = c.id
  /\ Verifies(c.signature, c.id, c.publicKey)

VerifyGlyph_go(c) ==
  /\ c.id # NoValue
  /\ CanonicalHash_go(c.content) = c.id
  /\ Verifies(c.signature, CanonicalHash_go(c.content), c.publicKey)

verify_glyph_py(c) ==
  LET expected_id == canonical_hash_py(c.content)
  IN expected_id = c.id /\ Verifies(c.signature, expected_id, c.publicKey)

verifyReceipt(r) ==
  Verifies(r.signature, <<canonicalHash(r.content), r.serverPublicKey>>,
           r.serverPublicKey)

verifyManifest(r) ==
  Verifies(r.signature, <<canonicalHash(r.content), r.serverPublicKey>>,
           r.serverPublicKey)

verifyReceipt_browser(r) ==
  Verifies(r.signature, <<canonicalHash_browser(r.content), r.serverPublicKey>>,
           r.serverPublicKey)

VerifyReceipt_go(r) ==
  Verifies(r.signature, <<CanonicalHash_go(r.content), r.serverPublicKey>>,
           r.serverPublicKey)

VerifyManifest_go(r) == VerifyReceipt_go(r)

verify_receipt_py(r) ==
  Verifies(r.signature, <<canonical_hash_py(r.content), r.serverPublicKey>>,
           r.serverPublicKey)

verify_manifest_py(r) == verify_receipt_py(r)

(* A directory of providers: its issuer's key is inside the signed part;   *)
(* only the trust root the consumer pinned makes it more than consistent.  *)
signProvidersRegistry(s, k) ==
  [version |-> "1.0", content |-> s, signedBy |-> k,
   signature |-> Sign(k, <<"1.0", canonicalHash(s), k>>)]

verifyProvidersRegistry(r, trustRoot) ==
  /\ r.version = "1.0"
  /\ trustRoot # NoValue => trustRoot = r.signedBy
  /\ Verifies(r.signature, <<r.version, canonicalHash(r.content), r.signedBy>>,
              r.signedBy)

(* The registry fetched, or none for every error that is thrown. *)
discoverProviders(answer, trustRoot) ==
  {r \in {answer} : verifyProvidersRegistry(r, trustRoot)}

------------------------------------------------------------------------------
(* What a consumer may find listed for an object that was signed as s: the *)
(* same keys in any order, one key less, or one more.                      *)
Listings(s) ==
  {t \in [1 .. Len(s) -> ToSet(s)] : ToSet(t) = ToSet(s)}
  \cup {Tail(s)} \cup {Append(s, n) : n \in Names \ ToSet(s)}

(* What a server signs verifies in every SDK in whatever order its keys    *)
(* are listed when it arrives, and in none once a key of it, its signer or *)
(* its signature is another.  The Go and Python SDKs follow as long as no  *)
(* key is an array index, which JavaScript lists out of order.             *)
SignedTravels(s) ==
  \A k \in Signers, j \in Signers \cup {NoValue}, t \in Listings(s) :
    LET plain   == (ToSet(s) \cup ToSet(t)) \cap ArrayIndices = {}
        genuine == ToSet(s) = ToSet(t) /\ j = k
        card    == [signGlyph(s, k) EXCEPT !.content = t, !.publicKey = j]
        receipt == [signReceipt(s, k) EXCEPT !.content = t,
                                             !.serverPublicKey = j]
        mf      == [signManifest(s, k) EXCEPT !.content = t,
                                              !.serverPublicKey = j]
    IN /\ {verifyGlyph(card), verifyGlyph_browser(card), verifyReceipt(receipt),
           verifyReceipt_browser(receipt), verifyManifest(mf)} = {genuine}
       /\ plain => {VerifyGlyph_go(card), verify_glyph_py(card),
                    VerifyReceipt_go(receipt), verify_receipt_py(receipt),
                    VerifyManifest_go(mf), verify_manifest_py(mf)} = {genuine}
       /\ ~verifyGlyph([card EXCEPT !.signature = NoValue])

(* Whoever signs a providers registry, in whatever order its fields        *)
(* arrive, discoverProviders returns it exactly when the pinned root did,  *)
(* and never one whose issuer or fields were changed on the way.           *)
DirectoryFromRoot(s) ==
  \A k, root \in Signers, j \in Signers \cup {NoValue}, t \in Listings(s) :
    LET answer == [signProvidersRegistry(s, k) EXCEPT !.content = t,
                                                      !.signedBy = j]
    IN (discoverProviders(answer, root) # {})
         = (k = root /\ j = k /\ ToSet(t) = ToSet(s))
==============================================================================
