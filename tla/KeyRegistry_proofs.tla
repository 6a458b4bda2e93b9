-------------------------- MODULE KeyRegistry_proofs ---------------------------
(***************************************************************************)
(* Proofs about KeyRegistry for every set of keys, commands and requests:  *)
(* which keys a registry says are in use, how long a revocation lasts and  *)
(* how old an answer can be.                                               *)
(***************************************************************************)
EXTENDS KeyRegistry, SequenceTheorems, TLAPS

Fingerprints == {fingerprintKey(k) : k \in Keys}

EntryRec ==
  [fingerprint : Fingerprints, publicKey : Keys, validFrom : Nat,
   validUntil : Nat, revokedAt : Nat, signedBy : Fingerprints \cup {None},
   signature : [by : Keys, over : Fingerprints \X Keys \X Nat
                                  \X (Fingerprints \cup {None})] \cup {None}]

(* The entries of a registry as the CLI keeps them, at time t: one entry a *)
(* key, of which the last one alone is neither retired nor revoked.        *)
Chain(s, t) ==
  /\ s \in Seq(EntryRec) /\ Len(s) >= 1
  /\ \A i \in 1..Len(s) :
       /\ s[i].fingerprint = fingerprintKey(s[i].publicKey)
       /\ s[i].validFrom <= t /\ s[i].validUntil <= t /\ s[i].revokedAt <= t
       /\ Usable(s[i]) <=> i = Len(s)
  /\ \A i, j \in 1..Len(s) : s[i].publicKey = s[j].publicKey => i = j

Doc(r, t) ==
  /\ Chain(r.keys, t)
  /\ r.active = r.keys[Len(r.keys)].fingerprint
  /\ r.ttl = Ttl
  /\ verifyKeyRegistry(r)

(* The entries of a registry once its active key is retired, and once the  *)
(* key k is revoked, at time t.                                            *)
Retired(o, t) ==
  [i \in DOMAIN o.keys |-> IF o.keys[i].fingerprint = o.active
                           THEN [o.keys[i] EXCEPT !.validUntil = t]
                           ELSE o.keys[i]]

Updated(o, k, t) ==
  [i \in DOMAIN o.keys |-> IF o.keys[i].publicKey = k
                           THEN [o.keys[i] EXCEPT !.revokedAt = t]
                           ELSE o.keys[i]]

PublicKeys(r) == {r.keys[i].publicKey : i \in 1..Len(r.keys)}

RevokedIn(r, k) ==
  \E i \in 1..Len(r.keys) : r.keys[i].publicKey = k /\ r.keys[i].revokedAt # 0

Renamed == {c \in Cmds : cmd[c].at = "renamed" /\ cmd[c].op # "revoke"}

(* The keys that may be in the file: printed, lost, or about to be.        *)
Used == told \cup lost \cup {cmd[c].key : c \in Renamed}

(* r is as good as the reported revocations of its own registry demand.    *)
Keeps(r) == \A x \in revoked : Root(r) = x.root => RevokedIn(r, x.key)

KeepsOld(r, e) ==
  \A x \in revoked : x.in < e /\ Root(r) = x.root => RevokedIn(r, x.key)
------------------------------------------------------------------------------

CommandInv(c) ==
  /\ cmd[c].at \in {"idle", "writing", "renamed"}
  /\ cmd[c].at # "idle" =>
       /\ DOMAIN cmd[c] = {"at", "op", "key", "doc"}
       /\ cmd[c].doc # None /\ Doc(cmd[c].doc, now)
       /\ cmd[c].op = "revoke" => /\ RevokedIn(cmd[c].doc, cmd[c].key)
                                  /\ PublicKeys(cmd[c].doc) \subseteq Used
       /\ cmd[c].op # "revoke" =>
            PublicKeys(cmd[c].doc) \subseteq Used \cup {cmd[c].key}
       /\ exclusive => Keeps(cmd[c].doc)
       /\ exclusive => \A d \in Running : d = c
       /\ cmd[c].op # "revoke" => cmd[c].key \in Keys
       /\ cmd[c].at = "renamed" => file # None
       /\ exclusive /\ cmd[c].at = "renamed" => file = cmd[c].doc

FileInv ==
  /\ file # None => Doc(file, now) /\ PublicKeys(file) \subseteq Used
  /\ revoked # {} => file # None
  /\ exclusive /\ file # None => Keeps(file)

ReportInv == \A x \in revoked : x.root \in Used /\ x.in \in Nat /\ x.in <= epoch

ServerInv ==
  published # None => Doc(published, now) /\ (exclusive => KeepsOld(published, epoch))

FetchInv(f) ==
  /\ fetch[f].at \in {"idle", "sent", "served", "over"}
  /\ fetch[f].at \in {"sent", "served"} => fetch[f].sent \in Nat /\ fetch[f].sent <= now
  /\ fetch[f].at = "served" =>
       /\ Doc(fetch[f].value, now)
       /\ fetch[f].servedAt \in Nat /\ fetch[f].servedAt <= now
       /\ fetch[f].sent <= fetch[f].servedAt
       /\ fetch[f].servedIn \in Nat /\ fetch[f].servedIn <= epoch
       /\ exclusive => KeepsOld(fetch[f].value, fetch[f].servedIn)

CacheInv ==
  cache # None =>
    /\ Doc(cache.value, now)
    /\ cache.servedAt \in Nat /\ cache.expiresAt \in Nat
    /\ cache.expiresAt <= cache.servedAt + ttlOf(cache.value)
    /\ cache.servedIn \in Nat /\ cache.servedIn <= epoch
    /\ exclusive => KeepsOld(cache.value, cache.servedIn)

IInv ==
  /\ now \in Nat /\ now >= 1 /\ epoch \in Nat
  /\ told \subseteq Keys /\ lost \subseteq Keys
  /\ DOMAIN cmd = Cmds /\ DOMAIN fetch = Fetches
  /\ \A c \in Cmds : CommandInv(c)
  /\ FileInv /\ ReportInv /\ ServerInv
  /\ \A f \in Fetches : FetchInv(f)
  /\ CacheInv
------------------------------------------------------------------------------
(* The pure functions *)

(* A registry stays well formed as time goes on.                           *)
LEMMA DocLater ==
  ASSUME NEW r, NEW t \in Nat, NEW u \in Nat, t <= u, Doc(r, t)
  PROVE  Doc(r, u)
<1> DEFINE s == r.keys
<1>1. Chain(s, t)
  BY DEF Doc
<1>2. ASSUME NEW i \in 1..Len(s)
      PROVE  s[i].validFrom <= u /\ s[i].validUntil <= u /\ s[i].revokedAt <= u
  <2>1. s[i] \in EntryRec
    BY <1>1 DEF Chain
  <2>2. s[i].validFrom \in Nat /\ s[i].validUntil \in Nat /\ s[i].revokedAt \in Nat
    BY <2>1 DEF EntryRec
  <2>3. s[i].validFrom <= t /\ s[i].validUntil <= t /\ s[i].revokedAt <= t
    BY <1>1 DEF Chain
  <2> HIDE DEF s
  <2> QED
    BY <2>2, <2>3
<1>3. Chain(s, u)
  BY <1>1, <1>2 DEF Chain
<1> QED
  BY <1>3 DEF Doc

(* buildKeyEntry returns an entry that is neither retired nor revoked.     *)
LEMMA EntryBuilt ==
  ASSUME NEW k \in Keys, NEW t \in Nat, NEW parent \in Fingerprints \cup {None},
         NEW private, parent = None \/ private \in Keys,
         NEW e, e = buildKeyEntry(k, t, parent, private)
  PROVE  /\ e \in EntryRec /\ e.publicKey = k /\ e.fingerprint = fingerprintKey(k)
         /\ e.validFrom = t /\ e.validUntil = 0 /\ e.revokedAt = 0
         /\ e.signedBy = parent
<1> DEFINE base == [fingerprint |-> fingerprintKey(k), publicKey |-> k,
               validFrom |-> t, validUntil |-> 0, revokedAt |-> 0,
               signedBy |-> parent, signature |-> None]
           sig == Sign(private, entrySigningPayload(base))
<1>1. fingerprintKey(k) \in Fingerprints
  BY DEF Fingerprints
<1>2. base \in EntryRec
  BY <1>1 DEF EntryRec
<1>3. CASE parent = None
  BY <1>2, <1>3 DEF buildKeyEntry
<1>4. CASE parent # None
  <2>1. e = [base EXCEPT !.signature = sig]
    BY <1>4 DEF buildKeyEntry
  <2>2. entrySigningPayload(base) = <<fingerprintKey(k), k, t, parent>>
    BY DEF entrySigningPayload
  <2>3. sig \in [by : Keys, over : Fingerprints \X Keys \X Nat
                                  \X (Fingerprints \cup {None})]
    BY <1>1, <1>4, <2>2 DEF Sign
  <2> HIDE DEF sig
  <2> QED
    BY <1>2, <2>1, <2>3 DEF EntryRec
<1> QED
  BY <1>3, <1>4

(* buildKeyRegistry of a list whose last entry alone is usable makes that  *)
(* one the active key.                                                     *)
LEMMA RegistryBuilt ==
  ASSUME NEW s \in Seq(EntryRec), Len(s) >= 1, NEW private, NEW t,
         \A i \in 1..Len(s) : Usable(s[i]) <=> i = Len(s),
         NEW r, r = buildKeyRegistry(s, private, t)
  PROVE  /\ r.keys = s /\ r.active = s[Len(s)].fingerprint /\ r.ttl = Ttl
         /\ r.version = "1.0"
         /\ r.signature = Sign(private, registrySigningPayload(r))
<1>1. DOMAIN s = 1..Len(s) /\ Len(s) \in 1..Len(s)
  OBVIOUS
<1> DEFINE last == CHOOSE i \in DOMAIN s :
                     /\ Usable(s[i])
                     /\ \A j \in DOMAIN s : Usable(s[j]) => j <= i
<1>2. last = Len(s)
  <2>1. \E i \in DOMAIN s : Usable(s[i]) /\ \A j \in DOMAIN s : Usable(s[j]) => j <= i
    <3>1. ASSUME NEW j \in 1..Len(s) PROVE j <= Len(s)
      OBVIOUS
    <3>2. Len(s) \in DOMAIN s /\ Usable(s[Len(s)])
      BY <1>1
    <3> QED
      BY <1>1, <3>1, <3>2, Zenon
  <2>2. last \in DOMAIN s /\ Usable(s[last])
    BY <2>1
  <2> HIDE DEF last
  <2> QED
    BY <1>1, <2>2
<1> HIDE DEF last
<1> DEFINE base == [version |-> "1.0", active |-> s[last].fingerprint,
               keys |-> s, issuedAt |-> t, ttl |-> Ttl,
               signature |-> None]
           sig == Sign(private, registrySigningPayload(base))
<1>3. CanBuild(s)
  BY <1>1 DEF CanBuild
<1>4. r = [base EXCEPT !.signature = sig]
  BY <1>3 DEF buildKeyRegistry, last
<1>5. registrySigningPayload(base) = <<"1.0", s[last].fingerprint, s, t, Ttl>>
  BY DEF registrySigningPayload
<1>6. sig = Sign(private, <<"1.0", s[last].fingerprint, s, t, Ttl>>)
  BY <1>5
<1> HIDE DEF sig
<1>7. /\ r.version = "1.0" /\ r.active = s[last].fingerprint /\ r.keys = s
      /\ r.issuedAt = t /\ r.ttl = Ttl /\ r.signature = sig
  BY <1>4
<1>8. registrySigningPayload(r) = <<"1.0", s[last].fingerprint, s, t, Ttl>>
  BY <1>7 DEF registrySigningPayload
<1> QED
  BY <1>2, <1>6, <1>7, <1>8

(* In a well formed registry byFingerprint and the lookup of resolveKey    *)
(* find the one entry of a key.                                            *)
LEMMA OneEntry ==
  ASSUME NEW r, NEW t, Chain(r.keys, t), NEW i \in 1..Len(r.keys)
  PROVE  /\ Entry(r, r.keys[i].fingerprint) = r.keys[i]
         /\ First(r, r.keys[i].publicKey) = r.keys[i]
         /\ fingerprintKey(r.keys[i].publicKey) \in Known(r)
<1> DEFINE s == r.keys
<1>1. /\ DOMAIN s = 1..Len(s) /\ Len(s) \in Nat
      /\ \A j \in 1..Len(s) : s[j].fingerprint = fingerprintKey(s[j].publicKey)
      /\ \A j \in 1..Len(s) : s[j].publicKey = s[i].publicKey => j = i
  BY DEF Chain
<1>2. \A j \in 1..Len(s) : s[j].fingerprint = s[i].fingerprint => j = i
  BY <1>1 DEF fingerprintKey
<1>3. Entry(r, s[i].fingerprint) = s[i]
  <2> DEFINE P(x) == /\ s[x].fingerprint = s[i].fingerprint
                     /\ \A j \in DOMAIN s : s[j].fingerprint = s[i].fingerprint => j <= x
             n == CHOOSE x \in DOMAIN s : P(x)
  <2>1. \E x \in DOMAIN s : P(x)
    BY <1>1, <1>2
  <2>2. n \in DOMAIN s /\ s[n].fingerprint = s[i].fingerprint
    BY <2>1
  <2>3. Entry(r, s[i].fingerprint) = s[n]
    BY DEF Entry
  <2> HIDE DEF n
  <2> QED
    BY <1>1, <1>2, <2>2, <2>3
<1>4. First(r, s[i].publicKey) = s[i]
  <2> DEFINE fp == fingerprintKey(s[i].publicKey)
             P(x) == /\ s[x].fingerprint = fp
                     /\ \A j \in DOMAIN s : s[j].fingerprint = fp => x <= j
             n == CHOOSE x \in DOMAIN s : P(x)
  <2>0. fp = s[i].fingerprint
    BY <1>1
  <2>1. \E x \in DOMAIN s : P(x)
    BY <1>1, <1>2, <2>0
  <2>2. n \in DOMAIN s /\ s[n].fingerprint = fp
    BY <2>1
  <2>3. First(r, s[i].publicKey) = s[n]
    BY DEF First
  <2> HIDE DEF n
  <2> QED
    BY <1>1, <1>2, <2>0, <2>2, <2>3
<1>5. fingerprintKey(s[i].publicKey) \in Known(r)
  BY <1>1 DEF Known, Entries
<1> QED
  BY <1>3, <1>4, <1>5

(* A revoked entry resolves to revoked.                                    *)
LEMMA RevokedResolves ==
  ASSUME NEW r, NEW t \in Nat, Doc(r, t), NEW k, RevokedIn(r, k)
  PROVE  resolveKey(r, k, t) = "revoked"
<1>1. PICK i \in 1..Len(r.keys) : r.keys[i].publicKey = k /\ r.keys[i].revokedAt # 0
  BY DEF RevokedIn
<1>2. r.keys[i].revokedAt <= t
  BY DEF Doc, Chain
<1>3. Chain(r.keys, t)
  BY DEF Doc
<1> QED
  BY <1>1, <1>2, <1>3, OneEntry DEF resolveKey

(* keys init: a registry of one key, which save() accepts.                 *)
LEMMA GenesisDoc ==
  ASSUME NEW k \in Keys, NEW t \in Nat, t >= 1, NEW r, r = genesis(k, t)
  PROVE  Doc(r, t) /\ PublicKeys(r) = {k} /\ Root(r) = k
<1> DEFINE e == buildKeyEntry(k, t, None, None)
           s == <<e>>
<1>1. /\ e \in EntryRec /\ e.publicKey = k /\ e.fingerprint = fingerprintKey(k)
      /\ e.validFrom = t /\ e.validUntil = 0 /\ e.revokedAt = 0
      /\ e.signedBy = None
  BY EntryBuilt
<1> HIDE DEF e
<1>2. s \in Seq(EntryRec) /\ Len(s) = 1 /\ s[1] = e /\ DOMAIN s = {1}
  BY <1>1
<1>3. \A i \in 1..Len(s) : Usable(s[i]) <=> i = Len(s)
  BY <1>1, <1>2 DEF Usable
<1>4. r = buildKeyRegistry(s, k, t)
  BY DEF genesis, e
<1> HIDE DEF s
<1>5. /\ r.keys = s /\ r.active = s[Len(s)].fingerprint /\ r.ttl = Ttl
      /\ r.version = "1.0" /\ r.signature = Sign(k, registrySigningPayload(r))
  <2>1. s \in Seq(EntryRec) /\ Len(s) >= 1
    BY <1>2
  <2> QED
    BY <2>1, <1>3, <1>4, RegistryBuilt
<1>6. Chain(s, t)
  BY <1>1, <1>2, <1>3 DEF Chain
<1>7. PublicKeys(r) = {k} /\ Root(r) = k
  <2>1. 1..Len(s) = {1} /\ s[1].publicKey = k
    BY <1>1, <1>2
  <2> QED
    BY <1>5, <2>1 DEF PublicKeys, Root
<1>8. Entries(r) = {e} /\ Known(r) = {fingerprintKey(k)}
  BY <1>1, <1>2, <1>5 DEF Entries, Known
<1>9. Entry(r, r.active) = e
  <2>0. r.keys = s /\ Len(s) = 1 /\ s[1] = e
    BY <1>2, <1>5
  <2>1. 1 \in 1..Len(r.keys) /\ Chain(r.keys, t) /\ r.keys[1] = e
    BY <2>0, <1>6
  <2>2. r.active = r.keys[1].fingerprint
    BY <1>2, <1>5
  <2> QED
    BY <2>1, <2>2, OneEntry
<1>10. r.active = fingerprintKey(k)
  BY <1>1, <1>2, <1>5
<1>11. verifyKeyRegistry(r)
  BY <1>1, <1>5, <1>8, <1>9, <1>10, Zenon DEF verifyKeyRegistry, Genuine, Verifies
<1> QED
  BY <1>5, <1>6, <1>7, <1>11 DEF Doc

(* keys rotate: the active entry is retired and a new one appended.        *)
LEMMA RotateDoc ==
  ASSUME NEW o, NEW t \in Nat, t >= 1, Doc(o, t), NEW k \in Keys,
         k \notin PublicKeys(o), NEW private \in Keys, NEW retired,
         retired = Retired(o, t),
         NEW r, r = buildKeyRegistry(
                      Append(retired, buildKeyEntry(k, t, o.active, private)), k, t)
  PROVE  /\ verifyKeyRegistry(r) => Doc(r, t)
         /\ PublicKeys(r) = PublicKeys(o) \cup {k} /\ Root(r) = Root(o)
         /\ \A q : RevokedIn(o, q) => RevokedIn(r, q)
<1> DEFINE old == o.keys
           n == Len(old)
           e == buildKeyEntry(k, t, o.active, private)
           s == Append(retired, e)
<1>1. /\ old \in Seq(EntryRec) /\ n \in Nat /\ n >= 1 /\ DOMAIN old = 1..n
      /\ \A i \in 1..n : old[i] \in EntryRec
      /\ o.active = old[n].fingerprint
      /\ \A i \in 1..n : old[i].fingerprint = o.active <=> i = n
      /\ \A i \in 1..n : Usable(old[i]) <=> i = n
  <2>1. Chain(old, t) /\ o.active = old[n].fingerprint
    BY DEF Doc
  <2>2. \A i \in 1..n : old[i].fingerprint = o.active <=> i = n
    BY <2>1 DEF Chain, fingerprintKey
  <2> QED
    BY <2>1, <2>2 DEF Chain
<1>2. ASSUME NEW i \in 1..n
      PROVE  /\ retired[i] \in EntryRec
             /\ retired[i].publicKey = old[i].publicKey
             /\ retired[i].fingerprint = old[i].fingerprint
             /\ retired[i].validFrom = old[i].validFrom
             /\ retired[i].revokedAt = old[i].revokedAt
             /\ retired[i].validUntil = IF i = n THEN t ELSE old[i].validUntil
  <2>1. old[i] \in EntryRec
    BY <1>1
  <2>2. retired[i] = IF i = n THEN [old[i] EXCEPT !.validUntil = t] ELSE old[i]
    BY <1>1 DEF Retired
  <2> HIDE DEF old
  <2> QED
    BY <2>1, <2>2 DEF EntryRec
<1>3. /\ e \in EntryRec /\ e.publicKey = k /\ e.fingerprint = fingerprintKey(k)
      /\ e.validFrom = t /\ e.validUntil = 0 /\ e.revokedAt = 0
  <2>1. o.active \in Fingerprints
    BY <1>1 DEF EntryRec
  <2> QED
    BY <2>1, EntryBuilt
<1>4. retired \in Seq(EntryRec) /\ Len(retired) = n
  <2>1. DOMAIN retired = 1..n /\ retired \in [1..n -> EntryRec]
    BY <1>1, <1>2 DEF Retired
  <2> HIDE DEF n
  <2> QED
    BY <1>1, <2>1
<1>o. /\ PublicKeys(o) = {old[i].publicKey : i \in 1..n} /\ Root(o) = old[1].publicKey
      /\ \A q : RevokedIn(o, q) =>
           \E i \in 1..n : old[i].publicKey = q /\ old[i].revokedAt # 0
      /\ \A i \in 1..n :
           /\ old[i].fingerprint = fingerprintKey(old[i].publicKey)
           /\ old[i].validFrom <= t /\ old[i].validUntil <= t /\ old[i].revokedAt <= t
      /\ \A i, j \in 1..n : old[i].publicKey = old[j].publicKey => i = j
  BY DEF PublicKeys, Root, RevokedIn, Doc, Chain
<1> HIDE DEF e
<1>s. s \in Seq(EntryRec)
  BY <1>3, <1>4, AppendProperties
<1>5. /\ Len(s) = n + 1 /\ s[n + 1] = e
      /\ \A i \in 1..n : s[i] = retired[i]
  BY <1>3, <1>4, AppendProperties
<1>n. n \in Nat /\ n >= 1
  BY <1>1
<1>u. \A i \in 1..n : Usable(old[i]) <=> i = n
  BY <1>1
<1> HIDE DEF old, n, s
<1>d. \A i : i \in 1..Len(s) <=> i \in 1..n \/ i = n + 1
  BY <1>n, <1>5
<1>6. ASSUME NEW i \in 1..Len(s)
      PROVE  Usable(s[i]) <=> i = Len(s)
  <2>1. CASE i = n + 1
    BY <1>3, <1>5, <2>1 DEF Usable
  <2>2. CASE i \in 1..n
    <3>1. s[i] = retired[i] /\ i # Len(s)
      BY <1>n, <1>5, <2>2
    <3>2. i # n => old[i].validUntil # 0 \/ old[i].revokedAt # 0
      BY <1>u, <2>2 DEF Usable
    <3>3. retired[i].validUntil # 0 \/ retired[i].revokedAt # 0
      BY <1>2, <2>2, <3>2
    <3> QED
      BY <3>1, <3>3 DEF Usable
  <2> QED
    BY <1>d, <2>1, <2>2
<1>7. r = buildKeyRegistry(s, k, t)
  BY DEF e, s
<1>8. r.keys = s /\ r.active = s[Len(s)].fingerprint /\ r.ttl = Ttl
  <2>1. Len(s) >= 1
    BY <1>n, <1>5
  <2> QED
    BY <2>1, <1>s, <1>6, <1>7, RegistryBuilt
<1>9. Chain(s, t)
  <2>2. ASSUME NEW i \in 1..Len(s)
        PROVE  /\ s[i].fingerprint = fingerprintKey(s[i].publicKey)
               /\ s[i].validFrom <= t /\ s[i].validUntil <= t /\ s[i].revokedAt <= t
    <3>1. CASE i = n + 1
      BY <1>3, <1>5, <3>1
    <3>2. CASE i \in 1..n
      <4>1. s[i] = retired[i]
        BY <1>5, <3>2
      <4> QED
        BY <1>2, <1>o, <3>2, <4>1
    <3> QED
      BY <1>d, <3>1, <3>2
  <2>3. ASSUME NEW i \in 1..Len(s), NEW j \in 1..Len(s), s[i].publicKey = s[j].publicKey
        PROVE  i = j
    <3>0. \A m \in 1..n : s[m].publicKey = old[m].publicKey /\ old[m].publicKey # k
      BY <1>2, <1>5, <1>o
    <3>1. s[n + 1].publicKey = k
      BY <1>3, <1>5
    <3> QED
      BY <1>d, <1>o, <2>3, <3>0, <3>1
  <2>4. Len(s) >= 1
    BY <1>n, <1>5
  <2> QED
    BY <1>s, <1>6, <2>2, <2>3, <2>4 DEF Chain
<1>r. /\ PublicKeys(r) = {s[i].publicKey : i \in 1..Len(s)} /\ Root(r) = s[1].publicKey
      /\ \A q : (\E i \in 1..Len(s) : s[i].publicKey = q /\ s[i].revokedAt # 0)
               => RevokedIn(r, q)
  BY <1>8 DEF PublicKeys, Root, RevokedIn
<1>p. /\ \A i \in 1..n : s[i].publicKey = old[i].publicKey /\ s[i].revokedAt = old[i].revokedAt
      /\ s[n + 1].publicKey = k
  BY <1>2, <1>3, <1>5
<1>10. PublicKeys(r) = PublicKeys(o) \cup {k}
  <2>1. PublicKeys(o) \cup {k} \subseteq PublicKeys(r)
    <3>1. ASSUME NEW i \in 1..n PROVE old[i].publicKey \in PublicKeys(r)
      <4>1. i \in 1..Len(s) /\ s[i].publicKey = old[i].publicKey
        BY <1>d, <1>p
      <4> QED
        BY <1>r, <4>1, Zenon
    <3>2. k \in PublicKeys(r)
      <4>1. n + 1 \in 1..Len(s) /\ s[n + 1].publicKey = k
        BY <1>d, <1>p
      <4> QED
        BY <1>r, <4>1, Zenon
    <3> QED
      BY <1>o, <3>1, <3>2
  <2>2. ASSUME NEW i \in 1..Len(s) PROVE s[i].publicKey \in PublicKeys(o) \cup {k}
    <3>1. CASE i \in 1..n
      BY <1>o, <1>p, <3>1
    <3>2. CASE i = n + 1
      BY <1>p, <3>2
    <3> QED
      BY <1>d, <3>1, <3>2
  <2> QED
    BY <2>1, <2>2, <1>r
<1>11. Root(r) = Root(o)
  <2>1. 1 \in 1..n
    BY <1>n
  <2> QED
    BY <2>1, <1>o, <1>p, <1>r
<1>12. ASSUME NEW q, RevokedIn(o, q) PROVE RevokedIn(r, q)
  <2>1. PICK i \in 1..n : old[i].publicKey = q /\ old[i].revokedAt # 0
    BY <1>12, <1>o
  <2>2. i \in 1..Len(s) /\ s[i].publicKey = q /\ s[i].revokedAt # 0
    BY <1>d, <1>p, <2>1
  <2> QED
    BY <1>r, <2>2
<1> QED
  BY <1>8, <1>9, <1>10, <1>11, <1>12 DEF Doc

(* keys revoke: the entry of a key that is not the active one is revoked.  *)
LEMMA RevokeDoc ==
  ASSUME NEW o, NEW t \in Nat, t >= 1, Doc(o, t), NEW k \in Keys,
         fingerprintKey(k) \in Known(o), fingerprintKey(k) # o.active,
         NEW private, NEW updated,
         updated = Updated(o, k, t),
         NEW r, r = buildKeyRegistry(updated, private, t)
  PROVE  /\ verifyKeyRegistry(r) => Doc(r, t)
         /\ PublicKeys(r) = PublicKeys(o) /\ Root(r) = Root(o)
         /\ RevokedIn(r, k)
         /\ \A q : RevokedIn(o, q) => RevokedIn(r, q)
<1> DEFINE old == o.keys
           n == Len(old)
<1>0. Chain(old, t) /\ o.active = old[n].fingerprint
  BY DEF Doc
<1>1. /\ old \in Seq(EntryRec) /\ n \in Nat /\ n >= 1 /\ DOMAIN old = 1..n
      /\ \A i \in 1..n : old[i] \in EntryRec
      /\ \A i \in 1..n : Usable(old[i]) <=> i = n
      /\ \A i \in 1..n : old[i].fingerprint = fingerprintKey(old[i].publicKey)
  BY <1>0 DEF Chain
<1>2. old[n].publicKey # k
  BY <1>0, <1>1 DEF fingerprintKey
<1>3. PICK m \in 1..n : old[m].publicKey = k
  BY <1>1 DEF Known, Entries, fingerprintKey
<1>4. ASSUME NEW i \in 1..n
      PROVE  /\ updated[i] \in EntryRec
             /\ updated[i].publicKey = old[i].publicKey
             /\ updated[i].fingerprint = old[i].fingerprint
             /\ updated[i].validFrom = old[i].validFrom
             /\ updated[i].validUntil = old[i].validUntil
             /\ updated[i].revokedAt =
                  IF old[i].publicKey = k THEN t ELSE old[i].revokedAt
  <2>1. old[i] \in EntryRec
    BY <1>1
  <2>2. updated[i] = IF old[i].publicKey = k THEN [old[i] EXCEPT !.revokedAt = t] ELSE old[i]
    BY <1>1 DEF Updated
  <2> HIDE DEF old
  <2> QED
    BY <2>1, <2>2 DEF EntryRec
<1>5. updated \in Seq(EntryRec) /\ Len(updated) = n
  <2>1. DOMAIN updated = 1..n /\ updated \in [1..n -> EntryRec]
    BY <1>1, <1>4 DEF Updated
  <2> HIDE DEF n
  <2> QED
    BY <1>1, <2>1
<1>o. /\ PublicKeys(o) = {old[i].publicKey : i \in 1..n} /\ Root(o) = old[1].publicKey
      /\ \A q : RevokedIn(o, q) =>
           \E i \in 1..n : old[i].publicKey = q /\ old[i].revokedAt # 0
      /\ \A i \in 1..n :
           old[i].validFrom <= t /\ old[i].validUntil <= t /\ old[i].revokedAt <= t
      /\ \A i, j \in 1..n : old[i].publicKey = old[j].publicKey => i = j
  BY <1>0 DEF PublicKeys, Root, RevokedIn, Chain
<1>n. n \in Nat /\ n >= 1
  BY <1>1
<1>f. /\ \A i \in 1..n : Usable(old[i]) <=> i = n
      /\ \A i \in 1..n : old[i].fingerprint = fingerprintKey(old[i].publicKey)
  BY <1>1
<1> HIDE DEF old, n
<1>6. ASSUME NEW i \in 1..n
      PROVE  Usable(updated[i]) <=> i = n
  BY <1>f, <1>2, <1>4 DEF Usable
<1>l. Len(updated) = n
  BY <1>5
<1>7. r.keys = updated /\ r.active = updated[n].fingerprint /\ r.ttl = Ttl
  <2>1. Len(updated) >= 1 /\ \A i \in 1..Len(updated) : Usable(updated[i]) <=> i = Len(updated)
    BY <1>n, <1>l, <1>6
  <2>2. updated \in Seq(EntryRec)
    BY <1>5
  <2>3. r.keys = updated /\ r.active = updated[Len(updated)].fingerprint /\ r.ttl = Ttl
    BY <2>1, <2>2, RegistryBuilt
  <2> QED
    BY <1>l, <2>3
<1>8. Chain(updated, t)
  <2>1. ASSUME NEW i \in 1..n
        PROVE  /\ updated[i].fingerprint = fingerprintKey(updated[i].publicKey)
               /\ updated[i].validFrom <= t /\ updated[i].validUntil <= t
               /\ updated[i].revokedAt <= t
    BY <1>o, <1>f, <1>4
  <2>2. ASSUME NEW i \in 1..n, NEW j \in 1..n, updated[i].publicKey = updated[j].publicKey
        PROVE  i = j
    BY <1>o, <1>4, <2>2
  <2> QED
    BY <1>n, <1>5, <1>6, <2>1, <2>2 DEF Chain
<1>r. /\ PublicKeys(r) = {updated[i].publicKey : i \in 1..n} /\ Root(r) = updated[1].publicKey
      /\ \A q : (\E i \in 1..n : updated[i].publicKey = q /\ updated[i].revokedAt # 0)
               => RevokedIn(r, q)
  BY <1>7, <1>l DEF PublicKeys, Root, RevokedIn
<1>9. PublicKeys(r) = PublicKeys(o) /\ Root(r) = Root(o)
  <2>1. 1 \in 1..n
    BY <1>n
  <2> QED
    BY <2>1, <1>4, <1>o, <1>r
<1>10. RevokedIn(r, k)
  BY <1>3, <1>4, <1>r
<1>11. ASSUME NEW q, RevokedIn(o, q) PROVE RevokedIn(r, q)
  <2>1. PICK i \in 1..n : old[i].publicKey = q /\ old[i].revokedAt # 0
    BY <1>11, <1>o
  <2>2. updated[i].publicKey = q /\ updated[i].revokedAt # 0
    BY <1>4, <2>1
  <2> QED
    BY <1>r, <2>1, <2>2
<1>12. verifyKeyRegistry(r) => Doc(r, t)
  BY <1>7, <1>8, <1>l DEF Doc
<1> QED
  BY <1>9, <1>10, <1>11, <1>12
------------------------------------------------------------------------------
(* The invariant *)

(* The first state: no file, or the one an earlier init wrote.             *)
LEMMA InitIInv == Init => IInv
<1> SUFFICES ASSUME Init PROVE IInv
  OBVIOUS
<1>1. FileInv /\ told \subseteq Keys
  <2>1. CASE file = None /\ told = {}
    BY <2>1 DEF Init, FileInv
  <2>2. ASSUME NEW k, k = (CHOOSE k0 \in Keys : TRUE), file = genesis(k, 1), told = {k}
        PROVE  FileInv /\ told \subseteq Keys
    <3>1. k \in Keys /\ 1 \in Nat /\ 1 >= 1
      BY <2>2, RegistryAssumption
    <3>2. Doc(file, 1) /\ PublicKeys(file) = {k} /\ Root(file) = k
      BY <2>2, <3>1, GenesisDoc
    <3>3. now = 1 /\ revoked = {}
      BY DEF Init
    <3> QED
      BY <2>2, <3>1, <3>2, <3>3 DEF FileInv, Used, Keeps
  <2> QED
    BY <2>1, <2>2 DEF Init
<1>2. \A c \in Cmds : CommandInv(c)
  BY DEF Init, CommandInv
<1>3. ReportInv /\ ServerInv /\ CacheInv /\ \A f \in Fetches : FetchInv(f)
  BY DEF Init, ReportInv, ServerInv, CacheInv, FetchInv
<1> QED
  BY <1>1, <1>2, <1>3 DEF Init, IInv

(* A command that comes to save(): the new registry is as CommandInv asks, *)
(* and nothing but the command changes.                                    *)
LEMMA SaveKeeps ==
  ASSUME IInv, NEW c \in Cmds, NEW op, NEW k, NEW next, Save(c, op, k, next),
         next # None /\ verifyKeyRegistry(next) =>
           /\ Doc(next, now)
           /\ op = "revoke" => RevokedIn(next, k) /\ PublicKeys(next) \subseteq Used
           /\ op # "revoke" => k \in Keys /\ PublicKeys(next) \subseteq Used \cup {k}
           /\ exclusive => Keeps(next)
  PROVE  IInv'
<1> DEFINE new == [at |-> "writing", op |-> op, key |-> k, doc |-> next]
           idle == [at |-> "idle"]
           good == next # None /\ verifyKeyRegistry(next)
<1>1. /\ cmd[c].at = "idle" /\ (exclusive => Running = {})
      /\ cmd' = [cmd EXCEPT ![c] = IF good THEN new ELSE idle]
      /\ UNCHANGED <<now, exclusive, file, told, lost, revoked, netVars>>
  BY Zenon DEF Save
<1>2. DOMAIN cmd' = Cmds /\ cmd'[c] = (IF good THEN new ELSE idle)
      /\ \A d \in Cmds : d # c => cmd'[d] = cmd[d]
  BY <1>1 DEF IInv
<1>3. cmd'[c].at \in {"idle", "writing"}
  BY <1>2
<1>4. Used' = Used
  BY <1>1, <1>2, <1>3 DEF Used, Renamed
<1>5. ASSUME NEW d \in Cmds PROVE CommandInv(d)'
  <2>0. CommandInv(d)
    BY DEF IInv
  <2>1. CASE d # c
    <3>1. cmd'[d] = cmd[d]
      BY <1>2, <2>1
    <3>2. cmd[d].at # "idle" /\ exclusive => FALSE
      BY <1>1, <2>0 DEF CommandInv, Running
    <3> QED
      BY <1>1, <1>4, <2>0, <3>1, <3>2 DEF CommandInv
  <2>2. CASE d = c /\ good
    <3>1. cmd'[c] = new
      BY <1>2, <2>2
    <3>2. /\ DOMAIN cmd'[c] = {"at", "op", "key", "doc"} /\ cmd'[c].at = "writing"
          /\ cmd'[c].op = op /\ cmd'[c].key = k /\ cmd'[c].doc = next
      BY <3>1
    <3>3. exclusive' => \A e \in Running' : e = c
      BY <1>1, <1>2 DEF Running
    <3>4. Keeps(next) => \A x \in revoked' : Root(next) = x.root => RevokedIn(next, x.key)
      BY <1>1 DEF Keeps
    <3>5. exclusive' => Keeps(cmd[c].doc)'
      BY <1>1, <2>2, <3>2, <3>4 DEF Keeps
    <3> HIDE DEF new
    <3> QED
      BY <1>1, <1>4, <2>2, <3>2, <3>3, <3>5 DEF CommandInv
  <2>3. CASE d = c /\ ~good
    BY <1>2, <2>3 DEF CommandInv
  <2> QED
    BY <2>1, <2>2, <2>3
<1>6. FileInv' /\ ReportInv'
  BY <1>1, <1>4 DEF IInv, FileInv, ReportInv, Keeps, netVars
<1>7. ServerInv' /\ CacheInv' /\ \A f \in Fetches : FetchInv(f)'
  BY <1>1 DEF IInv, ServerInv, CacheInv, FetchInv, KeepsOld, netVars
<1> QED
  BY <1>1, <1>2, <1>5, <1>6, <1>7 DEF IInv, netVars

(* A generated key is in no registry and in no command.                    *)
LEMMA FreshKey ==
  ASSUME IInv, NEW k \in generateKeyPair
  PROVE  k \in Keys /\ k \notin Used
<1> DEFINE fresh == Keys \ (told \cup lost \cup {cmd[c].key : c \in Running})
<1>1. fresh # {} /\ k = CHOOSE q \in fresh : TRUE
  BY DEF generateKeyPair
<1>2. k \in fresh
  BY <1>1
<1>3. Renamed \subseteq Running
  BY DEF Renamed, Running
<1> QED
  BY <1>2, <1>3 DEF Used

(* keys init: the root of the new registry is new, so no report is about it. *)
LEMMA InitStep ==
  ASSUME IInv, NEW c \in Cmds, runKeysInit(c)
  PROVE  IInv'
<1>1. PICK k \in generateKeyPair : Save(c, "init", k, genesis(k, now))
  BY DEF runKeysInit
<1>2. k \in Keys /\ k \notin Used
  BY FreshKey
<1> DEFINE next == genesis(k, now)
<1>3. now \in Nat /\ now >= 1 /\ ReportInv
  BY DEF IInv
<1>4. Doc(next, now) /\ PublicKeys(next) = {k} /\ Root(next) = k
  BY <1>2, <1>3, GenesisDoc
<1> HIDE DEF next
<1>5. Keeps(next)
  BY <1>2, <1>3, <1>4 DEF Keeps, ReportInv
<1>6. Save(c, "init", k, next)
  BY <1>1 DEF next
<1> QED
  BY <1>2, <1>4, <1>5, <1>6, SaveKeeps

(* keys rotate: the chain grows by a key no registry holds.                *)
LEMMA RotateStep ==
  ASSUME IInv, NEW c \in Cmds, runKeysRotate(c)
  PROVE  IInv'
<1>1. PICK k \in generateKeyPair, private \in told :
        /\ file # None
        /\ Save(c, "rotate", k,
                buildKeyRegistry(Append(Retired(file, now),
                  buildKeyEntry(k, now, file.active, private)), k, now))
  BY Zenon DEF runKeysRotate, Retired
<1>2. k \in Keys /\ k \notin Used
  BY FreshKey
<1> DEFINE next == buildKeyRegistry(Append(Retired(file, now),
                     buildKeyEntry(k, now, file.active, private)), k, now)
<1>3. /\ now \in Nat /\ now >= 1 /\ private \in Keys
      /\ Doc(file, now) /\ PublicKeys(file) \subseteq Used
      /\ exclusive => Keeps(file)
  BY <1>1 DEF IInv, FileInv
<1>4. k \notin PublicKeys(file)
  BY <1>2, <1>3
<1>5. /\ verifyKeyRegistry(next) => Doc(next, now)
      /\ PublicKeys(next) = PublicKeys(file) \cup {k} /\ Root(next) = Root(file)
      /\ \A q : RevokedIn(file, q) => RevokedIn(next, q)
  BY <1>2, <1>3, <1>4, RotateDoc
<1>6. Save(c, "rotate", k, next)
  BY <1>1
<1> HIDE DEF next
<1>7. Keeps(file) => Keeps(next)
  BY <1>5 DEF Keeps
<1> QED
  BY <1>2, <1>3, <1>5, <1>6, <1>7, SaveKeeps

(* keys revoke: refused, or the file with one more entry revoked.          *)
LEMMA RevokeStep ==
  ASSUME IInv, NEW c \in Cmds, runKeysRevoke(c)
  PROVE  IInv'
<1>1. PICK k \in Keys, private \in told :
        /\ file # None
        /\ Save(c, "revoke", k,
               IF \/ fingerprintKey(k) \notin Known(file)
                  \/ fingerprintKey(k) = file.active
               THEN None
               ELSE buildKeyRegistry(Updated(file, k, now), private, now))
  BY Zenon DEF runKeysRevoke, Updated
<1> DEFINE refused == \/ fingerprintKey(k) \notin Known(file)
                      \/ fingerprintKey(k) = file.active
           built == buildKeyRegistry(Updated(file, k, now), private, now)
<1>2. CASE refused
  <2>1. Save(c, "revoke", k, None)
    BY <1>1, <1>2
  <2> QED
    BY <2>1, SaveKeeps
<1>3. CASE ~refused
  <2>1. Save(c, "revoke", k, built)
    BY <1>1, <1>3
  <2>2. /\ now \in Nat /\ now >= 1
        /\ Doc(file, now) /\ PublicKeys(file) \subseteq Used
        /\ exclusive => Keeps(file)
    BY <1>1 DEF IInv, FileInv
  <2>3. /\ verifyKeyRegistry(built) => Doc(built, now)
        /\ PublicKeys(built) = PublicKeys(file) /\ Root(built) = Root(file)
        /\ RevokedIn(built, k)
        /\ \A q : RevokedIn(file, q) => RevokedIn(built, q)
    BY <1>3, <2>2, RevokeDoc
  <2> HIDE DEF built
  <2>4. Keeps(file) => Keeps(built)
    BY <2>3 DEF Keeps
  <2> QED
    BY <2>1, <2>2, <2>3, <2>4, SaveKeeps
<1> QED
  BY <1>2, <1>3

(* A command without a file ends at once.                                  *)
LEMMA LoadFailsStep ==
  ASSUME IInv, NEW c \in Cmds, LoadFails(c)
  PROVE  IInv'
<1>1. Save(c, "rotate", None, None)
  BY DEF LoadFails
<1> QED
  BY <1>1, SaveKeeps

(* A step of one running command leaves the others as they were.           *)
LEMMA OthersKeep ==
  ASSUME IInv, NEW c \in Cmds, NEW d \in Cmds, d # c,
         cmd[c].at \in {"writing", "renamed"}, cmd'[d] = cmd[d],
         now' = now, exclusive' = exclusive, Used \subseteq Used',
         file # None => file' # None
  PROVE  CommandInv(d)'
<1>1. CommandInv(d)
  BY DEF IInv
<1>2. exclusive => cmd[d].at = "idle"
  BY <1>1 DEF CommandInv, Running
<1> QED
  BY <1>1, <1>2 DEF CommandInv

(* The rename: the file becomes the registry of the command.               *)
LEMMA RenameStep ==
  ASSUME IInv, NEW c \in Cmds, Rename(c)
  PROVE  IInv'
<1>1. /\ cmd[c].at = "writing" /\ file' = cmd[c].doc
      /\ cmd' = [cmd EXCEPT ![c].at = "renamed"]
      /\ UNCHANGED <<now, exclusive, begun, told, lost, revoked, netVars>>
  BY DEF Rename
<1>2. CommandInv(c) /\ DOMAIN cmd = Cmds
  BY DEF IInv
<1>3. /\ DOMAIN cmd' = Cmds /\ \A d \in Cmds : d # c => cmd'[d] = cmd[d]
      /\ DOMAIN cmd'[c] = {"at", "op", "key", "doc"} /\ cmd'[c].at = "renamed"
      /\ cmd'[c].op = cmd[c].op /\ cmd'[c].key = cmd[c].key /\ cmd'[c].doc = cmd[c].doc
  BY <1>1, <1>2 DEF CommandInv
<1>4. /\ Used \subseteq Used'
      /\ cmd[c].op # "revoke" => cmd[c].key \in Used'
  BY <1>1, <1>3 DEF Used, Renamed
<1>5. file' # None
  BY <1>1, <1>2 DEF CommandInv
<1>6. ASSUME NEW d \in Cmds PROVE CommandInv(d)'
  <2>1. CASE d # c
    BY <1>1, <1>3, <1>4, <1>5, <2>1, OthersKeep
  <2>2. CASE d = c
    <3>1. exclusive' => \A e \in Running' : e = c
      BY <1>1, <1>2, <1>3 DEF CommandInv, Running
    <3>2. exclusive' => Keeps(cmd[c].doc)'
      BY <1>1, <1>2, <1>3 DEF CommandInv, Keeps
    <3>3. PublicKeys(cmd[c].doc) \subseteq Used'
      BY <1>1, <1>2, <1>4 DEF CommandInv
    <3> QED
      BY <1>1, <1>2, <1>3, <1>5, <2>2, <3>1, <3>2, <3>3 DEF CommandInv
  <2> QED
    BY <2>1, <2>2
<1>7. FileInv'
  BY <1>1, <1>2, <1>4, <1>5 DEF FileInv, CommandInv, Keeps
<1>8. ReportInv' /\ ServerInv' /\ CacheInv' /\ \A f \in Fetches : FetchInv(f)'
  BY <1>1, <1>4 DEF IInv, ReportInv, ServerInv, CacheInv, FetchInv, KeepsOld, netVars
<1> QED
  BY <1>1, <1>3, <1>6, <1>7, <1>8 DEF IInv, netVars

(* A failed write leaves the file alone.                                   *)
LEMMA WriteFailsStep ==
  ASSUME IInv, NEW c \in Cmds, WriteFails(c)
  PROVE  IInv'
<1>1. /\ cmd[c].at = "writing" /\ cmd' = [cmd EXCEPT ![c] = [at |-> "idle"]]
      /\ UNCHANGED <<now, exclusive, begun, file, told, lost, revoked, netVars>>
  BY DEF WriteFails
<1>2. /\ DOMAIN cmd' = Cmds /\ \A d \in Cmds : d # c => cmd'[d] = cmd[d]
      /\ cmd'[c].at = "idle"
  BY <1>1 DEF IInv
<1>3. Used' = Used
  BY <1>1, <1>2 DEF Used, Renamed
<1>4. ASSUME NEW d \in Cmds PROVE CommandInv(d)'
  <2>1. CASE d # c
    BY <1>1, <1>2, <1>3, <2>1, OthersKeep
  <2>2. CASE d = c
    BY <1>2, <2>2 DEF CommandInv
  <2> QED
    BY <2>1, <2>2
<1>5. FileInv' /\ ReportInv'
  BY <1>1, <1>3 DEF IInv, FileInv, ReportInv, Keeps, netVars
<1>6. ServerInv' /\ CacheInv' /\ \A f \in Fetches : FetchInv(f)'
  BY <1>1 DEF IInv, ServerInv, CacheInv, FetchInv, KeepsOld, netVars
<1> QED
  BY <1>1, <1>2, <1>4, <1>5, <1>6 DEF IInv, netVars

(* A report of revoke is about the file as it is, when commands exclude    *)
(* each other; one of init or rotate turns a key in the file into one the  *)
(* operator holds.                                                         *)
LEMMA ReportStep ==
  ASSUME IInv, NEW c \in Cmds, Report(c)
  PROVE  IInv'
<1> DEFINE x == [key |-> cmd[c].key, root |-> Root(cmd[c].doc), in |-> epoch]
<1>1. /\ cmd[c].at = "renamed" /\ cmd' = [cmd EXCEPT ![c] = [at |-> "idle"]]
      /\ cmd[c].op = "revoke" => revoked' = revoked \cup {x} /\ told' = told
      /\ cmd[c].op # "revoke" => told' = told \cup {cmd[c].key} /\ revoked' = revoked
      /\ UNCHANGED <<now, exclusive, begun, file, lost, netVars>>
  BY DEF Report
<1>2. /\ DOMAIN cmd' = Cmds /\ \A d \in Cmds : d # c => cmd'[d] = cmd[d]
      /\ cmd'[c].at = "idle"
  BY <1>1 DEF IInv
<1>3. CommandInv(c) /\ file # None
  BY <1>1 DEF IInv, CommandInv
<1>4. Used \subseteq Used' /\ told' \subseteq Keys
  <2>1. CASE cmd[c].op = "revoke"
    BY <1>1, <1>2, <2>1 DEF Used, Renamed, IInv
  <2>2. CASE cmd[c].op # "revoke"
    BY <1>1, <1>2, <1>3, <2>2 DEF Used, Renamed, IInv, CommandInv
  <2> QED
    BY <2>1, <2>2
<1>5. ASSUME NEW d \in Cmds PROVE CommandInv(d)'
  <2>1. CASE d # c
    BY <1>1, <1>2, <1>4, <2>1, OthersKeep
  <2>2. CASE d = c
    BY <1>2, <2>2 DEF CommandInv
  <2> QED
    BY <2>1, <2>2
<1>6. x.key = cmd[c].key /\ x.root = Root(cmd[c].doc) /\ x.in = epoch
  OBVIOUS
<1>7. cmd[c].op = "revoke" => x.root \in Used
  <2>1. Root(cmd[c].doc) \in PublicKeys(cmd[c].doc)
    <3>1. Chain(cmd[c].doc.keys, now)
      BY <1>1, <1>3 DEF CommandInv, Doc
    <3>2. 1 \in 1..Len(cmd[c].doc.keys)
      BY <3>1 DEF Chain
    <3> QED
      BY <3>2, Zenon DEF Root, PublicKeys
  <2> QED
    BY <1>1, <1>3, <1>6, <2>1 DEF CommandInv
<1> HIDE DEF x
<1>8. ReportInv'
  BY <1>1, <1>4, <1>6, <1>7 DEF IInv, ReportInv, netVars
<1>9. FileInv'
  <2>1. Doc(file, now)' /\ PublicKeys(file)' \subseteq Used'
    BY <1>1, <1>3, <1>4 DEF IInv, FileInv
  <2>2. exclusive' => Keeps(file)'
    <3>1. exclusive /\ cmd[c].op = "revoke" => RevokedIn(file, x.key)
      BY <1>1, <1>3, <1>6 DEF CommandInv
    <3>2. exclusive => Keeps(file)
      BY <1>3 DEF IInv, FileInv
    <3> QED
      BY <1>1, <3>1, <3>2 DEF Keeps
  <2> QED
    BY <1>1, <1>3, <2>1, <2>2 DEF FileInv
<1>10. ASSUME NEW r, NEW e \in Nat, e <= epoch, KeepsOld(r, e)
       PROVE  \A y \in revoked' : y.in < e /\ Root(r) = y.root => RevokedIn(r, y.key)
  BY <1>1, <1>6, <1>10 DEF KeepsOld, IInv
<1>11. ServerInv'
  BY <1>1, <1>10 DEF IInv, ServerInv, KeepsOld, netVars
<1>12. CacheInv'
  BY <1>1, <1>10 DEF IInv, CacheInv, KeepsOld, netVars
<1>13. ASSUME NEW f \in Fetches PROVE FetchInv(f)'
  <2>1. FetchInv(f) /\ fetch' = fetch /\ epoch' = epoch
    BY <1>1 DEF IInv, netVars
  <2> QED
    BY <1>1, <1>10, <2>1 DEF FetchInv, KeepsOld
<1> QED
  BY <1>1, <1>2, <1>4, <1>5, <1>8, <1>9, <1>11, <1>12, <1>13 DEF IInv, netVars

(* A crash after the rename: the key in the file is nobody's to use.       *)
LEMMA CrashStep ==
  ASSUME IInv, NEW c \in Cmds, Crash(c)
  PROVE  IInv'
<1>1. /\ cmd[c].at = "renamed" /\ cmd' = [cmd EXCEPT ![c] = [at |-> "idle"]]
      /\ lost' = IF cmd[c].op = "revoke" THEN lost ELSE lost \cup {cmd[c].key}
      /\ UNCHANGED <<now, exclusive, begun, file, told, revoked, netVars>>
  BY DEF Crash
<1>2. /\ DOMAIN cmd' = Cmds /\ \A d \in Cmds : d # c => cmd'[d] = cmd[d]
      /\ cmd'[c].at = "idle"
  BY <1>1 DEF IInv
<1>3. CommandInv(c)
  BY DEF IInv
<1>4. Used \subseteq Used' /\ lost' \subseteq Keys
  <2>1. CASE cmd[c].op = "revoke"
    BY <1>1, <1>2, <2>1 DEF Used, Renamed, IInv
  <2>2. CASE cmd[c].op # "revoke"
    BY <1>1, <1>2, <1>3, <2>2 DEF Used, Renamed, IInv, CommandInv
  <2> QED
    BY <2>1, <2>2
<1>5. ASSUME NEW d \in Cmds PROVE CommandInv(d)'
  <2>1. CASE d # c
    BY <1>1, <1>2, <1>4, <2>1, OthersKeep
  <2>2. CASE d = c
    BY <1>2, <2>2 DEF CommandInv
  <2> QED
    BY <2>1, <2>2
<1>6. FileInv' /\ ReportInv'
  BY <1>1, <1>4 DEF IInv, FileInv, ReportInv, Keeps, netVars
<1>7. ServerInv' /\ CacheInv' /\ \A f \in Fetches : FetchInv(f)'
  BY <1>1 DEF IInv, ServerInv, CacheInv, FetchInv, KeepsOld, netVars
<1> QED
  BY <1>1, <1>2, <1>4, <1>5, <1>6, <1>7 DEF IInv, netVars

(* A step of the server or of the consumer leaves the commands and the     *)
(* file as they were.                                                      *)
LEMMA CliUntouched ==
  ASSUME IInv, UNCHANGED <<now, cliVars>>, epoch' \in Nat, epoch <= epoch'
  PROVE  /\ now' \in Nat /\ now' >= 1 /\ told' \subseteq Keys /\ lost' \subseteq Keys
         /\ DOMAIN cmd' = Cmds /\ \A c \in Cmds : CommandInv(c)'
         /\ FileInv' /\ ReportInv'
<1>1. Used' = Used
  BY DEF Used, Renamed, cliVars
<1>2. ASSUME NEW c \in Cmds PROVE CommandInv(c)'
  <2>1. CommandInv(c)
    BY DEF IInv
  <2> QED
    BY <1>1, <2>1 DEF CommandInv, Keeps, Running, cliVars
<1>3. FileInv'
  BY <1>1 DEF IInv, FileInv, Keeps, cliVars
<1>4. ReportInv'
  BY <1>1 DEF IInv, ReportInv, cliVars
<1> QED
  BY <1>2, <1>3, <1>4 DEF IInv, cliVars

(* A restart of the server empties FileKeyRegistry.cache.                  *)
LEMMA RestartStep ==
  ASSUME IInv, Restart
  PROVE  IInv'
<1>1. /\ epoch' = epoch + 1 /\ epoch \in Nat /\ published' = None
      /\ UNCHANGED <<now, cliVars, fetch, cache>>
  BY DEF Restart, IInv
<1>2. epoch' \in Nat /\ epoch <= epoch'
  BY <1>1
<1>3. ServerInv'
  BY <1>1 DEF ServerInv
<1>4. CacheInv'
  BY <1>1 DEF IInv, CacheInv, KeepsOld, cliVars
<1>5. ASSUME NEW f \in Fetches PROVE FetchInv(f)'
  <2>1. FetchInv(f) /\ fetch' = fetch
    BY <1>1 DEF IInv
  <2> QED
    BY <1>1, <2>1 DEF FetchInv, KeepsOld, cliVars
<1> QED
  BY <1>1, <1>2, <1>3, <1>4, <1>5, CliUntouched DEF IInv

(* A step of request f leaves the other requests as they were.             *)
LEMMA RequestsKeep ==
  ASSUME IInv, NEW f \in Fetches, NEW r, Set(f, r), UNCHANGED <<now, cliVars, epoch>>
  PROVE  /\ DOMAIN fetch' = Fetches /\ fetch'[f] = r
         /\ \A g \in Fetches : g # f => FetchInv(g)'
<1>1. /\ DOMAIN fetch' = Fetches /\ fetch'[f] = r
      /\ \A g \in Fetches : g # f => fetch'[g] = fetch[g]
  BY DEF IInv, Set
<1>2. ASSUME NEW g \in Fetches, g # f PROVE FetchInv(g)'
  <2>1. FetchInv(g) /\ fetch'[g] = fetch[g]
    BY <1>1, <1>2 DEF IInv
  <2> QED
    BY <2>1 DEF FetchInv, KeepsOld, cliVars
<1> QED
  BY <1>1, <1>2

(* HttpKeyRegistry.registry() sends a request.                             *)
LEMMA FetchStep ==
  ASSUME IInv, NEW f \in Fetches, Fetch(f)
  PROVE  IInv'
<1> DEFINE r == [at |-> "sent", sent |-> now]
<1>1. Set(f, r) /\ UNCHANGED <<now, cliVars, epoch, published, cache>>
  BY DEF Fetch
<1>2. now \in Nat /\ epoch \in Nat
  BY DEF IInv
<1>3. DOMAIN fetch' = Fetches /\ fetch'[f] = r /\ \A g \in Fetches : g # f => FetchInv(g)'
  BY <1>1, RequestsKeep
<1>4. FetchInv(f)'
  BY <1>1, <1>2, <1>3 DEF FetchInv
<1>5. ServerInv' /\ CacheInv'
  BY <1>1 DEF IInv, ServerInv, CacheInv, KeepsOld, cliVars
<1>6. epoch' \in Nat /\ epoch <= epoch' /\ UNCHANGED <<now, cliVars>>
  BY <1>1, <1>2
<1> QED
  BY <1>3, <1>4, <1>5, <1>6, CliUntouched DEF IInv

(* The server answers from its cache, or from the file it loads: a file    *)
(* loaded now has every revocation reported so far.                        *)
LEMMA ServeStep ==
  ASSUME IInv, NEW f \in Fetches, Serve(f)
  PROVE  IInv'
<1> DEFINE r == IF published = None THEN file ELSE published
           over == [at |-> "over"]
           answer == [at |-> "served", sent |-> fetch[f].sent, value |-> r,
                      servedAt |-> now, servedIn |-> epoch]
<1>1. /\ fetch[f].at = "sent" /\ UNCHANGED <<now, cliVars, epoch, cache>>
      /\ \/ Set(f, over) /\ published' = published
         \/ r # None /\ published' = r /\ Set(f, answer)
  BY DEF Serve
<1>2. /\ now \in Nat /\ epoch \in Nat
      /\ fetch[f].sent \in Nat /\ fetch[f].sent <= now
  BY <1>1 DEF IInv, FetchInv
<1>3. epoch' \in Nat /\ epoch <= epoch' /\ UNCHANGED <<now, cliVars>>
  BY <1>1, <1>2
<1>4. CacheInv'
  BY <1>1 DEF IInv, CacheInv, KeepsOld, cliVars
<1>5. CASE Set(f, over) /\ published' = published
  <2>1. DOMAIN fetch' = Fetches /\ fetch'[f] = over /\ \A g \in Fetches : g # f => FetchInv(g)'
    BY <1>1, <1>5, RequestsKeep
  <2>2. FetchInv(f)'
    BY <2>1 DEF FetchInv
  <2>3. ServerInv'
    BY <1>1, <1>5 DEF IInv, ServerInv, KeepsOld, cliVars
  <2> QED
    BY <1>3, <1>4, <2>1, <2>2, <2>3, CliUntouched DEF IInv
<1>6. CASE r # None /\ published' = r /\ Set(f, answer)
  <2>1. Doc(r, now) /\ (exclusive => KeepsOld(r, epoch))
    <3>1. CASE published = None
      <4>1. r = file /\ file # None
        BY <1>6, <3>1
      <4>2. Doc(file, now) /\ (exclusive => Keeps(file))
        BY <4>1 DEF IInv, FileInv
      <4> QED
        BY <4>1, <4>2 DEF Keeps, KeepsOld
    <3>2. CASE published # None
      BY <3>2 DEF IInv, ServerInv
    <3> QED
      BY <3>1, <3>2
  <2>2. /\ DOMAIN fetch' = Fetches /\ fetch'[f] = answer
        /\ \A g \in Fetches : g # f => FetchInv(g)'
    BY <1>1, <1>6, RequestsKeep
  <2>3. /\ answer.at = "served" /\ answer.sent = fetch[f].sent /\ answer.value = r
        /\ answer.servedAt = now /\ answer.servedIn = epoch
    OBVIOUS
  <2> HIDE DEF r, answer
  <2>4. FetchInv(f)'
    BY <1>1, <1>2, <2>1, <2>2, <2>3 DEF FetchInv, KeepsOld, cliVars
  <2>5. ServerInv'
    BY <1>1, <1>6, <2>1 DEF ServerInv, KeepsOld, cliVars
  <2> QED
    BY <1>3, <1>4, <2>2, <2>4, <2>5, CliUntouched DEF IInv
<1> QED
  BY <1>1, <1>5, <1>6

(* The answer is kept from the time its request was sent.                  *)
LEMMA ReceiveStep ==
  ASSUME IInv, NEW f \in Fetches, Receive(f)
  PROVE  IInv'
<1> DEFINE over == [at |-> "over"]
           q == fetch[f]
<1>1. /\ q.at = "served" /\ cache' = Cached(f, q.sent) /\ Set(f, over)
      /\ UNCHANGED <<now, cliVars, epoch, published>>
  BY DEF Receive
<1>2. now \in Nat /\ epoch \in Nat /\ FetchInv(f)
  BY DEF IInv
<1>3. epoch' \in Nat /\ epoch <= epoch' /\ UNCHANGED <<now, cliVars>>
  BY <1>1, <1>2
<1>4. DOMAIN fetch' = Fetches /\ fetch'[f] = over /\ \A g \in Fetches : g # f => FetchInv(g)'
  BY <1>1, RequestsKeep
<1>5. FetchInv(f)'
  BY <1>4 DEF FetchInv
<1>6. ServerInv'
  BY <1>1 DEF IInv, ServerInv, KeepsOld, cliVars
<1>7. /\ cache'.value = q.value /\ cache'.expiresAt = q.sent + ttlOf(q.value)
      /\ cache'.servedAt = q.servedAt /\ cache'.servedIn = q.servedIn
  BY <1>1 DEF Cached
<1>8. /\ Doc(q.value, now) /\ q.sent \in Nat /\ q.servedAt \in Nat /\ q.sent <= q.servedAt
      /\ q.servedIn \in Nat /\ q.servedIn <= epoch
      /\ exclusive => KeepsOld(q.value, q.servedIn)
  BY <1>1, <1>2 DEF FetchInv
<1>9. ttlOf(q.value) \in Nat
  BY <1>8, RegistryAssumption DEF ttlOf, Doc
<1>10. ttlOf(cache'.value) = ttlOf(q.value)
  BY <1>7
<1> HIDE DEF q
<1>11. /\ cache'.expiresAt \in Nat
       /\ cache'.expiresAt <= cache'.servedAt + ttlOf(q.value)
  BY <1>7, <1>8, <1>9
<1>12. exclusive' => KeepsOld(cache.value, cache.servedIn)'
  BY <1>1, <1>7, <1>8 DEF KeepsOld, cliVars
<1>13. ttlOf(cache.value)' = ttlOf(cache'.value)
  BY DEF ttlOf
<1>14. Doc(cache.value, now)'
  BY <1>1, <1>7, <1>8
<1>15. CacheInv'
  BY <1>1, <1>7, <1>8, <1>10, <1>11, <1>12, <1>13, <1>14 DEF CacheInv
<1> QED
  BY <1>3, <1>4, <1>5, <1>6, <1>15, CliUntouched DEF IInv

(* A lost request changes nothing else.                                    *)
LEMMA FetchFailsStep ==
  ASSUME IInv, NEW f \in Fetches, FetchFails(f)
  PROVE  IInv'
<1> DEFINE over == [at |-> "over"]
<1>1. Set(f, over) /\ UNCHANGED <<now, cliVars, epoch, published, cache>>
  BY DEF FetchFails
<1>2. epoch' \in Nat /\ epoch <= epoch' /\ UNCHANGED <<now, cliVars>>
  BY <1>1 DEF IInv
<1>3. DOMAIN fetch' = Fetches /\ fetch'[f] = over /\ \A g \in Fetches : g # f => FetchInv(g)'
  BY <1>1, RequestsKeep
<1>4. FetchInv(f)'
  BY <1>3 DEF FetchInv
<1>5. ServerInv' /\ CacheInv'
  BY <1>1 DEF IInv, ServerInv, CacheInv, KeepsOld, cliVars
<1> QED
  BY <1>2, <1>3, <1>4, <1>5, CliUntouched DEF IInv

(* The clock moves on.                                                     *)
LEMMA TickStep ==
  ASSUME IInv, Tick
  PROVE  IInv'
<1>1. now \in Nat /\ now >= 1 /\ now' = now + 1 /\ UNCHANGED <<cliVars, netVars>>
  BY DEF Tick, IInv
<1>2. now' \in Nat /\ now' >= 1 /\ now <= now'
  BY <1>1
<1>3. \A r : Doc(r, now) => Doc(r, now')
  BY <1>1, <1>2, DocLater
<1>4. Used' = Used
  BY <1>1 DEF Used, Renamed, cliVars
<1>5. ASSUME NEW c \in Cmds PROVE CommandInv(c)'
  <2>1. CommandInv(c)
    BY DEF IInv
  <2> QED
    BY <1>1, <1>3, <1>4, <2>1 DEF CommandInv, Keeps, Running, cliVars
<1>6. FileInv' /\ ReportInv'
  BY <1>1, <1>3, <1>4 DEF IInv, FileInv, ReportInv, Keeps, cliVars, netVars
<1>7. ServerInv' /\ CacheInv'
  BY <1>1, <1>3 DEF IInv, ServerInv, CacheInv, KeepsOld, cliVars, netVars
<1>8. ASSUME NEW f \in Fetches PROVE FetchInv(f)'
  <2>1. FetchInv(f) /\ fetch' = fetch /\ now \in Nat
    BY <1>1 DEF IInv, netVars
  <2> QED
    BY <1>1, <1>2, <1>3, <2>1 DEF FetchInv, KeepsOld, cliVars, netVars
<1> QED
  BY <1>1, <1>2, <1>5, <1>6, <1>7, <1>8 DEF IInv, cliVars, netVars

(* A step that changes nothing here.                                       *)
LEMMA StutterStep ==
  ASSUME IInv, UNCHANGED vars
  PROVE  IInv'
<1>1. UNCHANGED <<now, cliVars>> /\ UNCHANGED netVars /\ epoch' \in Nat /\ epoch <= epoch'
  BY DEF vars, netVars, IInv
<1>2. ServerInv' /\ CacheInv'
  BY <1>1 DEF IInv, ServerInv, CacheInv, KeepsOld, cliVars, netVars
<1>3. ASSUME NEW f \in Fetches PROVE FetchInv(f)'
  <2>1. FetchInv(f)
    BY DEF IInv
  <2> QED
    BY <1>1, <2>1 DEF FetchInv, KeepsOld, cliVars, netVars
<1> QED
  BY <1>1, <1>2, <1>3, CliUntouched DEF IInv, netVars

(* The invariant of the registry, its commands, its server and consumer.   *)
LEMMA RegistryInvariant == Spec => []IInv
<1>1. IInv /\ [Next]_vars => IInv'
  <2> SUFFICES ASSUME IInv, [Next]_vars PROVE IInv'
    OBVIOUS
  <2>1. ASSUME NEW c \in Cmds, Command(c) PROVE IInv'
    BY <2>1, InitStep, RotateStep, RevokeStep, LoadFailsStep, RenameStep,
       WriteFailsStep, ReportStep, CrashStep DEF Command
  <2>2. ASSUME NEW f \in Fetches, Consumer(f) PROVE IInv'
    BY <2>2, FetchStep, ServeStep, ReceiveStep, FetchFailsStep DEF Consumer
  <2> QED
    BY <2>1, <2>2, RestartStep, TickStep, StutterStep DEF Next
<1> QED
  BY <1>1, InitIInv, PTL DEF Spec
------------------------------------------------------------------------------
(* What follows *)

(* In a well formed registry the active key is active, and it alone.       *)
LEMMA DocOneKey ==
  ASSUME NEW r, NEW t \in Nat, Doc(r, t)
  PROVE  /\ verifyKeyRegistry(r)
         /\ resolveKey(r, Entry(r, r.active).publicKey, t) = "active"
         /\ \A k \in Keys : resolveKey(r, k, t) = "active" =>
                             k = Entry(r, r.active).publicKey
<1> DEFINE s == r.keys
           n == Len(s)
<1>1. Chain(s, t) /\ r.active = s[n].fingerprint /\ verifyKeyRegistry(r)
  BY DEF Doc
<1>2. /\ n \in Nat /\ n >= 1 /\ DOMAIN s = 1..n
      /\ \A i \in 1..n : s[i] \in EntryRec
  BY <1>1 DEF Chain
<1>3. n \in 1..n
  BY <1>2
<1>4. \A i \in 1..n : /\ Entry(r, s[i].fingerprint) = s[i]
                      /\ First(r, s[i].publicKey) = s[i]
                      /\ fingerprintKey(s[i].publicKey) \in Known(r)
  BY <1>1, OneEntry
<1>5. Entry(r, r.active) = s[n]
  BY <1>1, <1>3, <1>4
<1>6. \A i \in 1..n : /\ s[i].fingerprint = fingerprintKey(s[i].publicKey)
                      /\ s[i].validFrom <= t /\ s[i].validUntil <= t
                      /\ s[i].revokedAt <= t /\ (Usable(s[i]) <=> i = n)
                      /\ s[i].validFrom \in Nat
  BY <1>1, <1>2 DEF Chain, EntryRec
<1>7. Known(r) = {s[i].fingerprint : i \in 1..n}
  BY <1>2 DEF Known, Entries
<1> HIDE DEF s, n
<1>8. resolveKey(r, s[n].publicKey, t) = "active"
  BY <1>3, <1>4, <1>6 DEF resolveKey, Usable
<1>9. ASSUME NEW k \in Keys, resolveKey(r, k, t) = "active"
      PROVE  k = s[n].publicKey
  <2>1. fingerprintKey(k) \in Known(r)
    BY <1>9 DEF resolveKey
  <2>2. PICK i \in 1..n : s[i].publicKey = k
    BY <1>6, <1>7, <2>1 DEF fingerprintKey
  <2>3. First(r, k) = s[i]
    BY <1>4, <2>2
  <2>4. Usable(s[i])
    BY <1>6, <1>9, <2>1, <2>3 DEF resolveKey, Usable
  <2> QED
    BY <1>6, <2>2, <2>4
<1> QED
  BY <1>1, <1>5, <1>8, <1>9

(* Every registry in the file, at the server or at the consumer verifies   *)
(* and has exactly one key in use, its active one, whatever commands       *)
(* overlap, die or get a wrong private key.                                *)
THEOREM OneKeyAlways == Spec => []OneKeyInUse
<1>1. IInv => OneKeyInUse
  <2> SUFFICES ASSUME IInv PROVE OneKeyInUse
    OBVIOUS
  <2>1. now \in Nat
    BY DEF IInv
  <2>2. ASSUME NEW r \in Held PROVE Doc(r, now)
    BY DEF Held, IInv, FileInv, ServerInv, CacheInv
  <2> QED
    BY <2>1, <2>2, DocOneKey DEF OneKeyInUse
<1> QED
  BY <1>1, RegistryInvariant, PTL

(* Among commands that run one at a time a reported revocation is in the   *)
(* file for ever, until keys init starts another registry.                 *)
THEOREM RevocationsLast == Spec => []RevocationKept
<1>1. IInv => RevocationKept
  <2> SUFFICES ASSUME IInv, exclusive, NEW x \in revoked, Root(file) = x.root
               PROVE  resolveKey(file, x.key, now) = "revoked"
    BY DEF RevocationKept
  <2>1. now \in Nat /\ Doc(file, now) /\ RevokedIn(file, x.key)
    BY DEF IInv, FileInv, Keeps
  <2> QED
    BY <2>1, RevokedResolves
<1> QED
  BY <1>1, RegistryInvariant, PTL

(* A consumer served by a process started after the report sees the key    *)
(* revoked.                                                                *)
THEOREM RevocationsArrive == Spec => []RevocationReachesConsumer
<1>1. IInv => RevocationReachesConsumer
  <2> SUFFICES ASSUME IInv, exclusive, cache # None, NEW x \in revoked,
                      x.in < cache.servedIn, Root(cache.value) = x.root
               PROVE  resolveKey(cache.value, x.key, now) = "revoked"
    BY DEF RevocationReachesConsumer
  <2>1. now \in Nat /\ Doc(cache.value, now) /\ RevokedIn(cache.value, x.key)
    BY DEF IInv, CacheInv, KeepsOld
  <2> QED
    BY <2>1, RevokedResolves
<1> QED
  BY <1>1, RegistryInvariant, PTL

(* HttpKeyRegistry never answers from a registry as old as its ttl or as   *)
(* maxAge, however slow the answer was.                                    *)
THEOREM CacheIsFresh == Spec => []FreshEnough
<1>1. IInv => FreshEnough
  <2> SUFFICES ASSUME IInv, cache # None, cache.expiresAt > now
               PROVE  /\ now - cache.servedAt < MaxAge
                      /\ now - cache.servedAt < cache.value.ttl
    BY DEF FreshEnough
  <2>1. /\ now \in Nat /\ cache.servedAt \in Nat /\ cache.expiresAt \in Nat
        /\ cache.expiresAt <= cache.servedAt + ttlOf(cache.value)
        /\ cache.value.ttl = Ttl
    BY DEF IInv, CacheInv, Doc
  <2>2. ttlOf(cache.value) = IF Ttl < MaxAge THEN Ttl ELSE MaxAge
    BY <2>1 DEF ttlOf
  <2> QED
    BY <2>1, <2>2, RegistryAssumption
<1> QED
  BY <1>1, RegistryInvariant, PTL

(* The three verifiers give one verdict on any document: the Go SDK's test *)
(* for an empty list is implied by an active key among the entries, and    *)
(* Python's search for an entry that fails is the others' check of all.    *)
LEMMA VerdictsAgree == ASSUME NEW r PROVE SameVerdict(r)
<1>1. r.active \in Known(r) => r.keys # <<>>
  BY DEF Known, Entries
<1>2. VerifyKeyRegistry_go(r) <=> verifyKeyRegistry(r)
  BY <1>1 DEF VerifyKeyRegistry_go, verifyKeyRegistry, Genuine
<1>3. verify_key_registry_py(r) <=> verifyKeyRegistry(r)
  BY DEF verify_key_registry_py, verifyKeyRegistry, Genuine
<1>4. /\ VerifyKeyRegistry_go(r) \in BOOLEAN /\ verifyKeyRegistry(r) \in BOOLEAN
      /\ verify_key_registry_py(r) \in BOOLEAN
  BY DEF VerifyKeyRegistry_go, verifyKeyRegistry, verify_key_registry_py
<1> QED
  BY <1>2, <1>3, <1>4 DEF SameVerdict

(* In a registry as the CLI keeps it no timestamp lies ahead of the clock, *)
(* so that a reader without a clock sees what one with a clock does.       *)
LEMMA StatusesAgree ==
  ASSUME NEW r, NEW t \in Nat, Doc(r, t), NEW k \in Keys
  PROVE  SameStatus(r, k, t)
<1> DEFINE s == r.keys
           n == Len(s)
<1>1. Chain(s, t)
  BY DEF Doc
<1>2. /\ n \in Nat /\ DOMAIN s = 1..n /\ \A i \in 1..n : s[i] \in EntryRec
  BY <1>1 DEF Chain
<1>3. Known(r) = {s[i].fingerprint : i \in 1..n}
  BY <1>2 DEF Known, Entries
<1>4. CASE fingerprintKey(k) \notin Known(r)
  BY <1>4 DEF SameStatus, resolveKey, ResolveKey_go, resolve_key_py
<1>5. CASE fingerprintKey(k) \in Known(r)
  <2>1. PICK i \in 1..n : s[i].publicKey = k
    BY <1>1, <1>3, <1>5 DEF Chain, fingerprintKey
  <2>2. First(r, k) = s[i]
    BY <1>1, <2>1, OneEntry
  <2>3. /\ s[i].validFrom \in Nat /\ s[i].validFrom <= t
        /\ s[i].validUntil \in Nat /\ s[i].validUntil <= t
        /\ s[i].revokedAt \in Nat /\ s[i].revokedAt <= t
    BY <1>1, <1>2 DEF Chain, EntryRec
  <2> HIDE DEF s, n
  <2> QED
    BY <1>5, <2>2, <2>3 DEF SameStatus, resolveKey, ResolveKey_go, resolve_key_py
<1> QED
  BY <1>4, <1>5

(* The TypeScript, Go and Python readers of a registry agree, on the       *)
(* verdict of any document and on the status of every key of every         *)
(* registry in the file, at the server or at the consumer.                 *)
THEOREM ReadersAgree == Spec => []RegistriesReadAlike
<1>1. IInv => RegistriesReadAlike
  <2> SUFFICES ASSUME IInv PROVE RegistriesReadAlike
    OBVIOUS
  <2>1. now \in Nat
    BY DEF IInv
  <2>2. ASSUME NEW r \in Held PROVE Doc(r, now)
    BY DEF Held, IInv, FileInv, ServerInv, CacheInv
  <2> QED
    BY <2>1, <2>2, VerdictsAgree, StatusesAgree DEF RegistriesReadAlike
<1> QED
  BY <1>1, RegistryInvariant, PTL
==============================================================================
