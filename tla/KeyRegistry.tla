----------------------------- MODULE KeyRegistry ------------------------------
(***************************************************************************)
(* core/src/key-registry.ts and cli/src/commands/keys.ts: the signed list  *)
(* of a server's keys.  Commands of the CLI are processes that read the    *)
(* registry file, build a new registry and rename it into place.  A server *)
(* process publishes the file at GET /keys through a FileKeyRegistry, and  *)
(* a consumer reads GET /keys through an HttpKeyRegistry.                  *)
(***************************************************************************)
EXTENDS KeyEntries

CONSTANTS
  Cmds,        \* runs of `glyph keys` at one time
  Fetches,     \* calls of HttpKeyRegistry.registry() that miss the cache
  MaxCmds,     \* bound on the commands run
  MaxAge,      \* maxAgeSeconds of the consumer
  MaxTime,     \* bound on the clock
  MaxRestarts  \* bound on the server's restarts

ASSUME RegistryAssumption ==
  /\ Ttl \in Nat /\ MaxAge \in Nat /\ MaxTime \in Nat /\ MaxRestarts \in Nat
  /\ MaxCmds \in Nat
  /\ Keys # {} /\ None \notin Keys

VARIABLES
  now,
  exclusive, \* do the operators run one command at a time?
  file,      \* the registry file; None when there is no such file
  cmd,       \* every command: its point and, while it runs, its locals
  begun,     \* number of commands begun
  told,      \* keys whose private half some command printed
  lost,      \* keys whose command died before it printed them
  revoked,   \* history: the revocations reported, with the root of their
             \* registry and the server's epoch
  epoch,     \* number of the server's restarts
  published, \* FileKeyRegistry.cache of the server
  fetch,     \* every GET /keys of the consumer
  cache      \* HttpKeyRegistry.cache

cliVars == <<exclusive, file, cmd, begun, told, lost, revoked>>
netVars == <<epoch, published, fetch, cache>>
vars == <<now, cliVars, netVars>>

------------------------------------------------------------------------------
(* glyph keys init | rotate | revoke *)

genesis(k, at) ==
  buildKeyRegistry(<<buildKeyEntry(k, at, None, None)>>, k, at)

(* No registry yet, or the one an earlier `init` wrote. *)
Init ==
  /\ now = 1
  /\ exclusive \in BOOLEAN
  /\ \/ file = None /\ told = {}
     \/ LET k == CHOOSE k \in Keys : TRUE
        IN file = genesis(k, 1) /\ told = {k}
  /\ cmd = [c \in Cmds |-> [at |-> "idle"]]
  /\ begun = 0
  /\ lost = {}
  /\ revoked = {}
  /\ epoch = 0
  /\ published = None
  /\ fetch = [f \in Fetches |-> [at |-> "idle"]]
  /\ cache = None

Running == {c \in Cmds : cmd[c].at \in {"writing", "renamed"}}

(* generateKeyPair returns a key nobody has; which one makes no difference. *)
generateKeyPair ==
  LET fresh == Keys \ (told \cup lost \cup {cmd[c].key : c \in Running})
  IN IF fresh = {} THEN {} ELSE {CHOOSE k \in fresh : TRUE}

(* A command comes to a registry to save, which save() verifies first, or  *)
(* ends without touching the file.                                         *)
Save(c, subcommand, k, next) ==
  /\ cmd[c].at = "idle"
  /\ begun < MaxCmds
  /\ begun' = begun + 1
  /\ exclusive => Running = {}
  /\ cmd' = [cmd EXCEPT ![c] =
               IF next # None /\ verifyKeyRegistry(next)
               THEN [at |-> "writing", op |-> subcommand, key |-> k,
                     doc |-> next]
               ELSE [at |-> "idle"]]
  /\ UNCHANGED <<now, exclusive, file, told, lost, revoked, netVars>>

runKeysInit(c) ==
  \E k \in generateKeyPair :
    Save(c, "init", k, genesis(k, now))

(* Faulty variant: retiring rebuilds the entries from their public keys. *)
runKeysRotate_Rebuilds(c) ==
  \E k \in generateKeyPair, private \in told :
    /\ file # None
    /\ LET retired == [i \in DOMAIN file.keys |->
                        IF file.keys[i].fingerprint = file.active
                        THEN [file.keys[i] EXCEPT !.validUntil = now]
                        ELSE [file.keys[i] EXCEPT !.revokedAt = 0]]
           entry == buildKeyEntry(k, now, file.active, private)
       IN Save(c, "rotate", k, buildKeyRegistry(Append(retired, entry), k, now))

(* Faulty variant: the outgoing entry is not retired. *)
runKeysRotate_KeepsOld(c) ==
  \E k \in generateKeyPair, private \in told :
    /\ file # None
    /\ LET entry == buildKeyEntry(k, now, file.active, private)
       IN Save(c, "rotate", k,
               buildKeyRegistry(Append(file.keys, entry), k, now))

(* The operator passes the private key of the outgoing entry, or by        *)
(* mistake another one he holds.                                           *)
runKeysRotate(c) ==
  \E k \in generateKeyPair, private \in told :
    /\ file # None
    /\ LET retired == [i \in DOMAIN file.keys |->
                        IF file.keys[i].fingerprint = file.active
                        THEN [file.keys[i] EXCEPT !.validUntil = now]
                        ELSE file.keys[i]]
           entry == buildKeyEntry(k, now, file.active, private)
       IN Save(c, "rotate", k, buildKeyRegistry(Append(retired, entry), k, now))

(* An unknown key and the active key are refused. *)
runKeysRevoke(c) ==
  \E k \in Keys, private \in told :
    /\ file # None
    /\ LET updated == [i \in DOMAIN file.keys |->
                        IF file.keys[i].publicKey = k
                        THEN [file.keys[i] EXCEPT !.revokedAt = now]
                        ELSE file.keys[i]]
       IN Save(c, "revoke", k,
               IF \/ fingerprintKey(k) \notin Known(file)
                  \/ fingerprintKey(k) = file.active
               THEN None
               ELSE buildKeyRegistry(updated, private, now))

(* Without a file readFile rejects. *)
LoadFails(c) == file = None /\ Save(c, "rotate", None, None)

(* The temporary file, named after the process, is renamed into place. *)
Rename(c) ==
  /\ cmd[c].at = "writing"
  /\ file' = cmd[c].doc
  /\ cmd' = [cmd EXCEPT ![c].at = "renamed"]
  /\ UNCHANGED <<now, exclusive, begun, told, lost, revoked, netVars>>

(* The write fails, or the process dies before the rename. *)
WriteFails(c) ==
  /\ cmd[c].at = "writing"
  /\ cmd' = [cmd EXCEPT ![c] = [at |-> "idle"]]
  /\ UNCHANGED <<now, exclusive, begun, file, told, lost, revoked, netVars>>

Root(r) == r.keys[1].publicKey

(* The report of init and rotate prints the new private key. *)
Report(c) ==
  /\ cmd[c].at = "renamed"
  /\ cmd' = [cmd EXCEPT ![c] = [at |-> "idle"]]
  /\ IF cmd[c].op = "revoke"
     THEN /\ revoked' = revoked \cup
               {[key |-> cmd[c].key, root |-> Root(cmd[c].doc), in |-> epoch]}
          /\ UNCHANGED told
     ELSE told' = told \cup {cmd[c].key} /\ UNCHANGED revoked
  /\ UNCHANGED <<now, exclusive, begun, file, lost, netVars>>

(* The process dies before it prints its report. *)
Crash(c) ==
  /\ cmd[c].at = "renamed"
  /\ cmd' = [cmd EXCEPT ![c] = [at |-> "idle"]]
  /\ lost' = IF cmd[c].op = "revoke" THEN lost ELSE lost \cup {cmd[c].key}
  /\ UNCHANGED <<now, exclusive, begun, file, told, revoked, netVars>>

------------------------------------------------------------------------------
(* GET /keys and its consumer *)

(* Faulty variant: a restarted server still has its cache. *)
Restart_Warm ==
  /\ epoch < MaxRestarts
  /\ epoch' = epoch + 1
  /\ UNCHANGED <<now, cliVars, published, fetch, cache>>

(* A new server process has no cache. *)
Restart ==
  /\ epoch < MaxRestarts
  /\ epoch' = epoch + 1
  /\ published' = None
  /\ UNCHANGED <<now, cliVars, fetch, cache>>

Set(f, r) == fetch' = [fetch EXCEPT ![f] = r]

(* registry() reads the clock before it fetches, unless its cache serves. *)
Fetch(f) ==
  /\ fetch[f].at = "idle"
  /\ cache # None => cache.expiresAt <= now
  /\ Set(f, [at |-> "sent", sent |-> now])
  /\ UNCHANGED <<now, cliVars, epoch, published, cache>>

(* The first request loads the file; every later one of this process is    *)
(* answered from FileKeyRegistry.cache.  A file that cannot be loaded is a *)
(* 500, which the consumer throws on.                                      *)
Serve(f) ==
  /\ fetch[f].at = "sent"
  /\ LET r == IF published = None THEN file ELSE published
     IN IF r = None \/ ~verifyKeyRegistry(r)
        THEN Set(f, [at |-> "over"]) /\ UNCHANGED published
        ELSE /\ published' = r
             /\ Set(f, [at |-> "served", sent |-> fetch[f].sent, value |-> r,
                        servedAt |-> now, servedIn |-> epoch])
  /\ UNCHANGED <<now, cliVars, epoch, cache>>

ttlOf(r) == IF r.ttl < MaxAge THEN r.ttl ELSE MaxAge

Cached(f, from) ==
  [value |-> fetch[f].value, expiresAt |-> from + ttlOf(fetch[f].value),
   servedAt |-> fetch[f].servedAt, servedIn |-> fetch[f].servedIn]

(* Faulty variant: the lifetime starts when the answer arrives. *)
Receive_FromArrival(f) ==
  /\ fetch[f].at = "served"
  /\ verifyKeyRegistry(fetch[f].value)
  /\ cache' = Cached(f, now)
  /\ Set(f, [at |-> "over"])
  /\ UNCHANGED <<now, cliVars, epoch, published>>

(* The answer of a request verifies and is kept for min(ttl, maxAge) from  *)
(* the time the request was sent; requests may overtake each other.        *)
Receive(f) ==
  /\ fetch[f].at = "served"
  /\ verifyKeyRegistry(fetch[f].value)
  /\ cache' = Cached(f, fetch[f].sent)
  /\ Set(f, [at |-> "over"])
  /\ UNCHANGED <<now, cliVars, epoch, published>>

(* The request or its answer is lost. *)
FetchFails(f) ==
  /\ fetch[f].at \in {"sent", "served"}
  /\ Set(f, [at |-> "over"])
  /\ UNCHANGED <<now, cliVars, epoch, published, cache>>

Tick ==
  /\ now < MaxTime
  /\ now' = now + 1
  /\ UNCHANGED <<cliVars, netVars>>

Command(c) ==
  \/ runKeysInit(c) \/ runKeysRotate(c) \/ runKeysRevoke(c) \/ LoadFails(c)
  \/ Rename(c) \/ WriteFails(c) \/ Report(c) \/ Crash(c)

Consumer(f) == Fetch(f) \/ Serve(f) \/ Receive(f) \/ FetchFails(f)

Next ==
  \/ \E c \in Cmds : Command(c)
  \/ \E f \in Fetches : Consumer(f)
  \/ Restart
  \/ Tick

Spec == Init /\ [][Next]_vars

------------------------------------------------------------------------------
(* Properties *)

Held == {r \in {file, published} : r # None}
        \cup IF cache = None THEN {} ELSE {cache.value}

(* Whatever commands overlap, die or are given a wrong private key, and    *)
(* however late an answer is, a registry in the file, at the server or at  *)
(* the consumer verifies, its active key resolves to active and no other   *)
(* key is in use (buildKeyRegistry, save, load, HttpKeyRegistry).          *)
OneKeyInUse ==
  \A r \in Held :
    LET a == Entry(r, r.active)
    IN /\ verifyKeyRegistry(r)
       /\ resolveKey(r, a.publicKey, now) = "active"
       /\ \A k \in Keys : resolveKey(r, k, now) = "active" => k = a.publicKey

(* While operators run one command at a time, a key that `keys revoke`     *)
(* reported as revoked stays revoked in the file through every later       *)
(* command, crash and failed write, until `keys init` starts a new         *)
(* registry ("A revoked key can never be unrevoked", keys.ts).             *)
RevocationKept ==
  exclusive => \A x \in revoked :
    Root(file) = x.root => resolveKey(file, x.key, now) = "revoked"

(* A consumer whose registry was served by a server process started after  *)
(* the revocation was reported resolves the key to revoked, whatever its   *)
(* cache and the order of the answers (FileKeyRegistry, HttpKeyRegistry).  *)
RevocationReachesConsumer ==
  exclusive /\ cache # None => \A x \in revoked :
    x.in < cache.servedIn /\ Root(cache.value) = x.root =>
      resolveKey(cache.value, x.key, now) = "revoked"

(* A registry the consumer answers from was served less than maxAge and    *)
(* less than its ttl ago, however slow the answer was                      *)
(* (HttpKeyRegistry.registry).                                             *)
FreshEnough ==
  cache # None /\ cache.expiresAt > now =>
    now - cache.servedAt < MaxAge /\ now - cache.servedAt < cache.value.ttl

(* The TypeScript, the Go and the Python reader agree: on the verdict of   *)
(* an answer of GET /keys, at the instant it was asked for, whatever is    *)
(* done to it on its way to them, with another signature by a key it lists *)
(* too; and on the status of the keys of every registry there is, at the   *)
(* very instant of a revocation too, though the SDKs look at no clock      *)
(* (verifyKeyRegistry, resolveKey and copies).                             *)
RegistriesReadAlike ==
  /\ \A f \in Fetches : fetch[f].at = "served" /\ fetch[f].sent = now =>
       \A v \in Variants(fetch[f].value) :
         SameVerdict(v) /\ \A e \in Entries(v) : SameVerdict(Resigned(v, e.publicKey))
  /\ \A r \in Held, k \in Keys : SameStatus(r, k, now)
==============================================================================
