# A TLA+ verification of the Glyph protocol implementation

This directory models the parts of the repository that decide something: the
server's routes and its limiter, the consumer with its gates and its files, the
key registry and the commands that edit it, the bridges and integrations that
put glyphs in front of agents, and the pure functions (sanitizers, canonical
forms, importers, the resolver, the conformance suite) that several packages or
languages implement and that must agree. TLC checks the models on small
instances; TLAPS proves every safety property of the seven models that keep
state, the refinement of the confirmation flow, and what the pure functions
promise that need no recursion, for every value of the constants. File names
below are relative to `src/`.

## 1. The system

A **server** (`packages/server`) offers *glyphs*: functions described by a
signed, content-addressed *card*. A **consumer** (`packages/client`) fetches
cards, *pins* the ones a human approved, and calls them; responses carry a
signed receipt. **Core** (`packages/core`) holds the shared pure functions. An
**agent** reaches glyphs through an MCP bridge or a framework integration.
Importers turn OpenAPI documents and MCP tools into glyphs. A CLI edits keys and
pins; Go, Python and browser code verify what the TypeScript code signs.

| component | state | operations | interacts through |
|---|---|---|---|
| server: prepare and call (`server.ts`, `stores.ts`, `policy.ts`, `errors.ts`) | pending confirmations by token, recorded responses by dedupe key, locals of the requests in flight | `/prepare`, `/call` | stores shared by all requests; handler and timer race |
| server: limiter and auth (`middleware.ts`, `stores.ts`) | one counter and window end per bucket | `hit`, the auth gate | in front of every route but `/health` |
| server: registration, cards, manifests (`server.ts`, `define.ts`) | glyphs and manifests by name | `register`, `registerAsync`, `registerManifest`, the production guard | the (possibly remote) signer; read by bridges |
| client: pin gate, approval, updates, receipts (`index.ts`, `pins.ts`, `audit-queue.ts`, `promotion-policy.ts`) | pin, session card cache, parked update per tool | `getCard`, `call`, `approveCard`, `revokeTool`, `processAudits` | HTTP; store and queue shared by all operations |
| client: file stores (`file-pin-store.ts`, `file-audit-queue.ts`; `pinstore.go`, `pin_store.py`) | a lazily loaded Map and a chain of writes; in the SDKs only the file | `get`, `set`, `remove`; `Get`, `Put` | the file system; restarts |
| client: provider trust, attestation (`trust.ts`, `attestation.ts`, `attestation-sigstore`, `core/src/keyless.ts`) | cached trust entries, genesis pins | `resolve`, `enforceGenesis`, five verifiers | the two gates of `call` behind the pin gate |
| core: key registry (`key-registry.ts`) and CLI `keys` | a signed list of keys in a file, cached by its sources | `init`, `rotate`, `revoke`; `FileKeyRegistry`, `HttpKeyRegistry` | the file; `GET /keys` |
| MCP bridges (`adapters/mcp-server`), integrations | card cache, alias map; built tools | `tools/list`, `tools/call`, `glyph_index`, `glyph_invoke`; tools of four frameworks | the client; an approval hook |
| importers (`adapters/openapi`, `adapters/mcp`) | none | document → cards, input → upstream request | the operator's options |
| core functions (`core/src/index.ts`, `json-schema-validator.ts`), browser verifier, SDKs | none | sanitize, canonicalize, verify, diff, complexity guard | everything |
| resolver, conformance suite | none; a bucket of the server under test | `resolve`; `runConformance` | cards; HTTP |

`PROJECT.json` lists every component, also those left out.

**What is hard.** In Node everything runs on one event loop, so trouble comes
from what is read before an `await` and used after it: the backlog a `prepare`
counted, the pin an approval or an update read, the card the session cached,
the queue entry an audit listed, the name `registerAsync` found free, the cards
a bridge has loaded so far. To that add the timer that races the handler,
retries that overlap the call they repeat, backends that reject before or after
taking effect, processes that die between a rename and a report, answers that
overtake each other, caches with two clocks, and four implementations of one
canonical form. `PROJECT.json` lists the hazards with their lines and the
properties that watch them.

**What makes each part correct.**

* Confirmation: a ticket authorises at most one run, of the glyph and input it
  was issued for, by an authorised caller; a token never comes back to life.
* Idempotency: a replay is of the execution asked for; a recorded call is not
  run again. Policy: no effect precedes the scope check. Every request is
  answered.
* Limiter: bounded requests per window, whatever tokens a caller rotates; the
  announced wait suffices.
* Consumer: a revocation sticks; `call` never re-pins a breaking change; only an
  automatic update pins a card that nobody could verify; a payload returned in
  secure mode was produced by a pinned card for this very call; the audit
  promotes what it audited, within the policy.
* Files: what was acknowledged survives restarts and is seen by later reads.
* Keys: one key is in use; a revocation is kept and reaches the consumer; an
  answer is not older than it may be.
* Trust: one genesis per provider; both gates see the same card, the fetched one
  included; nothing that needs an attestation goes out without evidence.
* Agents: only approved runs, of the card that was approved; lists that miss
  nothing; names that reach the glyph they stand for.
* Functions: implementations agree, importers keep the operator in charge, the
  suite's verdict is right.

## 2. Modules

| module | models |
|---|---|
| `GlyphServer` | `/prepare` and `/call` with both memory stores, faults and crashes |
| `ConfirmationTickets` | abstract specification of the confirmation flow, implemented by `GlyphServer` |
| `RateLimiter` | `rateLimitMiddleware`, `authMiddleware`, `MemoryRateLimitStore` |
| `GlyphCards`, `GlyphClient` | cards, `diffCards`, `evaluatePromotion`; the consumer's operations, a server that deploys, the network |
| `FilePinStore` | the pin file, its Map and write chain, the parked-update file, the stores of the Go and the Python SDK, restarts |
| `KeyEntries` | entries, registries and their verification, in three languages |
| `KeyRegistry` | `glyph keys`, the file, a server that publishes it, a caching consumer (extends `KeyEntries`) |
| `ProviderTrust` | `ProviderTrustResolver`, the trust and attestation gates, the verifiers |
| `AgentTools` | registration, both MCP bridges, the integrations, restarts of the server |
| `Sanitizer` | `sanitizeString` and its ports, path sanitizing |
| `Orders` | sorting a finite set by a set of pairs, for canonical forms and rankings |
| `Canonical` | canonical form and verification in four implementations, the signed directory |
| `OpenApiRequests`, `McpAdapter` | upstream requests, credentials and what an import trusts; imported MCP tools |
| `JsonSchemas`, `OpenApiAdapter` | the schemas a card can hold; schemas and references of the OpenAPI importer |
| `SchemaGuard`, `Resolver`, `Conformance` | the complexity guard; keyword ranking; the suite |
| `PureFunctions` | chooses one input of one function that needs no recursion, and states what these functions promise |
| `*_proofs` | inductive invariants, theorems and, in `GlyphServer_proofs`, the refinement (section 4) |
| `MC*` | constants of the runs; `MCFunctions` also holds the properties of the recursive functions |

**Conventions.** An asynchronous function runs from `await` to `await`; each
such stretch is one action and a program counter tells where it is suspended. A
store operation is atomic and takes effect in the step that starts its `await`;
its result sits in a local until the next step. Operators called `Name_Variant`
are faulty variants of `Name` that no specification uses; each shows that some
property can fail.

**GlyphServer.** `pending` and `dedupe` are the two Maps. A request draws at
most one token and one callId, so the request itself stands for both. A glyph
name or callId is its text split at colons (`parts`), because the dedupe key is
the colon-joined text: `KeyText`. `Continue(r)` is everything the event loop
and the timer do for `r`; `HandlerSettles` and `HandlerSettlesLate` belong to
the glyph's author. `Fault` is a rejected await whose operation took effect or
not; `DedupePutFails` is the one place where something observable (the audit
hook) happened in the same stretch before the failing operation. `minted` and
`prior` are history.

**RateLimiter.** `hit` runs in the same stretch as `Date.now()`, so a request
is one action. `log` is history.

**GlyphClient.** All state is keyed by the tool's name, so one tool shows every
interaction. A card is its id (hashing is injective, so the id stands for the
content), its key, and what `verifyGlyph` finds. `config` holds the constructor
options and is chosen in `Init`, so one run compares several clients. The trust
and attestation gates are sets of cards they let through; `ProviderTrust` opens
them. `Deploy`, `ServerAnswersCard`, `ServerRuns`, `ServerAnswersManifest` and
`Envelopes` are external. `config.uses` are the operations the application
performs; any of them may overlap any other, up to `MaxInFlight`, as nothing in
the client makes them take turns. `seen` is history: what the pin was since an
operation began, which is what a step that acts on an earlier read can be held
to. An entry of the queue remembers the card it was parked over (`over`).

**FilePinStore.** `store` chooses the implementation. A TypeScript Map is an
object named by the operation that created it, and a pin by the `set` that
stored it; so two loads give two Maps. `payload` is what the head of
`writeChain` is writing. A failed flush leaves the chain rejected for good
(`poisoned`), as `then` on a rejected promise does. The SDK stores keep no Map:
Go's `Put` reads, adds and renames under a mutex, Python's without one and in
one thread. Each implementation has its own file: the TypeScript file keys pins
by name, the SDKs list them, although both say version 1.

**KeyRegistry.** A command is a process: it reads the file, builds a registry,
verifies and renames it, then reports; it may die at each point. `exclusive`
says whether operators run one command at a time. `told` and `lost` are the keys
whose private half was or was not printed. The server's `FileKeyRegistry` loads
once per process; the consumer's `HttpKeyRegistry` keeps an answer for
`min(ttl, maxAge)` from when it asked. A fingerprint stands for its key.

**ProviderTrust.** A call goes through `enforceTrust` and `ensureAttested`, each
of which takes the cached card or fetches it. The explicit entry, the trust file
and the well-known document are the sources; what one returns is cached and then
measured against the genesis pin. `resolver` says whether the options have a
resolver, and whether a restarted client gives it the saved pins; without one
`enforceTrust` makes a resolver for each call (`client/src/index.ts:684`). A
genesis may be the empty string, which `isValidEntry` admits. `refreshed` is
history: somebody else replaced the cached card since the call took its own. A
payload parses as its `shape`; an X.509 chain verifies or not.

**AgentTools.** A request of an agent runs through one consumer: the
eager bridge, the same without cache, the lazy bridge, or one of the four
framework packages.
The gates inside `POST /call` are those of `GlyphServer`, so a call is one step
here. A ticket is a request (which stands for the token and the input) and a
name, because the server stores and compares no card (`server.ts:490-494`,
`:590-593`); the hook is shown the card of that moment. `replaced` is history:
the cards that a `registerAsync` which finished late took out of the registry.
`coded` says whether the client's errors carry a code; those of
`GlyphClient` do not, and the integrations are written for those that do.
`epoch` counts restarts of the server, which lose glyphs and tickets.

**Functions.** Texts are sequences over a few characters, one per class that the
sanitizers tell apart; an object is the sequence of its names, so that the order
of arrival is visible; schemas are records of the keywords the importers read; a
tool name is a sequence of words and separators; a header keeps the case the
document spells it in, and cookies are a sequence of sets, those of the caller
before those of the credentials. Each module states what its functions promise as
operators (`SignedTravels`, `CardAllows`, ...); a state is one input, and a
property asserts the promise for it. Only the sanitizers, the translation of
schemas and the complexity guard are recursive: `Sanitizer`, `JsonSchemas`,
`OpenApiAdapter` and `SchemaGuard` are reached from `MCFunctions` alone.
`PureFunctions` has the rest, which sorts by ranks (an element's place is the
number of elements before it) and counts scores, and carries theorems.
`Conformance` models a server under test by the set of checks it answers wrongly.

## 3. Runs

`CHECK_DEADLOCK FALSE` everywhere: the set of requests, operations or commands
is finite, and when all are over nothing is left to do.

| run | checks | instance |
|---|---|---|
| `server_confirm` | `TypeOK`, `ConfirmedRunHasOwnTicket`, `TokensStayDead`, `BacklogRetryAfterFreesASlot`, `ImplementsTickets` | 4 requests, 2 inputs, backlog of 2, tickets that live 1.5 "seconds" |
| `server_dedupe` | `ResponseOfOwnExecution`, `RetryIsReplayed` | 3 requests, 2 glyphs (one confirmed) and an unknown one, 2 inputs, records that expire |
| `server_faults` | `PolicyBeforeEffects`, `AuditedRunsReturned`, `EveryRequestAnswered` | 2 requests, every await may reject, crashes, a required scope |
| `limit_windows` | `AtMostMaxPerWindow`, `WaitingIsEnough` | 5 requests, verified/fake/no token, 2 addresses, windows of 2 ticks, 5 instants |
| `client_overlap` | `DeliveredFromPinned`, `UnsignedPinsAreUpdates`, `RevocationSticks`, `RevokedNeverRuns`, `CallNeverRepinsBreaking`, `PromoteExactlyAudited`, `PromotedWithinPolicy` | 3 operations of which any 2 overlap, 7 cards (one rekeyed, two unsigned, one with a bad signature), 2 deployments, no, an approved, a revoked or a risky stored pin, four clients: trust on first use with all gates, secure mode over a bad network, and two that audit and promote |
| `pins_durable` | `AcknowledgedSurvives`, `ReadsSeeAcknowledged`, `EveryOperationSettles` | 3 implementations, 3 operations on 2 tools, failing reads and writes, one restart |
| `keys_registry` | `OneKeyInUse`, `RevocationKept`, `RevocationReachesConsumer`, `FreshEnough`, `RegistriesReadAlike` | 3 commands, 2 at a time or exclusive, 3 keys, 2 fetches, one server restart; an answer may be changed on its way to a reader |
| `trust_gates` | `OneGenesis`, `GatesSeeSameCard`, `SentWithEvidence` | 2 calls, 8 cards with every kind of attestation, 6 trust entries (one with an empty genesis), 6 clients, 3 changes or restarts |
| `agent_bridge` | `OnlyApprovedRuns`, `ListsAreRight` | 2 requests, 3 names of which two collide in MCP, 5 definitions, 2 registrations per process, one restart, 5 consumers |
| `functions` | `SanitizersAgree`, `SignedDocumentsTravel`, `CardsMeanTheirDocuments`, `OperatorStaysInCharge`, `RiskSurvivesRenaming`, `ComplexityExact`, `BestMatchesFirst`, `SuiteVerdictIsRight` | texts of 4 characters, objects of 3 names, nested schemas with acyclic and cyclic references, requests with 2 parameters and 2 schemes (headers in two spellings, `Cookie` and `Content-Type` among them, and cookies), trees of depth 4, servers with at most two faults |

Two runs end in a violation, of something the repository says:

| run | what TLC shows |
|---|---|
| `client_unsigned` | `client/src/index.ts:410-412` says of cards without a signature: "they cannot be verified or pinned, and the pin gate rejects them downstream"; a client with default options replaces an approved pin by an unsigned card whose intent was reworded (`:738-745`) |
| `agent_hook` | `integrations/langchain/src/index.ts:18` promises an "Approval hook invoked when a glyph carries `requiresConfirmation: true`", and the tools wait for an error with the code `CONFIRMATION_REQUIRED`; `GlyphClient.post` throws errors without a code, so the tool ends with the refusal and the hook is never asked |

**Bounds.** Two requests or operations make a race; a third is needed where a
ticket or an approval must exist first, a fourth to let two tickets coexist.
Three commands rotate, revoke and rotate again. Clocks run just past one expiry
of every record. `SweepBatch = 1` makes the bounded sweeps leave something
behind; `TicksPerSecond = 2` makes rounding visible. One restart is enough:
after it a process is as new, with a file. Symmetry over requests, inputs,
operations, commands, fetches and addresses is sound because no definition
tells them apart; runs with liveness use none.

**Fairness.** `server_faults`: weak fairness of `Continue(r)`: Node runs every
ready continuation and fires every armed timer. Handlers have none, and may
never settle; requests need not arrive. `pins_durable`: weak fairness of each
operation's own steps and of the head of the write chain: file operations
settle one way or the other, the threads of the SDKs run, and a released mutex
goes to one that waits for it.

**Where the passing instances stop.** These properties hold as configured and
fail beyond; each can be reproduced by changing the constants of the run named,
or follows from the step cited.

* `ResponseOfOwnExecution`, with `CallIds = {c1, c2}` in `server_dedupe`: glyph
  `a` with callId `b:c` and glyph `a:b` with callId `c` share a dedupe key
  (`server.ts:554`), and one gets the other's response.
* The backlog limit is exceeded by overlapping `prepare`s: each sweeps and sees
  room before any stores. A retry that overlaps its original finds no record
  and runs the handler again; `RetryIsReplayed` is about recorded calls.
* The backlog's announced wait frees a slot; it does not reserve one for the
  caller that waits.
* The consumer's operations read the pin, wait and write it. The properties of
  `client_overlap` hold for all overlaps because they say what a writer can be
  held to, which is what it may have read, and each names what remains:
  `RevocationSticks` does not stop an approval, a first use, an update or a
  promotion that was *already under way* when the tool was revoked, and
  `RevokedNeverRuns` not a call that passed the gate before
  (`index.ts:494-534`); `CallNeverRepinsBreaking` lets two first calls that
  straddle a key change pin over each other (`:720-726`);
  `PromotedWithinPolicy` is about promotions over the card the update was parked
  over, because after an approval in between the policy judges a difference that
  is no longer the one being made (`:913`).
* A card fetched before a deployment and approved after it lets `call` reach the
  server with a stale cache; in secure mode the receipt check withholds the
  payload (`DeliveredFromPinned`), but the handler has run.
* `PinnedCardsVerify` is refuted by `client_unsigned`. What holds of every client
  is `UnsignedPinsAreUpdates`: an unsigned card comes in by an automatic update
  of a compatible approved pin, and by neither approvals nor first use.
* `PromoteExactlyAudited`, with `"rekeyed"` among the cards that `Announced` or
  `AnyUpdate` deploy: the parked entry is replaced during its audit by a card
  with the same id and another key; ids are compared, keys are not
  (`index.ts:841`).
* `AcknowledgedSurvives` and `ReadsSeeAcknowledged`, with `ColdConcurrency =
  TRUE` in `pins_durable`: two first operations load a Map each, and the flush
  of one drops what the other acknowledged (`file-pin-store.ts:54`).
  `EveryOperationSettles` holds there too.
* `RevocationKept` without `exclusive`: two commands read the same file, and the
  later rename drops the revocation of the earlier. A `rotate` killed between
  rename and report leaves an active key whose private half nobody has (`lost`);
  `OneKeyInUse` holds, and only `init` helps.
* Overlapping `registerAsync` of one name: both pass the check, and the later
  signature wins (`server.ts:258`). `ListsAreRight` holds all the same. A ticket
  that was shown for the earlier card then runs the later one, for a ticket holds
  the name and the input (`server.ts:490-494`, `:590-593`), although the comment
  at `:560-562` calls it bound "to this exact glyph and input".
  `OnlyApprovedRuns` names that case (`replaced`) and no other.
* `OneGenesis` is about a configured resolver that is given its saved pins.
  Without one in the options each call makes its own (`client/src/index.ts:684`),
  which pins nothing beyond the call. An entry whose `genesisKey` is the empty
  string is valid, claims no genesis and is let past any pin
  (`trust.ts:128-129`).
* `GatesSeeSameCard`, when another call or the application fetches the card
  between the two gates of a call: the second gate then judges the new card.
* `SentWithEvidence` lets a Sigstore bundle through that is bound to nothing,
  where its verifier was given no expected digest
  (`attestation-sigstore/src/index.ts:129-156`). RFC-0008 asks for more (3.2: "a
  conforming verifier MUST enforce a subject binding"; also 4.1 and 6).
* The resolver caches an entry before it measures it against the genesis pin
  (`trust.ts`): a stranger's entry may stay cached and keep the provider out
  until a restart. `OneGenesis` holds; availability is not promised. With
  `allowUnknownProviders` a mismatch counts as unknown and is let through.
* `OperatorStaysInCharge` names three ways around its rule that a name holds
  the credential alone, all of them up to the document: a cookie parameter of the
  credential's name is sent before the credential
  (`packages/adapters/openapi/src/index.ts:394`, `:472`), and which of the two
  counts is up to the upstream; a header parameter `authorization` keeps its own
  spelling next to `Authorization` (`:391`, `:453`), and `fetch`, to which a
  header has no case, joins the two; and a credential or an input in a header
  `Cookie` or `Content-Type` is lost when the handler writes its own (`:403`,
  `:410`).
* `SuiteVerdictIsRight` asks for runs with the discovery level: the execution
  level alone passes for a server that does not answer, because there are no
  cards to call. And it asks for room in the server's limit: the burst of the
  security level uses up the bucket the governance level then needs.

**Differences between implementations.** Sanitizing: `core.py:76-77` calls its
copy byte-identical and `sanitize.go:123` says that it mirrors core's, but the
SDKs strip U+2060, which core keeps, and count an NFKC change once, where core
counts characters. `SanitizersAgree` states these two departures exactly, and that
there is no other. Outside what the
checked documents contain: JavaScript lists integer-like keys first, so canonical
forms differ for objects with such keys; the SDKs call "retired" what TypeScript
calls "expired" (`RegistriesReadAlike` maps one to the other); object keys are
not sanitized anywhere.

## 4. Proofs

Each proof module assumes only the named assumption of its specification
(natural bounds, distinct model values, known verifier names), which TLC
evaluates in the runs. Every theorem is for any number of requests, operations,
commands, cards and names and any bounds. A theorem that needs more states it as
a hypothesis, listed in the last column; the instance of the run satisfies it,
and section 3 tells what happens without it.

| module | theorem | states | supposes |
|---|---|---|---|
| `GlyphServer_proofs` | `TypeCorrect` | `TypeOK` | |
| | `SingleUse` | `ConfirmedRunHasOwnTicket` | |
| | `ScopesBeforeEffects` | `PolicyBeforeEffects` | |
| | `DeadTokens` | `TokensStayDead` | |
| | `AuditIsOfReturned` | `AuditedRunsReturned` | |
| | `OwnResponses` | `ResponseOfOwnExecution` | `KeysUnambiguous`: no two pairs of name and callId join to one text |
| | `RetriesAreReplayed` | `RetryIsReplayed` | |
| | `BacklogDelaySuffices` | `BacklogRetryAfterFreesASlot` | |
| | `Refinement` | `ImplementsTickets` | |
| `RateLimiter_proofs` | `TypeCorrect` | `TypeOK` | |
| | `WindowsHold` | `AtMostMaxPerWindow` | |
| | `AnnouncedWaitSuffices` | `WaitingIsEnough` | |
| `GlyphClient_proofs` | `PayloadsFromPinnedCards` | `DeliveredFromPinned` | |
| | `RevokedToolsDoNotRun` | `RevokedNeverRuns` | |
| | `RevocationsStick` | `RevocationSticks` | |
| | `CallsRepinCompatible` | `CallNeverRepinsBreaking` | |
| | `PromotesWhatItAudited` | `PromoteExactlyAudited` | `OneCardPerId`: no two cards share an id and differ in key or signature |
| | `PromotionsWithinPolicy` | `PromotedWithinPolicy` | |
| | `UnsignedPinsExplained` | `UnsignedPinsAreUpdates` | |
| `FilePinStore_proofs` | `PinsSurvive` | `AcknowledgedSurvives` | `Covered`: an SDK's store, or no operation starts while the first load runs |
| | `ReadsAreCurrent` | `ReadsSeeAcknowledged` | `Covered` |
| `KeyRegistry_proofs` | `OneKeyAlways` | `OneKeyInUse` | |
| | `RevocationsLast` | `RevocationKept` | |
| | `RevocationsArrive` | `RevocationReachesConsumer` | |
| | `CacheIsFresh` | `FreshEnough` | |
| | `ReadersAgree` | `RegistriesReadAlike` | |
| `ProviderTrust_proofs` | `TypeCorrect` | `TypeOK` | |
| | `GenesisIsPinned` | `OneGenesis` | |
| | `OneCardForBothGates` | `GatesSeeSameCard` | |
| | `EvidenceBeforeSending` | `SentWithEvidence` | |
| `AgentTools_proofs` | `ApprovalBeforeRunning` | `OnlyApprovedRuns` | |
| | `ListsHold` | `ListsAreRight` | |
| `PureFunctions_proofs` | `DocumentsTravel` | `SignedDocumentsTravel` | |
| | `ShownNamesTellRisk` | `RiskSurvivesRenaming` | |
| | `BestComeFirst` | `BestMatchesFirst` | |
| | `OperatorInCharge` | `OperatorStaysInCharge` | |
| | `SuiteIsRight` | `SuiteVerdictIsRight` | |

No theorem assumes that operations take turns. The exceptions that the code
forces are part of the properties themselves, where section 3 lists them.

**GlyphServer.** That a run had a ticket of its own says nothing of a request
that has consumed an entry and not yet looked at it. `IInv` adds to `TypeOK`:
`Stage` (what each `pc` implies), `Minted` (a stored entry is what the admitted
`/prepare` of its token asked for), `Holds` (a request that was given an entry
is the only one, and the entry is gone from the store: the heart of single use,
false if `consume` were a read followed by a delete) and `Runs` (a handler runs
for an admitted call that holds a matching entry). `RInv` follows an execution
into the stores on top of it: `Audited` (the audit entry comes after the handler
settled and before the record), `Recorded` (a record is of an audited execution
with its key), `Replays` (an answer is of the request's own run or of a recorded
one with the same key), `Retries` (while the record a retry found on arrival is
alive, the store has one that expires no earlier: a later `put` may replace it,
a sweep may not drop it) and `Counted` (the earliest expiry a sweep reported is
of one of the tickets it counted).

**The refinement.** `StateMeans` says what the four abstract states of a ticket
are in the stores: `live` is stored, `claimed` is taken by a request that has
not judged it, `spent` is minted and neither. It follows from `IInv`; every
action then moves one ticket along the abstract life cycle or none, and a crash
or an expiry moves several to `spent` at once.

**RateLimiter.** The counter must be tied to the history: `Counts` says it
covers the requests that passed in the window, and `Past` that a caller with a
request at this instant has an open window, so that a window opened anew starts
from nothing. The sweep is harmless because it drops only windows that have run
out. `CeilingCovers` is the arithmetic of `Retry-After`.

**GlyphClient.** `Inv` says what every suspended operation keeps, by the point
where it waits (`Locals`), and ties it to what the pin was since the operation
began: a pin it read and will act on is one of those (`ReadPoints`), a call past
the pin gate has one that is approved among them (`Approved`), a card to be pinned
by an approval was verified, and a report is of the card that was listed with the
difference to the card it was parked over (`Entries`). It speaks of the locals of
one operation and of its own history only, and a history grows; so it is
inductive however operations overlap (`LocalsGrow`), and the properties follow
step by step. `PinWriter` names the five steps that write the pin: each goes by
a pin that it read (`WriterRead`), and so never lifts a revocation that lasted as
long as itself. The receipt check compares with a pin read after the answer
(`DeliveryStep`). `DiffIsBreaking` says that `diffCards` asks for approval
exactly on a breaking change, whence updates and the policy of promotions;
`PromotionStep` is what a promotion knows about the card it pins.

**FilePinStore.** The client's store has one Map once it is loaded (`Loading`,
`OneMap`); the Map has every acknowledged change and every change still on the
chain, and so has what the head of the chain is writing (`ChainInv`,
`Writing`): therefore a flush never takes the file back, and neither does a
flush that fails or dies. `SdkInv` is the same for a store without a Map: a
`Put` works on the file as it still is, by the mutex in Go and by the single
thread in Python.

**KeyRegistry.** `Doc` is what every registry is, wherever it is held: a chain
of entries with one key each, of which only the last is neither retired nor
revoked. It is preserved by the three commands' functions (`Retired`, `Updated`)
and by time. `FileInv` and `CommandInv` carry the reported revocations from the
file to the registry that a command is about to write; this needs that a new key
is not one of the file (`Used`), and that commands exclude each other
(`exclusive`, a premise of the two properties about revocation).
`ServerInv`, `FetchInv` and `CacheInv` carry the same facts to the consumer, with
the epoch of the server process that answered and the time it was asked. For
the readers, `Doc` is what makes three status functions one: `VerdictsAgree`
needs no invariant, but the SDKs look at no clock and `StatusesAgree` holds
because a registry made by the commands retires a key at a time already past.

**ProviderTrust.** `SentWithEvidence` is inductive next to the types, and
`OneGenesis` next to `Pinned`, which adds that the entry with which a call passed
has a genesis or an empty one. `GatesSeeSameCard` needs `SameCard`: before the
second gate the call's card, if signed, is the cached one unless somebody else
replaced it; and a second fetch happens only if the first gate saw an unsigned
card. `TrustedHasEvidence` goes through the five verifiers.

**AgentTools.** `Tickets` says that a request owns no ticket before it prepared
one, and goes on only if the hook said yes; while it has one, the card it
showed to the hook is the registered one or one that was replaced (`Current`),
which needs that what is registered under a name has that name (`Registered`).
Three lemmas serve the many actions: quiet steps of a request, steps of the
server, and steps that run a handler. `DInv` is about discovery. `Covered`
follows what the first lexicon held through the names still to fetch and the
cards already there. For the names, one lexicon has to decide all: the lexica
that one process serves grow, so any two that requests loaded are comparable,
and `Known` names the largest that was loaded completely, in which no two names
share an MCP name because the load of an eager bridge fails on a clash. The
assumption includes that sanitizing a sanitized name changes nothing.

**PureFunctions.** Its one assumption, `InputAssumption`, gives the inputs their
types and no bound; the invariant `Chosen` says that a state is such an input,
and the rest is what the functions return.
Canonical forms and rankings are sorted. `Rank` counts the elements before one;
under a strict total order it is injective into `0 .. n - 1` (`Ranks`), hence
onto by counting (`RanksAreTaken`), so a sorted sequence lists every element
once and in order (`SortedLists`). Comparison of names by code units is such an
order, so a canonical form depends on the set of names only and determines it
(`FormsIdentify`), and a signature travels; an engine that lists array indices
first has another order, which is the exception the property names.
A kebab-case word stands alone wherever a searched word does (`KebabKeepsWords`).
An entry that names every token beats one that misses a token because hits are
cardinalities of disjoint sets of places (`FullBeatsPartial`).
Of several requirements for one slot the last applied counts: the greatest
element of a finite set of places (`Greatest`, `LastOneCounts`). Overriding then
leaves, under the slot's name, the credential alone, and elsewhere every
parameter, and the handler's own headers take no other's place (`NothingJoins`,
`HeaderIsCredential`, `QueryIsCredential`); among the cookies the credential
comes after everything of the caller (`CookieIsLast`).
The suite is a sequence of probes that share one bucket. `Probed` and `Tells` say
what a stretch of it shows: the requests it adds at most, that a server which
answers rightly passes it while there is room, and that a stretch without
failures means its checks are answered rightly. They compose (`Compose`) through
the four levels, with the discovery level learning the lexicon that the others
use and the burst counted against the limit.

**Only model-checked.** Liveness (`EveryRequestAnswered`,
`EveryOperationSettles`): fairness is beyond the prover. `SanitizersAgree`,
`CardsMeanTheirDocuments` and `ComplexityExact`: texts, schemas and trees are
traversed by recursive definitions, and what such a definition computes for every
input takes induction over data, which is beyond it too. `PinnedCardsVerify` and
`HookAsked` are false.

## 5. Not modelled

* Hashing and Ed25519: ids are injective and signatures unforgeable. X.509,
  sigstore and Ajv are libraries.
* The handshake negotiates a version string and keeps nothing. Rendering, the
  OpenTelemetry exporter, type declarations and the examples change no state of
  the system. Ranking by embeddings is floating point.
* The CLI's `init`, templates, `import-mcp` and terminal output. `pins` calls the
  operations of `GlyphClient` from another process; `glyph pins revoke` does not
  reach the Map of a client that runs, which `file-pin-store.ts:21` excludes.
* Importers: string formats, and required bodies that are not JSON.
* The HTTP clients of the Go and Python SDKs: sequential wrappers.
* The wait for a well-known document has no timeout (`trust.ts:159`); the model
  lets it fail at any time and nothing promises that it ends.
* Requests whose remote address is unknown share one bucket of the limiter; it
  is an address like any other. Log output, error wording and hook callbacks
  that cannot change state.

## 6. What is left

1. Theorems about the recursive functions: they take the library's induction
   theorems, whose operator parameter the SMT and first-order backends cannot
   instantiate.
2. `glyph pins revoke` next to a running client: a second process in
   `FilePinStore`, of which the code promises nothing today.
