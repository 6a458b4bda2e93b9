----------------------------- MODULE GlyphServer -----------------------------
(***************************************************************************)
(* The two stateful routes of packages/server/src/server.ts,               *)
(* POST /glyphs/:name/prepare and POST /glyphs/:name/call, with the stores *)
(* they share (packages/server/src/stores.ts).                             *)
(*                                                                         *)
(* A request is an asynchronous function.  What it does between two awaits *)
(* is one action; other requests, the clock, a crash or a failing backend  *)
(* may come in between.  A store operation (sweep, put, consume, get) is   *)
(* atomic and runs in the step that starts the await; its result is kept   *)
(* in a local variable of the request and looked at in the next step.  The *)
(* same steps describe several replicas that share their stores.           *)
(*                                                                         *)
(* The server draws randomUUID() for a confirmation token and for a callId.*)
(* A request draws at most one of each, so the request stands for both.    *)
(***************************************************************************)
EXTENDS Integers, Sequences, FiniteSets, FiniteSetsExt

CONSTANTS
  Requests,        \* HTTP requests; also the tokens and callIds they draw
  Names,           \* glyph names a caller may put in the path
  Glyphs,          \* the registered ones
  Confirmed,       \* glyphs whose card says cost.requiresConfirmation
  Inputs,          \* parsed inputs, one per canonicalHash
  BadInput,        \* a body that is malformed, too large or fails the schema
  CallIds,         \* idempotency keys chosen by clients
  parts,           \* the text of a glyph name or a callId, split at its colons
  Scopes,
  requiredScopes,  \* card.requiredScopes of each glyph
  ConfirmationTTL, \* CONFIRMATION_TTL_MS, in clock ticks
  MaxPending,      \* maxPendingConfirmations
  DedupeOn,        \* is dedupeByClientCallId configured?
  DedupeTTL,       \* dedupe.ttlMs, in clock ticks
  SweepBatch,      \* expired entries one MemoryDedupeStore.put drops (100)
  TicksPerSecond,  \* clock ticks in the unit of Retry-After
  MaxClock,        \* bound on the clock
  FaultPoints,     \* awaits that may reject (remote store, remote signer)
  MayCrash,        \* may the process crash and lose its in-memory stores?
  None

(* The states of a request that are suspended on an await that can reject. *)
Awaits == {"received", "swept", "minted", "lookedUp", "consumed",
           "signing", "recording"}

ASSUME ConstantsAssumption ==
  /\ Glyphs \subseteq Names
  /\ Confirmed \subseteq Glyphs
  /\ BadInput \notin Inputs
  /\ None \notin Requests /\ None \notin CallIds
  /\ requiredScopes \in [Glyphs -> SUBSET Scopes]
  /\ ConfirmationTTL \in Nat /\ DedupeTTL \in Nat
  /\ MaxPending \in Nat
  /\ SweepBatch \in Nat \ {0} /\ TicksPerSecond \in Nat \ {0}
  /\ MaxClock \in Nat
  /\ IsFiniteSet(Requests)
  /\ DedupeOn \in BOOLEAN /\ MayCrash \in BOOLEAN
  /\ FaultPoints \subseteq Awaits

VARIABLES
  clock,    \* Date.now()
  pending,  \* MemoryConfirmationStore.entries, by token
  dedupe,   \* MemoryDedupeStore.entries, by dedupeKey
  pc,       \* where each request is suspended
  msg,      \* what the caller sent
  backlog,  \* local of /prepare: now, the result of sweep(now), and as
            \* history the tokens its size counted
  cached,   \* local of /call: the execution dedupe.get returned
  got,      \* local of /call: the entry consume returned
  handler,  \* the glyph handler this request started
  audit,    \* receipts handed to the onCall hook
  resp,     \* the response sent
  minted,   \* history: requests whose token was put in the store
  prior     \* history: the dedupe entry of the request's key when it arrived

stores == <<pending, dedupe>>
locals == <<backlog, cached, got>>
vars == <<clock, pending, dedupe, pc, msg, backlog, cached, got,
          handler, audit, resp, minted, prior>>

Statuses == Awaits \cup {"idle", "handling", "done", "lost"}

Codes == {"none", "TICKET", "OK", "NOT_FOUND", "VALIDATION_FAILED",
          "INSUFFICIENT_SCOPE", "CONFIRMATION_BACKLOG_FULL",
          "CONFIRMATION_REQUIRED", "INVALID_CONFIRMATION",
          "HANDLER_TIMEOUT", "HANDLER_ERROR", "OUTPUT_VALIDATION_FAILED",
          "INTERNAL_ERROR"}

PendingConfirmation ==
  [glyphName : Glyphs, inputHash : Inputs, expiresAt : Nat]

(* `${name}:${clientCallId}:${hash}`.  Neither the name nor the callId is  *)
(* kept from containing a colon; the hash is hexadecimal.                  *)
KeyText(n, c, i) == <<parts[n] \o parts[c], i>>

DedupeKeys == {KeyText(n, c, i) : n \in Glyphs, c \in CallIds, i \in Inputs}

DedupeRecord == [of : Requests, expiresAt : Nat]

(* undefined is no stored ticket, no recorded response, no dedupe key and  *)
(* no time.                                                                *)
ASSUME NoneAssumption ==
  /\ None \notin PendingConfirmation /\ None \notin DedupeRecord
  /\ None \notin DedupeKeys /\ None \notin Nat

Messages ==
  [kind : {"prepare", "call"}, name : Names, input : Inputs \cup {BadInput},
   scopes : SUBSET Scopes, callId : CallIds \cup {None},
   token : Requests \cup {None}]

Responses == [code : Codes, of : Requests \cup {None}, retryAfter : Nat]

NoBacklog ==
  [now |-> 0, size |-> 0, earliestExpiresAt |-> None, counted |-> {}]

NoResponse == [code |-> "none", of |-> None, retryAfter |-> 0]

Init ==
  /\ clock = 0
  /\ pending = [t \in Requests |-> None]
  /\ dedupe = [k \in DedupeKeys |-> None]
  /\ pc = [r \in Requests |-> "idle"]
  /\ msg = [r \in Requests |-> None]
  /\ backlog = [r \in Requests |-> NoBacklog]
  /\ cached = [r \in Requests |-> None]
  /\ got = [r \in Requests |-> None]
  /\ handler = [r \in Requests |-> "none"]
  /\ audit = {}
  /\ resp = [r \in Requests |-> NoResponse]
  /\ minted = {}
  /\ prior = [r \in Requests |-> None]

------------------------------------------------------------------------------
(* Helpers *)

Answer(r, code, of, retryAfter) ==
  /\ pc' = [pc EXCEPT ![r] = "done"]
  /\ resp' = [resp EXCEPT ![r] = [code |-> code, of |-> of,
                                  retryAfter |-> retryAfter]]

errorResponse(r, code) == Answer(r, code, None, 0)

Goto(r, status) ==
  /\ pc' = [pc EXCEPT ![r] = status]
  /\ UNCHANGED resp

missingScopes(m) == requiredScopes[m.name] \ m.scopes

(* Faulty variant: the input is left out of the key. *)
dedupeKey_NoInput(m) == IF DedupeOn /\ m.callId # None
                          THEN KeyText(m.name, m.callId, CHOOSE i \in Inputs : TRUE)
                          ELSE None

(* The key is undefined (None) without a client callId or without dedupe. *)
dedupeKey(m) == IF DedupeOn /\ m.callId # None
                  THEN KeyText(m.name, m.callId, m.input)
                  ELSE None

Live(entry) == entry # None /\ clock < entry.expiresAt

Expired(entry) == entry # None /\ clock >= entry.expiresAt

(* Tokens a caller can know: the tickets that were delivered. *)
Delivered == {t \in Requests : resp[t].code = "TICKET"}

------------------------------------------------------------------------------
(* Requests arrive.  The path is looked up synchronously; reading the body *)
(* and resolving the principal are awaits that touch no shared state.      *)

Arrive(r, m) ==
  /\ pc[r] = "idle"
  /\ msg' = [msg EXCEPT ![r] = m]
  /\ IF m.name \notin Glyphs
       THEN errorResponse(r, "NOT_FOUND") /\ UNCHANGED prior
       ELSE /\ Goto(r, "received")
            /\ prior' = [prior EXCEPT ![r] =
                 IF m.kind = "call" /\ dedupeKey(m) \in DedupeKeys
                   THEN dedupe[dedupeKey(m)] ELSE None]
  /\ UNCHANGED <<clock, pending, dedupe, backlog, cached, got, handler,
                 audit, minted>>

ArrivePrepare(r) ==
  \E n \in Names, i \in Inputs \cup {BadInput}, s \in SUBSET Scopes :
    Arrive(r, [kind |-> "prepare", name |-> n, input |-> i, scopes |-> s,
               callId |-> None, token |-> None])

(* A token is absent, a delivered one, or one the server never issued (the *)
(* request's own id, which no /prepare drew).                              *)
ArriveCall(r) ==
  \E n \in Names, i \in Inputs \cup {BadInput}, s \in SUBSET Scopes,
     c \in CallIds \cup {None}, t \in Delivered \cup {r, None} :
    Arrive(r, [kind |-> "call", name |-> n, input |-> i, scopes |-> s,
               callId |-> c, token |-> t])

(* The gate both routes share: the schema, then the scopes. *)
Refused(r) ==
  /\ \/ /\ msg[r].input = BadInput
        /\ errorResponse(r, "VALIDATION_FAILED")
     \/ /\ msg[r].input # BadInput
        /\ missingScopes(msg[r]) # {}
        /\ errorResponse(r, "INSUFFICIENT_SCOPE")
  /\ UNCHANGED <<clock, stores, msg, locals, handler, audit, minted, prior>>

(* Faulty variant: the scopes are not checked. *)
Admitted_NoScopes(r) == msg[r].input # BadInput

(* Faulty variant: the input is not validated. *)
Admitted_NoSchema(r) == missingScopes(msg[r]) = {}

Admitted(r) == msg[r].input # BadInput /\ missingScopes(msg[r]) = {}

------------------------------------------------------------------------------
(* POST /glyphs/:name/prepare *)

(* MemoryConfirmationStore.sweep(now): what is left, and its summary. *)
swept(t) == IF Expired(pending[t]) THEN None ELSE pending[t]

sweep(r) ==
  LET left == {t \in Requests : swept(t) # None}
  IN  /\ pending' = [t \in Requests |-> swept(t)]
      /\ backlog' = [backlog EXCEPT ![r] =
           [now |-> clock, size |-> Cardinality(left),
            earliestExpiresAt |-> IF left = {} THEN None
                                  ELSE Min({pending[t].expiresAt : t \in left}),
            counted |-> left]]

PrepareRefused(r) ==
  /\ pc[r] = "received" /\ msg[r].kind = "prepare"
  /\ Refused(r)

PrepareSweep(r) ==
  /\ pc[r] = "received" /\ msg[r].kind = "prepare"
  /\ Admitted(r)
  /\ sweep(r)
  /\ Goto(r, "swept")
  /\ UNCHANGED <<clock, dedupe, msg, cached, got, handler, audit, minted,
                 prior>>

(* Faulty variant: the delay is rounded down. *)
Ceil_Floor(n, d) == n \div d

Ceil(n, d) == (n + d - 1) \div d

(* Math.max(1, Math.ceil((earliestExpiry - now) / 1000)) *)
RetryAfter(b) ==
  LET earliest == IF b.earliestExpiresAt = None
                    THEN b.now + ConfirmationTTL ELSE b.earliestExpiresAt
      seconds  == Ceil(earliest - b.now, TicksPerSecond)
  IN  IF seconds < 1 THEN 1 ELSE seconds

PrepareBacklogFull(r) ==
  /\ pc[r] = "swept"
  /\ backlog[r].size >= MaxPending
  /\ Answer(r, "CONFIRMATION_BACKLOG_FULL", None, RetryAfter(backlog[r]))
  /\ UNCHANGED <<clock, stores, msg, locals, handler, audit, minted, prior>>

(* When the ticket of a /prepare expires: its `now` and the lifetime. *)
expiresAt(r) == backlog[r].now + ConfirmationTTL

(* The limit is compared with the result of the sweep, then put() starts. *)
PreparePut(r) ==
  /\ pc[r] = "swept"
  /\ backlog[r].size < MaxPending
  /\ pending' = [pending EXCEPT ![r] =
       [glyphName |-> msg[r].name, inputHash |-> msg[r].input,
        expiresAt |-> expiresAt(r)]]
  /\ minted' = minted \cup {r}
  /\ Goto(r, "minted")
  /\ UNCHANGED <<clock, dedupe, msg, locals, handler, audit, prior>>

PrepareReply(r) ==
  /\ pc[r] = "minted"
  /\ Answer(r, "TICKET", r, 0)
  /\ UNCHANGED <<clock, stores, msg, locals, handler, audit, minted, prior>>

------------------------------------------------------------------------------
(* POST /glyphs/:name/call *)

StartHandler(r) ==
  /\ handler' = [handler EXCEPT ![r] = "running"]
  /\ Goto(r, "handling")

(* Faulty variant: the entry is fetched and left in the store. *)
consume_Keeps(r, t) ==
  /\ got' = [got EXCEPT ![r] = pending[t]]
  /\ UNCHANGED pending

(* MemoryConfirmationStore.consume(token): fetch and delete. *)
consume(r, t) ==
  /\ got' = [got EXCEPT ![r] = pending[t]]
  /\ pending' = [pending EXCEPT ![t] = None]

(* From the confirmation gate to the next await. *)
ConfirmationGate(r) ==
  \/ /\ msg[r].name \notin Confirmed
     /\ StartHandler(r)
     /\ UNCHANGED <<pending, got>>
  \/ /\ msg[r].name \in Confirmed
     /\ msg[r].token = None
     /\ errorResponse(r, "CONFIRMATION_REQUIRED")
     /\ UNCHANGED <<pending, got, handler>>
  \/ /\ msg[r].name \in Confirmed
     /\ msg[r].token # None
     /\ consume(r, msg[r].token)
     /\ Goto(r, "consumed")
     /\ UNCHANGED handler

CallRefused(r) ==
  /\ pc[r] = "received" /\ msg[r].kind = "call"
  /\ Refused(r)

(* No dedupe key: there is no await between the scope gate and the         *)
(* confirmation gate.                                                      *)
CallGate(r) ==
  /\ pc[r] = "received" /\ msg[r].kind = "call"
  /\ Admitted(r)
  /\ dedupeKey(msg[r]) = None
  /\ ConfirmationGate(r)
  /\ UNCHANGED <<clock, dedupe, msg, backlog, cached, audit, minted, prior>>

(* MemoryDedupeStore.get(key): an expired entry is deleted, not returned. *)
CallLookup(r) ==
  LET key == dedupeKey(msg[r])
  IN  /\ pc[r] = "received" /\ msg[r].kind = "call"
      /\ Admitted(r)
      /\ key # None
      /\ IF Live(dedupe[key])
           THEN /\ cached' = [cached EXCEPT ![r] = dedupe[key].of]
                /\ UNCHANGED dedupe
           ELSE /\ dedupe' = [dedupe EXCEPT ![key] = None]
                /\ UNCHANGED cached
      /\ Goto(r, "lookedUp")
      /\ UNCHANGED <<clock, pending, msg, backlog, got, handler, audit,
                     minted, prior>>

CallReplay(r) ==
  /\ pc[r] = "lookedUp"
  /\ cached[r] # None
  /\ Answer(r, "OK", cached[r], 0)
  /\ UNCHANGED <<clock, stores, msg, locals, handler, audit, minted, prior>>

(* Faulty variant: the recorded response is looked up and ignored. *)
CallMiss_IgnoresCached(r) ==
  /\ pc[r] = "lookedUp"
  /\ ConfirmationGate(r)
  /\ UNCHANGED <<clock, dedupe, msg, backlog, cached, audit, minted, prior>>

CallMiss(r) ==
  /\ pc[r] = "lookedUp"
  /\ cached[r] = None
  /\ ConfirmationGate(r)
  /\ UNCHANGED <<clock, dedupe, msg, backlog, cached, audit, minted, prior>>

(* Faulty variant: the ticket is not bound to the input. *)
Valid_AnyInput(r) == Live(got[r]) /\ got[r].glyphName = msg[r].name

(* The ticket is for this glyph and this input, and has not expired. *)
Valid(r) ==
  /\ Live(got[r])
  /\ got[r].glyphName = msg[r].name
  /\ got[r].inputHash = msg[r].input

CallConfirmed(r) ==
  /\ pc[r] = "consumed"
  /\ Valid(r)
  /\ StartHandler(r)
  /\ UNCHANGED <<clock, stores, msg, locals, audit, minted, prior>>

(* Faulty variant: a rejected ticket goes back to the store. *)
CallInvalid_PutsBack(r) ==
  /\ pc[r] = "consumed"
  /\ ~Valid(r)
  /\ pending' = [pending EXCEPT ![msg[r].token] = got[r]]
  /\ errorResponse(r, "INVALID_CONFIRMATION")
  /\ UNCHANGED <<clock, dedupe, msg, locals, handler, audit, minted, prior>>

CallInvalid(r) ==
  /\ pc[r] = "consumed"
  /\ ~Valid(r)
  /\ errorResponse(r, "INVALID_CONFIRMATION")
  /\ UNCHANGED <<clock, stores, msg, locals, handler, audit, minted, prior>>

(* The handler settles first: the race of withTimeout is decided for it. *)
HandlerSettles(r) ==
  /\ pc[r] = "handling"
  /\ handler' = [handler EXCEPT ![r] = "settled"]
  /\ \/ errorResponse(r, "HANDLER_ERROR")
     \/ errorResponse(r, "OUTPUT_VALIDATION_FAILED")
     \/ Goto(r, "signing")
  /\ UNCHANGED <<clock, stores, msg, locals, audit, minted, prior>>

(* Faulty variant: no timer is armed. *)
CallTimeout_Never(r) == FALSE /\ UNCHANGED vars

(* Faulty variant: a timed-out call still goes on to sign a receipt. *)
CallTimeout_Signs(r) ==
  /\ pc[r] = "handling"
  /\ Goto(r, "signing")
  /\ UNCHANGED <<clock, stores, msg, locals, handler, audit, minted, prior>>

(* The timer fires first: the caller is answered, the handler goes on.     *)
CallTimeout(r) ==
  /\ pc[r] = "handling"
  /\ errorResponse(r, "HANDLER_TIMEOUT")
  /\ UNCHANGED <<clock, stores, msg, locals, handler, audit, minted, prior>>

(* A handler that outlived its request settles; nobody awaits it.          *)
HandlerSettlesLate(r) ==
  /\ pc[r] = "done" /\ handler[r] = "running"
  /\ handler' = [handler EXCEPT ![r] = "settled"]
  /\ UNCHANGED <<clock, stores, pc, msg, locals, audit, resp, minted, prior>>

(* MemoryDedupeStore.put: drops up to SweepBatch expired entries, whichever *)
(* were inserted first, then records the response.                          *)
put(key, r) ==
  LET expired == {k \in DedupeKeys : Expired(dedupe[k])}
  IN  \E gone \in SUBSET expired :
        /\ \/ gone = expired
           \/ Cardinality(gone) = SweepBatch
        /\ Cardinality(gone) <= SweepBatch
        /\ dedupe' = [k \in DedupeKeys |->
             IF k = key THEN [of |-> r, expiresAt |-> clock + DedupeTTL]
             ELSE IF k \in gone THEN None ELSE dedupe[k]]

(* The receipt is signed: the audit hook runs, the response is recorded.   *)
CallSigned(r) ==
  LET key == dedupeKey(msg[r])
  IN  /\ pc[r] = "signing"
      /\ audit' = audit \cup {r}
      /\ \/ /\ key # None
            /\ put(key, r)
            /\ Goto(r, "recording")
         \/ /\ key = None
            /\ Answer(r, "OK", r, 0)
            /\ UNCHANGED dedupe
      /\ UNCHANGED <<clock, pending, msg, locals, handler, minted, prior>>

CallReply(r) ==
  /\ pc[r] = "recording"
  /\ Answer(r, "OK", r, 0)
  /\ UNCHANGED <<clock, stores, msg, locals, handler, audit, minted, prior>>

------------------------------------------------------------------------------
(* Failures and time *)

(* An await rejects and onError answers 500.  The operation it waited for  *)
(* may have taken effect (fault after the step that started it) or not     *)
(* (fault before it).                                                      *)
Fault(r) ==
  /\ pc[r] \in FaultPoints
  /\ errorResponse(r, "INTERNAL_ERROR")
  /\ UNCHANGED <<clock, stores, msg, locals, handler, audit, minted, prior>>

(* dedupe.store.put rejects without effect, after the audit hook ran. *)
DedupePutFails(r) ==
  /\ pc[r] = "signing" /\ "recording" \in FaultPoints
  /\ dedupeKey(msg[r]) # None
  /\ audit' = audit \cup {r}
  /\ errorResponse(r, "INTERNAL_ERROR")
  /\ UNCHANGED <<clock, stores, msg, locals, handler, minted, prior>>

(* The process dies: requests and handlers in flight and the in-memory     *)
(* stores are gone.                                                        *)
Crash ==
  /\ MayCrash
  /\ pc' = [r \in Requests |->
       IF pc[r] \in {"idle", "done"} THEN pc[r] ELSE "lost"]
  /\ pending' = [t \in Requests |-> None]
  /\ dedupe' = [k \in DedupeKeys |-> None]
  /\ handler' = [r \in Requests |->
       IF handler[r] = "running" THEN "killed" ELSE handler[r]]
  /\ UNCHANGED <<clock, msg, locals, audit, resp, minted, prior>>

Tick ==
  /\ clock < MaxClock
  /\ clock' = clock + 1
  /\ UNCHANGED <<stores, pc, msg, locals, handler, audit, resp, minted,
                 prior>>

------------------------------------------------------------------------------

(* The continuations of a request: the event loop runs them. *)
Continue(r) ==
  \/ PrepareRefused(r) \/ PrepareSweep(r)
  \/ PrepareBacklogFull(r) \/ PreparePut(r) \/ PrepareReply(r)
  \/ CallRefused(r) \/ CallGate(r) \/ CallLookup(r)
  \/ CallReplay(r) \/ CallMiss(r)
  \/ CallConfirmed(r) \/ CallInvalid(r)
  \/ CallTimeout(r)
  \/ CallSigned(r) \/ CallReply(r)

Next ==
  \/ \E r \in Requests :
       \/ ArrivePrepare(r) \/ ArriveCall(r)
       \/ Continue(r)
       \/ HandlerSettles(r) \/ HandlerSettlesLate(r)
       \/ Fault(r) \/ DedupePutFails(r)
  \/ Crash
  \/ Tick

Spec == Init /\ [][Next]_vars

(* Node runs every ready continuation and fires every timer.  A handler    *)
(* need not ever settle, no request need arrive.                           *)
FairSpec == Spec /\ \A r \in Requests : WF_vars(Continue(r))
------------------------------------------------------------------------------
(* Properties *)

(* The stores and the locals of the two routes hold what stores.ts and     *)
(* server.ts declare: in particular only validated inputs of registered    *)
(* glyphs reach a ticket or a recorded response.                           *)
TypeOK ==
  /\ clock \in 0..MaxClock
  /\ pending \in [Requests -> PendingConfirmation \cup {None}]
  /\ dedupe \in [DedupeKeys -> DedupeRecord \cup {None}]
  /\ pc \in [Requests -> Statuses]
  /\ msg \in [Requests -> Messages \cup {None}]
  /\ backlog \in [Requests -> [now : Nat, size : Nat,
                               earliestExpiresAt : Nat \cup {None},
                               counted : SUBSET Requests]]
  /\ cached \in [Requests -> Requests \cup {None}]
  /\ got \in [Requests -> PendingConfirmation \cup {None}]
  /\ handler \in [Requests -> {"none", "running", "settled", "killed"}]
  /\ audit \in SUBSET Requests
  /\ resp \in [Requests -> Responses]
  /\ minted \in SUBSET Requests
  /\ prior \in [Requests -> DedupeRecord \cup {None}]

Ran(r) == handler[r] # "none"

ConfirmedRun(r) == Ran(r) /\ msg[r].name \in Confirmed

(* Every run of a glyph that requires confirmation was authorised by a     *)
(* ticket that /prepare put in the store for exactly that glyph and input, *)
(* for a caller that held the required scopes, and no other run used it.   *)
ConfirmedRunHasOwnTicket ==
  \A r \in Requests : ConfirmedRun(r) =>
    LET t == msg[r].token
    IN  /\ t \in minted
        /\ msg[t].name = msg[r].name
        /\ msg[t].input = msg[r].input
        /\ missingScopes(msg[t]) = {}
        /\ \A q \in Requests : ConfirmedRun(q) /\ q # r => msg[q].token # t

(* A caller without the required scopes causes no effect: it mints no      *)
(* token, burns no token, runs no handler and sees no recorded response.   *)
PolicyBeforeEffects ==
  \A r \in Requests :
    (r \in minted \/ got[r] # None \/ Ran(r) \/ resp[r].code = "OK")
      => missingScopes(msg[r]) = {}

(* A successful response, fresh or replayed, carries the receipt of an     *)
(* execution that finished and was audited, of the glyph and the input     *)
(* that were asked for; a replay goes to the same client callId only.      *)
ResponseOfOwnExecution ==
  \A r \in Requests : resp[r].code = "OK" =>
    LET run == resp[r].of
    IN  /\ run \in audit
        /\ handler[run] = "settled"
        /\ msg[run].name = msg[r].name
        /\ msg[run].input = msg[r].input
        /\ run # r => ~Ran(r) /\ msg[run].callId = msg[r].callId

(* An execution is audited only for a handler that returned in time: the   *)
(* caller of an audited execution is never told of a timeout, an error or  *)
(* a rejection, and the late result of a timed-out handler is not          *)
(* recorded for replay.                                                    *)
AuditedRunsReturned ==
  /\ \A r \in audit :
       /\ handler[r] = "settled"
       /\ resp[r].code \in {"none", "OK", "INTERNAL_ERROR"}
  /\ \A k \in DedupeKeys : dedupe[k] # None => dedupe[k].of \in audit

(* A token that has left the store (consumed, expired or lost) never comes *)
(* back: it can authorise nothing any more.                                *)
TokensStayDead ==
  [][\A t \in minted : pending[t] = None => pending'[t] = None]_vars

(* A retry that arrives when the response to its glyph, callId and input   *)
(* is recorded, and is served before that record expires, neither runs the *)
(* handler again nor fails on its already consumed token.                  *)
RetryIsReplayed ==
  [][\A r \in Requests : Live(prior[r]) =>
       /\ handler'[r] = handler[r]
       /\ resp'[r] # resp[r] => resp'[r].code # "INVALID_CONFIRMATION"]_vars

(* A rejected prepare is told to wait, and waiting that long is enough for *)
(* one of the very tickets its own size() counted to expire, so that the   *)
(* sweep of the retry no longer counts it.                                 *)
BacklogRetryAfterFreesASlot ==
  [][\A r \in Requests :
       (resp'[r].code = "CONFIRMATION_BACKLOG_FULL" /\ resp'[r] # resp[r])
         => LET wait == resp'[r].retryAfter
            IN  /\ wait >= 1
                /\ MaxPending > 0 => \E t \in backlog[r].counted :
                     /\ t \in minted
                     /\ expiresAt(t)
                          <= backlog[r].now + wait * TicksPerSecond]_vars

(* Every request is answered even when its handler never settles, unless   *)
(* the process dies first.                                                 *)
EveryRequestAnswered ==
  \A r \in Requests :
    (pc[r] \notin {"idle", "done", "lost"}) ~> (pc[r] \in {"done", "lost"})

------------------------------------------------------------------------------
(* The confirmation flow implements ConfirmationTickets. *)

TicketState(t) ==
  IF pending[t] # None THEN "live"
  ELSE IF \E r \in Requests : /\ pc[r] = "consumed" /\ got[r] # None
                              /\ msg[r].token = t
         THEN "claimed"
  ELSE IF t \in minted THEN "spent" ELSE "unissued"

Tickets == INSTANCE ConfirmationTickets WITH
  Tokens <- Requests,
  Actions <- Glyphs \X Inputs,
  state <- [t \in Requests |-> TicketState(t)],
  action <- [t \in Requests |->
               IF t \in minted THEN <<msg[t].name, msg[t].input>> ELSE None],
  runs <- {<<msg[r].token, <<msg[r].name, msg[r].input>>>> :
             r \in {q \in Requests : ConfirmedRun(q)}}

(* The server's confirmation flow is the abstract life cycle of a ticket:  *)
(* issued, claimed by one caller, then spent on one run of the glyph and   *)
(* input it was issued for, or discarded.                                  *)
ImplementsTickets == Tickets!Spec
==============================================================================
