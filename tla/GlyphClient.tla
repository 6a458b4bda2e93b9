----------------------------- MODULE GlyphClient -----------------------------
(***************************************************************************)
(* The consumer, packages/client/src/index.ts: the pin gate of call(),     *)
(* explicit approval and revocation, trust-on-first-use, resilient updates *)
(* with their audit and promotion, and the verification of receipts, for   *)
(* one tool, against a server that may deploy a new card at any time.      *)
(*                                                                         *)
(* Every public operation is a task of its own.  What it does between two  *)
(* awaits is one action.  A pin store or queue operation is atomic and     *)
(* runs in the step that starts the await; what it returned is kept in the *)
(* task and used in its next step, when it may be stale.  All the state is *)
(* keyed by the tool's name, so one tool shows every interaction.          *)
(***************************************************************************)
EXTENDS GlyphCards, FiniteSets

CONSTANTS
  Tasks,              \* operations the application starts
  Configs,            \* the options of new GlyphClient(), and their use
  Cards,              \* cards a server may deploy
  StoredPins,         \* what the pin store may hold when the session starts
  MaxDeploys,         \* bound on the number of deployments
  MaxInFlight,        \* bound on the operations under way at the same time
  Passes              \* the cards each of the two external gates lets through

(* The options of a client, the gates of call() that they switch on, the   *)
(* operations its application makes use of, the cards its server deploys,  *)
(* and whether responses may get lost, stripped or delivered again.  The   *)
(* client keeps no two operations apart: any two may overlap.              *)
Operations == {"getCard", "call", "approve", "revoke", "audit"}

Config ==
  [uses : SUBSET Operations, deploys : SUBSET Cards, unreliable : BOOLEAN,
   gates : SUBSET {"pin", "trust", "attestation"},
   secureMode : BOOLEAN, verifyReceipts : BOOLEAN, tofu : BOOLEAN,
   autoApproveReviewChanges : BOOLEAN, resilientUpdates : BOOLEAN,
   autoPromotionPolicy : AutoPromotionPolicy \cup {None}]

ASSUME ClientAssumption ==
  /\ \A cfg \in Configs : cfg \in Config /\ "pin" \in cfg.gates
  /\ Cards \subseteq Card
  /\ StoredPins \subseteq [card : Cards, revoked : BOOLEAN] \cup {None}
  /\ MaxDeploys \in Nat /\ MaxInFlight \in Nat
  /\ Passes \in [{"trust", "attestation"} -> SUBSET Cards]
  /\ None \notin Tasks \cup Card \cup [card : Cards, revoked : BOOLEAN]
  /\ IsFiniteSet(Tasks)

VARIABLES
  config,    \* the client's options
  served,    \* the card the server serves and runs
  manifest,  \* the update manifest it publishes
  deploys,
  pin,       \* PinStore entry of the tool
  cache,     \* cardCache entry of the tool
  queue,     \* PendingAuditQueue entry of the tool
  pc,        \* where each task is suspended, or how it ended
  op,        \* the locals of each suspended operation
  ran,       \* the card the server ran for it
  seen       \* history: what pin was while the task was under way

world == <<served, manifest, deploys>>
vars == <<config, served, manifest, deploys, pin, cache, queue, pc, op, ran,
          seen>>

(* over is history: the pinned card that the diff compares with. *)
Entry == [newCard : Card, diff : Diff, over : Card]

Points == {"gate", "fetching", "fetched", "inspected", "posting", "answered",
           "verifying", "approving", "revoking", "auditing", "manifested",
           "keyed", "described", "reported", "dequeued", "deciding", "repinned"}

(* What an operation keeps across its awaits: a call its gate, card and    *)
(* envelope (whose receipt it carries); an approval its card and option;   *)
(* an audit the entry listed, the manifest, its report and the entry that  *)
(* queue.get returned; all of them what their last pins.get returned.      *)
NoOp ==
  [kind |-> "none", gate |-> "pin", card |-> None, snap |-> None,
   reinstate |-> FALSE, envelope |-> None, listed |-> None,
   proposal |-> None, report |-> None, entry |-> None]

Init ==
  /\ config \in Configs
  /\ served \in {c \in config.deploys : verifyGlyph(c)}
  /\ manifest = None
  /\ deploys = 0
  /\ pin \in {p \in StoredPins : p = None \/ p.card \in config.deploys}
  /\ cache = None
  /\ queue = None
  /\ pc = [t \in Tasks |-> "idle"]
  /\ op = [t \in Tasks |-> NoOp]
  /\ ran = [t \in Tasks |-> None]
  /\ seen = [t \in Tasks |-> {}]

------------------------------------------------------------------------------
(* Helpers *)

InFlight == {t \in Tasks : pc[t] \in Points}

Set(f, t, v) == [f EXCEPT ![t] = v]

(* Suspend at an await, keeping the locals o. *)
Await(t, where, o) == pc' = Set(pc, t, where) /\ op' = Set(op, t, o)

End(t, how) == pc' = Set(pc, t, how) /\ op' = Set(op, t, NoOp)

(* What every step does besides: the options stay, and the history of the  *)
(* operations under way is kept.                                           *)
History ==
  /\ seen' = [t \in Tasks |->
       IF pc'[t] \in Points THEN seen[t] \cup {pin, pin'} ELSE {}]
  /\ UNCHANGED config

MayBegin(t, kind) ==
  /\ kind \in config.uses
  /\ pc[t] = "idle"
  /\ Cardinality(InFlight) < MaxInFlight

(* Faulty variant: a matching card is accepted before revocation is seen. *)
inspectStatus_MatchFirst(p, c) ==
  IF p = None THEN "new"
  ELSE IF sameCard(p.card, c) THEN "unchanged"
  ELSE IF p.revoked THEN "revoked"
  ELSE "changed"

(* The status inspectCard computes from the pin it read. *)
inspectStatus(p, c) ==
  IF p = None THEN "new"
  ELSE IF p.revoked THEN "revoked"
  ELSE IF sameCard(p.card, c) THEN "unchanged"
  ELSE "changed"

------------------------------------------------------------------------------
(* The server: a deployment changes the card it serves and runs, and may   *)
(* publish a manifest that describes the change.                           *)
Deploy(c) ==
  /\ deploys < MaxDeploys
  /\ c \in config.deploys \ {served}
  /\ deploys' = deploys + 1
  /\ served' = c
  /\ manifest' \in {None, [previousCardId |-> served.id, newCardId |-> c.id,
                           serverPublicKey |-> c.publicKey]}
  /\ UNCHANGED <<pin, cache, queue, pc, op, ran>> /\ History

------------------------------------------------------------------------------
(* getCard() and the gates of call().  Each gate takes the card from the   *)
(* session cache, or fetches it.                                           *)

BeginGetCard(t) ==
  /\ MayBegin(t, "getCard")
  /\ Await(t, "fetching", [NoOp EXCEPT !.kind = "getCard"])
  /\ UNCHANGED <<world, pin, cache, queue, ran>> /\ History

BeginCall(t) ==
  /\ MayBegin(t, "call")
  /\ Await(t, "gate", [NoOp EXCEPT !.kind = "call"])
  /\ UNCHANGED <<world, pin, cache, queue, ran>> /\ History

(* The call got past its gate: on to the next one, or to the POST. *)
Pass(t) ==
  \/ op[t].gate = "pin" /\ Await(t, "gate", [op[t] EXCEPT !.gate = "trust"])
  \/ /\ op[t].gate = "trust"
     /\ Await(t, "gate", [op[t] EXCEPT !.gate = "attestation"])
  \/ op[t].gate = "attestation" /\ Await(t, "posting", op[t])

(* What a gate does with its card.  The pin gate first reads the pin. *)
Present(t, c) ==
  \/ /\ op[t].gate = "pin"
     /\ Await(t, "inspected", [op[t] EXCEPT !.card = c, !.snap = pin])
  \/ /\ op[t].gate # "pin"
     /\ IF c \in Passes[op[t].gate] THEN Pass(t) ELSE End(t, "refused")

EnterGate(t) ==
  /\ pc[t] = "gate"
  /\ \/ op[t].gate \notin config.gates /\ Pass(t)
     \/ op[t].gate \in config.gates /\ cache # None /\ Present(t, cache)
     \/ op[t].gate \in config.gates /\ cache = None /\ Await(t, "fetching", op[t])
  /\ UNCHANGED <<world, pin, cache, queue, ran>> /\ History

ServerAnswersCard(t) ==
  /\ pc[t] = "fetching"
  /\ Await(t, "fetched", [op[t] EXCEPT !.card = served])
  /\ UNCHANGED <<world, pin, cache, queue, ran>> /\ History

(* getCard() throws on a signature that does not verify, and only a card   *)
(* with a signature enters the session cache.                              *)
CardArrives(t) ==
  /\ pc[t] = "fetched"
  /\ LET c == op[t].card IN
       IF c.signature = "invalid"
         THEN End(t, "refused") /\ UNCHANGED cache
         ELSE /\ cache' = IF verifyGlyph(c) THEN c ELSE cache
              /\ \/ op[t].kind = "getCard" /\ End(t, "ok")
                 \/ op[t].kind = "call" /\ Present(t, c)
  /\ UNCHANGED <<world, pin, queue, ran>> /\ History

------------------------------------------------------------------------------
(* ensureApproved(), from the pin it read to its verdict *)

status(t) == inspectStatus(op[t].snap, op[t].card)

diff(t) == diffCards(op[t].snap.card, op[t].card)

autoUpdates == ~(config.secureMode /\ ~config.autoApproveReviewChanges)

MayAutoUpdate(t) ==
  /\ status(t) = "changed"
  /\ autoUpdates
  /\ ~diff(t).requiresApproval

PinMatches(t) ==
  /\ pc[t] = "inspected"
  /\ status(t) = "unchanged"
  /\ Pass(t)
  /\ UNCHANGED <<world, pin, cache, queue, ran>> /\ History

TrustOnFirstUse(t) ==
  /\ pc[t] = "inspected"
  /\ config.tofu /\ status(t) = "new"
  /\ IF verifyGlyph(op[t].card)
       THEN Pass(t) /\ pin' = [card |-> op[t].card, revoked |-> FALSE]
       ELSE End(t, "refused") /\ UNCHANGED pin
  /\ UNCHANGED <<world, cache, queue, ran>> /\ History

(* {...inspection.pin, card}: the pin that was read, with the new card,    *)
(* whether it carries a signature or not.                                  *)
AutoUpdate(t) ==
  /\ pc[t] = "inspected"
  /\ MayAutoUpdate(t)
  /\ pin' = [op[t].snap EXCEPT !.card = op[t].card]
  /\ Pass(t)
  /\ UNCHANGED <<world, cache, queue, ran>> /\ History

(* The update is parked; the runner may start an audit in the background   *)
(* (BeginAudit).                                                           *)
Park(t) ==
  /\ pc[t] = "inspected"
  /\ config.resilientUpdates /\ status(t) = "changed" /\ ~MayAutoUpdate(t)
  /\ queue' = [newCard |-> op[t].card, diff |-> diff(t),
             over |-> op[t].snap.card]
  /\ Pass(t)
  /\ UNCHANGED <<world, pin, cache, ran>> /\ History

NotApproved(t) ==
  /\ pc[t] = "inspected"
  /\ \/ status(t) = "revoked"
     \/ status(t) = "new" /\ ~config.tofu
     \/ /\ status(t) = "changed" /\ ~MayAutoUpdate(t)
        /\ ~config.resilientUpdates
  /\ End(t, "refused")
  /\ UNCHANGED <<world, pin, cache, queue, ran>> /\ History

------------------------------------------------------------------------------
(* The POST of call(), its envelope and its receipt *)

ServerRuns(t) ==
  /\ pc[t] = "posting"
  /\ ran' = Set(ran, t, served)
  /\ Await(t, "answered", op[t])
  /\ UNCHANGED <<world, pin, cache, queue>> /\ History

(* The envelope that reaches the client: its own, or, on an unreliable     *)
(* network, one of an earlier call or one without its receipt.             *)
Envelopes(t) ==
  IF config.unreliable THEN {u \in Tasks : ran[u] # None} \cup {None} ELSE {t}

EnvelopeArrives(t, u) ==
  /\ pc[t] = "answered"
  /\ u \in Envelopes(t)
  /\ IF config.secureMode /\ config.verifyReceipts
       THEN Await(t, "verifying",
                  [op[t] EXCEPT !.envelope = u, !.snap = pin])
       ELSE End(t, "delivered")
  /\ UNCHANGED <<world, pin, cache, queue, ran>> /\ History

(* Faulty variant: the receipt is not bound to this call. *)
verifyReceipt_NoCallId(p, u, t) ==
  /\ u # None
  /\ ran[u].publicKey = p.card.publicKey
  /\ ran[u].id = p.card.id

(* The receipt of u's envelope, against the pin and against call t. *)
verifyReceipt(p, u, t) ==
  /\ u # None
  /\ ran[u].publicKey = p.card.publicKey
  /\ ran[u].id = p.card.id
  /\ u = t

CallReturns(t) ==
  /\ pc[t] = "verifying"
  /\ IF op[t].snap # None /\ verifyReceipt(op[t].snap, op[t].envelope, t)
       THEN End(t, "delivered") ELSE End(t, "refused")
  /\ UNCHANGED <<world, pin, cache, queue, ran>> /\ History

(* A request or its response is lost: fetch rejects, and so does the       *)
(* operation.                                                              *)
Lose(t) ==
  /\ config.unreliable
  /\ pc[t] \in {"fetching", "fetched", "posting", "answered"}
  /\ End(t, "refused")
  /\ UNCHANGED <<world, pin, cache, queue, ran>> /\ History

------------------------------------------------------------------------------
(* approveCard() and revokeTool(): read the pin, then write one *)

BeginApprove(t, c, again) ==
  /\ MayBegin(t, "approve") /\ c \in config.deploys
  /\ IF verifyGlyph(c)
       THEN Await(t, "approving",
                  [NoOp EXCEPT !.kind = "approve", !.card = c,
                               !.reinstate = again, !.snap = pin])
       ELSE End(t, "refused")
  /\ UNCHANGED <<world, pin, cache, queue, ran>> /\ History

(* Faulty variant: the option is not needed. *)
Approve_Reinstates(t) ==
  /\ pc[t] = "approving"
  /\ pin' = [card |-> op[t].card, revoked |-> FALSE]
  /\ End(t, "ok")
  /\ UNCHANGED <<world, cache, queue, ran>> /\ History

Approve(t) ==
  /\ pc[t] = "approving"
  /\ IF op[t].snap # None /\ op[t].snap.revoked /\ ~op[t].reinstate
       THEN End(t, "refused") /\ UNCHANGED pin
       ELSE End(t, "ok") /\ pin' = [card |-> op[t].card, revoked |-> FALSE]
  /\ UNCHANGED <<world, cache, queue, ran>> /\ History

BeginRevoke(t) ==
  /\ MayBegin(t, "revoke")
  /\ Await(t, "revoking", [NoOp EXCEPT !.kind = "revoke", !.snap = pin])
  /\ UNCHANGED <<world, pin, cache, queue, ran>> /\ History

Revoke(t) ==
  /\ pc[t] = "revoking"
  /\ \/ op[t].snap = None /\ End(t, "refused") /\ UNCHANGED pin
     \/ op[t].snap # None /\ op[t].snap.revoked /\ End(t, "ok") /\ UNCHANGED pin
     \/ /\ op[t].snap # None /\ ~op[t].snap.revoked
        /\ pin' = [op[t].snap EXCEPT !.revoked = TRUE]
        /\ End(t, "ok")
  /\ UNCHANGED <<world, cache, queue, ran>> /\ History

------------------------------------------------------------------------------
(* processAudits(): auditEntry() on the parked update, then the policy.    *)
(* The application starts it, an interval does, or, in the background, a   *)
(* call that parked an update; so it runs next to calls and other audits.  *)

BeginAudit(t) ==
  /\ config.resilientUpdates
  /\ MayBegin(t, "audit")
  /\ IF queue = None
       THEN End(t, "ok")
       ELSE Await(t, "auditing", [NoOp EXCEPT !.kind = "audit",
                                              !.listed = queue])
  /\ UNCHANGED <<world, pin, cache, queue, ran>> /\ History

(* The answer to getManifest()'s request: 404 is no manifest. *)
ServerAnswersManifest(t) ==
  /\ pc[t] = "auditing"
  /\ Await(t, "manifested", [op[t] EXCEPT !.proposal = manifest])
  /\ UNCHANGED <<world, pin, cache, queue, ran>> /\ History

(* attestationValid(): what the registered verifiers say of the card. *)
attestationResult(c) == content[c.id]["attestation"]

writeReport(t, m) ==
  Await(t, "reported", [op[t] EXCEPT !.report =
    [attestation    |-> attestationResult(op[t].listed.newCard),
     manifest       |-> m,
     diff           |-> op[t].listed.diff,
     newCardId      |-> op[t].listed.newCard.id,
     signatureValid |-> verifyGlyph(op[t].listed.newCard)]])

ManifestArrives(t) ==
  /\ pc[t] = "manifested"
  /\ IF op[t].proposal = None
       THEN writeReport(t, "absent")
       ELSE Await(t, "keyed", [op[t] EXCEPT !.snap = pin])
  /\ UNCHANGED <<world, pin, cache, queue, ran>> /\ History

(* getManifest() wants it signed by the pinned key. *)
ManifestKeyChecked(t) ==
  /\ pc[t] = "keyed"
  /\ IF /\ op[t].snap # None
        /\ op[t].snap.card.publicKey # op[t].proposal.serverPublicKey
       THEN writeReport(t, "invalid")
       ELSE Await(t, "described", [op[t] EXCEPT !.snap = pin])
  /\ UNCHANGED <<world, pin, cache, queue, ran>> /\ History

(* Manifest m describes the parked entry e as an update of pin p. *)
describesUpdate(m, e, p) ==
  /\ m.newCardId = e.newCard.id
  /\ p = None \/ m.previousCardId = p.card.id

ManifestDescribed(t) ==
  /\ pc[t] = "described"
  /\ writeReport(t, IF describesUpdate(op[t].proposal, op[t].listed, op[t].snap)
                      THEN "valid" ELSE "invalid")
  /\ UNCHANGED <<world, pin, cache, queue, ran>> /\ History

ManifestLost(t) ==
  /\ config.unreliable
  /\ pc[t] \in {"auditing", "manifested"}
  /\ writeReport(t, "invalid")
  /\ UNCHANGED <<world, pin, cache, queue, ran>> /\ History

Evaluate(t) ==
  /\ pc[t] = "reported"
  /\ IF /\ config.autoPromotionPolicy # None
        /\ evaluatePromotion(op[t].report, config.autoPromotionPolicy)
       THEN Await(t, "dequeued", [op[t] EXCEPT !.entry = queue])
       ELSE End(t, "withheld")
  /\ UNCHANGED <<world, pin, cache, queue, ran>> /\ History

ReadPin(t) ==
  /\ pc[t] = "dequeued"
  /\ Await(t, "deciding", [op[t] EXCEPT !.snap = pin])
  /\ UNCHANGED <<world, pin, cache, queue, ran>> /\ History

(* Faulty variant: whatever entry is parked by now. *)
Promotable_AnyEntry(e, r, p) == e # None /\ ~(p # None /\ p.revoked)

(* "Only the exact card that was audited, and never a revoked tool." *)
Promotable(e, r, p) ==
  /\ e # None /\ e.newCard.id = r.newCardId
  /\ ~(p # None /\ p.revoked)

Promote(t) ==
  /\ pc[t] = "deciding"
  /\ IF Promotable(op[t].entry, op[t].report, op[t].snap)
       THEN /\ pin' = [card |-> op[t].entry.newCard, revoked |-> FALSE]
            /\ Await(t, "repinned", op[t])
       ELSE End(t, "withheld") /\ UNCHANGED pin
  /\ UNCHANGED <<world, cache, queue, ran>> /\ History

Unpark(t) ==
  /\ pc[t] = "repinned"
  /\ queue' = None
  /\ End(t, "promoted")
  /\ UNCHANGED <<world, pin, cache, ran>> /\ History

------------------------------------------------------------------------------
CallStep(t) ==
  \/ BeginGetCard(t) \/ BeginCall(t) \/ EnterGate(t) \/ ServerAnswersCard(t)
  \/ CardArrives(t) \/ PinMatches(t) \/ TrustOnFirstUse(t) \/ AutoUpdate(t)
  \/ Park(t) \/ NotApproved(t) \/ ServerRuns(t) \/ CallReturns(t) \/ Lose(t)
  \/ \E u \in Tasks \cup {None} : EnvelopeArrives(t, u)

AdminStep(t) ==
  \/ \E c \in Cards, again \in BOOLEAN : BeginApprove(t, c, again)
  \/ Approve(t) \/ BeginRevoke(t) \/ Revoke(t)

AuditStep(t) ==
  \/ BeginAudit(t) \/ ServerAnswersManifest(t) \/ ManifestArrives(t)
  \/ ManifestKeyChecked(t) \/ ManifestDescribed(t) \/ ManifestLost(t)
  \/ Evaluate(t) \/ ReadPin(t) \/ Promote(t) \/ Unpark(t)

Next ==
  \/ \E c \in Cards : Deploy(c)
  \/ \E t \in Tasks : CallStep(t) \/ AdminStep(t) \/ AuditStep(t)

Spec == Init /\ [][Next]_vars

------------------------------------------------------------------------------
(* Properties *)

(* A change of contract, stated without diffCards. *)
BreakingChange(a, b) ==
  \/ a.publicKey # b.publicKey
  \/ \E f \in BreakingFields : content[a.id][f] # content[b.id][f]

(* Operation t, of this kind, takes the step that changes the pin. *)
Writes(t, kind) == op[t].kind = kind /\ pc'[t] # pc[t] /\ pin' # pin

(* The approvals in force at some moment while t was under way. *)
Approvals(t) == {p \in seen[t] : p # None /\ ~p.revoked}

(* With receipts verified (secureMode and verifyReceipts, its default), a  *)
(* payload is returned only if it answers this very call and was produced  *)
(* by a card that was pinned at some moment of the call, whatever the      *)
(* server deploys and other operations write meanwhile (call,              *)
(* verifyReceipt).                                                         *)
DeliveredFromPinned ==
  [][ \A t \in Tasks :
        /\ config.secureMode /\ config.verifyReceipts
        /\ pc'[t] = "delivered" /\ pc[t] # "delivered"
        => /\ op[t].envelope = t
           /\ \E p \in seen[t] \ {None} : sameCard(p.card, ran[t]) ]_vars

(* Every pinned card carries a signature that verifies: the comment of     *)
(* getCard says that a card without one cannot be pinned.                  *)
PinnedCardsVerify == pin # None => verifyGlyph(pin.card)

(* Who pins a card whose signature nobody could check, in any client: not  *)
(* an approval and not trust-on-first-use.  It is a call that updates an   *)
(* approved pin by itself, to a card of the same key and contract; an      *)
(* audit whose entry was replaced by another card of the same id since it  *)
(* was read; or a revocation that writes back the card it found pinned     *)
(* (approveCard, ensureApproved, processAudits, revokeTool).               *)
UnsignedPinsAreUpdates ==
  [][ \A t \in Tasks :
        pc'[t] # pc[t] /\ pin' # pin /\ ~verifyGlyph(pin'.card) =>
        \/ /\ op[t].kind = "call" /\ autoUpdates
           /\ \E p \in Approvals(t) : ~BreakingChange(p.card, pin'.card)
        \/ op[t].kind = "audit" /\ pin'.card # op[t].listed.newCard
        \/ op[t].kind = "revoke" /\ \E p \in Approvals(t) : p.card = pin'.card ]_vars

(* An operation during which the tool was revoked all the time never       *)
(* replaces the pin, unless it is an approval that asks to reinstate:  a   *)
(* revocation is undone only by an operation that was already under way    *)
(* when it was made (revokeTool, approveCard, ensureApproved,              *)
(* processAudits).                                                         *)
RevocationSticks ==
  [][ \A t \in Tasks :
        /\ pc'[t] # pc[t] /\ pin' # pin
        /\ \A p \in seen[t] : p # None /\ p.revoked
        => op[t].kind = "approve" /\ op[t].reinstate ]_vars

(* A call reaches the handler only if some approval of the tool was in     *)
(* force while it was under way: never one of a tool that is revoked all   *)
(* the time, whatever card the session cache holds (inspectCard: a         *)
(* revocation dominates; ensureApproved).                                  *)
RevokedNeverRuns ==
  [][ \A t \in Tasks : ran'[t] # ran[t] => Approvals(t) # {} ]_vars

(* The automatic pins of call(), on first use and on a review-only change, *)
(* never bring in a card that breaks the contract or swaps the key of      *)
(* every approval there was during the call: some pin in force meanwhile   *)
(* is compatible with it, or, with trust on first use, there was none      *)
(* (ensureApproved).                                                       *)
CallNeverRepinsBreaking ==
  [][ \A t \in Tasks : Writes(t, "call") =>
        \/ \E p \in Approvals(t) : ~BreakingChange(p.card, pin'.card)
        \/ config.tofu /\ None \in seen[t] ]_vars

(* The audit runner pins exactly the card whose signature, manifest and    *)
(* attestation it checked (processAudits).                                 *)
PromoteExactlyAudited ==
  [][ \A t \in Tasks : Writes(t, "audit") =>
        pin'.card = op[t].listed.newCard ]_vars

(* An automatic promotion never replaces the card an update was parked     *)
(* over by one that breaks its contract, unless the operator's policy      *)
(* allows breaking changes.  When another operation has changed the pinned *)
(* card since, the policy has judged a difference that is no longer the    *)
(* one being made (processAudits, evaluatePromotion).                      *)
PromotedWithinPolicy ==
  [][ \A t \in Tasks :
        /\ Writes(t, "audit") /\ pin # None
        /\ pin.card = op[t].listed.over
        /\ pin'.card = op[t].listed.newCard
        /\ BreakingChange(pin.card, pin'.card)
        => config.autoPromotionPolicy.allowBreaking ]_vars
==============================================================================
