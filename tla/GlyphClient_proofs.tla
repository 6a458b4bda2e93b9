--------------------------- MODULE GlyphClient_proofs --------------------------
(***************************************************************************)
(* Proofs about GlyphClient, for any number of operations, cards and       *)
(* deployments, any client options and any network.                        *)
(*                                                                         *)
(* The theorems follow from Inv: what each suspended operation keeps, by   *)
(* the point where it waits, and how that relates to the values the pin    *)
(* had since the operation began.  Operations overlap without restriction. *)
(***************************************************************************)
EXTENDS GlyphClient, FiniteSetTheorems, TLAPS

Pins == [card : Cards, revoked : BOOLEAN]

OpFields == {"kind", "gate", "card", "snap", "reinstate", "envelope", "listed",
             "proposal", "report", "entry"}

CallPoints == {"gate", "inspected", "posting", "answered", "verifying"}
FetchPoints == {"fetching", "fetched"}
AuditPoints == {"auditing", "manifested", "keyed", "described", "reported",
                "dequeued", "deciding", "repinned"}
Reported == {"reported", "dequeued", "deciding", "repinned"}
Promoting == {"dequeued", "deciding", "repinned"}
(* Where a pin that was read is used.                                      *)
ReadPoints == {"inspected", "approving", "revoking", "deciding"}
Ends == {"idle", "ok", "refused", "delivered", "withheld", "promoted"}

(* One of the values ps of the pin is an approval in force.                *)
Approved(ps) == \E p \in ps : p # None /\ ~p.revoked

(* A parked update, with the difference it makes.                          *)
Entries(e) == e.newCard \in Cards /\ e.diff = diffCards(e.over, e.newCard)

(* The locals o of an operation that waits at w, where ps is what the pin  *)
(* was since the operation began.                                          *)
Locals(w, o, ps) ==
  /\ w \in Points \cup Ends
  /\ DOMAIN o = OpFields
  /\ o.snap \in Pins \cup {None}
  /\ o.listed # None => Entries(o.listed)
  /\ o.entry # None => Entries(o.entry)
  /\ w \in CallPoints => o.kind = "call"
  /\ w \in FetchPoints => o.kind \in {"getCard", "call"}
  /\ w = "approving" => o.kind = "approve"
  /\ w = "revoking" => o.kind = "revoke"
  /\ w \in AuditPoints => o.kind = "audit" /\ o.listed # None
  /\ w = "fetched" => o.card \in Cards
  /\ w = "inspected" => o.card \in Cards /\ o.card.signature # "invalid"
  /\ w = "approving" => o.card \in Cards /\ verifyGlyph(o.card)
  /\ w \in ReadPoints => o.snap \in ps
  /\ w = "verifying" /\ o.snap # None => o.snap \in ps
  /\ w \in {"gate", "fetching", "fetched"} /\ o.gate # "pin" => Approved(ps)
  /\ w = "posting" => Approved(ps)
  /\ w \in Reported => /\ o.report.newCardId = o.listed.newCard.id
                       /\ o.report.signatureValid = verifyGlyph(o.listed.newCard)
                       /\ o.report.diff = o.listed.diff
  /\ w \in Promoting => /\ config.autoPromotionPolicy # None
                        /\ evaluatePromotion(o.report, config.autoPromotionPolicy)

WorldInv ==
  /\ config \in Configs
  /\ served \in Cards
  /\ pin \in Pins \cup {None}
  /\ cache # None => cache \in Cards /\ verifyGlyph(cache)
  /\ queue # None => Entries(queue)

TasksInv ==
  /\ DOMAIN pc = Tasks /\ DOMAIN op = Tasks
  /\ \A t \in Tasks : Locals(pc[t], op[t], seen[t])

Inv == WorldInv /\ TasksInv
------------------------------------------------------------------------------
(* Nothing is suspended at the start.                                      *)
LEMMA InitInv == Init => Inv
<1> SUFFICES ASSUME Init PROVE Inv
  OBVIOUS
<1>1. WorldInv
  BY ClientAssumption DEF Init, WorldInv, Pins, Config
<1>2. Locals("idle", NoOp, {})
  BY DEF Locals, NoOp, OpFields, Points, Ends, CallPoints, FetchPoints, AuditPoints,
         ReadPoints, Reported, Promoting
<1>3. TasksInv
  BY <1>2 DEF Init, TasksInv
<1> QED
  BY <1>1, <1>3 DEF Inv

(* What holds of the pins seen so far holds of more.                       *)
LEMMA LocalsGrow ==
  ASSUME NEW w, NEW o, NEW ps, NEW qs, Locals(w, o, ps),
         w \in Points => ps \subseteq qs
  PROVE  Locals(w, o, qs)
<1>1. Approved(ps) /\ ps \subseteq qs => Approved(qs)
  BY DEF Approved
<1>2. ReadPoints \cup {"verifying", "gate", "fetching", "fetched", "posting"} \subseteq Points
  BY DEF ReadPoints, Points
<1> QED
  BY <1>1, <1>2 DEF Locals

(* A step of task t leaves the locals of every other task as they were.    *)
LEMMA TaskStep ==
  ASSUME Inv, NEW t \in Tasks, NEW w, NEW o,
         pc' = [pc EXCEPT ![t] = w], op' = [op EXCEPT ![t] = o], History,
         Locals(w, o, seen'[t]), WorldInv'
  PROVE  Inv'
<1>1. config' = config
  BY DEF History
<1>2. DOMAIN pc' = Tasks /\ DOMAIN op' = Tasks /\ pc'[t] = w /\ op'[t] = o
  BY DEF Inv, TasksInv
<1>3. ASSUME NEW u \in Tasks PROVE Locals(pc[u], op[u], seen[u])'
  <2>1. CASE u = t
    BY <1>1, <1>2, <2>1 DEF Locals
  <2>2. CASE u # t
    <3>1. pc'[u] = pc[u] /\ op'[u] = op[u] /\ Locals(pc[u], op[u], seen[u])
      BY <2>2 DEF Inv, TasksInv
    <3>2. pc[u] \in Points => seen[u] \subseteq seen'[u]
      BY <3>1 DEF History
    <3>3. Locals(pc[u], op[u], seen'[u])
      BY <3>1, <3>2, LocalsGrow
    <3> QED
      BY <1>1, <3>1, <3>3 DEF Locals
  <2> QED
    BY <2>1, <2>2
<1> QED
  BY <1>2, <1>3 DEF Inv, TasksInv

(* A task that ends keeps nothing.                                         *)
LEMMA EndStep ==
  ASSUME Inv, NEW t \in Tasks, NEW how \in Ends, End(t, how), History, WorldInv'
  PROVE  Inv'
<1>1. Locals(how, NoOp, seen'[t])
  BY DEF Locals, NoOp, OpFields, Points, Ends, CallPoints, FetchPoints, AuditPoints,
         ReadPoints, Reported, Promoting
<1>2. pc' = [pc EXCEPT ![t] = how] /\ op' = [op EXCEPT ![t] = NoOp]
  BY DEF End, Set
<1> HIDE DEF NoOp
<1> QED
  BY <1>1, <1>2, TaskStep

(* A step that writes neither pin, cache nor queue.                        *)
LEMMA WorldSame ==
  ASSUME Inv, UNCHANGED <<served, pin, cache, queue>>, History
  PROVE  WorldInv'
BY DEF Inv, WorldInv, History

(* The pin of the moment is among those seen during the operation.         *)
LEMMA PinSeen ==
  ASSUME NEW t \in Tasks, History, pc'[t] \in Points
  PROVE  pin \in seen'[t]
BY DEF History

(* What was seen during the operation stays seen.                          *)
LEMMA SeenGrows ==
  ASSUME NEW t \in Tasks, History, pc'[t] \in Points
  PROVE  seen[t] \subseteq seen'[t]
BY DEF History

(* Who comes after the pin gate has seen an approval.                      *)
LEMMA ApprovedGrows ==
  ASSUME NEW t \in Tasks, History, Approved(seen[t])
  PROVE  pc'[t] \in Points => Approved(seen'[t])
BY SeenGrows DEF Approved

(* The call moves on to its next gate, or to the POST.                     *)
LEMMA PassStep ==
  ASSUME Inv, NEW t \in Tasks, op[t].kind = "call", Pass(t),
         pc'[t] \in Points => Approved(seen'[t]), History, WorldInv'
  PROVE  Inv'
<1> DEFINE r == op[t]
<1>1. Locals(pc[t], r, seen[t]) /\ t \in DOMAIN pc
  BY DEF Inv, TasksInv
<1>2. CASE Await(t, "posting", r)
  <2>1. pc' = [pc EXCEPT ![t] = "posting"] /\ op' = [op EXCEPT ![t] = r]
    BY <1>2 DEF Await, Set
  <2>0. Approved(seen'[t])
    BY <1>1, <2>1 DEF Points
  <2>2. Locals("posting", r, seen'[t])
    BY <1>1, <2>0 DEF Locals, Points, Ends, CallPoints, FetchPoints, AuditPoints,
         ReadPoints, Reported, Promoting
  <2> QED
    BY <2>1, <2>2, TaskStep
<1>3. ASSUME NEW g, Await(t, "gate", [r EXCEPT !.gate = g]) PROVE Inv'
  <2> DEFINE o == [r EXCEPT !.gate = g]
  <2>1. pc' = [pc EXCEPT ![t] = "gate"] /\ op' = [op EXCEPT ![t] = o]
    BY <1>3 DEF Await, Set
  <2>2. /\ DOMAIN o = OpFields /\ o.snap = r.snap /\ o.listed = r.listed
        /\ o.entry = r.entry /\ o.kind = "call"
    BY <1>1 DEF Locals, OpFields
  <2>0. Approved(seen'[t])
    BY <1>1, <2>1 DEF Points
  <2> HIDE DEF o, r
  <2>3. Locals("gate", o, seen'[t])
    BY <1>1, <2>0, <2>2 DEF Locals, Points, Ends, CallPoints, FetchPoints, AuditPoints,
         ReadPoints, Reported, Promoting
  <2> QED
    BY <2>1, <2>3, TaskStep
<1> QED
  BY <1>2, <1>3 DEF Pass

(* A gate with its card: refused, passed on, or inspected with the pin.    *)
LEMMA PresentStep ==
  ASSUME Inv, NEW t \in Tasks, op[t].kind = "call", NEW c \in Cards,
         op[t].gate # "pin" => Approved(seen[t]),
         c.signature # "invalid", Present(t, c), History, WorldInv'
  PROVE  Inv'
<1> DEFINE r == op[t]
           o == [r EXCEPT !.card = c, !.snap = pin]
<1>1. Locals(pc[t], r, seen[t]) /\ pin \in Pins \cup {None} /\ t \in DOMAIN pc
  BY DEF Inv, TasksInv, WorldInv
<1>2. CASE Await(t, "inspected", o)
  <2>1. /\ DOMAIN o = OpFields /\ o.snap = pin /\ o.listed = r.listed
        /\ o.entry = r.entry /\ o.kind = "call" /\ o.card = c
    BY <1>1 DEF Locals, OpFields
  <2>2. pc' = [pc EXCEPT ![t] = "inspected"] /\ op' = [op EXCEPT ![t] = o]
    BY <1>2 DEF Await, Set
  <2>0. pin \in seen'[t]
    BY <1>1, <2>2, PinSeen DEF Points
  <2> HIDE DEF o
  <2>3. Locals("inspected", o, seen'[t])
    BY <1>1, <2>0, <2>1 DEF Locals, Points, Ends, CallPoints, FetchPoints, AuditPoints,
         ReadPoints, Reported, Promoting
  <2> QED
    BY <2>2, <2>3, TaskStep
<1>3. CASE op[t].gate # "pin" /\ Pass(t)
  BY <1>3, ApprovedGrows, PassStep
<1>4. CASE End(t, "refused")
  BY <1>4, EndStep DEF Ends
<1> QED
  BY <1>2, <1>3, <1>4 DEF Present

(* getCard() and call() begin; the answer of the server arrives.           *)
LEMMA BeginStep ==
  ASSUME Inv, NEW t \in Tasks, BeginGetCard(t) \/ BeginCall(t)
  PROVE  Inv'
<1> DEFINE o(k) == [NoOp EXCEPT !.kind = k]
<1>1. PICK w \in {"fetching", "gate"}, k \in {"getCard", "call"} :
        /\ pc' = [pc EXCEPT ![t] = w] /\ op' = [op EXCEPT ![t] = o(k)]
        /\ w = "gate" => k = "call"
        /\ History /\ UNCHANGED <<world, pin, cache, queue>>
  BY DEF BeginGetCard, BeginCall, Await, Set
<1>2. WorldInv'
  BY <1>1, WorldSame DEF world
<1>3. Locals(w, o(k), seen'[t])
  BY <1>1 DEF Locals, NoOp, OpFields, Points, Ends, CallPoints, FetchPoints,
         AuditPoints, ReadPoints, Reported, Promoting
<1> HIDE DEF o
<1> QED
  BY <1>1, <1>2, <1>3, TaskStep

(* The gate takes the card of the session, or asks for one.                *)
LEMMA EnterGateStep ==
  ASSUME Inv, NEW t \in Tasks, EnterGate(t)
  PROVE  Inv'
<1>1. Locals(pc[t], op[t], seen[t]) /\ pc[t] = "gate"
  BY DEF Inv, TasksInv, EnterGate
<1>2. op[t].kind = "call" /\ History /\ UNCHANGED <<world, pin, cache, queue>>
  BY <1>1 DEF Locals, CallPoints, EnterGate
<1>3. WorldInv'
  BY <1>2, WorldSame DEF world
<1>0. op[t].gate # "pin" => Approved(seen[t])
  BY <1>1 DEF Locals
<1>4. CASE op[t].gate \notin config.gates /\ Pass(t)
  <2>1. op[t].gate # "pin"
    BY <1>4, ClientAssumption DEF Inv, WorldInv
  <2> QED
    BY <1>0, <1>2, <1>3, <1>4, <2>1, ApprovedGrows, PassStep
<1>5. CASE cache # None /\ Present(t, cache)
  <2>1. cache \in Cards /\ cache.signature # "invalid"
    BY <1>5 DEF Inv, WorldInv, verifyGlyph
  <2> QED
    BY <1>0, <1>2, <1>3, <1>5, <2>1, PresentStep
<1>6. CASE Await(t, "fetching", op[t])
  <2>1. pc' = [pc EXCEPT ![t] = "fetching"] /\ op' = [op EXCEPT ![t] = op[t]]
    BY <1>6 DEF Await, Set
  <2>0. Approved(seen[t]) => Approved(seen'[t])
    BY <1>2, <2>1, ApprovedGrows DEF Inv, TasksInv, Points
  <2>2. Locals("fetching", op[t], seen'[t])
    BY <1>1, <1>2, <2>0 DEF Locals, Points, Ends, CallPoints, FetchPoints, AuditPoints,
         ReadPoints, Reported, Promoting
  <2> QED
    BY <1>2, <1>3, <2>1, <2>2, TaskStep
<1> QED
  BY <1>4, <1>5, <1>6 DEF EnterGate

(* The server answers with the card it serves.                             *)
LEMMA AnswerStep ==
  ASSUME Inv, NEW t \in Tasks, ServerAnswersCard(t)
  PROVE  Inv'
<1> DEFINE r == op[t]
           o == [r EXCEPT !.card = served]
<1>1. Locals(pc[t], r, seen[t]) /\ served \in Cards
  BY DEF Inv, TasksInv, WorldInv
<1>2. /\ pc[t] = "fetching" /\ History /\ UNCHANGED <<world, pin, cache, queue>>
      /\ pc' = [pc EXCEPT ![t] = "fetched"] /\ op' = [op EXCEPT ![t] = o]
  BY DEF ServerAnswersCard, Await, Set
<1>3. WorldInv'
  BY <1>2, WorldSame DEF world
<1>4. /\ DOMAIN o = OpFields /\ o.snap = r.snap /\ o.listed = r.listed
      /\ o.entry = r.entry /\ o.kind = r.kind /\ o.card = served /\ o.gate = r.gate
  BY <1>1 DEF Locals, OpFields
<1>6. Approved(seen[t]) => Approved(seen'[t])
  BY <1>2, ApprovedGrows DEF Inv, TasksInv, Points
<1> HIDE DEF o, r
<1>5. Locals("fetched", o, seen'[t])
  BY <1>1, <1>2, <1>4, <1>6 DEF Locals, Points, Ends, CallPoints, FetchPoints, AuditPoints,
         ReadPoints, Reported, Promoting
<1> QED
  BY <1>2, <1>3, <1>5, TaskStep

(* getCard() lets no spoiled signature through and caches no unsigned card. *)
LEMMA ArriveStep ==
  ASSUME Inv, NEW t \in Tasks, CardArrives(t)
  PROVE  Inv'
<1>1. Locals(pc[t], op[t], seen[t]) /\ pc[t] = "fetched"
  BY DEF Inv, TasksInv, CardArrives
<1>2. PICK c \in Cards : c = op[t].card
  BY <1>1 DEF Locals
<1>3. History /\ UNCHANGED <<world, pin, queue>>
  BY DEF CardArrives
<1>4. WorldInv'
  <2>1. cache' = cache \/ (cache' = c /\ verifyGlyph(c))
    BY <1>2 DEF CardArrives
  <2> QED
    BY <1>3, <2>1 DEF Inv, WorldInv, History, world
<1>5. \/ End(t, "refused") \/ End(t, "ok")
      \/ op[t].kind = "call" /\ c.signature # "invalid" /\ Present(t, c)
  BY <1>2 DEF CardArrives
<1>6. CASE End(t, "refused") \/ End(t, "ok")
  BY <1>3, <1>4, <1>6, EndStep DEF Ends
<1>7. op[t].gate # "pin" => Approved(seen[t])
  BY <1>1 DEF Locals
<1> QED
  BY <1>3, <1>4, <1>5, <1>6, <1>7, PresentStep

(* The verdicts of ensureApproved, and the pin each of them leaves.        *)
LEMMA VerdictStep ==
  ASSUME Inv, NEW t \in Tasks,
         PinMatches(t) \/ TrustOnFirstUse(t) \/ AutoUpdate(t) \/ Park(t) \/ NotApproved(t)
  PROVE  Inv'
<1>1. Locals(pc[t], op[t], seen[t]) /\ pc[t] = "inspected"
  BY DEF Inv, TasksInv, PinMatches, TrustOnFirstUse, AutoUpdate, Park, NotApproved
<1>2. /\ op[t].kind = "call" /\ op[t].card \in Cards /\ op[t].snap \in Pins \cup {None}
      /\ op[t].snap \in seen[t]
  BY <1>1 DEF Locals, CallPoints, ReadPoints
<1>3. /\ History /\ UNCHANGED <<world, cache>>
      /\ Pass(t) \/ End(t, "refused")
  BY DEF PinMatches, TrustOnFirstUse, AutoUpdate, Park, NotApproved
<1>4. pin' \in Pins \cup {None}
  <2>1. CASE AutoUpdate(t)
    <3>1. op[t].snap # None
      BY <2>1 DEF AutoUpdate, MayAutoUpdate, status, inspectStatus
    <3> QED
      BY <1>2, <2>1, <3>1 DEF AutoUpdate, Pins
  <2>2. CASE TrustOnFirstUse(t)
    <3>1. pin' = pin \/ pin' = [card |-> op[t].card, revoked |-> FALSE]
      BY <2>2 DEF TrustOnFirstUse
    <3>2. [card |-> op[t].card, revoked |-> FALSE] \in Pins
      BY <1>2 DEF Pins
    <3> QED
      BY <3>1, <3>2 DEF Inv, WorldInv
  <2>3. CASE PinMatches(t) \/ Park(t) \/ NotApproved(t)
    BY <2>3 DEF PinMatches, Park, NotApproved, Inv, WorldInv
  <2> QED
    BY <2>1, <2>2, <2>3
<1>5. queue' # None => Entries(queue')
  <2>1. CASE Park(t)
    BY <1>2, <2>1 DEF Park, Entries, diff
  <2>2. CASE ~Park(t)
    BY <2>2 DEF PinMatches, TrustOnFirstUse, AutoUpdate, NotApproved, Inv, WorldInv
  <2> QED
    BY <2>1, <2>2
<1>6. WorldInv'
  BY <1>3, <1>4, <1>5 DEF Inv, WorldInv, History, world
<1>7. CASE Pass(t) /\ ~TrustOnFirstUse(t) /\ ~NotApproved(t)
  <2>1. op[t].snap # None /\ ~op[t].snap.revoked
    BY <1>7 DEF PinMatches, AutoUpdate, MayAutoUpdate, Park, status, inspectStatus
  <2>2. Approved(seen[t])
    BY <1>2, <2>1 DEF Approved
  <2> QED
    BY <1>2, <1>3, <1>6, <1>7, <2>2, ApprovedGrows, PassStep
<1>8. CASE End(t, "refused")
  BY <1>3, <1>6, <1>8, EndStep DEF Ends
<1>9. CASE Pass(t) /\ TrustOnFirstUse(t) /\ ~End(t, "refused")
  <2>1. pin' = [card |-> op[t].card, revoked |-> FALSE]
    BY <1>9 DEF TrustOnFirstUse
  <2>2. pin' # None /\ ~pin'.revoked
    <3>1. [card |-> op[t].card, revoked |-> FALSE] \in [card : Cards, revoked : BOOLEAN]
      BY <1>2
    <3> QED
      BY <2>1, <3>1, ClientAssumption
  <2>3. pc'[t] \in Points => Approved(seen'[t])
    BY <1>3, <2>2 DEF History, Approved
  <2> QED
    BY <1>2, <1>3, <1>6, <1>9, <2>3, PassStep
<1> QED
  BY <1>3, <1>7, <1>8, <1>9 DEF NotApproved

(* The POST, the envelope with the pin of that moment, and the receipt.    *)
LEMMA PostStep ==
  ASSUME Inv, NEW t \in Tasks,
         \/ ServerRuns(t) \/ CallReturns(t) \/ Lose(t)
         \/ \E u \in Tasks \cup {None} : EnvelopeArrives(t, u)
  PROVE  Inv'
<1> DEFINE r == op[t]
<1>1. Locals(pc[t], r, seen[t]) /\ pin \in Pins \cup {None}
  BY DEF Inv, TasksInv, WorldInv
<1>2. History /\ UNCHANGED <<world, pin, cache, queue>>
  BY DEF ServerRuns, CallReturns, Lose, EnvelopeArrives
<1>3. WorldInv'
  BY <1>2, WorldSame DEF world
<1>4. CASE ServerRuns(t)
  <2>1. /\ pc[t] = "posting" /\ pc' = [pc EXCEPT ![t] = "answered"]
        /\ op' = [op EXCEPT ![t] = r]
    BY <1>4 DEF ServerRuns, Await, Set
  <2>2. Locals("answered", r, seen'[t])
    BY <1>1, <2>1 DEF Locals, Points, Ends, CallPoints, FetchPoints, AuditPoints,
         ReadPoints, Reported, Promoting
  <2> QED
    BY <1>2, <1>3, <2>1, <2>2, TaskStep
<1>5. CASE \E how \in Ends : End(t, how)
  BY <1>2, <1>3, <1>5, EndStep
<1>6. ASSUME NEW u \in Tasks \cup {None}, pc[t] = "answered",
             Await(t, "verifying", [r EXCEPT !.envelope = u, !.snap = pin])
      PROVE  Inv'
  <2> DEFINE o == [r EXCEPT !.envelope = u, !.snap = pin]
  <2>1. pc' = [pc EXCEPT ![t] = "verifying"] /\ op' = [op EXCEPT ![t] = o]
    BY <1>6 DEF Await, Set
  <2>2. /\ DOMAIN o = OpFields /\ o.snap = pin /\ o.listed = r.listed
        /\ o.entry = r.entry /\ o.kind = "call"
    BY <1>1, <1>6 DEF Locals, OpFields, CallPoints
  <2>3. pin \in seen'[t]
    <3>1. pc'[t] \in Points
      BY <2>1 DEF Inv, TasksInv, Points
    <3> QED
      BY <1>2, <3>1, PinSeen
  <2> HIDE DEF o, r
  <2>4. Locals("verifying", o, seen'[t])
    BY <1>1, <2>2, <2>3 DEF Locals, Points, Ends, CallPoints, FetchPoints, AuditPoints,
         ReadPoints, Reported, Promoting
  <2> QED
    BY <1>2, <1>3, <2>1, <2>4, TaskStep
<1>7. CASE CallReturns(t) \/ Lose(t)
  BY <1>5, <1>7 DEF CallReturns, Lose, Ends
<1>8. ASSUME NEW u \in Tasks \cup {None}, EnvelopeArrives(t, u) PROVE Inv'
  BY <1>5, <1>6, <1>8 DEF EnvelopeArrives, Ends
<1> QED
  BY <1>4, <1>7, <1>8

(* approveCard() and revokeTool().                                         *)
LEMMA AdminStepKeeps ==
  ASSUME Inv, NEW t \in Tasks, AdminStep(t)
  PROVE  Inv'
<1>1. Locals(pc[t], op[t], seen[t]) /\ pin \in Pins \cup {None} /\ t \in DOMAIN pc
  BY DEF Inv, TasksInv, WorldInv
<1>2. History /\ UNCHANGED <<world, cache, queue>>
  BY DEF AdminStep, BeginApprove, Approve, BeginRevoke, Revoke
<1>3. WorldInv'
  <2>1. pin' \in Pins \cup {None}
    <3>1. CASE Approve(t)
      <4>1. op[t].card \in Cards
        BY <1>1, <3>1 DEF Approve, Locals
      <4>2. pin' = pin \/ pin' = [card |-> op[t].card, revoked |-> FALSE]
        BY <3>1 DEF Approve
      <4>3. [card |-> op[t].card, revoked |-> FALSE] \in Pins
        BY <4>1 DEF Pins
      <4> QED
        BY <1>1, <4>2, <4>3
    <3>2. CASE Revoke(t)
      <4>1. op[t].snap \in Pins \cup {None}
        BY <1>1 DEF Locals
      <4>2. pin' = pin \/ (op[t].snap # None /\ pin' = [op[t].snap EXCEPT !.revoked = TRUE])
        BY <3>2 DEF Revoke
      <4> QED
        BY <1>1, <4>1, <4>2 DEF Pins
    <3>3. CASE ~Approve(t) /\ ~Revoke(t)
      BY <1>1, <3>3 DEF AdminStep, BeginApprove, BeginRevoke
    <3> QED
      BY <3>1, <3>2, <3>3
  <2> QED
    BY <1>2, <2>1 DEF Inv, WorldInv, History, world
<1>4. CASE \E how \in Ends : End(t, how)
  BY <1>2, <1>3, <1>4, EndStep
<1>5. ASSUME NEW c \in Cards, NEW again \in BOOLEAN, verifyGlyph(c),
             Await(t, "approving", [NoOp EXCEPT !.kind = "approve", !.card = c,
                               !.reinstate = again, !.snap = pin])
      PROVE  Inv'
  <2> DEFINE o == [NoOp EXCEPT !.kind = "approve", !.card = c,
                               !.reinstate = again, !.snap = pin]
  <2>1. pc' = [pc EXCEPT ![t] = "approving"] /\ op' = [op EXCEPT ![t] = o]
    BY <1>5 DEF Await, Set
  <2>2. /\ DOMAIN o = OpFields /\ o.snap = pin /\ o.listed = None
        /\ o.entry = None /\ o.kind = "approve" /\ o.card = c
    BY DEF NoOp, OpFields
  <2>0. pin \in seen'[t]
    BY <1>1, <1>2, <2>1, PinSeen DEF Points
  <2> HIDE DEF o
  <2>3. Locals("approving", o, seen'[t])
    BY <1>1, <1>5, <2>0, <2>2 DEF Locals, Points, Ends, CallPoints, FetchPoints, AuditPoints,
         ReadPoints, Reported, Promoting
  <2> QED
    BY <1>2, <1>3, <2>1, <2>3, TaskStep
<1>6. CASE BeginRevoke(t)
  <2> DEFINE o == [NoOp EXCEPT !.kind = "revoke", !.snap = pin]
  <2>1. pc' = [pc EXCEPT ![t] = "revoking"] /\ op' = [op EXCEPT ![t] = o]
    BY <1>6 DEF BeginRevoke, Await, Set
  <2>2. /\ DOMAIN o = OpFields /\ o.snap = pin /\ o.listed = None
        /\ o.entry = None /\ o.kind = "revoke"
    BY DEF NoOp, OpFields
  <2>0. pin \in seen'[t]
    BY <1>1, <1>2, <2>1, PinSeen DEF Points
  <2> HIDE DEF o
  <2>3. Locals("revoking", o, seen'[t])
    BY <1>1, <2>0, <2>2 DEF Locals, Points, Ends, CallPoints, FetchPoints, AuditPoints,
         ReadPoints, Reported, Promoting
  <2> QED
    BY <1>2, <1>3, <2>1, <2>3, TaskStep
<1>7. CASE Approve(t) \/ Revoke(t)
  BY <1>4, <1>7 DEF Approve, Revoke, Ends
<1>8. ASSUME NEW c \in Cards, NEW again \in BOOLEAN, BeginApprove(t, c, again) PROVE Inv'
  BY <1>4, <1>5, <1>8 DEF BeginApprove, Ends
<1> QED
  BY <1>6, <1>7, <1>8 DEF AdminStep

(* auditEntry(): the report is about the entry that was listed.            *)
LEMMA ReportStep ==
  ASSUME Inv, NEW t \in Tasks, pc[t] \in AuditPoints, NEW m, writeReport(t, m),
         History, WorldInv'
  PROVE  Inv'
<1> DEFINE r == op[t]
           rep == [attestation    |-> attestationResult(r.listed.newCard),
                   manifest       |-> m,
                   diff           |-> r.listed.diff,
                   newCardId      |-> r.listed.newCard.id,
                   signatureValid |-> verifyGlyph(r.listed.newCard)]
           o == [r EXCEPT !.report = rep]
<1>1. Locals(pc[t], r, seen[t])
  BY DEF Inv, TasksInv
<1>2. pc' = [pc EXCEPT ![t] = "reported"] /\ op' = [op EXCEPT ![t] = o]
  BY DEF writeReport, Await, Set
<1>3. /\ rep.diff = r.listed.diff /\ rep.newCardId = r.listed.newCard.id
      /\ rep.signatureValid = verifyGlyph(r.listed.newCard)
  OBVIOUS
<1> HIDE DEF rep
<1>4. /\ DOMAIN o = OpFields /\ o.snap = r.snap /\ o.listed = r.listed
      /\ o.entry = r.entry /\ o.kind = r.kind /\ o.report = rep
  BY <1>1 DEF Locals, OpFields
<1> HIDE DEF o, r
<1>5. Locals("reported", o, seen'[t])
  BY <1>1, <1>3, <1>4 DEF Locals, Points, Ends, CallPoints, FetchPoints, AuditPoints,
         ReadPoints, Reported, Promoting
<1> QED
  BY <1>2, <1>5, TaskStep

(* A step of an audit that keeps its listed entry and report, and reads    *)
(* the pin or the queue again.                                             *)
LEMMA AuditRead ==
  ASSUME Inv, NEW t \in Tasks, pc[t] \in AuditPoints,
         NEW w \in {"manifested", "keyed", "described", "dequeued", "deciding", "repinned"},
         NEW o, Await(t, w, o), DOMAIN o = OpFields, o.snap \in Pins \cup {None},
         o.entry # None => Entries(o.entry), w = "deciding" => o.snap = pin,
         o.listed = op[t].listed, o.report = op[t].report, o.kind = op[t].kind,
         w \in Promoting => /\ pc[t] \in Reported
                            /\ config.autoPromotionPolicy # None
                            /\ evaluatePromotion(o.report, config.autoPromotionPolicy),
         History, WorldInv'
  PROVE  Inv'
<1>1. Locals(pc[t], op[t], seen[t]) /\ t \in DOMAIN pc
  BY DEF Inv, TasksInv
<1>2. pc' = [pc EXCEPT ![t] = w] /\ op' = [op EXCEPT ![t] = o]
  BY DEF Await, Set
<1>4. w = "deciding" => pin \in seen'[t]
  BY <1>1, <1>2, PinSeen DEF Points
<1>3. Locals(w, o, seen'[t])
  BY <1>1, <1>4 DEF Locals, Points, Ends, CallPoints, FetchPoints, AuditPoints,
         ReadPoints, Reported, Promoting
<1> QED
  BY <1>2, <1>3, TaskStep

(* processAudits() up to its decision.                                     *)
LEMMA AuditKeeps ==
  ASSUME Inv, NEW t \in Tasks,
         \/ BeginAudit(t) \/ ServerAnswersManifest(t) \/ ManifestArrives(t)
         \/ ManifestKeyChecked(t) \/ ManifestDescribed(t) \/ ManifestLost(t)
         \/ Evaluate(t) \/ ReadPin(t)
  PROVE  Inv'
<1> DEFINE r == op[t]
<1>1. Locals(pc[t], r, seen[t]) /\ pin \in Pins \cup {None}
      /\ (queue # None => Entries(queue))
  BY DEF Inv, TasksInv, WorldInv
<1>2. History /\ UNCHANGED <<world, pin, cache, queue>>
  BY DEF BeginAudit, ServerAnswersManifest, ManifestArrives, ManifestKeyChecked,
         ManifestDescribed, ManifestLost, Evaluate, ReadPin
<1>3. WorldInv'
  BY <1>2, WorldSame DEF world
<1>4. CASE \E how \in Ends : End(t, how)
  BY <1>2, <1>3, <1>4, EndStep
<1>5. CASE BeginAudit(t)
  <2> DEFINE o == [NoOp EXCEPT !.kind = "audit", !.listed = queue]
  <2>1. CASE queue = None
    BY <1>4, <1>5, <2>1 DEF BeginAudit, Ends
  <2>2. CASE queue # None
    <3>1. pc' = [pc EXCEPT ![t] = "auditing"] /\ op' = [op EXCEPT ![t] = o]
      BY <1>5, <2>2 DEF BeginAudit, Await, Set
    <3>2. /\ DOMAIN o = OpFields /\ o.snap = None /\ o.listed = queue
          /\ o.entry = None /\ o.kind = "audit"
      BY DEF NoOp, OpFields
    <3> HIDE DEF o
    <3>3. Locals("auditing", o, seen'[t])
      BY <1>1, <2>2, <3>2 DEF Locals, Points, Ends, CallPoints, FetchPoints, AuditPoints,
         ReadPoints, Reported, Promoting
    <3> QED
      BY <1>2, <1>3, <3>1, <3>3, TaskStep
  <2> QED
    BY <2>1, <2>2
<1>6. ASSUME NEW m, writeReport(t, m), pc[t] \in AuditPoints PROVE Inv'
  BY <1>2, <1>3, <1>6, ReportStep
<1>7. CASE ServerAnswersManifest(t)
  <2> DEFINE o == [r EXCEPT !.proposal = manifest]
  <2>1. pc[t] \in AuditPoints /\ Await(t, "manifested", o)
    BY <1>7 DEF ServerAnswersManifest, AuditPoints
  <2>2. /\ DOMAIN o = OpFields /\ o.snap = r.snap /\ o.listed = r.listed
        /\ o.entry = r.entry /\ o.kind = r.kind /\ o.report = r.report
    BY <1>1 DEF Locals, OpFields
  <2>3. "manifested" \notin Promoting /\ r.snap \in Pins \cup {None}
        /\ (r.entry # None => Entries(r.entry))
    BY <1>1 DEF Locals, Promoting
  <2> HIDE DEF o, r
  <2> QED
    BY <1>2, <1>3, <2>1, <2>2, <2>3, AuditRead DEF r
<1>8. ASSUME NEW w \in {"keyed", "described", "deciding"},
             Await(t, w, [r EXCEPT !.snap = pin]), pc[t] \in AuditPoints,
             w = "deciding" => pc[t] = "dequeued"
      PROVE  Inv'
  <2> DEFINE o == [r EXCEPT !.snap = pin]
  <2>1. Await(t, w, o)
    BY <1>8
  <2>2. /\ DOMAIN o = OpFields /\ o.snap = pin /\ o.listed = r.listed
        /\ o.entry = r.entry /\ o.kind = r.kind /\ o.report = r.report
    BY <1>1 DEF Locals, OpFields
  <2>3. /\ r.entry # None => Entries(r.entry)
        /\ w \in Promoting => /\ pc[t] \in Reported
                              /\ config.autoPromotionPolicy # None
                              /\ evaluatePromotion(r.report, config.autoPromotionPolicy)
    BY <1>1, <1>8 DEF Locals, Promoting, Reported
  <2> HIDE DEF o, r
  <2> QED
    BY <1>1, <1>2, <1>3, <1>8, <2>1, <2>2, <2>3, AuditRead DEF r
<1>9. CASE Evaluate(t)
  <2> DEFINE o == [r EXCEPT !.entry = queue]
  <2>1. CASE End(t, "withheld")
    BY <1>4, <2>1 DEF Ends
  <2>2. CASE /\ Await(t, "dequeued", o)
             /\ config.autoPromotionPolicy # None
             /\ evaluatePromotion(r.report, config.autoPromotionPolicy)
    <3>1. /\ DOMAIN o = OpFields /\ o.snap = r.snap /\ o.listed = r.listed
          /\ o.entry = queue /\ o.kind = r.kind /\ o.report = r.report
      BY <1>1 DEF Locals, OpFields
    <3>2. pc[t] \in AuditPoints /\ pc[t] \in Reported /\ r.snap \in Pins \cup {None}
      BY <1>1, <1>9 DEF Evaluate, AuditPoints, Reported, Locals
    <3> HIDE DEF o, r
    <3> QED
      BY <1>1, <1>2, <1>3, <2>2, <3>1, <3>2, AuditRead DEF r
  <2> QED
    BY <1>9, <2>1, <2>2 DEF Evaluate
<1>10. CASE ManifestArrives(t) \/ ManifestKeyChecked(t) \/ ManifestDescribed(t)
            \/ ManifestLost(t) \/ ReadPin(t)
  <2>1. pc[t] \in AuditPoints
    BY <1>10 DEF ManifestArrives, ManifestKeyChecked, ManifestDescribed, ManifestLost,
                 ReadPin, AuditPoints
  <2>2. CASE ManifestArrives(t)
    BY <1>6, <1>8, <2>1, <2>2 DEF ManifestArrives
  <2>3. CASE ManifestKeyChecked(t)
    BY <1>6, <1>8, <2>1, <2>3 DEF ManifestKeyChecked
  <2>4. CASE ManifestDescribed(t) \/ ManifestLost(t)
    BY <1>6, <2>1, <2>4 DEF ManifestDescribed, ManifestLost
  <2>5. CASE ReadPin(t)
    BY <1>8, <2>1, <2>5 DEF ReadPin
  <2> QED
    BY <1>10, <2>2, <2>3, <2>4, <2>5
<1> QED
  BY <1>5, <1>7, <1>9, <1>10

(* The promotion itself, and the end of the audit.                         *)
LEMMA PromoteKeeps ==
  ASSUME Inv, NEW t \in Tasks, Promote(t) \/ Unpark(t)
  PROVE  Inv'
<1> DEFINE r == op[t]
<1>1. Locals(pc[t], r, seen[t]) /\ pin \in Pins \cup {None}
  BY DEF Inv, TasksInv, WorldInv
<1>2. History /\ UNCHANGED <<world, cache>>
  BY DEF Promote, Unpark
<1>3. CASE Unpark(t)
  <2>1. WorldInv'
    BY <1>2, <1>3 DEF Unpark, Inv, WorldInv, History, world
  <2> QED
    BY <1>2, <1>3, <2>1, EndStep DEF Unpark, Ends
<1>4. CASE Promote(t) /\ End(t, "withheld") /\ UNCHANGED pin
  <2>1. WorldInv'
    BY <1>2, <1>4, WorldSame DEF Promote, world
  <2> QED
    BY <1>2, <1>4, <2>1, EndStep DEF Ends
<1>5. CASE /\ Promote(t) /\ Await(t, "repinned", r)
           /\ Promotable(r.entry, r.report, r.snap)
           /\ pin' = [card |-> r.entry.newCard, revoked |-> FALSE]
  <2>0. pc[t] = "deciding" /\ UNCHANGED queue
    BY <1>5 DEF Promote
  <2>1. pin' \in Pins
    BY <1>1, <1>5 DEF Promotable, Pins, Locals, Entries
  <2>2. WorldInv'
    BY <1>2, <2>0, <2>1 DEF Inv, WorldInv, History, world
  <2>3. /\ pc[t] \in AuditPoints /\ pc[t] \in Reported /\ DOMAIN r = OpFields
        /\ config.autoPromotionPolicy # None
        /\ evaluatePromotion(r.report, config.autoPromotionPolicy)
        /\ r.snap \in Pins \cup {None} /\ (r.entry # None => Entries(r.entry))
    BY <1>1, <2>0 DEF Locals, AuditPoints, Reported, Promoting
  <2> QED
    BY <1>2, <1>5, <2>2, <2>3, AuditRead
<1> QED
  BY <1>3, <1>4, <1>5 DEF Promote

(* A deployment changes the server only.                                   *)
LEMMA DeployKeeps ==
  ASSUME Inv, NEW c \in Cards, Deploy(c)
  PROVE  Inv'
<1>1. WorldInv'
  BY DEF Inv, WorldInv, Deploy, History
<1>2. ASSUME NEW u \in Tasks PROVE Locals(pc[u], op[u], seen[u])'
  <2>1. pc' = pc /\ op' = op /\ config' = config /\ Locals(pc[u], op[u], seen[u])
    BY DEF Inv, TasksInv, Deploy, History
  <2>2. pc[u] \in Points => seen[u] \subseteq seen'[u]
    BY <2>1 DEF Deploy, History
  <2>3. Locals(pc[u], op[u], seen'[u])
    BY <2>1, <2>2, LocalsGrow
  <2> QED
    BY <2>1, <2>3 DEF Locals
<1> QED
  BY <1>1, <1>2 DEF Inv, TasksInv, Deploy

(* Inv holds however the operations overlap.                               *)
LEMMA NextInv == Inv /\ [Next]_vars => Inv'
<1> SUFFICES ASSUME Inv, [Next]_vars PROVE Inv'
  OBVIOUS
<1>1. ASSUME NEW t \in Tasks, CallStep(t) PROVE Inv'
  BY <1>1, BeginStep, EnterGateStep, AnswerStep, ArriveStep, VerdictStep, PostStep
     DEF CallStep
<1>2. ASSUME NEW t \in Tasks, AuditStep(t) PROVE Inv'
  BY <1>2, AuditKeeps, PromoteKeeps DEF AuditStep
<1>3. CASE UNCHANGED vars
  BY <1>3 DEF vars, Inv, WorldInv, TasksInv, Locals
<1> QED
  BY <1>1, <1>2, <1>3, AdminStepKeeps, DeployKeeps DEF Next
(* Inv in every reachable state.                                           *)
LEMMA ClientInvariant == Spec => []Inv
<1> QED
  BY InitInv, NextInv, PTL DEF Spec

------------------------------------------------------------------------------
(* Who moves, and who writes the pin *)

(* An operation moves by its own steps alone.                              *)
LEMMA OwnMove ==
  ASSUME Inv, NEW u \in Tasks, CallStep(u) \/ AdminStep(u) \/ AuditStep(u)
  PROVE  \A t \in Tasks \ {u} : pc'[t] = pc[t] /\ op'[t] = op[t]
<1> DEFINE M == \A t \in Tasks \ {u} : pc'[t] = pc[t] /\ op'[t] = op[t]
<1> SUFFICES M
  OBVIOUS
<1>0. DOMAIN pc = Tasks /\ DOMAIN op = Tasks
  BY DEF Inv, TasksInv
<1>1. ASSUME NEW w, NEW o, Await(u, w, o) PROVE M
  BY <1>0, <1>1 DEF Await, Set
<1>2. ASSUME NEW how, End(u, how) PROVE M
  BY <1>0, <1>2 DEF End, Set
<1> HIDE DEF M
<1>3. Pass(u) => M
  BY <1>1 DEF Pass
<1>4. ASSUME NEW c, Present(u, c) PROVE M
  BY <1>1, <1>2, <1>3, <1>4 DEF Present
<1>5. ASSUME NEW m, writeReport(u, m) PROVE M
  BY <1>1, <1>5 DEF writeReport
<1>6. CASE \/ BeginGetCard(u) \/ BeginCall(u) \/ EnterGate(u) \/ ServerAnswersCard(u)
           \/ CardArrives(u)
  BY <1>1, <1>2, <1>3, <1>4, <1>6
     DEF BeginGetCard, BeginCall, EnterGate, ServerAnswersCard, CardArrives
<1>7. CASE \/ PinMatches(u) \/ TrustOnFirstUse(u) \/ AutoUpdate(u) \/ Park(u)
           \/ NotApproved(u)
  BY <1>2, <1>3, <1>7 DEF PinMatches, TrustOnFirstUse, AutoUpdate, Park, NotApproved
<1>8. CASE \/ ServerRuns(u) \/ CallReturns(u) \/ Lose(u)
           \/ \E e \in Tasks \cup {None} : EnvelopeArrives(u, e)
  BY <1>1, <1>2, <1>8 DEF ServerRuns, CallReturns, Lose, EnvelopeArrives
<1>9. CASE AdminStep(u)
  BY <1>1, <1>2, <1>9 DEF AdminStep, BeginApprove, Approve, BeginRevoke, Revoke
<1>10. CASE AuditStep(u)
  BY <1>1, <1>2, <1>5, <1>10
     DEF AuditStep, BeginAudit, ServerAnswersManifest, ManifestArrives,
         ManifestKeyChecked, ManifestDescribed, ManifestLost, Evaluate, ReadPin,
         Promote, Unpark
<1> QED
  BY <1>6, <1>7, <1>8, <1>9, <1>10 DEF CallStep

(* Who has moved has taken the step.                                       *)
LEMMA Mover ==
  ASSUME Inv, [Next]_vars, NEW t \in Tasks, pc'[t] # pc[t]
  PROVE  CallStep(t) \/ AdminStep(t) \/ AuditStep(t)
<1>1. ASSUME NEW u \in Tasks, CallStep(u) \/ AdminStep(u) \/ AuditStep(u) PROVE u = t
  BY <1>1, OwnMove
<1>2. ASSUME NEW c \in Cards, Deploy(c) PROVE FALSE
  BY <1>2 DEF Deploy
<1>3. ~UNCHANGED vars
  BY DEF vars
<1> QED
  BY <1>1, <1>2, <1>3 DEF Next

(* The five writers of the pin: two verdicts of ensureApproved, approval,  *)
(* revocation and promotion.                                               *)
PinWriter(t) ==
  \/ TrustOnFirstUse(t) \/ AutoUpdate(t) \/ Approve(t) \/ Revoke(t) \/ Promote(t)

(* No other step changes the pin.                                          *)
LEMMA PinWriters ==
  ASSUME Inv, [Next]_vars, pin' # pin
  PROVE  \E t \in Tasks : PinWriter(t)
<1>1. ASSUME NEW t \in Tasks, CallStep(t) \/ AdminStep(t) \/ AuditStep(t)
      PROVE  PinWriter(t)
  <2>1. CASE CallStep(t)
    BY <2>1 DEF CallStep, BeginGetCard, BeginCall, EnterGate, ServerAnswersCard,
       CardArrives, PinMatches, Park, NotApproved, ServerRuns, CallReturns, Lose,
       EnvelopeArrives, PinWriter
  <2>2. CASE AdminStep(t)
    BY <2>2 DEF AdminStep, BeginApprove, BeginRevoke, PinWriter
  <2>3. CASE AuditStep(t)
    BY <2>3 DEF AuditStep, BeginAudit, ServerAnswersManifest, ManifestArrives,
       ManifestKeyChecked, ManifestDescribed, ManifestLost, Evaluate, ReadPin, Unpark,
       PinWriter
  <2> QED
    BY <1>1, <2>1, <2>2, <2>3
<1>2. ASSUME NEW c \in Cards, Deploy(c) PROVE FALSE
  BY <1>2 DEF Deploy
<1>3. ~UNCHANGED vars
  BY DEF vars
<1> QED
  BY <1>1, <1>2, <1>3 DEF Next

(* Where a writer stood and of what kind it is.                            *)
LEMMA WriterKind ==
  ASSUME Inv, NEW t \in Tasks, PinWriter(t)
  PROVE  /\ TrustOnFirstUse(t) \/ AutoUpdate(t) => op[t].kind = "call" /\ pc[t] = "inspected"
         /\ Approve(t) => op[t].kind = "approve" /\ pc[t] = "approving"
         /\ Revoke(t) => op[t].kind = "revoke" /\ pc[t] = "revoking"
         /\ Promote(t) => op[t].kind = "audit" /\ pc[t] = "deciding"
<1>1. Locals(pc[t], op[t], seen[t])
  BY DEF Inv, TasksInv
<1> QED
  BY <1>1 DEF Locals, CallPoints, AuditPoints, TrustOnFirstUse, AutoUpdate, Approve,
              Revoke, Promote
(* Whoever else moves, the writer of the pin is the operation that moves.  *)
LEMMA WriterIs ==
  ASSUME Inv, [Next]_vars, NEW t \in Tasks, pc'[t] # pc[t], pin' # pin
  PROVE  PinWriter(t)
<1>1. PICK u \in Tasks : PinWriter(u)
  BY PinWriters
<1>2. CallStep(u) \/ AdminStep(u) \/ AuditStep(u)
  BY <1>1 DEF PinWriter, CallStep, AdminStep, AuditStep
<1>3. u = t
  BY <1>2, OwnMove
<1> QED
  BY <1>1, <1>3

------------------------------------------------------------------------------
(* Receipts *)

(* What ran for t is a card that was pinned meanwhile.                     *)
FromPinned(t) == \E p \in seen[t] \ {None} : sameCard(p.card, ran[t])

(* The one step that delivers when receipts are verified, and what it      *)
(* found.                                                                  *)
LEMMA DeliveryStep ==
  Inv /\ [Next]_vars =>
    \A t \in Tasks :
        /\ config.secureMode /\ config.verifyReceipts
        /\ pc'[t] = "delivered" /\ pc[t] # "delivered"
        => op[t].envelope = t /\ FromPinned(t)
<1> SUFFICES ASSUME Inv, [Next]_vars, NEW t \in Tasks,
                    config.secureMode, config.verifyReceipts,
                    pc'[t] = "delivered", pc[t] # "delivered"
             PROVE  op[t].envelope = t /\ FromPinned(t)
  OBVIOUS
<1>1. Locals(pc[t], op[t], seen[t]) /\ t \in DOMAIN pc
  BY DEF Inv, TasksInv
<1>2. CallStep(t) \/ AdminStep(t) \/ AuditStep(t)
  BY Mover
<1>3. ASSUME NEW w, NEW o, Await(t, w, o) PROVE w = "delivered"
  BY <1>1, <1>3 DEF Await, Set
<1>4. ASSUME NEW how, End(t, how) PROVE how = "delivered"
  BY <1>1, <1>4 DEF End, Set
<1>5. ~Pass(t)
  BY <1>3 DEF Pass
<1>6. ASSUME NEW c PROVE ~Present(t, c)
  BY <1>3, <1>4, <1>5 DEF Present
<1>7. ASSUME NEW m PROVE ~writeReport(t, m)
  BY <1>3 DEF writeReport
<1>8. ~AdminStep(t)
  BY <1>3, <1>4 DEF AdminStep, BeginApprove, Approve, BeginRevoke, Revoke
<1>9. ~AuditStep(t)
  BY <1>3, <1>4, <1>7 DEF AuditStep, BeginAudit, ServerAnswersManifest, ManifestArrives,
         ManifestKeyChecked, ManifestDescribed, ManifestLost, Evaluate, ReadPin,
         Promote, Unpark
<1>10. CallReturns(t)
  BY <1>2, <1>3, <1>4, <1>5, <1>6, <1>8, <1>9
     DEF CallStep, BeginGetCard, BeginCall, EnterGate, ServerAnswersCard, CardArrives,
         PinMatches, TrustOnFirstUse, AutoUpdate, Park, NotApproved, ServerRuns, Lose,
         EnvelopeArrives
<1>11. op[t].snap # None /\ verifyReceipt(op[t].snap, op[t].envelope, t)
  BY <1>4, <1>10 DEF CallReturns
<1>12. op[t].snap \in seen[t]
  BY <1>1, <1>10, <1>11 DEF Locals, CallReturns
<1> QED
  BY <1>11, <1>12 DEF verifyReceipt, FromPinned, sameCard

(* With receipts verified, call() returns a payload only if it answers     *)
(* this very call and was produced by a card that was pinned at some       *)
(* moment of the call: for any number of overlapping operations, any       *)
(* deployments and a network that loses, strips and replays envelopes      *)
(* (call, verifyReceipt).                                                  *)
THEOREM PayloadsFromPinnedCards == Spec => DeliveredFromPinned
<1> DEFINE A == \A t \in Tasks :
        /\ config.secureMode /\ config.verifyReceipts
        /\ pc'[t] = "delivered" /\ pc[t] # "delivered"
        => /\ op[t].envelope = t
           /\ \E p \in seen[t] \ {None} : sameCard(p.card, ran[t])
<1>1. Inv /\ [Next]_vars => [A]_vars
  BY DeliveryStep DEF FromPinned
<1> HIDE DEF A
<1>2. Spec => [][A]_vars
  BY <1>1, ClientInvariant, PTL DEF Spec
<1> QED
  BY <1>2 DEF A, DeliveredFromPinned
------------------------------------------------------------------------------
(* Revocation *)

(* What a writer of the pin goes by: the pin it read, which was pinned     *)
(* since it began.                                                         *)
LEMMA WriterRead ==
  ASSUME Inv, NEW t \in Tasks, PinWriter(t)
  PROVE  op[t].snap \in seen[t] /\ op[t].snap \in Pins \cup {None}
BY DEF Inv, TasksInv, Locals, ReadPoints, PinWriter, TrustOnFirstUse, AutoUpdate,
       Approve, Revoke, Promote

(* An automatic update goes by an approval in force, and pins the card of  *)
(* the call over it.                                                       *)
LEMMA UpdateRead ==
  ASSUME Inv, NEW t \in Tasks, AutoUpdate(t)
  PROVE  /\ op[t].snap \in Approvals(t) /\ pin'.card = op[t].card
         /\ ~diffCards(op[t].snap.card, pin'.card).requiresApproval
<1>1. op[t].snap \in seen[t] /\ op[t].snap \in Pins \cup {None}
  BY WriterRead DEF PinWriter
<1>2. op[t].snap # None /\ ~op[t].snap.revoked
  BY DEF AutoUpdate, MayAutoUpdate, status, inspectStatus
<1>3. pin'.card = op[t].card
  BY <1>1, <1>2 DEF AutoUpdate, Pins
<1> QED
  BY <1>1, <1>2, <1>3 DEF AutoUpdate, MayAutoUpdate, diff, Approvals

(* An operation during which the tool was revoked all the time never       *)
(* replaces the pin, unless it is an approval that asks to reinstate,      *)
(* whatever overlaps it (revokeTool, approveCard, ensureApproved,          *)
(* processAudits).                                                         *)
THEOREM RevocationsStick == Spec => RevocationSticks
<1> DEFINE A == \A t \in Tasks :
                  /\ pc'[t] # pc[t] /\ pin' # pin
                  /\ \A p \in seen[t] : p # None /\ p.revoked
                  => op[t].kind = "approve" /\ op[t].reinstate
<1>1. Inv /\ [Next]_vars => [A]_vars
  <2> SUFFICES ASSUME Inv, [Next]_vars, NEW t \in Tasks, pc'[t] # pc[t], pin' # pin,
                      \A p \in seen[t] : p # None /\ p.revoked
               PROVE  op[t].kind = "approve" /\ op[t].reinstate
    OBVIOUS
  <2>1. PinWriter(t)
    BY WriterIs
  <2>2. op[t].snap # None /\ op[t].snap.revoked
    BY <2>1, WriterRead
  <2>3. ~TrustOnFirstUse(t) /\ ~AutoUpdate(t)
    BY <2>2 DEF TrustOnFirstUse, AutoUpdate, MayAutoUpdate, status, inspectStatus
  <2>4. ~Revoke(t) /\ ~Promote(t)
    BY <2>2 DEF Revoke, Promote, Promotable
  <2>5. Approve(t)
    BY <2>1, <2>3, <2>4 DEF PinWriter
  <2> QED
    BY <2>1, <2>2, <2>5, WriterKind DEF Approve
<1> HIDE DEF A
<1>2. Spec => [][A]_vars
  BY <1>1, ClientInvariant, PTL DEF Spec
<1> QED
  BY <1>2 DEF A, RevocationSticks

(* A server that runs a card does so for a call at its POST.               *)
LEMMA RanStep ==
  ASSUME [Next]_vars, NEW t \in Tasks, ran'[t] # ran[t]
  PROVE  pc[t] = "posting"
<1>1. ASSUME NEW u \in Tasks, ServerRuns(u) PROVE pc[t] = "posting"
  <2>1. CASE u = t
    BY <1>1, <2>1 DEF ServerRuns
  <2>2. CASE u # t
    BY <1>1, <2>2 DEF ServerRuns, Set
  <2> QED
    BY <2>1, <2>2
<1>2. ASSUME NEW u \in Tasks, CallStep(u), ~ServerRuns(u) PROVE ran' = ran
  BY <1>2 DEF CallStep, BeginGetCard, BeginCall, EnterGate, ServerAnswersCard,
     CardArrives, PinMatches, TrustOnFirstUse, AutoUpdate, Park, NotApproved,
     CallReturns, Lose, EnvelopeArrives
<1>3. ASSUME NEW u \in Tasks, AdminStep(u) PROVE ran' = ran
  BY <1>3 DEF AdminStep, BeginApprove, Approve, BeginRevoke, Revoke
<1>4. ASSUME NEW u \in Tasks, AuditStep(u) PROVE ran' = ran
  BY <1>4 DEF AuditStep, BeginAudit, ServerAnswersManifest, ManifestArrives,
     ManifestKeyChecked, ManifestDescribed, ManifestLost, Evaluate, ReadPin, Promote,
     Unpark
<1>5. ASSUME NEW c \in Cards, Deploy(c) PROVE ran' = ran
  BY <1>5 DEF Deploy
<1> QED
  BY <1>1, <1>2, <1>3, <1>4, <1>5 DEF Next, vars

(* A call reaches the handler only if some approval of the tool was in     *)
(* force while it was under way, whatever overlaps it and whatever card    *)
(* the session cache holds (inspectCard, ensureApproved).                  *)
THEOREM RevokedToolsDoNotRun == Spec => RevokedNeverRuns
<1> DEFINE A == \A t \in Tasks : ran'[t] # ran[t] => Approvals(t) # {}
<1>1. Inv /\ [Next]_vars => [A]_vars
  <2> SUFFICES ASSUME Inv, [Next]_vars, NEW t \in Tasks, ran'[t] # ran[t]
               PROVE  Approvals(t) # {}
    OBVIOUS
  <2>1. pc[t] = "posting"
    BY RanStep
  <2>2. Approved(seen[t])
    BY <2>1 DEF Inv, TasksInv, Locals
  <2> QED
    BY <2>2 DEF Approved, Approvals
<1> HIDE DEF A
<1>2. Spec => [][A]_vars
  BY <1>1, ClientInvariant, PTL DEF Spec
<1> QED
  BY <1>2 DEF A, RevokedNeverRuns
------------------------------------------------------------------------------
(* Breaking changes *)

(* What diffCards wants approved is a breaking change, and no other.       *)
LEMMA DiffIsBreaking ==
  \A a, b : diffCards(a, b).requiresApproval <=> BreakingChange(a, b)
BY DEF diffCards, BreakingChange

(* The automatic pins of call(), on first use and on a review-only change, *)
(* never bring in a card that breaks the contract or swaps the key of      *)
(* every approval there was during the call, whatever overlaps it: with    *)
(* two first calls under way, or an update that replaces a pin it never    *)
(* read, the card still agrees with a pin in force meanwhile, or there was *)
(* none (ensureApproved).                                                  *)
THEOREM CallsRepinCompatible == Spec => CallNeverRepinsBreaking
<1> DEFINE A == \A t \in Tasks : Writes(t, "call") =>
                  \/ \E p \in Approvals(t) : ~BreakingChange(p.card, pin'.card)
                  \/ config.tofu /\ None \in seen[t]
<1>1. Inv /\ [Next]_vars => [A]_vars
  <2> SUFFICES ASSUME Inv, [Next]_vars, NEW t \in Tasks, Writes(t, "call")
               PROVE  \/ \E p \in Approvals(t) : ~BreakingChange(p.card, pin'.card)
                      \/ config.tofu /\ None \in seen[t]
    OBVIOUS
  <2>1. PinWriter(t)
    BY WriterIs DEF Writes
  <2>2. CASE AutoUpdate(t)
    BY <2>2, UpdateRead, DiffIsBreaking
  <2>3. CASE TrustOnFirstUse(t)
    <3>1. config.tofu /\ op[t].snap = None
      BY <2>3 DEF TrustOnFirstUse, status, inspectStatus
    <3> QED
      BY <2>1, <3>1, WriterRead
  <2> QED
    BY <2>1, <2>2, <2>3, WriterKind DEF Writes, PinWriter
<1> HIDE DEF A
<1>2. Spec => [][A]_vars
  BY <1>1, ClientInvariant, PTL DEF Spec
<1> QED
  BY <1>2 DEF A, CallNeverRepinsBreaking
------------------------------------------------------------------------------
(* Promotion *)

(* The server's ids and keys are such that an id names one card.           *)
OneCardPerId == \A c, d \in Cards : c.id = d.id => c = d

(* What the audit found of the entry it listed, when it promotes one.      *)
LEMMA PromotionStep ==
  ASSUME Inv, NEW t \in Tasks, Promote(t), pin' # pin
  PROVE  /\ pin'.card \in Cards /\ op[t].listed.newCard \in Cards
         /\ pin'.card.id = op[t].listed.newCard.id
         /\ verifyGlyph(op[t].listed.newCard)
         /\ BreakingChange(op[t].listed.over, op[t].listed.newCard)
              => config.autoPromotionPolicy.allowBreaking
<1>1. Locals(pc[t], op[t], seen[t]) /\ pc[t] = "deciding"
  BY DEF Inv, TasksInv, Promote
<1>2. /\ Promotable(op[t].entry, op[t].report, op[t].snap)
      /\ pin'.card = op[t].entry.newCard
  BY DEF Promote
<1>3. Entries(op[t].entry) /\ Entries(op[t].listed)
  BY <1>1, <1>2 DEF Promotable, Locals, AuditPoints
<1>4. /\ op[t].report.newCardId = op[t].listed.newCard.id
      /\ op[t].report.signatureValid = verifyGlyph(op[t].listed.newCard)
      /\ op[t].report.diff = op[t].listed.diff
      /\ evaluatePromotion(op[t].report, config.autoPromotionPolicy)
  BY <1>1 DEF Locals, Reported, Promoting
<1>5. verifyGlyph(op[t].listed.newCard)
  BY <1>4 DEF evaluatePromotion, AuditOk
<1>6. BreakingChange(op[t].listed.over, op[t].listed.newCard)
        => config.autoPromotionPolicy.allowBreaking
  BY <1>3, <1>4, DiffIsBreaking DEF evaluatePromotion, Entries
<1> QED
  BY <1>2, <1>3, <1>4, <1>5, <1>6 DEF Promotable, Entries

(* The audit that writes the pin promotes.                                 *)
LEMMA AuditWrites ==
  ASSUME Inv, [Next]_vars, NEW t \in Tasks, Writes(t, "audit")
  PROVE  Promote(t) /\ pin' # pin
<1>1. PinWriter(t)
  BY WriterIs DEF Writes
<1> QED
  BY <1>1, WriterKind DEF Writes, PinWriter

(* The audit runner pins exactly the card whose signature, manifest and    *)
(* attestation it checked, if an id names one card of the server, whatever *)
(* is parked or promoted meanwhile (processAudits).                        *)
THEOREM PromotesWhatItAudited ==
  ASSUME OneCardPerId
  PROVE  Spec => PromoteExactlyAudited
<1> DEFINE A == \A t \in Tasks : Writes(t, "audit") =>
                  pin'.card = op[t].listed.newCard
<1>1. Inv /\ [Next]_vars => [A]_vars
  BY AuditWrites, PromotionStep DEF OneCardPerId
<1> HIDE DEF A
<1>2. Spec => [][A]_vars
  BY <1>1, ClientInvariant, PTL DEF Spec
<1> QED
  BY <1>2 DEF A, PromoteExactlyAudited

(* An automatic promotion never replaces the card an update was parked     *)
(* over by one that breaks its contract, unless the operator's policy      *)
(* allows breaking changes: with audits in the background of calls, and    *)
(* approvals and revocations meanwhile (processAudits, evaluatePromotion). *)
THEOREM PromotionsWithinPolicy == Spec => PromotedWithinPolicy
<1> DEFINE A == \A t \in Tasks :
                  /\ Writes(t, "audit") /\ pin # None
                  /\ pin.card = op[t].listed.over
                  /\ pin'.card = op[t].listed.newCard
                  /\ BreakingChange(pin.card, pin'.card)
                  => config.autoPromotionPolicy.allowBreaking
<1>1. Inv /\ [Next]_vars => [A]_vars
  <2> SUFFICES ASSUME Inv, [Next]_vars, NEW t \in Tasks, Writes(t, "audit"),
                      pin.card = op[t].listed.over,
                      pin'.card = op[t].listed.newCard,
                      BreakingChange(pin.card, pin'.card)
               PROVE  config.autoPromotionPolicy.allowBreaking
    OBVIOUS
  <2>1. Promote(t) /\ pin' # pin
    BY AuditWrites
  <2>2. BreakingChange(op[t].listed.over, op[t].listed.newCard)
    BY DEF BreakingChange
  <2> QED
    BY <2>1, <2>2, PromotionStep
<1> HIDE DEF A
<1>2. Spec => [][A]_vars
  BY <1>1, ClientInvariant, PTL DEF Spec
<1> QED
  BY <1>2 DEF A, PromotedWithinPolicy
------------------------------------------------------------------------------
(* Signatures *)

(* A card without a signature that verifies is pinned by nothing but an    *)
(* automatic update of an approved pin to a compatible card, a promotion   *)
(* of another card of the audited id, or a revocation of what was already  *)
(* pinned: never by an approval or by trust on first use, and not by a     *)
(* promotion of the audited card (approveCard, ensureApproved,             *)
(* processAudits, revokeTool).                                             *)
THEOREM UnsignedPinsExplained == Spec => UnsignedPinsAreUpdates
<1> DEFINE E(t) ==
             \/ /\ op[t].kind = "call" /\ autoUpdates
                /\ \E p \in Approvals(t) : ~BreakingChange(p.card, pin'.card)
             \/ op[t].kind = "audit" /\ pin'.card # op[t].listed.newCard
             \/ op[t].kind = "revoke" /\ \E p \in Approvals(t) : p.card = pin'.card
           A == \A t \in Tasks :
                  pc'[t] # pc[t] /\ pin' # pin /\ ~verifyGlyph(pin'.card) => E(t)
<1>1. Inv /\ [Next]_vars => [A]_vars
  <2> SUFFICES ASSUME Inv, [Next]_vars, NEW t \in Tasks, pc'[t] # pc[t], pin' # pin,
                      ~verifyGlyph(pin'.card)
               PROVE  E(t)
    OBVIOUS
  <2>1. PinWriter(t)
    BY WriterIs
  <2>2. ~TrustOnFirstUse(t)
    BY DEF TrustOnFirstUse
  <2>3. ~Approve(t)
    <3>1. pc[t] = "approving" => verifyGlyph(op[t].card)
      BY DEF Inv, TasksInv, Locals
    <3> QED
      BY <3>1 DEF Approve
  <2>4. CASE AutoUpdate(t)
    <3>1. op[t].kind = "call" /\ autoUpdates
      BY <2>1, <2>4, WriterKind DEF AutoUpdate, MayAutoUpdate
    <3> QED
      BY <2>4, <3>1, UpdateRead, DiffIsBreaking
  <2>5. CASE Revoke(t)
    <3>1. /\ op[t].kind = "revoke" /\ op[t].snap # None /\ ~op[t].snap.revoked
          /\ pin' = [op[t].snap EXCEPT !.revoked = TRUE]
      BY <2>1, <2>5, WriterKind DEF Revoke
    <3>2. op[t].snap \in seen[t] /\ op[t].snap \in Pins
      BY <2>1, <3>1, WriterRead
    <3>3. pin'.card = op[t].snap.card
      BY <3>1, <3>2 DEF Pins
    <3> QED
      BY <3>1, <3>2, <3>3 DEF Approvals
  <2>6. CASE Promote(t)
    <3>1. op[t].kind = "audit"
      BY <2>1, <2>6, WriterKind
    <3>2. verifyGlyph(op[t].listed.newCard)
      BY <2>6, PromotionStep
    <3> QED
      BY <3>1, <3>2
  <2> QED
    BY <2>1, <2>2, <2>3, <2>4, <2>5, <2>6 DEF PinWriter
<1> HIDE DEF A
<1>2. Spec => [][A]_vars
  BY <1>1, ClientInvariant, PTL DEF Spec
<1> QED
  BY <1>2 DEF A, UnsignedPinsAreUpdates
==============================================================================
