-------------------------- MODULE GlyphServer_proofs --------------------------
(***************************************************************************)
(* Proofs about GlyphServer for every set of requests, glyphs, inputs and  *)
(* every bound: the types, the safety of the confirmation flow and of the  *)
(* replays, and the refinement of ConfirmationTickets.                     *)
(***************************************************************************)
EXTENDS GlyphServer, FiniteSetTheorems, WellFoundedInduction, TLAPS

(* What is known of a request at each stage: what it is and which gates it *)
(* has passed.                                                             *)
Stage(r) ==
  /\ pc[r] = "idle" =>
       /\ r \notin minted /\ got[r] = None /\ ~Ran(r)
       /\ resp[r] = NoResponse
  /\ pc[r] # "idle" => msg[r] \in Messages
  /\ pc[r] \in Awaits \cup {"handling"} => msg[r].name \in Glyphs
  /\ pc[r] \in {"received", "swept"} => r \notin minted
  /\ pc[r] \in {"received", "lookedUp"} => got[r] = None
  /\ pc[r] \in {"received", "lookedUp", "consumed"} => ~Ran(r)
  /\ pc[r] = "handling" => Ran(r)
  /\ pc[r] \in {"swept", "minted"} => msg[r].kind = "prepare" /\ Admitted(r)
  /\ pc[r] \in {"lookedUp", "consumed", "handling", "signing", "recording"} =>
       msg[r].kind = "call" /\ Admitted(r)
  /\ pc[r] = "consumed" =>
       msg[r].name \in Confirmed /\ msg[r].token \in Requests

(* A minted token belongs to an admitted /prepare request, and what the    *)
(* store holds under it is what that request asked for.                    *)
Minted(t) ==
  /\ t \in minted =>
       /\ msg[t] \in Messages /\ pc[t] # "idle"
       /\ msg[t].name \in Glyphs /\ msg[t].kind = "prepare" /\ Admitted(t)
  /\ pending[t] # None =>
       /\ t \in minted
       /\ pending[t].glyphName = msg[t].name
       /\ pending[t].inputHash = msg[t].input

(* A request that was given an entry took it out of the store, and no      *)
(* other request was given the entry of the same token.                    *)
Holds(r) ==
  got[r] # None =>
    /\ msg[r] \in Messages /\ pc[r] # "idle"
    /\ msg[r].kind = "call" /\ msg[r].name \in Glyphs /\ Admitted(r)
    /\ msg[r].token \in minted
    /\ pending[msg[r].token] = None
    /\ got[r].glyphName = msg[msg[r].token].name
    /\ got[r].inputHash = msg[msg[r].token].input
    /\ \A q \in Requests :
         got[q] # None /\ q # r => msg[q].token # msg[r].token

(* A handler runs for an admitted call; a confirmed one holds an entry for *)
(* its own glyph and input.                                                *)
Runs(r) ==
  Ran(r) =>
    /\ msg[r] \in Messages /\ pc[r] # "idle"
    /\ msg[r].kind = "call" /\ msg[r].name \in Glyphs /\ Admitted(r)
    /\ msg[r].name \in Confirmed =>
         /\ got[r] # None
         /\ got[r].glyphName = msg[r].name
         /\ got[r].inputHash = msg[r].input

IInv ==
  /\ TypeOK
  /\ \A r \in Requests : Stage(r)
  /\ \A r \in Requests : Minted(r)
  /\ \A r \in Requests : Holds(r)
  /\ \A r \in Requests : Runs(r)
------------------------------------------------------------------------------

(* The empty stores of a new server satisfy the invariant.                  *)
LEMMA InitIInv == Init => IInv
<1> SUFFICES ASSUME Init PROVE IInv
  OBVIOUS
<1> USE ConstantsAssumption
<1>1. TypeOK
  BY DEF Init, TypeOK, Statuses, NoBacklog, NoResponse, Responses, Codes
<1>2. \A r \in Requests : Stage(r) /\ Minted(r) /\ Holds(r) /\ Runs(r)
  BY DEF Init, Stage, Minted, Holds, Runs, Ran, Awaits
<1> QED
  BY <1>1, <1>2 DEF IInv

(* A step that only answers a request that has arrived.                    *)
LEMMA AnswerKeepsIInv ==
  ASSUME IInv, NEW r \in Requests, pc[r] # "idle",
         NEW code \in Codes, NEW of \in Requests \cup {None},
         NEW n \in Nat, Answer(r, code, of, n),
         UNCHANGED <<clock, pending, dedupe, msg, backlog, cached, got,
                     handler, audit, minted, prior>>
  PROVE  IInv'
<1>1. TypeOK'
  BY DEF IInv, TypeOK, Answer, Responses, Statuses
<1>2. ASSUME NEW q \in Requests
      PROVE  Stage(q)'
  <2>1. Stage(q) /\ pc \in [Requests -> Statuses] /\ resp \in [Requests -> Responses]
    BY DEF IInv, TypeOK
  <2> QED
    BY <2>1 DEF Stage, Answer, Awaits, Admitted, missingScopes, Ran
<1>3. ASSUME NEW q \in Requests
      PROVE  Minted(q)' /\ Holds(q)' /\ Runs(q)'
  <2>1. /\ Minted(q) /\ Holds(q) /\ Runs(q)
        /\ pc \in [Requests -> Statuses]
    BY DEF IInv, TypeOK
  <2> QED
    BY <2>1 DEF Minted, Holds, Runs, Answer, Admitted, missingScopes, Ran
<1> QED
  BY <1>1, <1>2, <1>3 DEF IInv
(* A non-empty set of naturals has its minimum as an element.              *)
LEMMA MinInSet ==
  ASSUME NEW S \in SUBSET Nat, S # {}
  PROVE  Min(S) \in S
<1>1. \E x \in S : \A y \in S : <<y, x>> \notin OpToRel(<, Nat)
  BY NatLessThanWellFounded, WFMin
<1>2. PICK x \in S : \A y \in S : <<y, x>> \notin OpToRel(<, Nat)
  BY <1>1
<1>3. ASSUME NEW y \in S PROVE x <= y
  <2>1. <<y, x>> \notin {ss \in Nat \X Nat : ss[1] < ss[2]}
    BY <1>2 DEF OpToRel
  <2> QED
    BY <2>1
<1> QED
  BY <1>3 DEF Min

(* A request arrives: it has no effect yet, and its path is looked up.     *)
LEMMA ArriveKeepsIInv ==
  ASSUME IInv, NEW r \in Requests, NEW m \in Messages, Arrive(r, m)
  PROVE  IInv'
<1> USE ConstantsAssumption
<1>1. TypeOK'
  <2>1. /\ msg' \in [Requests -> Messages \cup {None}]
        /\ pc' \in [Requests -> Statuses]
        /\ resp' \in [Requests -> Responses]
    <3>1. /\ msg' = [msg EXCEPT ![r] = m]
          /\ \E s \in Statuses : pc' = [pc EXCEPT ![r] = s]
          /\ \/ resp' = resp
             \/ resp' = [resp EXCEPT ![r] = [code |-> "NOT_FOUND", of |-> None,
                                             retryAfter |-> 0]]
      BY DEF Arrive, errorResponse, Answer, Goto, Statuses, Awaits
    <3> QED
      BY <3>1 DEF IInv, TypeOK, Responses, Codes
  <2>2. prior' \in [Requests -> DedupeRecord \cup {None}]
    <3> HIDE DEF DedupeKeys
    <3> DEFINE e == IF m.kind = "call" /\ dedupeKey(m) \in DedupeKeys
                      THEN dedupe[dedupeKey(m)] ELSE None
    <3>1. e \in DedupeRecord \cup {None}
      BY DEF IInv, TypeOK
    <3>2. prior' = prior \/ prior' = [prior EXCEPT ![r] = e]
      BY DEF Arrive
    <3> HIDE DEF e
    <3> QED
      BY <3>1, <3>2 DEF IInv, TypeOK
  <2> QED
    BY <2>1, <2>2 DEF IInv, TypeOK, Arrive
<1>2. ASSUME NEW q \in Requests
      PROVE  Stage(q)'
  BY DEF IInv, TypeOK, Stage, Arrive, errorResponse, Answer, Goto, Awaits,
         Admitted, missingScopes, Ran
<1>3. ASSUME NEW q \in Requests
      PROVE  Minted(q)' /\ Runs(q)'
  BY DEF IInv, TypeOK, Stage, Minted, Runs, Arrive, errorResponse, Answer,
         Goto, Admitted, missingScopes, Ran
<1>4. ASSUME NEW q \in Requests
      PROVE  Holds(q)'
  <2> USE DEF IInv, TypeOK, Stage, Minted, Holds, Arrive, errorResponse, Answer,
         Goto, Admitted, missingScopes
  <2>1. CASE got[q] = None
    BY <2>1
  <2>2. CASE got[q] # None
    <3>1. q # r /\ msg[q].token # r
      BY <2>2
    <3>2. msg'[q] = msg[q] /\ msg[q].token \in Requests /\ msg'[msg[q].token] = msg[msg[q].token]
      BY <3>1, <2>2
    <3>3. \A p \in Requests : got[p] # None => p # r /\ msg'[p] = msg[p]
      OBVIOUS
    <3> QED
      BY <2>2, <3>1, <3>2, <3>3
  <2> QED
    BY <2>1, <2>2
<1> QED
  BY <1>1, <1>2, <1>3, <1>4 DEF IInv

(* sweep() drops expired tickets and creates none.                         *)
LEMMA PrepareSweepKeepsIInv ==
  ASSUME IInv, NEW r \in Requests, PrepareSweep(r)
  PROVE  IInv'
<1> USE ConstantsAssumption
<1> DEFINE left == {t \in Requests : swept(t) # None}
<1>0. IInv /\ pending \in [Requests -> PendingConfirmation \cup {None}]
  BY DEF IInv, TypeOK
<1>1. Cardinality(left) \in Nat
  BY FS_Subset, FS_CardinalityType
<1>2. left # {} => Min({pending[t].expiresAt : t \in left}) \in Nat
  <2>1. {pending[t].expiresAt : t \in left} \in SUBSET Nat
    BY <1>0 DEF swept, PendingConfirmation
  <2>2. left # {} => {pending[t].expiresAt : t \in left} # {}
    OBVIOUS
  <2> HIDE DEF left
  <2> QED
    BY <2>1, <2>2, MinInSet
<1>3. \A t \in Requests : pending'[t] \in {pending[t], None}
  BY DEF PrepareSweep, sweep, swept
<1>4. /\ pending' \in [Requests -> PendingConfirmation \cup {None}]
      /\ backlog' \in [Requests -> [now : Nat, size : Nat,
                                    earliestExpiresAt : Nat \cup {None},
                                    counted : SUBSET Requests]]
  <2>0. left \in SUBSET Requests
    OBVIOUS
  <2> HIDE DEF left
  <2>1. backlog' = [backlog EXCEPT ![r] =
           [now |-> clock, size |-> Cardinality(left),
            earliestExpiresAt |-> IF left = {} THEN None
                                  ELSE Min({pending[t].expiresAt : t \in left}),
            counted |-> left]]
    BY DEF PrepareSweep, sweep, left
  <2>2. clock \in Nat /\ backlog \in [Requests -> [now : Nat, size : Nat,
                                    earliestExpiresAt : Nat \cup {None},
                                    counted : SUBSET Requests]]
    BY DEF IInv, TypeOK
  <2>3. pending' \in [Requests -> PendingConfirmation \cup {None}]
    BY <1>0 DEF PrepareSweep, sweep, swept
  <2> QED
    BY <1>1, <1>2, <2>0, <2>1, <2>2, <2>3
<1>5. TypeOK'
  BY <1>4 DEF IInv, TypeOK, PrepareSweep, Goto, Statuses, Awaits
<1>6. ASSUME NEW q \in Requests
      PROVE  Stage(q)' /\ Minted(q)' /\ Runs(q)' /\ Holds(q)'
  <2>1. pc' = [pc EXCEPT ![r] = "swept"] /\ pc \in [Requests -> Statuses]
        /\ UNCHANGED <<msg, minted, got, handler, resp>>
        /\ pc[r] = "received" /\ msg[r].kind = "prepare" /\ Admitted(r)
    BY DEF PrepareSweep, Goto, IInv, TypeOK
  <2>2. Stage(q) /\ Minted(q) /\ Runs(q) /\ Holds(q)
    BY DEF IInv
  <2>3. Stage(q)'
    BY <2>1, <2>2 DEF Stage, Admitted, missingScopes, Ran, Awaits
  <2>4. Minted(q)' /\ Runs(q)'
    BY <1>3, <2>1, <2>2 DEF Minted, Runs, Admitted, missingScopes, Ran
  <2>5. Holds(q)'
    BY <1>3, <2>1, <2>2 DEF Holds, Admitted, missingScopes, Messages, IInv, TypeOK
  <2> QED
    BY <2>3, <2>4, <2>5
<1> QED
  BY <1>5, <1>6 DEF IInv

(* put() stores the ticket of an admitted /prepare, under a fresh token.   *)
LEMMA PreparePutKeepsIInv ==
  ASSUME IInv, NEW r \in Requests, PreparePut(r)
  PROVE  IInv'
<1> USE ConstantsAssumption
<1>1. /\ pc[r] = "swept" /\ msg[r] \in Messages /\ msg[r].name \in Glyphs
      /\ msg[r].kind = "prepare" /\ Admitted(r) /\ msg[r].input \in Inputs
      /\ r \notin minted
  BY DEF IInv, Stage, PreparePut, Admitted, Messages, Awaits
<1> DEFINE entry == [glyphName |-> msg[r].name, inputHash |-> msg[r].input,
                     expiresAt |-> expiresAt(r)]
<1>e. entry \in PendingConfirmation
  BY <1>1 DEF IInv, TypeOK, PendingConfirmation, expiresAt
<1>p. /\ pending' = [pending EXCEPT ![r] = entry]
      /\ pc' = [pc EXCEPT ![r] = "minted"] /\ minted' = minted \cup {r}
      /\ UNCHANGED <<clock, dedupe, msg, backlog, cached, got, handler, audit,
                     resp, prior>>
      /\ entry.glyphName = msg[r].name /\ entry.inputHash = msg[r].input
  BY DEF PreparePut, Goto, locals
<1> HIDE DEF entry
<1>2. TypeOK'
  BY <1>e, <1>p DEF IInv, TypeOK, Statuses, Awaits
<1>3. ASSUME NEW q \in Requests
      PROVE  Stage(q)' /\ Minted(q)' /\ Runs(q)'
  <2>1. Stage(q) /\ Minted(q) /\ Runs(q)
        /\ pc \in [Requests -> Statuses] /\ pending \in [Requests -> PendingConfirmation \cup {None}]
    BY DEF IInv, TypeOK
  <2>2. Stage(q)'
    BY <1>1, <1>p, <2>1 DEF Stage, Awaits, Admitted, missingScopes, Ran
  <2>3. Minted(q)' /\ Runs(q)'
    BY <1>1, <1>p, <2>1 DEF Minted, Runs, Admitted, missingScopes, Ran
  <2> QED
    BY <2>2, <2>3
<1>4. ASSUME NEW q \in Requests
      PROVE  Holds(q)'
  BY <1>1, <1>p DEF IInv, TypeOK, Holds, Admitted, missingScopes
<1> QED
  BY <1>2, <1>3, <1>4 DEF IInv
(* Moving a request from one stage of a call to a later one, without       *)
(* touching tickets or handlers.                                           *)
LEMMA GotoKeepsParts ==
  ASSUME IInv, NEW r \in Requests, NEW s \in Statuses,
         pc' = [pc EXCEPT ![r] = s], s # "idle", pc[r] # "idle",
         UNCHANGED <<pending, msg, got, handler, minted>>,
         NEW q \in Requests
  PROVE  Minted(q)' /\ Holds(q)' /\ Runs(q)'
<1>1. Minted(q) /\ Holds(q) /\ Runs(q) /\ pc \in [Requests -> Statuses]
  BY DEF IInv, TypeOK
<1> QED
  BY <1>1 DEF Minted, Holds, Runs, Admitted, missingScopes, Ran

(* The confirmation gate, entered by an admitted call that has not run.    *)
LEMMA GateKeepsIInv ==
  ASSUME IInv, NEW r \in Requests, pc[r] \in {"received", "lookedUp"},
         msg[r].kind = "call", Admitted(r),
         ConfirmationGate(r),
         UNCHANGED <<clock, dedupe, msg, backlog, cached, audit, minted, prior>>
  PROVE  IInv'
<1> USE ConstantsAssumption
<1>0. /\ msg[r] \in Messages /\ msg[r].name \in Glyphs
      /\ got[r] = None /\ ~Ran(r)
  BY DEF IInv, Stage, Awaits
<1>1. CASE msg[r].name \notin Confirmed /\ StartHandler(r) /\ UNCHANGED <<pending, got>>
  <2>1. /\ pc' = [pc EXCEPT ![r] = "handling"]
        /\ handler' = [handler EXCEPT ![r] = "running"]
        /\ UNCHANGED <<clock, dedupe, msg, backlog, cached, audit, minted, prior,
                       resp, pending, got>>
    BY <1>1 DEF StartHandler, Goto
  <2>2. TypeOK'
    BY <2>1 DEF IInv, TypeOK, Statuses
  <2>3. ASSUME NEW q \in Requests
        PROVE  Stage(q)' /\ Minted(q)' /\ Holds(q)' /\ Runs(q)'
    <3>1. /\ Stage(q) /\ Minted(q) /\ Holds(q) /\ Runs(q)
          /\ pc \in [Requests -> Statuses]
          /\ handler \in [Requests -> {"none", "running", "settled", "killed"}]
      BY DEF IInv, TypeOK
    <3>2. Stage(q)'
      BY <1>0, <2>1, <3>1 DEF Stage, Awaits, Admitted, missingScopes, Ran
    <3>3. Minted(q)' /\ Holds(q)'
      BY <2>1, <3>1 DEF Minted, Holds, Admitted, missingScopes
    <3>4. Runs(q)'
      BY <1>0, <1>1, <2>1, <3>1 DEF Runs, Admitted, missingScopes, Ran
    <3> QED
      BY <3>2, <3>3, <3>4
  <2> QED
    BY <2>2, <2>3 DEF IInv
<1>2. CASE /\ errorResponse(r, "CONFIRMATION_REQUIRED")
           /\ UNCHANGED <<pending, got, handler>>
  BY <1>2, AnswerKeepsIInv DEF errorResponse, Codes
<1>3. CASE /\ msg[r].name \in Confirmed /\ msg[r].token # None
           /\ consume(r, msg[r].token) /\ Goto(r, "consumed")
           /\ UNCHANGED handler
  <2> DEFINE tk == msg[r].token
  <2>0. tk \in Requests
    BY <1>0, <1>3 DEF Messages
  <2>1. /\ pc' = [pc EXCEPT ![r] = "consumed"]
        /\ got' = [got EXCEPT ![r] = pending[tk]]
        /\ pending' = [pending EXCEPT ![tk] = None]
        /\ UNCHANGED <<clock, dedupe, msg, backlog, cached, audit, minted, prior,
                       resp, handler>>
    BY <1>3 DEF Goto, consume
  <2>2. TypeOK'
    BY <2>0, <2>1 DEF IInv, TypeOK, Statuses, Awaits
  <2>3. ASSUME NEW q \in Requests
        PROVE  Stage(q)' /\ Minted(q)' /\ Holds(q)' /\ Runs(q)'
    <3>1. /\ Stage(q) /\ Minted(q) /\ Holds(q) /\ Runs(q)
          /\ pc \in [Requests -> Statuses]
          /\ got \in [Requests -> PendingConfirmation \cup {None}]
          /\ pending \in [Requests -> PendingConfirmation \cup {None}]
      BY DEF IInv, TypeOK
    <3>2. Stage(q)'
      BY <1>0, <1>3, <2>0, <2>1, <3>1 DEF Stage, Awaits, Admitted, missingScopes, Ran
    <3>3. Minted(q)'
      BY <2>0, <2>1, <3>1 DEF Minted, Admitted, missingScopes
    <3>4. Runs(q)'
      BY <1>0, <2>1, <3>1 DEF Runs, Admitted, missingScopes, Ran
    <3>5. Minted(tk) /\ \A p \in Requests : Holds(p)
      BY <2>0 DEF IInv
    <3>6. Holds(q)'
      <4>1. CASE got'[q] = None
        BY <4>1 DEF Holds
      <4>2. CASE q = r /\ got'[q] # None
        <5>1. pending[tk] # None /\ got'[r] = pending[tk]
          BY <4>2, <2>1, <3>1
        <5>2. tk \in minted /\ pending[tk].glyphName = msg[tk].name
              /\ pending[tk].inputHash = msg[tk].input
          BY <5>1, <3>5 DEF Minted
        <5>3. \A p \in Requests : got[p] # None => msg[p].token # tk
          BY <5>1, <3>5 DEF Holds
        <5>4. pending'[tk] = None
          BY <2>0, <2>1, <3>1
        <5>5. \A p \in Requests : p # r => got'[p] = got[p]
          BY <2>1, <3>1
        <5>6. pc'[r] # "idle" /\ Admitted(r)'
          BY <2>1, <3>1 DEF Admitted, missingScopes
        <5> QED
          BY <4>2, <5>1, <5>2, <5>3, <5>4, <5>5, <5>6, <1>0, <2>1 DEF Holds
      <4>3. CASE q # r /\ got'[q] # None
        <5>1. got'[q] = got[q] /\ got[q] # None /\ pc'[q] = pc[q]
          BY <4>3, <2>1, <3>1
        <5>2. pending[tk] # None => msg[q].token # tk
          BY <5>1, <3>1 DEF Holds
        <5>3. \A p \in Requests : got'[p] # None => got[p] # None \/ (p = r /\ pending[tk] # None)
          BY <2>1, <3>1
        <5>4. msg[q].token \in minted => pending'[msg[q].token] \in {pending[msg[q].token], None}
          BY <2>1, <3>1 DEF IInv, TypeOK
        <5> QED
          BY <5>1, <5>2, <5>3, <5>4, <2>1, <3>1 DEF Holds, Admitted, missingScopes
      <4> QED
        BY <4>1, <4>2, <4>3
    <3> QED
      BY <3>2, <3>3, <3>4, <3>6
  <2> QED
    BY <2>2, <2>3 DEF IInv
<1> QED
  BY <1>1, <1>2, <1>3 DEF ConfirmationGate

(* The dedupe lookup touches neither tickets nor handlers.                 *)
LEMMA CallLookupKeepsIInv ==
  ASSUME IInv, NEW r \in Requests, CallLookup(r)
  PROVE  IInv'
<1> DEFINE key == dedupeKey(msg[r])
<1>0. /\ pc[r] = "received" /\ msg[r].kind = "call" /\ Admitted(r)
      /\ key # None /\ pc' = [pc EXCEPT ![r] = "lookedUp"]
      /\ UNCHANGED <<clock, pending, msg, backlog, got, handler, audit, minted,
                     prior, resp>>
  BY DEF CallLookup, Goto
<1>1. /\ msg[r] \in Messages /\ msg[r].name \in Glyphs /\ msg[r].input \in Inputs
      /\ got[r] = None /\ ~Ran(r)
  BY <1>0 DEF IInv, Stage, Awaits, Messages, Admitted
<1>2. key \in DedupeKeys
  BY <1>0, <1>1 DEF dedupeKey, DedupeKeys, Messages
<1>3. /\ dedupe' \in [DedupeKeys -> DedupeRecord \cup {None}]
      /\ cached' \in [Requests -> Requests \cup {None}]
  <2>1. /\ dedupe \in [DedupeKeys -> DedupeRecord \cup {None}]
        /\ cached \in [Requests -> Requests \cup {None}]
    BY DEF IInv, TypeOK
  <2>2. \/ Live(dedupe[key]) /\ cached' = [cached EXCEPT ![r] = dedupe[key].of]
           /\ dedupe' = dedupe
        \/ dedupe' = [dedupe EXCEPT ![key] = None] /\ cached' = cached
    BY DEF CallLookup
  <2> HIDE DEF key
  <2>3. Live(dedupe[key]) => dedupe[key].of \in Requests
    BY <1>2, <2>1 DEF Live, DedupeRecord
  <2> QED
    BY <1>2, <2>1, <2>2, <2>3
<1>4. TypeOK'
  BY <1>0, <1>3 DEF IInv, TypeOK, Statuses, Awaits
<1>5. ASSUME NEW q \in Requests
      PROVE  Stage(q)'
  <2>1. Stage(q) /\ pc \in [Requests -> Statuses]
    BY DEF IInv, TypeOK
  <2> QED
    BY <1>0, <1>1, <2>1 DEF Stage, Awaits, Admitted, missingScopes, Ran
<1>6. ASSUME NEW q \in Requests
      PROVE  Minted(q)' /\ Holds(q)' /\ Runs(q)'
  BY <1>0, GotoKeepsParts DEF Statuses, Awaits
<1> QED
  BY <1>4, <1>5, <1>6 DEF IInv

(* A call whose consumed ticket is valid starts its handler: the ticket is *)
(* in no other hands, so no other run can use it.                          *)
LEMMA CallConfirmedKeepsIInv ==
  ASSUME IInv, NEW r \in Requests, CallConfirmed(r)
  PROVE  IInv'
<1>0. /\ pc[r] = "consumed" /\ Valid(r)
      /\ pc' = [pc EXCEPT ![r] = "handling"]
      /\ handler' = [handler EXCEPT ![r] = "running"]
      /\ UNCHANGED <<clock, pending, dedupe, msg, backlog, cached, got, audit,
                     minted, prior, resp>>
  BY DEF CallConfirmed, StartHandler, Goto, stores, locals
<1>1. /\ msg[r] \in Messages /\ msg[r].name \in Glyphs
      /\ msg[r].kind = "call" /\ Admitted(r)
      /\ got[r] # None /\ got[r].glyphName = msg[r].name
      /\ got[r].inputHash = msg[r].input
  BY <1>0 DEF IInv, Stage, Awaits, Valid, Live
<1>2. TypeOK'
  BY <1>0 DEF IInv, TypeOK, Statuses
<1>3. ASSUME NEW q \in Requests
      PROVE  Stage(q)' /\ Minted(q)' /\ Holds(q)' /\ Runs(q)'
  <2>1. /\ Stage(q) /\ Minted(q) /\ Holds(q) /\ Runs(q)
        /\ pc \in [Requests -> Statuses]
        /\ handler \in [Requests -> {"none", "running", "settled", "killed"}]
    BY DEF IInv, TypeOK
  <2>2. Stage(q)'
    BY <1>0, <1>1, <2>1 DEF Stage, Awaits, Admitted, missingScopes, Ran
  <2>3. Minted(q)' /\ Holds(q)'
    BY <1>0, <2>1 DEF Minted, Holds, Admitted, missingScopes
  <2>4. Runs(q)'
    BY <1>0, <1>1, <2>1 DEF Runs, Admitted, missingScopes, Ran
  <2> QED
    BY <2>2, <2>3, <2>4
<1> QED
  BY <1>2, <1>3 DEF IInv

(* A handler that ran stops running; its request moves on or not.          *)
LEMMA SettleKeepsIInv ==
  ASSUME IInv, NEW r \in Requests, pc[r] \in {"handling", "done"},
         Ran(r), handler' = [handler EXCEPT ![r] = "settled"],
         \/ \E code \in Codes : errorResponse(r, code)
         \/ pc[r] = "handling" /\ Goto(r, "signing")
         \/ UNCHANGED <<pc, resp>>,
         pc[r] = "handling" => pc'[r] # "handling",
         UNCHANGED <<clock, pending, dedupe, msg, backlog, cached, got, audit,
                     minted, prior>>
  PROVE  IInv'
<1> USE ConstantsAssumption
<1>0. /\ pc \in [Requests -> Statuses]
      /\ handler \in [Requests -> {"none", "running", "settled", "killed"}]
  BY DEF IInv, TypeOK
<1>1. /\ pc' \in [Requests -> Statuses]
      /\ \A q \in Requests : q # r => pc'[q] = pc[q] /\ resp'[q] = resp[q]
      /\ pc'[r] \in {"done", "signing"}
      /\ pc'[r] = "signing" => pc[r] = "handling"
  BY <1>0 DEF errorResponse, Answer, Goto, IInv, TypeOK, Statuses, Awaits
<1>2. resp' \in [Requests -> Responses]
  BY DEF errorResponse, Answer, Goto, IInv, TypeOK, Responses
<1>3. \A q \in Requests : Ran(q)' <=> Ran(q)
  BY <1>0 DEF Ran
<1>4. TypeOK'
  BY <1>1, <1>2 DEF IInv, TypeOK
<1>5. ASSUME NEW q \in Requests
      PROVE  Stage(q)' /\ Minted(q)' /\ Holds(q)' /\ Runs(q)'
  <2>1. Stage(q) /\ Minted(q) /\ Holds(q) /\ Runs(q)
    BY DEF IInv
  <2>2. Stage(q)'
    BY <1>1, <1>3, <2>1 DEF Stage, Awaits, Admitted, missingScopes
  <2>3. Minted(q)' /\ Holds(q)'
    BY <1>1, <2>1 DEF Minted, Holds, Admitted, missingScopes
  <2>4. Runs(q)'
    BY <1>1, <1>3, <2>1 DEF Runs, Admitted, missingScopes
  <2> QED
    BY <2>2, <2>3, <2>4
<1> QED
  BY <1>4, <1>5 DEF IInv

(* Audit and the record for replay come after the run is authorised.       *)
LEMMA CallSignedKeepsIInv ==
  ASSUME IInv, NEW r \in Requests, CallSigned(r) \/ DedupePutFails(r)
  PROVE  IInv'
<1> USE ConstantsAssumption
<1> DEFINE key == dedupeKey(msg[r])
<1>0. /\ pc[r] = "signing" /\ audit' = audit \cup {r}
      /\ UNCHANGED <<clock, pending, msg, backlog, cached, got, handler, minted,
                     prior>>
  BY DEF CallSigned, DedupePutFails, stores, locals
<1>1. /\ pc' = [pc EXCEPT ![r] = "recording"] \/ pc' = [pc EXCEPT ![r] = "done"]
      /\ resp' \in [Requests -> Responses]
      /\ \A q \in Requests : q # r => resp'[q] = resp[q]
  BY DEF CallSigned, DedupePutFails, Answer, errorResponse, Goto, IInv, TypeOK,
         Responses, Codes
<1>2. dedupe' \in [DedupeKeys -> DedupeRecord \cup {None}]
  <2>1. dedupe \in [DedupeKeys -> DedupeRecord \cup {None}] /\ clock \in Nat
    BY DEF IInv, TypeOK
  <2>2. dedupe' = dedupe \/ put(key, r)
    BY DEF CallSigned, DedupePutFails, stores
  <2>3. [of |-> r, expiresAt |-> clock + DedupeTTL] \in DedupeRecord
    BY <2>1 DEF DedupeRecord
  <2> HIDE DEF key
  <2>4. put(key, r) => \E gone : dedupe' = [k \in DedupeKeys |->
             IF k = key THEN [of |-> r, expiresAt |-> clock + DedupeTTL]
             ELSE IF k \in gone THEN None ELSE dedupe[k]]
    BY DEF put
  <2> QED
    BY <2>1, <2>2, <2>3, <2>4
<1>3. TypeOK'
  BY <1>0, <1>1, <1>2 DEF IInv, TypeOK, Statuses, Awaits
<1>4. ASSUME NEW q \in Requests
      PROVE  Stage(q)'
  <2>1. Stage(q) /\ pc \in [Requests -> Statuses]
    BY DEF IInv, TypeOK
  <2> QED
    BY <1>0, <1>1, <2>1 DEF Stage, Awaits, Admitted, missingScopes, Ran
<1>5. ASSUME NEW q \in Requests
      PROVE  Minted(q)' /\ Holds(q)' /\ Runs(q)'
  BY <1>0, <1>1, GotoKeepsParts DEF Statuses, Awaits
<1> QED
  BY <1>3, <1>4, <1>5 DEF IInv

(* A crash forgets tickets; it does not revive any.                        *)
LEMMA CrashKeepsIInv == IInv /\ Crash => IInv'
<1> SUFFICES ASSUME IInv, Crash PROVE IInv'
  OBVIOUS
<1>0. /\ \A q \in Requests : pc'[q] \in {pc[q], "lost"} /\ (pc'[q] = "idle" <=> pc[q] = "idle")
      /\ \A q \in Requests : pending'[q] = None
      /\ \A q \in Requests : pc'[q] \in {"idle", "done", "lost"}
      /\ UNCHANGED <<clock, msg, backlog, cached, got, audit, resp, minted, prior>>
  BY DEF Crash, locals, IInv, TypeOK
<1>1. TypeOK'
  BY <1>0 DEF IInv, TypeOK, Crash, Statuses
<1>2. \A q \in Requests : Ran(q)' <=> Ran(q)
  BY DEF Crash, Ran, IInv, TypeOK
<1>3. ASSUME NEW q \in Requests
      PROVE  Stage(q)' /\ Minted(q)' /\ Holds(q)' /\ Runs(q)'
  <2>1. Stage(q) /\ Minted(q) /\ Holds(q) /\ Runs(q)
    BY DEF IInv
  <2>2. Stage(q)'
    BY <1>0, <1>2, <2>1 DEF Stage, Awaits, Admitted, missingScopes
  <2>3. Minted(q)' /\ Runs(q)'
    BY <1>0, <1>2, <2>1 DEF Minted, Runs, Admitted, missingScopes
  <2>4. Holds(q)'
    BY <1>0, <2>1 DEF Holds, Admitted, missingScopes, IInv, TypeOK
  <2> QED
    BY <2>2, <2>3, <2>4
<1> QED
  BY <1>1, <1>3 DEF IInv

(* Every step of the server keeps the invariant, one case per action.      *)
LEMMA StepKeepsIInv == IInv /\ [Next]_vars => IInv'
<1> SUFFICES ASSUME IInv, [Next]_vars PROVE IInv'
  OBVIOUS
<1> USE ConstantsAssumption
<1>1. ASSUME NEW r \in Requests, ArrivePrepare(r) \/ ArriveCall(r)
      PROVE  IInv'
  <2>1. \E m \in Messages : Arrive(r, m)
    BY <1>1 DEF ArrivePrepare, ArriveCall, Messages, Delivered
  <2> QED
    BY <2>1, ArriveKeepsIInv
<1>2. ASSUME NEW r \in Requests,
             \/ PrepareRefused(r) \/ CallRefused(r) \/ PrepareReply(r)
             \/ CallInvalid(r) \/ CallTimeout(r) \/ CallReply(r) \/ Fault(r)
      PROVE  IInv'
  <2>1. /\ pc[r] # "idle"
        /\ UNCHANGED <<clock, pending, dedupe, msg, backlog, cached, got,
                       handler, audit, minted, prior>>
    BY <1>2 DEF PrepareRefused, CallRefused, Refused, PrepareReply, CallInvalid,
                CallTimeout, CallReply, Fault, Awaits, stores, locals
  <2>2. \E code \in Codes, of \in Requests \cup {None} : Answer(r, code, of, 0)
    BY <1>2 DEF PrepareRefused, CallRefused, Refused, PrepareReply, CallInvalid,
                CallTimeout, CallReply, Fault, errorResponse, Codes
  <2> QED
    BY <2>1, <2>2, AnswerKeepsIInv
<1>3. ASSUME NEW r \in Requests, PrepareBacklogFull(r)
      PROVE  IInv'
  <2>1. /\ pc[r] # "idle"
        /\ UNCHANGED <<clock, pending, dedupe, msg, backlog, cached, got,
                       handler, audit, minted, prior>>
        /\ Answer(r, "CONFIRMATION_BACKLOG_FULL", None, RetryAfter(backlog[r]))
    BY <1>3 DEF PrepareBacklogFull, stores, locals
  <2>2. RetryAfter(backlog[r]) \in Nat
    <3>1. backlog[r] \in [now : Nat, size : Nat, earliestExpiresAt : Nat \cup {None},
           counted : SUBSET Requests]
      BY DEF IInv, TypeOK
    <3> QED
      BY <3>1 DEF RetryAfter, Ceil
  <2> QED
    BY <2>1, <2>2, AnswerKeepsIInv DEF Codes
<1>4. ASSUME NEW r \in Requests, CallReplay(r)
      PROVE  IInv'
  <2>1. /\ pc[r] # "idle" /\ Answer(r, "OK", cached[r], 0)
        /\ cached[r] \in Requests \cup {None}
        /\ UNCHANGED <<clock, pending, dedupe, msg, backlog, cached, got,
                       handler, audit, minted, prior>>
    BY <1>4 DEF CallReplay, stores, locals, IInv, TypeOK
  <2> QED
    BY <2>1, AnswerKeepsIInv DEF Codes
<1>5. ASSUME NEW r \in Requests, CallGate(r) \/ CallMiss(r)
      PROVE  IInv'
  <2>1. /\ pc[r] \in {"received", "lookedUp"} /\ ConfirmationGate(r)
        /\ msg[r].kind = "call" /\ Admitted(r)
        /\ UNCHANGED <<clock, dedupe, msg, backlog, cached, audit, minted, prior>>
    BY <1>5 DEF CallGate, CallMiss, IInv, Stage
  <2> QED
    BY <2>1, GateKeepsIInv
<1>6. ASSUME NEW r \in Requests, HandlerSettles(r) \/ HandlerSettlesLate(r)
      PROVE  IInv'
  <2>1. /\ pc[r] \in {"handling", "done"} /\ Ran(r)
        /\ handler' = [handler EXCEPT ![r] = "settled"]
        /\ UNCHANGED <<clock, pending, dedupe, msg, backlog, cached, got, audit,
                       minted, prior>>
    BY <1>6 DEF HandlerSettles, HandlerSettlesLate, IInv, Stage, Ran, stores, locals
  <2>2. \/ \E code \in Codes : errorResponse(r, code)
        \/ pc[r] = "handling" /\ Goto(r, "signing")
        \/ UNCHANGED <<pc, resp>>
    BY <1>6 DEF HandlerSettles, HandlerSettlesLate, Codes
  <2>3. pc[r] = "handling" => pc'[r] # "handling"
    BY <1>6 DEF HandlerSettles, HandlerSettlesLate, errorResponse, Answer, Goto,
                IInv, TypeOK
  <2> QED
    BY <2>1, <2>2, <2>3, SettleKeepsIInv
<1>7. ASSUME Tick \/ UNCHANGED vars
      PROVE  IInv'
  <2>1. /\ clock' \in 0..MaxClock
        /\ UNCHANGED <<pending, dedupe, pc, msg, backlog, cached, got, handler,
                       audit, resp, minted, prior>>
    BY <1>7 DEF Tick, vars, stores, locals, IInv, TypeOK
  <2>2. TypeOK'
    BY <2>1 DEF IInv, TypeOK
  <2>3. ASSUME NEW q \in Requests
        PROVE  Stage(q)' /\ Minted(q)' /\ Holds(q)' /\ Runs(q)'
    <3>1. Stage(q) /\ Minted(q) /\ Holds(q) /\ Runs(q)
      BY DEF IInv
    <3> QED
      BY <2>1, <3>1 DEF Stage, Minted, Holds, Runs, Admitted, missingScopes, Ran
  <2> QED
    BY <2>2, <2>3 DEF IInv
<1> QED
  BY <1>1, <1>2, <1>3, <1>4, <1>5, <1>6, <1>7, PrepareSweepKeepsIInv,
     PreparePutKeepsIInv, CallLookupKeepsIInv, CallConfirmedKeepsIInv,
     CallSignedKeepsIInv, CrashKeepsIInv
     DEF Next, Continue

(* The inductive invariant holds in every reachable state, whatever the    *)
(* number of requests, the bounds, the faults and the crashes.             *)
THEOREM Invariance == Spec => []IInv
<1> QED
  BY InitIInv, StepKeepsIInv, PTL DEF Spec

(* Every variable of the server keeps its type.                            *)
THEOREM TypeCorrect == Spec => []TypeOK
<1>1. IInv => TypeOK
  BY DEF IInv
<1> QED
  BY <1>1, Invariance, PTL

(* A confirmed handler run has a ticket of its own, minted by an           *)
(* authorised /prepare for that glyph and input.                           *)
THEOREM SingleUse == Spec => []ConfirmedRunHasOwnTicket
<1>1. IInv => ConfirmedRunHasOwnTicket
  <2> SUFFICES ASSUME IInv, NEW r \in Requests, ConfirmedRun(r)
      PROVE  LET t == msg[r].token
             IN  /\ t \in minted
                 /\ msg[t].name = msg[r].name
                 /\ msg[t].input = msg[r].input
                 /\ missingScopes(msg[t]) = {}
                 /\ \A q \in Requests : ConfirmedRun(q) /\ q # r => msg[q].token # t
    BY DEF ConfirmedRunHasOwnTicket
  <2>1. /\ Holds(r) /\ \A q \in Requests : Runs(q)
        /\ minted \in SUBSET Requests
    BY DEF IInv, TypeOK
  <2>2. got[r] # None /\ got[r].glyphName = msg[r].name
        /\ got[r].inputHash = msg[r].input
    BY <2>1 DEF Runs, ConfirmedRun
  <2>3. \A q \in Requests : ConfirmedRun(q) => got[q] # None
    BY <2>1 DEF Runs, ConfirmedRun
  <2>4. Minted(msg[r].token)
    BY <2>1, <2>2 DEF Holds, IInv
  <2> QED
    BY <2>1, <2>2, <2>3, <2>4 DEF Holds, Minted, Admitted
<1> QED
  BY <1>1, Invariance, PTL

(* A successful response goes to an admitted call. *)
Served(r) == resp[r].code = "OK" => Admitted(r)

(* A request with an effect is one whose scopes were checked, and stays so. *)
LEMMA StepKeepsServed ==
  ASSUME IInv, [Next]_vars, NEW r \in Requests, Served(r)
  PROVE  Served(r)'
<1> USE DEF Served, Admitted, missingScopes
<1>0. /\ resp \in [Requests -> Responses] /\ pc \in [Requests -> Statuses]
      /\ msg \in [Requests -> Messages \cup {None}]
      /\ \A q \in Requests : Stage(q)
  BY DEF IInv, TypeOK
<1>1. ASSUME NEW q \in Requests, NEW m, Arrive(q, m)
      PROVE  Served(r)'
  <2>1. q = r => resp[r].code = "none"
    BY <1>0, <1>1 DEF Arrive, Stage, NoResponse
  <2>2. /\ msg' = [msg EXCEPT ![q] = m]
        /\ \/ resp' = resp
           \/ resp' = [resp EXCEPT ![q] = [code |-> "NOT_FOUND", of |-> None,
                                           retryAfter |-> 0]]
    BY <1>1 DEF Arrive, errorResponse, Answer, Goto
  <2> QED
    BY <1>0, <2>1, <2>2
<1>2. ASSUME msg' = msg, resp' = resp
      PROVE  Served(r)'
  BY <1>2
<1>3. ASSUME NEW q \in Requests, NEW code, NEW of, NEW n, Answer(q, code, of, n),
             code # "OK" \/ Admitted(q), msg' = msg
      PROVE  Served(r)'
  BY <1>0, <1>3 DEF Answer
<1>4. ASSUME NEW q \in Requests,
             \/ PrepareRefused(q) \/ CallRefused(q) \/ CallInvalid(q)
             \/ CallTimeout(q) \/ Fault(q) \/ DedupePutFails(q)
             \/ PrepareReply(q) \/ PrepareBacklogFull(q)
      PROVE  Served(r)'
  <2>1. msg' = msg
    BY <1>4 DEF PrepareRefused, CallRefused, Refused, CallInvalid, CallTimeout,
                Fault, DedupePutFails, PrepareReply, PrepareBacklogFull
  <2>2. \E code, of, n : Answer(q, code, of, n) /\ code # "OK"
    BY <1>4 DEF PrepareRefused, CallRefused, Refused, CallInvalid, CallTimeout,
                Fault, DedupePutFails, PrepareReply, PrepareBacklogFull,
                errorResponse
  <2> QED
    BY <2>1, <2>2, <1>3
<1>5. ASSUME NEW q \in Requests, CallReplay(q) \/ CallReply(q) \/ CallSigned(q)
      PROVE  Served(r)'
  <2>1. msg' = msg /\ Admitted(q)
    BY <1>0, <1>5 DEF CallReplay, CallReply, CallSigned, Stage
  <2>2. (\E of : Answer(q, "OK", of, 0)) \/ resp' = resp
    BY <1>5 DEF CallReplay, CallReply, CallSigned, Goto
  <2> QED
    BY <2>1, <2>2, <1>2, <1>3
<1>6. ASSUME NEW q \in Requests,
             \/ CallGate(q) \/ CallMiss(q) \/ HandlerSettles(q)
      PROVE  Served(r)'
  <2>1. msg' = msg
    BY <1>6 DEF CallGate, CallMiss, HandlerSettles
  <2>2. \/ \E code, of, n : Answer(q, code, of, n) /\ code # "OK"
        \/ resp' = resp
    BY <1>6 DEF CallGate, CallMiss, HandlerSettles, ConfirmationGate,
                StartHandler, Goto, errorResponse
  <2> QED
    BY <2>1, <2>2, <1>2, <1>3
<1>7. ASSUME NEW q \in Requests,
             \/ PrepareSweep(q) \/ PreparePut(q) \/ CallLookup(q)
             \/ CallConfirmed(q) \/ HandlerSettlesLate(q)
      PROVE  Served(r)'
  <2>1. msg' = msg /\ resp' = resp
    BY <1>7 DEF PrepareSweep, PreparePut, CallLookup, CallConfirmed,
                HandlerSettlesLate, StartHandler, Goto
  <2> QED
    BY <2>1, <1>2
<1>8. ASSUME Crash \/ Tick \/ UNCHANGED vars
      PROVE  Served(r)'
  BY <1>8 DEF Crash, Tick, vars
<1> QED
  BY <1>1, <1>4, <1>5, <1>6, <1>7, <1>8
     DEF Next, Continue, ArrivePrepare, ArriveCall

(* No effect of /prepare or /call, and no recorded response, is for a      *)
(* caller without the required scopes.                                     *)
THEOREM ScopesBeforeEffects == Spec => []PolicyBeforeEffects
<1> DEFINE AllServed == \A r \in Requests : Served(r)
<1>1. Init => AllServed
  BY DEF Init, Served, NoResponse
<1>2. IInv /\ AllServed /\ [Next]_vars => AllServed'
  BY StepKeepsServed
<1>3. IInv /\ AllServed => PolicyBeforeEffects
  BY DEF IInv, Minted, Holds, Runs, Served, Admitted, PolicyBeforeEffects
<1> QED
  <2> HIDE DEF AllServed
  <2> QED
    BY <1>1, <1>2, <1>3, Invariance, PTL DEF Spec

(* A token that has left the store never comes back to it.                 *)
THEOREM DeadTokens == Spec => TokensStayDead
<1>1. ASSUME IInv, [Next]_vars
      PROVE  [\A t \in minted : pending[t] = None => pending'[t] = None]_vars
  <2> SUFFICES ASSUME Next, NEW t \in minted, pending[t] = None
               PROVE  pending'[t] = None
    BY <1>1
  <2>1. /\ pending \in [Requests -> PendingConfirmation \cup {None}]
        /\ t \in Requests
    BY <1>1 DEF IInv, TypeOK
  <2>2. ASSUME NEW r \in Requests, PreparePut(r)
        PROVE  pending'[t] = None
    <3>1. r # t
      BY <1>1, <2>2 DEF IInv, Stage, PreparePut
    <3> QED
      BY <2>1, <2>2, <3>1 DEF PreparePut
  <2>3. ASSUME NEW r \in Requests,
               CallGate(r) \/ CallMiss(r) \/ PrepareSweep(r) \/ Crash
        PROVE  pending'[t] = None
    BY <2>1, <2>3 DEF CallGate, CallMiss, ConfirmationGate, consume, StartHandler,
       PrepareSweep, sweep, swept, Crash
  <2>4. ASSUME NEW r \in Requests,
               \/ ArrivePrepare(r) \/ ArriveCall(r) \/ PrepareRefused(r)
               \/ PrepareBacklogFull(r) \/ PrepareReply(r) \/ CallRefused(r)
               \/ CallLookup(r) \/ CallReplay(r) \/ CallConfirmed(r)
               \/ CallInvalid(r) \/ CallTimeout(r) \/ CallSigned(r)
               \/ CallReply(r) \/ HandlerSettles(r) \/ HandlerSettlesLate(r)
               \/ Fault(r) \/ DedupePutFails(r)
        PROVE  pending'[t] = None
    <3>0. ASSUME NEW m, Arrive(r, m) PROVE UNCHANGED pending
      BY <3>0 DEF Arrive
    <3>1. ArrivePrepare(r) \/ ArriveCall(r) => UNCHANGED pending
      BY <3>0 DEF ArrivePrepare, ArriveCall
    <3>2. PrepareRefused(r) \/ CallRefused(r) \/ PrepareBacklogFull(r)
          \/ PrepareReply(r) \/ CallReplay(r) \/ CallConfirmed(r)
          \/ CallInvalid(r) \/ CallTimeout(r) \/ CallReply(r) \/ Fault(r)
          => UNCHANGED pending
      BY DEF PrepareRefused, CallRefused, Refused, PrepareBacklogFull,
         PrepareReply, CallReplay, CallConfirmed, CallInvalid, CallTimeout,
         CallReply, Fault, stores
    <3>4. HandlerSettles(r) \/ HandlerSettlesLate(r) => UNCHANGED pending
      BY DEF HandlerSettles, HandlerSettlesLate, stores
    <3>3. CallLookup(r) \/ CallSigned(r) \/ DedupePutFails(r) => UNCHANGED pending
      BY DEF CallLookup, CallSigned, DedupePutFails, stores
    <3> QED
      BY <2>4, <3>1, <3>2, <3>3, <3>4
  <2>5. CASE Tick
    BY <2>5 DEF Tick, stores
  <2>6. ASSUME Crash PROVE pending'[t] = None
    BY <2>1, <2>6 DEF Crash
  <2> QED
    BY <2>2, <2>3, <2>4, <2>5, <2>6 DEF Next, Continue
<1> QED
  BY <1>1, Invariance, PTL DEF Spec, TokensStayDead
------------------------------------------------------------------------------
(* Responses, replays and the backlog *)

(* A request is answered once, and its execution is audited only after its *)
(* handler has returned in time.                                           *)
Audited(r) ==
  /\ pc[r] # "done" => resp[r] = NoResponse
  /\ pc[r] \in {"signing", "recording"} => handler[r] = "settled"
  /\ pc[r] = "recording" => r \in audit
  /\ r \in audit =>
       /\ pc[r] \in {"recording", "done", "lost"}
       /\ handler[r] = "settled"
       /\ resp[r].code \in {"none", "OK", "INTERNAL_ERROR"}

(* A recorded response is that of an audited execution with this key.      *)
Recorded(k) ==
  dedupe[k] # None =>
    /\ dedupe[k].of \in audit
    /\ dedupeKey(msg[dedupe[k].of]) = k
    /\ dedupe[k].expiresAt <= clock + DedupeTTL

(* `of` is an audited execution with the dedupe key of r, which did not    *)
(* run itself.                                                             *)
ReplayOf(r, of) ==
  /\ of \in audit /\ ~Ran(r)
  /\ msg[r] \in Messages /\ msg[r].name \in Glyphs
  /\ dedupeKey(msg[r]) # None /\ dedupeKey(msg[of]) = dedupeKey(msg[r])

Replays(r) ==
  /\ pc[r] \in {"idle", "received"} => cached[r] = None
  /\ cached[r] # None => /\ pc[r] \in {"lookedUp", "done", "lost"}
                         /\ ReplayOf(r, cached[r])
  /\ resp[r].code = "OK" =>
       \/ resp[r].of = r /\ r \in audit
       \/ pc[r] = "done" /\ ReplayOf(r, resp[r].of)

(* While the record a retry found on arrival is alive, the store still     *)
(* holds a record that expires no earlier, and the retry does not run.     *)
Retries(r) ==
  /\ pc[r] = "idle" => prior[r] = None
  /\ prior[r] # None =>
       /\ msg[r].kind = "call" /\ dedupeKey(msg[r]) \in DedupeKeys
       /\ prior[r].expiresAt <= clock + DedupeTTL
  /\ pc[r] = "received" /\ Live(prior[r]) =>
       LET record == dedupe[dedupeKey(msg[r])]
       IN  record # None /\ record.expiresAt >= prior[r].expiresAt
  /\ pc[r] = "lookedUp" /\ Live(prior[r]) => cached[r] # None
  /\ Ran(r) \/ pc[r] = "consumed" => ~Live(prior[r])

(* A stored ticket expires when its /prepare said, and a /prepare that     *)
(* counted tickets knows when one of them expires.                         *)
Counted(r) ==
  /\ pending[r] # None => pending[r].expiresAt = expiresAt(r)
  /\ pc[r] = "swept" /\ backlog[r].size > 0 =>
       \E t \in backlog[r].counted :
         /\ t \in minted
         /\ backlog[r].earliestExpiresAt = expiresAt(t)

RInv ==
  /\ \A r \in Requests : Audited(r)
  /\ \A k \in DedupeKeys : Recorded(k)
  /\ \A r \in Requests : Replays(r)
  /\ \A r \in Requests : Retries(r)
  /\ \A r \in Requests : Counted(r)
------------------------------------------------------------------------------

(* The first state has no response, no record and no request.              *)
LEMMA InitRInv == Init => RInv
<1> SUFFICES ASSUME Init PROVE RInv
  OBVIOUS
<1>1. \A r \in Requests : Audited(r) /\ Replays(r) /\ Retries(r) /\ Counted(r)
  BY DEF Init, Audited, Replays, Retries, Counted, NoResponse, Ran, Live
<1>2. \A k \in DedupeKeys : Recorded(k)
  BY DEF Init, Recorded
<1> QED
  BY <1>1, <1>2 DEF RInv

(* The types the proofs below read off the invariant.                      *)
LEMMA Types ==
  ASSUME IInv
  PROVE  /\ clock \in Nat
         /\ pc \in [Requests -> Statuses]
         /\ resp \in [Requests -> Responses]
         /\ msg \in [Requests -> Messages \cup {None}]
         /\ handler \in [Requests -> {"none", "running", "settled", "killed"}]
         /\ cached \in [Requests -> Requests \cup {None}]
         /\ dedupe \in [DedupeKeys -> DedupeRecord \cup {None}]
         /\ prior \in [Requests -> DedupeRecord \cup {None}]
         /\ pending \in [Requests -> PendingConfirmation \cup {None}]
         /\ backlog \in [Requests -> [now : Nat, size : Nat,
                                      earliestExpiresAt : Nat \cup {None},
                                      counted : SUBSET Requests]]
         /\ audit \in SUBSET Requests /\ minted \in SUBSET Requests
BY ConstantsAssumption DEF IInv, TypeOK

(* A step that only answers a request: with its own audited execution, a   *)
(* replay, or an error that an audited execution may still meet.           *)
LEMMA AnswerKeepsRInv ==
  ASSUME IInv, RInv, NEW r \in Requests, pc[r] \notin {"idle", "done"},
         NEW code, NEW of, NEW n, Answer(r, code, of, n),
         code = "OK" => (of = r /\ r \in audit) \/ ReplayOf(r, of),
         r \in audit => code \in {"OK", "INTERNAL_ERROR"},
         UNCHANGED <<clock, pending, dedupe, msg, backlog, cached,
                     handler, audit, minted, prior>>
  PROVE  RInv'
<1>0. /\ pc' = [pc EXCEPT ![r] = "done"]
      /\ \A q \in Requests : q # r => resp'[q] = resp[q]
      /\ resp'[r].code = code /\ resp'[r].of = of
  BY Types DEF Answer
<1>1. ASSUME NEW q \in Requests
      PROVE  Audited(q)' /\ Replays(q)' /\ Retries(q)' /\ Counted(q)'
  <2>1. Audited(q) /\ Replays(q) /\ Retries(q) /\ Counted(q) /\ Replays(r)
    BY DEF RInv
  <2>2. Audited(q)'
    BY <1>0, <2>1, Types DEF Audited
  <2>3. Replays(q)'
    BY <1>0, <2>1, Types DEF Replays, ReplayOf, Ran, dedupeKey
  <2>4. Retries(q)' /\ Counted(q)'
    BY <1>0, <2>1, Types DEF Retries, Counted, Ran, Live, dedupeKey, expiresAt
  <2> QED
    BY <2>2, <2>3, <2>4
<1>2. \A k \in DedupeKeys : Recorded(k)'
  BY DEF RInv, Recorded, dedupeKey
<1> QED
  BY <1>1, <1>2 DEF RInv

(* A request arrives and remembers the record of its key, if any.          *)
LEMMA ArriveKeepsRInv ==
  ASSUME IInv, RInv, NEW r \in Requests, NEW m \in Messages, Arrive(r, m)
  PROVE  RInv'
<1> USE ConstantsAssumption
<1> DEFINE found == IF m.kind = "call" /\ dedupeKey(m) \in DedupeKeys
                      THEN dedupe[dedupeKey(m)] ELSE None
<1>0. /\ pc[r] = "idle" /\ msg' = [msg EXCEPT ![r] = m]
      /\ \/ /\ pc' = [pc EXCEPT ![r] = "done"] /\ prior' = prior
            /\ resp' = [resp EXCEPT ![r] = [code |-> "NOT_FOUND", of |-> None,
                                            retryAfter |-> 0]]
         \/ /\ pc' = [pc EXCEPT ![r] = "received"] /\ resp' = resp
            /\ prior' = [prior EXCEPT ![r] = found]
      /\ UNCHANGED <<clock, pending, dedupe, backlog, cached, got, handler,
                     audit, minted>>
  BY DEF Arrive, errorResponse, Answer, Goto
<1>1. r \notin audit /\ ~Ran(r)
  BY <1>0 DEF IInv, Stage, RInv, Audited
<1>2. \A q \in Requests : q # r => /\ pc'[q] = pc[q] /\ msg'[q] = msg[q]
                                   /\ resp'[q] = resp[q] /\ prior'[q] = prior[q]
  BY <1>0, Types
<1>3. \A k \in DedupeKeys : Recorded(k)'
  <2>1. \A q \in audit : msg'[q] = msg[q] /\ dedupeKey(msg'[q]) = dedupeKey(msg[q])
    BY <1>1, <1>2, Types
  <2> QED
    BY <1>0, <2>1 DEF RInv, Recorded, dedupeKey
<1>4. ASSUME NEW q \in Requests
      PROVE  Audited(q)' /\ Counted(q)'
  <2>1. Audited(q) /\ Counted(q) /\ Audited(r) /\ Counted(r)
    BY DEF RInv
  <2> QED
    BY <1>0, <1>1, <2>1, Types DEF Audited, Counted, expiresAt
<1>5. ASSUME NEW q \in Requests
      PROVE  Replays(q)'
  <2>1. Replays(q) /\ Audited(q)
    BY DEF RInv
  <2>2. CASE q = r
    BY <1>0, <1>1, <2>1, <2>2, Types DEF Replays, Audited, NoResponse
  <2>3. CASE q # r
    <3>1. \A p : ReplayOf(q, p) => ReplayOf(q, p)'
      <4>1. \A p \in audit : dedupeKey(msg[p])' = dedupeKey(msg[p])
        BY <1>1, <1>2, Types DEF dedupeKey
      <4>2. dedupeKey(msg[q])' = dedupeKey(msg[q])
        BY <1>2, <2>3 DEF dedupeKey
      <4> QED
        BY <1>0, <1>2, <2>3, <4>1, <4>2 DEF ReplayOf, Ran
    <3> QED
      BY <1>0, <1>2, <2>1, <2>3, <3>1 DEF Replays
  <2> QED
    BY <2>2, <2>3
<1>6. ASSUME NEW q \in Requests
      PROVE  Retries(q)'
  <2>1. Retries(q)
    BY DEF RInv
  <2>2. CASE q # r
    <3>1. dedupeKey(msg[q])' = dedupeKey(msg[q])
      BY <1>2, <2>2 DEF dedupeKey
    <3> QED
      BY <1>0, <1>2, <2>1, <2>2, <3>1 DEF Retries, Live, Ran
  <2>3. CASE q = r /\ prior'[r] = None
    BY <1>0, <1>1, <2>1, <2>3, Types DEF Retries, Live, Ran
  <2>4. CASE q = r /\ prior'[r] # None
    <3>1. prior[r] = None
      BY <1>0, <2>1, <2>4 DEF Retries
    <3>2. /\ pc'[r] = "received" /\ msg'[r] = m /\ prior'[r] = dedupe[dedupeKey(m)]
          /\ m.kind = "call" /\ dedupeKey(m) \in DedupeKeys
      BY <1>0, <2>4, <3>1, Types
    <3>3. /\ dedupe[dedupeKey(m)] \in DedupeRecord
          /\ dedupe[dedupeKey(m)].expiresAt <= clock + DedupeTTL
      BY <2>4, <3>2, Types DEF RInv, Recorded
    <3>4. dedupeKey(msg[r])' = dedupeKey(m)
      BY <3>2 DEF dedupeKey
    <3> QED
      BY <1>0, <1>1, <2>4, <3>2, <3>3, <3>4 DEF Retries, Ran, DedupeRecord
  <2> QED
    BY <2>2, <2>3, <2>4
<1> QED
  BY <1>3, <1>4, <1>5, <1>6 DEF RInv

(* Steps that move one request and touch no response, record or message;   *)
(* a handler that starts is that of a call whose prior record is not live. *)
LEMMA MoveKeepsRInv ==
  ASSUME IInv, RInv, NEW r \in Requests, pc[r] \notin {"idle", "done", "lost"},
         NEW s \in {"swept", "minted", "lookedUp", "consumed", "handling", "signing"},
         pc' = [pc EXCEPT ![r] = s], r \notin audit,
         \A q \in Requests : q # r => handler'[q] = handler[q],
         s = "signing" => handler'[r] = "settled",
         s = "lookedUp" => pc[r] = "received" /\ (Live(prior[r]) => cached[r] # None),
         Ran(r)' \/ s = "consumed" => ~Live(prior[r]) /\ cached[r] = None,
         cached[r] # None => s = "lookedUp",
         UNCHANGED <<clock, dedupe, msg, cached, audit, resp, prior>>
  PROVE  /\ \A q \in Requests : Audited(q)' /\ Replays(q)' /\ Retries(q)'
         /\ \A k \in DedupeKeys : Recorded(k)'
<1>1. ASSUME NEW q \in Requests
      PROVE  Audited(q)' /\ Replays(q)' /\ Retries(q)'
  <2>1. Audited(q) /\ Replays(q) /\ Retries(q)
    BY DEF RInv
  <2>2. Audited(q)'
    BY <2>1, Types DEF Audited
  <2>3. Replays(q)'
    <3>1. resp[r].code # "OK"
      BY DEF RInv, Audited, NoResponse
    <3>2. q # r => (Ran(q)' <=> Ran(q)) /\ pc'[q] = pc[q]
      BY Types DEF Ran
    <3> QED
      BY <2>1, <3>1, <3>2, Types DEF Replays, ReplayOf, dedupeKey
  <2>4. Retries(q)'
    BY <2>1, Types DEF Retries, Live, Ran, dedupeKey
  <2> QED
    BY <2>2, <2>3, <2>4
<1>2. \A k \in DedupeKeys : Recorded(k)'
  BY DEF RInv, Recorded, dedupeKey
<1> QED
  BY <1>1, <1>2

(* A counted ticket stays counted until it leaves the store.               *)
LEMMA KeepsCounted ==
  ASSUME IInv, RInv, NEW q \in Requests, minted \subseteq minted',
         pc'[q] = "swept" => pc[q] = "swept" /\ backlog'[q] = backlog[q],
         \A t \in minted : backlog'[t] = backlog[t],
         pending'[q] \in {pending[q], None}
  PROVE  Counted(q)'
BY DEF RInv, Counted, IInv, Minted, expiresAt

(* sweep() counts the tickets that are left and finds the first to expire. *)
LEMMA PrepareSweepKeepsRInv ==
  ASSUME IInv, RInv, NEW r \in Requests, PrepareSweep(r)
  PROVE  RInv'
<1> USE ConstantsAssumption
<1> DEFINE left == {t \in Requests : swept(t) # None}
           ends == {pending[t].expiresAt : t \in left}
<1>0. /\ pc[r] = "received" /\ pc' = [pc EXCEPT ![r] = "swept"]
      /\ msg[r].kind = "prepare"
      /\ UNCHANGED <<clock, dedupe, msg, cached, got, handler, audit, minted,
                     prior, resp>>
      /\ \A t \in Requests : pending'[t] = swept(t) /\ swept(t) \in {pending[t], None}
      /\ \A q \in Requests : q # r => backlog'[q] = backlog[q]
      /\ backlog'[r].size = Cardinality(left) /\ backlog'[r].counted = left
      /\ left # {} => backlog'[r].earliestExpiresAt = Min(ends)
  BY Types DEF PrepareSweep, sweep, swept, Goto
<1>1. /\ \A q \in Requests : Audited(q)' /\ Replays(q)' /\ Retries(q)'
      /\ \A k \in DedupeKeys : Recorded(k)'
  <2>1. r \notin audit /\ ~Ran(r) /\ cached[r] = None
    BY <1>0 DEF RInv, Audited, Replays, IInv, Stage
  <2>2. Ran(r)' <=> Ran(r)
    BY <1>0 DEF Ran
  <2> QED
    BY <1>0, <2>1, <2>2, MoveKeepsRInv
<1>2. ASSUME NEW q \in Requests
      PROVE  Counted(q)'
  <2>0. r \notin minted /\ pending[r] = None
    BY <1>0 DEF IInv, Stage, Minted
  <2>1. CASE q # r
    BY <1>0, <2>0, <2>1, Types, KeepsCounted
  <2>2. CASE q = r /\ left = {}
    <3>1. Cardinality(left) = 0
      BY <2>2, FS_EmptySet
    <3> HIDE DEF left
    <3> QED
      BY <1>0, <2>0, <2>2, <3>1 DEF Counted
  <2>3. CASE q = r /\ left # {}
    <3>1. ends \in SUBSET Nat /\ ends # {}
      BY <2>3, Types DEF swept, PendingConfirmation
    <3>2. Min(ends) \in ends
      BY <3>1, MinInSet
    <3>3. PICK t \in left : Min(ends) = pending[t].expiresAt
      BY <3>2
    <3>4. t \in minted /\ pending[t] # None /\ t \in Requests /\ t # r
      BY <1>0, <2>0, <3>3 DEF IInv, Minted, swept
    <3>5. Min(ends) = expiresAt(t)' /\ t \in left
      BY <1>0, <3>3, <3>4 DEF RInv, Counted, expiresAt
    <3>6. backlog'[r].earliestExpiresAt = Min(ends)
      BY <1>0, <2>3
    <3> HIDE DEF left, ends
    <3> QED
      BY <1>0, <2>0, <2>3, <3>4, <3>5, <3>6 DEF Counted
  <2> QED
    BY <2>1, <2>2, <2>3
<1> QED
  BY <1>1, <1>2 DEF RInv

(* put() of a fresh ticket.                                                *)
LEMMA PreparePutKeepsRInv ==
  ASSUME IInv, RInv, NEW r \in Requests, PreparePut(r)
  PROVE  RInv'
<1>0. /\ pc[r] = "swept" /\ pc' = [pc EXCEPT ![r] = "minted"]
      /\ minted' = minted \cup {r}
      /\ \A t \in Requests : t # r => pending'[t] = pending[t]
      /\ UNCHANGED <<clock, dedupe, msg, cached, backlog, handler, audit, prior,
                     resp>>
  BY Types DEF PreparePut, Goto, locals
<1>1. r \notin minted /\ r \notin audit /\ cached[r] = None /\ ~Ran(r)
  <2>1. Stage(r) /\ Runs(r) /\ Audited(r) /\ Replays(r)
    BY DEF IInv, RInv
  <2> QED
    BY <1>0, <2>1 DEF Stage, Runs, Audited, Replays
<1>2. /\ \A q \in Requests : Audited(q)' /\ Replays(q)' /\ Retries(q)'
      /\ \A k \in DedupeKeys : Recorded(k)'
  <2>1. ~Ran(r)'
    BY <1>0, <1>1 DEF Ran
  <2> QED
    BY <1>0, <1>1, <2>1, MoveKeepsRInv
<1>3. ASSUME NEW q \in Requests
      PROVE  Counted(q)'
  <2>1. CASE q # r
    BY <1>0, <2>1, Types, KeepsCounted
  <2>2. CASE q = r
    BY <1>0, <2>2, Types DEF Counted, PreparePut, expiresAt
  <2> QED
    BY <2>1, <2>2
<1> QED
  BY <1>2, <1>3 DEF RInv

(* The confirmation gate is reached only by a call that found no record.   *)
LEMMA GateKeepsRInv ==
  ASSUME IInv, RInv, NEW r \in Requests, CallGate(r) \/ CallMiss(r)
  PROVE  RInv'
<1>0. /\ pc[r] \in {"received", "lookedUp"} /\ ConfirmationGate(r)
      /\ UNCHANGED <<clock, dedupe, msg, backlog, cached, audit, minted, prior>>
  BY DEF CallGate, CallMiss
<1>1. cached[r] = None /\ r \notin audit
  BY DEF CallGate, CallMiss, RInv, Audited, Replays
<1>2. ~Live(prior[r])
  <2>1. Retries(r)
    BY DEF RInv
  <2>2. CASE CallGate(r)
    BY <2>1, <2>2, NoneAssumption DEF CallGate, Retries, Live
  <2>3. CASE CallMiss(r)
    BY <2>1, <2>3 DEF CallMiss, Retries
  <2> QED
    BY <2>2, <2>3
<1>3. CASE /\ errorResponse(r, "CONFIRMATION_REQUIRED")
           /\ UNCHANGED <<pending, got, handler>>
  BY <1>0, <1>1, <1>3, AnswerKeepsRInv DEF errorResponse
<1>4. CASE (StartHandler(r) /\ UNCHANGED <<pending, got>>)
           \/ (/\ consume(r, msg[r].token) /\ Goto(r, "consumed")
               /\ UNCHANGED handler)
  <2>1. /\ \E s \in {"consumed", "handling"} : pc' = [pc EXCEPT ![r] = s]
        /\ \A q \in Requests : q # r => handler'[q] = handler[q]
        /\ resp' = resp
        /\ \A t \in Requests : pending'[t] \in {pending[t], None}
    BY <1>4, Types DEF StartHandler, Goto, consume
  <2>2. PICK s \in {"consumed", "handling"} : pc' = [pc EXCEPT ![r] = s]
    BY <2>1
  <2>3. /\ \A q \in Requests : Audited(q)' /\ Replays(q)' /\ Retries(q)'
        /\ \A k \in DedupeKeys : Recorded(k)'
    BY <1>0, <1>1, <1>2, <2>1, <2>2, MoveKeepsRInv
  <2>4. \A q \in Requests : Counted(q)'
    BY <1>0, <2>1, <2>2, Types, KeepsCounted
  <2> QED
    BY <2>3, <2>4 DEF RInv
<1> QED
  BY <1>0, <1>3, <1>4 DEF ConfirmationGate

(* A valid ticket starts a handler: a call at this stage found no record.  *)
LEMMA CallConfirmedKeepsRInv ==
  ASSUME IInv, RInv, NEW r \in Requests, CallConfirmed(r)
  PROVE  RInv'
<1>0. /\ pc[r] = "consumed" /\ pc' = [pc EXCEPT ![r] = "handling"]
      /\ \A q \in Requests : q # r => handler'[q] = handler[q]
      /\ UNCHANGED <<clock, dedupe, msg, backlog, cached, audit, minted, prior,
                     resp, pending>>
  BY Types DEF CallConfirmed, StartHandler, Goto, stores, locals
<1>1. r \notin audit /\ cached[r] = None /\ ~Live(prior[r])
  BY <1>0 DEF RInv, Audited, Replays, Retries
<1>2. /\ \A q \in Requests : Audited(q)' /\ Replays(q)' /\ Retries(q)'
      /\ \A k \in DedupeKeys : Recorded(k)'
  BY <1>0, <1>1, MoveKeepsRInv
<1>3. \A q \in Requests : Counted(q)'
  BY <1>0, Types, KeepsCounted
<1> QED
  BY <1>2, <1>3 DEF RInv

(* A live record is found, whoever else looked up, swept or recorded since *)
(* the retry arrived; a dead one is dropped.                               *)
LEMMA CallLookupKeepsRInv ==
  ASSUME IInv, RInv, NEW r \in Requests, CallLookup(r)
  PROVE  RInv'
<1> USE NoneAssumption
<1> DEFINE key == dedupeKey(msg[r])
<1>0. /\ pc[r] = "received" /\ pc' = [pc EXCEPT ![r] = "lookedUp"]
      /\ key # None /\ Admitted(r) /\ msg[r].kind = "call"
      /\ UNCHANGED <<clock, pending, msg, backlog, got, handler, audit, minted,
                     prior, resp>>
  BY DEF CallLookup, Goto
<1>k. key \in DedupeKeys
  BY <1>0 DEF IInv, Stage, Awaits, Messages, Admitted, dedupeKey, DedupeKeys
<1>1. r \notin audit /\ ~Ran(r) /\ cached[r] = None
  BY <1>0 DEF RInv, Audited, Replays, IInv, Stage
<1>2. \A q \in Requests : Counted(q)'
  BY <1>0, Types, KeepsCounted
<1>3. ASSUME NEW q \in Requests
      PROVE  Audited(q)'
  <2>1. Audited(q)
    BY DEF RInv
  <2> QED
    BY <1>0, <1>1, <2>1, Types DEF Audited
<1>k2. \A q \in Requests : dedupeKey(msg[q])' = dedupeKey(msg[q])
  BY <1>0 DEF dedupeKey
<1>r. Recorded(key) /\ Retries(r) /\ Replays(r)
  BY <1>k DEF RInv
<1>4. CASE Live(dedupe[key]) /\ cached' = [cached EXCEPT ![r] = dedupe[key].of]
           /\ dedupe' = dedupe
  <2>0. dedupe[key].of \in audit /\ dedupeKey(msg[dedupe[key].of]) = key
    BY <1>r, <1>4 DEF Recorded, Live
  <2>1. PICK of \in audit : of = dedupe[key].of /\ dedupeKey(msg[of]) = key /\ of # None
    BY <2>0, Types, ConstantsAssumption
  <2> HIDE DEF key
  <2>2. \A k \in DedupeKeys : Recorded(k)'
    BY <1>0, <1>4 DEF RInv, Recorded, dedupeKey
  <2>3. ASSUME NEW q \in Requests
        PROVE  Retries(q)'
    <3>1. Retries(q)
      BY DEF RInv
    <3> QED
      BY <1>0, <1>1, <1>4, <2>1, <3>1, <1>k2, Types DEF Retries, Live, Ran
  <2>4. ASSUME NEW q \in Requests
        PROVE  Replays(q)'
    <3>1. Replays(q) /\ (q = r => Audited(r))
      BY DEF RInv
    <3>2. \A p \in audit : ReplayOf(q, p)' <=> ReplayOf(q, p)
      BY <1>0, <1>k2, Types DEF ReplayOf, Ran
    <3>3. CASE q # r
      BY <1>0, <1>4, <3>1, <3>2, <3>3, Types DEF Replays, ReplayOf
    <3>4. CASE q = r
      <4>1. ReplayOf(r, of)'
        <5>1. msg[r] \in Messages /\ msg[r].name \in Glyphs
          BY <1>0 DEF IInv, Stage, Awaits
        <5> QED
          BY <1>0, <1>1, <2>1, <3>2, <3>4, <5>1 DEF ReplayOf, key
      <4>2. cached'[r] = of /\ pc'[r] = "lookedUp" /\ resp'[r].code = "none"
        BY <1>0, <1>4, <2>1, <3>1, <3>4, Types DEF Audited, NoResponse
      <4> QED
        BY <3>4, <4>1, <4>2 DEF Replays, ReplayOf
    <3> QED
      BY <3>3, <3>4
  <2> QED
    BY <1>2, <1>3, <2>2, <2>3, <2>4 DEF RInv
<1>5. CASE ~Live(dedupe[key]) /\ cached' = cached
           /\ dedupe' = [dedupe EXCEPT ![key] = None]
  <2>0. /\ \A k \in DedupeKeys : k # key => dedupe'[k] = dedupe[k]
        /\ dedupe'[key] = None
    BY <1>5, <1>k, Types
  <2> HIDE DEF key
  <2>1. \A k \in DedupeKeys : Recorded(k)'
    BY <1>0, <2>0 DEF RInv, Recorded, dedupeKey
  <2>2. ASSUME NEW q \in Requests
        PROVE  Retries(q)'
    <3>1. Retries(q)
      BY DEF RInv
    <3>2. CASE pc[q] = "received" /\ Live(prior[q])
      <4>1. dedupeKey(msg[q]) # key
        <5> SUFFICES ASSUME dedupeKey(msg[q]) = key PROVE FALSE
          OBVIOUS
        <5>1. /\ dedupe[key] # None /\ dedupe[key].expiresAt >= prior[q].expiresAt
              /\ clock < prior[q].expiresAt
          BY <3>1, <3>2 DEF Retries, Live
        <5>2. dedupe[key] \in DedupeRecord /\ prior[q] \in DedupeRecord /\ clock \in Nat
          BY <1>k, <3>2, <5>1, Types DEF Live
        <5> QED
          BY <1>5, <5>1, <5>2 DEF Live, DedupeRecord
      <4>2. dedupe'[dedupeKey(msg[q])] = dedupe[dedupeKey(msg[q])] /\ q # r
        BY <2>0, <3>1, <3>2, <4>1 DEF Retries, Live, key
      <4> QED
        BY <1>0, <1>5, <3>1, <3>2, <4>2, <1>k2, Types DEF Retries, Live, Ran
    <3>3. CASE ~(pc[q] = "received" /\ Live(prior[q]))
      BY <1>0, <1>5, <3>1, <3>3, <1>k2, Types DEF Retries, Live, Ran
    <3> QED
      BY <3>2, <3>3
  <2>3. ASSUME NEW q \in Requests
        PROVE  Replays(q)'
    <3>1. Replays(q)
      BY DEF RInv
    <3>2. \A p \in audit : ReplayOf(q, p)' <=> ReplayOf(q, p)
      BY <1>0, <1>k2, Types DEF ReplayOf, Ran
    <3> QED
      BY <1>0, <1>1, <1>5, <3>1, <3>2, Types DEF Replays, ReplayOf
  <2> QED
    BY <1>2, <1>3, <2>1, <2>2, <2>3 DEF RInv
<1> QED
  BY <1>4, <1>5 DEF CallLookup

(* A handler settles in time, and its request is answered or goes on to    *)
(* sign; or it settles late, and nobody looks.                             *)
LEMMA SettleKeepsRInv ==
  ASSUME IInv, RInv, NEW r \in Requests, HandlerSettles(r) \/ HandlerSettlesLate(r)
  PROVE  RInv'
<1>0. /\ pc[r] \in {"handling", "done"} /\ Ran(r)
      /\ handler' = [handler EXCEPT ![r] = "settled"]
      /\ UNCHANGED <<clock, pending, dedupe, msg, backlog, cached, audit, minted,
                     prior>>
      /\ \/ pc[r] = "handling" /\ pc' = [pc EXCEPT ![r] = "signing"] /\ resp' = resp
         \/ /\ pc[r] = "handling" /\ pc' = [pc EXCEPT ![r] = "done"]
            /\ \A q \in Requests : q # r => resp'[q] = resp[q]
            /\ resp'[r].code \in {"HANDLER_ERROR", "OUTPUT_VALIDATION_FAILED"}
         \/ pc[r] = "done" /\ pc' = pc /\ resp' = resp
  BY Types DEF HandlerSettles, HandlerSettlesLate, errorResponse, Answer, Goto,
     stores, locals, IInv, Stage, Ran
<1>1. \A q \in Requests : Ran(q)' <=> Ran(q)
  BY <1>0, Types DEF Ran
<1>2. ASSUME NEW q \in Requests
      PROVE  Audited(q)' /\ Replays(q)' /\ Retries(q)' /\ Counted(q)'
  <2>1. Audited(q) /\ Replays(q) /\ Retries(q)
    BY DEF RInv
  <2>2. Audited(q)'
    BY <1>0, <2>1, Types DEF Audited
  <2>3. Replays(q)'
    BY <1>0, <1>1, <2>1, Types DEF Replays, ReplayOf, dedupeKey
  <2>4. Retries(q)'
    BY <1>0, <1>1, <2>1, Types DEF Retries, Live, dedupeKey
  <2>5. Counted(q)'
    BY <1>0, Types, KeepsCounted
  <2> QED
    BY <2>2, <2>3, <2>4, <2>5
<1>3. \A k \in DedupeKeys : Recorded(k)'
  BY <1>0 DEF RInv, Recorded, dedupeKey
<1> QED
  BY <1>2, <1>3 DEF RInv

(* The receipt is audited; what is recorded is this execution, and only    *)
(* expired records give way to it.                                         *)
LEMMA CallSignedKeepsRInv ==
  ASSUME IInv, RInv, NEW r \in Requests, CallSigned(r) \/ DedupePutFails(r)
  PROVE  RInv'
<1> USE ConstantsAssumption
<1>0. /\ pc[r] = "signing" /\ audit' = audit \cup {r}
      /\ UNCHANGED <<clock, pending, msg, backlog, cached, handler, minted, prior>>
  BY DEF CallSigned, DedupePutFails, stores, locals
<1>1. handler[r] = "settled" /\ resp[r] = NoResponse /\ cached[r] = None /\ Ran(r)
  BY <1>0 DEF RInv, Audited, Replays, Ran
<1>k. \A q \in Requests : dedupeKey(msg[q])' = dedupeKey(msg[q])
  BY <1>0 DEF dedupeKey
<1>2. /\ \/ pc' = [pc EXCEPT ![r] = "recording"] /\ resp' = resp
         \/ /\ pc' = [pc EXCEPT ![r] = "done"]
            /\ \/ resp'[r].code = "OK" /\ resp'[r].of = r
               \/ resp'[r].code = "INTERNAL_ERROR"
      /\ \A q \in Requests : q # r => resp'[q] = resp[q]
  BY Types DEF CallSigned, DedupePutFails, Answer, errorResponse, Goto
<1>3. \/ dedupe' = dedupe
      \/ \E gone \in SUBSET {k \in DedupeKeys : Expired(dedupe[k])} :
           dedupe' = [k \in DedupeKeys |->
             IF k = dedupeKey(msg[r]) THEN [of |-> r, expiresAt |-> clock + DedupeTTL]
             ELSE IF k \in gone THEN None ELSE dedupe[k]]
  BY DEF CallSigned, DedupePutFails, put, stores
<1>4. ASSUME NEW k \in DedupeKeys
      PROVE  \/ dedupe'[k] = dedupe[k]
             \/ k = dedupeKey(msg[r]) /\ dedupe'[k] = [of |-> r, expiresAt |-> clock + DedupeTTL]
             \/ Expired(dedupe[k]) /\ dedupe'[k] = None
  BY <1>3
<1>5. ASSUME NEW k \in DedupeKeys
      PROVE  Recorded(k)'
  <2>1. Recorded(k)
    BY DEF RInv
  <2>2. CASE dedupe'[k] = dedupe[k] \/ dedupe'[k] = None
    BY <1>0, <2>1, <2>2, <1>k, Types DEF Recorded
  <2>3. CASE k = dedupeKey(msg[r]) /\ dedupe'[k] = [of |-> r, expiresAt |-> clock + DedupeTTL]
    <3>1. dedupe'[k].of = r /\ dedupe'[k].expiresAt = clock + DedupeTTL
      BY <2>3
    <3> QED
      BY <1>0, <1>k, <2>3, <3>1, Types DEF Recorded
  <2> QED
    BY <1>4, <2>2, <2>3
<1>6. ASSUME NEW q \in Requests
      PROVE  Audited(q)' /\ Counted(q)'
  <2>1. Audited(q)
    BY DEF RInv
  <2>2. Audited(q)'
    BY <1>0, <1>1, <1>2, <2>1, Types DEF Audited, NoResponse
  <2>3. pc'[q] = "swept" => pc[q] = "swept"
    BY <1>2, Types
  <2>4. Counted(q)'
    BY <1>0, <2>3, KeepsCounted
  <2> QED
    BY <2>2, <2>4
<1>7. ASSUME NEW q \in Requests
      PROVE  Replays(q)'
  <2>1. Replays(q)
    BY DEF RInv
  <2>2. \A p \in audit : ReplayOf(q, p)' <=> ReplayOf(q, p)
    BY <1>0, <1>k, Types DEF ReplayOf, Ran
  <2>3. CASE q = r
    BY <1>0, <1>1, <1>2, <2>3, Types DEF Replays, NoResponse
  <2>4. CASE q # r
    BY <1>0, <1>2, <2>1, <2>2, <2>4, Types DEF Replays, ReplayOf
  <2> QED
    BY <2>3, <2>4
<1>8. ASSUME NEW q \in Requests
      PROVE  Retries(q)'
  <2>1. Retries(q)
    BY DEF RInv
  <2>2. pc'[q] \in {pc[q], "recording", "done"}
    BY <1>2, Types
  <2>3. CASE pc[q] = "received" /\ Live(prior[q])
    <3>1. PICK k \in DedupeKeys : k = dedupeKey(msg[q])
      BY <2>1, <2>3 DEF Retries, Live
    <3>2. /\ dedupe[k] \in DedupeRecord /\ prior[q] \in DedupeRecord /\ clock \in Nat
          /\ dedupe[k].expiresAt >= prior[q].expiresAt
          /\ clock < prior[q].expiresAt /\ prior[q].expiresAt <= clock + DedupeTTL
      BY <2>1, <2>3, <3>1, Types DEF Retries, Live
    <3>3. ~Expired(dedupe[k])
      BY <3>2 DEF Expired, DedupeRecord
    <3>4. [of |-> r, expiresAt |-> clock + DedupeTTL] # None
      BY <3>2, NoneAssumption DEF DedupeRecord
    <3>5. dedupe'[k] # None /\ dedupe'[k].expiresAt >= prior[q].expiresAt
      <4>1. dedupe'[k] = dedupe[k] \/ dedupe'[k] = [of |-> r, expiresAt |-> clock + DedupeTTL]
        BY <1>4, <3>3
      <4>2. [of |-> r, expiresAt |-> clock + DedupeTTL].expiresAt = clock + DedupeTTL
        OBVIOUS
      <4> QED
        BY <2>1, <2>3, <3>1, <3>2, <3>4, <4>1, <4>2 DEF Retries
    <3> QED
      BY <1>0, <1>k, <2>1, <2>2, <2>3, <3>1, <3>5 DEF Retries, Live, Ran
  <2>4. CASE ~(pc[q] = "received" /\ Live(prior[q]))
    BY <1>0, <1>k, <2>1, <2>2, <2>4 DEF Retries, Live, Ran
  <2> QED
    BY <2>3, <2>4
<1> QED
  BY <1>5, <1>6, <1>7, <1>8 DEF RInv

(* A crash keeps only what was answered or audited, time only moves on.    *)
LEMMA CrashTickKeepsRInv ==
  ASSUME IInv, RInv, Crash \/ Tick \/ UNCHANGED vars
  PROVE  RInv'
<1> USE ConstantsAssumption
<1>0. /\ UNCHANGED <<msg, backlog, cached, audit, resp, minted, prior>>
      /\ clock' \in Nat /\ clock' >= clock
      /\ \A q \in Requests : pc'[q] \in {pc[q], "lost"}
      /\ \A q \in Requests : pc[q] \in {"idle", "done"} => pc'[q] = pc[q]
      /\ \A q \in Requests : Ran(q)' <=> Ran(q)
      /\ \A q \in Requests : handler[q] = "settled" => handler'[q] = "settled"
      /\ \A t \in Requests : pending'[t] \in {pending[t], None}
  BY Types DEF Crash, Tick, vars, stores, locals, Ran
<1>1. \/ dedupe' = dedupe
      \/ /\ \A k \in DedupeKeys : dedupe'[k] = None
         /\ \A q \in Requests : pc'[q] \in {"idle", "done", "lost"}
  BY Types DEF Crash, Tick, vars, stores
<1>k. \A q \in Requests : dedupeKey(msg[q])' = dedupeKey(msg[q])
  BY <1>0 DEF dedupeKey
<1>2. ASSUME NEW q \in Requests
      PROVE  Audited(q)' /\ Replays(q)' /\ Counted(q)'
  <2>1. Audited(q) /\ Replays(q)
    BY DEF RInv
  <2>2. Audited(q)'
    BY <1>0, <2>1 DEF Audited
  <2>3. Replays(q)'
    BY <1>0, <1>k, <2>1, Types DEF Replays, ReplayOf
  <2>4. Counted(q)'
    BY <1>0, Types, KeepsCounted
  <2> QED
    BY <2>2, <2>3, <2>4
<1>3. ASSUME NEW k \in DedupeKeys
      PROVE  Recorded(k)'
  BY <1>0, <1>1, <1>k, Types DEF RInv, Recorded, DedupeRecord
<1>4. ASSUME NEW q \in Requests
      PROVE  Retries(q)'
  <2>1. Retries(q) /\ prior[q] \in DedupeRecord \cup {None} /\ clock \in Nat
    BY Types DEF RInv
  <2>2. Live(prior[q])' => Live(prior[q])
    BY <1>0, <2>1 DEF Live, DedupeRecord
  <2>3. prior[q] # None => prior[q].expiresAt <= clock' + DedupeTTL
    BY <1>0, <2>1 DEF Retries, DedupeRecord
  <2>4. pc'[q] = "received" => pc[q] = "received" /\ dedupe' = dedupe
    BY <1>0, <1>1
  <2> QED
    BY <1>0, <1>k, <2>1, <2>2, <2>3, <2>4 DEF Retries
<1> QED
  BY <1>2, <1>3, <1>4 DEF RInv

(* Every step keeps the second invariant, one case per action.             *)
LEMMA StepKeepsRInv == IInv /\ RInv /\ [Next]_vars => RInv'
<1> SUFFICES ASSUME IInv, RInv, [Next]_vars PROVE RInv'
  OBVIOUS
<1>1. ASSUME NEW r \in Requests, ArrivePrepare(r) \/ ArriveCall(r)
      PROVE  RInv'
  <2>1. \E m \in Messages : Arrive(r, m)
    BY <1>1, ConstantsAssumption DEF ArrivePrepare, ArriveCall, Messages, Delivered
  <2> QED
    BY <2>1, ArriveKeepsRInv
<1>2. ASSUME NEW r \in Requests,
             \/ PrepareRefused(r) \/ CallRefused(r) \/ PrepareReply(r)
             \/ PrepareBacklogFull(r) \/ CallInvalid(r) \/ CallTimeout(r)
             \/ CallReply(r) \/ CallReplay(r) \/ Fault(r)
      PROVE  RInv'
  <2>0. Audited(r) /\ Replays(r)
    BY DEF RInv
  <2>1. /\ pc[r] \notin {"idle", "done"}
        /\ UNCHANGED <<clock, pending, dedupe, msg, backlog, cached,
                       handler, audit, minted, prior>>
    BY <1>2, ConstantsAssumption DEF PrepareRefused, CallRefused, Refused,
       PrepareReply, PrepareBacklogFull, CallInvalid, CallTimeout, CallReply,
       CallReplay, Fault, Awaits, stores, locals
  <2>2. \E code, of, n :
          /\ Answer(r, code, of, n)
          /\ code = "OK" => (of = r /\ r \in audit) \/ ReplayOf(r, of)
          /\ r \in audit => code \in {"OK", "INTERNAL_ERROR"}
    BY <1>2, <2>0 DEF PrepareRefused, CallRefused, Refused, PrepareReply,
       PrepareBacklogFull, CallInvalid, CallTimeout, CallReply, CallReplay,
       Fault, errorResponse, Audited, Replays
  <2> QED
    BY <2>1, <2>2, AnswerKeepsRInv
<1> QED
  BY <1>1, <1>2, PrepareSweepKeepsRInv, PreparePutKeepsRInv, GateKeepsRInv,
     CallLookupKeepsRInv, CallConfirmedKeepsRInv, SettleKeepsRInv,
     CallSignedKeepsRInv, CrashTickKeepsRInv
     DEF Next, Continue

(* The second invariant holds in every reachable state.                    *)
LEMMA ResponsesInvariant == Spec => [](IInv /\ RInv)
<1> QED
  BY InitRInv, StepKeepsRInv, Invariance, PTL DEF Spec

(* Only executions whose handler returned in time are audited or recorded  *)
(* for replay, whatever times out, fails or crashes around them.           *)
THEOREM AuditIsOfReturned == Spec => []AuditedRunsReturned
<1>1. IInv /\ RInv => AuditedRunsReturned
  BY Types DEF RInv, Audited, Recorded, AuditedRunsReturned
<1> QED
  BY <1>1, ResponsesInvariant, PTL

(* No two pairs of a registered name and a callId make the same text when  *)
(* a colon joins them.  The code does not see to it: a name or a callId    *)
(* may contain a colon.  It holds when neither does.                       *)
KeysUnambiguous ==
  \A n1, n2 \in Glyphs, d1, d2 \in CallIds, i1, i2 \in Inputs :
    KeyText(n1, d1, i1) = KeyText(n2, d2, i2) => n1 = n2 /\ d1 = d2

(* A response, fresh or replayed, is of an audited execution of the glyph, *)
(* the input and the callId that were asked for, when the dedupe keys are  *)
(* unambiguous.                                                            *)
THEOREM OwnResponses == KeysUnambiguous /\ Spec => []ResponseOfOwnExecution
<1> SUFFICES ASSUME KeysUnambiguous PROVE Spec => []ResponseOfOwnExecution
  OBVIOUS
<1>1. IInv /\ RInv => ResponseOfOwnExecution
  <2> SUFFICES ASSUME IInv, RInv, NEW r \in Requests, resp[r].code = "OK"
               PROVE  LET run == resp[r].of
                      IN  /\ run \in audit
                          /\ handler[run] = "settled"
                          /\ msg[run].name = msg[r].name
                          /\ msg[run].input = msg[r].input
                          /\ run # r => ~Ran(r) /\ msg[run].callId = msg[r].callId
    BY DEF ResponseOfOwnExecution
  <2>1. Replays(r) /\ Audited(r) /\ \A q \in audit : Audited(q) /\ Runs(q)
    BY Types DEF RInv, IInv
  <2>2. CASE resp[r].of = r /\ r \in audit
    BY <2>1, <2>2 DEF Audited
  <2>3. CASE pc[r] = "done" /\ ReplayOf(r, resp[r].of)
    <3>1. PICK run \in audit : run = resp[r].of /\ ReplayOf(r, run)
      BY <2>3 DEF ReplayOf
    <3>2. /\ msg[run] \in Messages /\ msg[run].name \in Glyphs /\ Admitted(run)
          /\ handler[run] = "settled"
      BY <2>1, <3>1 DEF Runs, Audited, Ran
    <3>3. /\ KeyText(msg[run].name, msg[run].callId, msg[run].input)
               = KeyText(msg[r].name, msg[r].callId, msg[r].input)
          /\ msg[run].callId # None /\ msg[r].callId # None
      BY <3>1 DEF ReplayOf, dedupeKey
    <3>4. msg[r] \in Messages /\ msg[r].name \in Glyphs
      BY <3>1 DEF ReplayOf
    <3>5. msg[run].callId \in CallIds /\ msg[r].callId \in CallIds
      BY <3>2, <3>3, <3>4 DEF Messages
    <3>6. msg[run].input = msg[r].input /\ msg[r].input \in Inputs
      BY <3>2, <3>3 DEF KeyText, Messages, Admitted
    <3>7. msg[run].name = msg[r].name /\ msg[run].callId = msg[r].callId
      BY <3>2, <3>3, <3>4, <3>5, <3>6 DEF KeysUnambiguous
    <3> QED
      BY <3>1, <3>2, <3>6, <3>7 DEF ReplayOf
  <2> QED
    BY <2>1, <2>2, <2>3 DEF Replays
<1> QED
  BY <1>1, ResponsesInvariant, PTL

(* Retry-After, in seconds, covers the ticks it was computed from.         *)
LEMMA CeilCovers ==
  ASSUME NEW x \in Int
  PROVE  Ceil(x, TicksPerSecond) \in Int /\ x <= Ceil(x, TicksPerSecond) * TicksPerSecond
<1> DEFINE t == TicksPerSecond
           q == (x + t - 1) \div t
<1>1. t \in Nat /\ t >= 1
  BY ConstantsAssumption
<1>2. q \in Int /\ t * q <= x + t - 1 /\ x + t - 1 < t * q + t
  BY <1>1, SMTT(30)
<1> QED
  BY <1>1, <1>2, SMTT(30) DEF Ceil

(* The delay a rejected /prepare is given is enough for a counted ticket   *)
(* to expire.                                                              *)
THEOREM BacklogDelaySuffices == Spec => BacklogRetryAfterFreesASlot
<1> USE ConstantsAssumption
<1>1. ASSUME IInv, RInv, [Next]_vars
      PROVE  [\A r \in Requests :
               (resp'[r].code = "CONFIRMATION_BACKLOG_FULL" /\ resp'[r] # resp[r])
                 => LET wait == resp'[r].retryAfter
                    IN  /\ wait >= 1
                        /\ MaxPending > 0 => \E t \in backlog[r].counted :
                             /\ t \in minted
                             /\ expiresAt(t)
                                  <= backlog[r].now + wait * TicksPerSecond]_vars
  <2> SUFFICES ASSUME Next, NEW r \in Requests,
                      resp'[r].code = "CONFIRMATION_BACKLOG_FULL", resp'[r] # resp[r]
               PROVE  LET wait == resp'[r].retryAfter
                      IN  /\ wait >= 1
                          /\ MaxPending > 0 => \E t \in backlog[r].counted :
                               /\ t \in minted
                               /\ expiresAt(t)
                                    <= backlog[r].now + wait * TicksPerSecond
    BY <1>1
  <2>0. resp \in [Requests -> Responses]
    BY <1>1, Types
  <2>a. ASSUME NEW q \in Requests, NEW code, NEW of, NEW n, Answer(q, code, of, n),
               code # "CONFIRMATION_BACKLOG_FULL"
        PROVE  FALSE
    BY <2>0, <2>a DEF Answer
  <2>b. ASSUME NEW q \in Requests, NEW m, Arrive(q, m)
        PROVE  FALSE
    BY <2>0, <2>b, <2>a DEF Arrive, errorResponse, Goto
  <2>1. PrepareBacklogFull(r)
    <3>1. ASSUME NEW q \in Requests, ArrivePrepare(q) \/ ArriveCall(q)
          PROVE  FALSE
      BY <3>1, <2>b DEF ArrivePrepare, ArriveCall
    <3>2. ASSUME NEW q \in Requests,
                 \/ PrepareRefused(q) \/ CallRefused(q) \/ PrepareReply(q)
                 \/ CallInvalid(q) \/ CallTimeout(q) \/ CallReply(q)
                 \/ CallReplay(q) \/ Fault(q) \/ DedupePutFails(q)
          PROVE  FALSE
      <4>1. \E code, of, n : Answer(q, code, of, n) /\ code # "CONFIRMATION_BACKLOG_FULL"
        BY <3>2 DEF PrepareRefused, CallRefused, Refused, PrepareReply,
           CallInvalid, CallTimeout, CallReply, CallReplay, Fault,
           DedupePutFails, errorResponse
      <4> QED
        BY <4>1, <2>a
    <3>3. ASSUME NEW q \in Requests,
                 \/ CallGate(q) \/ CallMiss(q) \/ HandlerSettles(q) \/ CallSigned(q)
          PROVE  FALSE
      <4>1. \/ \E code, of, n : Answer(q, code, of, n) /\ code # "CONFIRMATION_BACKLOG_FULL"
            \/ resp' = resp
        BY <3>3 DEF CallGate, CallMiss, HandlerSettles, CallSigned,
           ConfirmationGate, StartHandler, Goto, errorResponse
      <4> QED
        BY <4>1, <2>a
    <3>4. ASSUME NEW q \in Requests,
                 \/ PrepareSweep(q) \/ PreparePut(q) \/ CallLookup(q)
                 \/ CallConfirmed(q) \/ HandlerSettlesLate(q) \/ Crash \/ Tick
          PROVE  FALSE
      BY <3>4 DEF PrepareSweep, PreparePut, CallLookup, CallConfirmed,
         StartHandler, HandlerSettlesLate, Crash, Tick, Goto
    <3>5. ASSUME NEW q \in Requests, PrepareBacklogFull(q)
          PROVE  q = r
      BY <2>0, <3>5 DEF PrepareBacklogFull, Answer
    <3> QED
      BY <3>1, <3>2, <3>3, <3>4, <3>5 DEF Next, Continue, Crash, Tick
  <2>2. /\ pc[r] = "swept" /\ backlog[r].size >= MaxPending
        /\ resp'[r].retryAfter = RetryAfter(backlog[r])
    BY <2>0, <2>1 DEF PrepareBacklogFull, Answer
  <2>3. backlog[r] \in [now : Nat, size : Nat, earliestExpiresAt : Nat \cup {None},
           counted : SUBSET Requests]
    BY <1>1, Types
  <2> DEFINE b == backlog[r]
             end == IF b.earliestExpiresAt = None
                      THEN b.now + ConfirmationTTL ELSE b.earliestExpiresAt
             secs == Ceil(end - b.now, TicksPerSecond)
  <2>4. end \in Nat /\ b.now \in Nat /\ end - b.now \in Int
    BY <2>3
  <2>5. secs \in Int /\ end - b.now <= secs * TicksPerSecond
    BY <2>4, CeilCovers
  <2>6. RetryAfter(b) = IF secs < 1 THEN 1 ELSE secs
    BY DEF RetryAfter
  <2>7. Counted(r)
    BY <1>1 DEF RInv
  <2>8. MaxPending > 0 => b.size > 0
    BY <2>2, <2>3
  <2>9. MaxPending > 0 =>
          \E t \in b.counted : /\ t \in minted
                               /\ b.earliestExpiresAt \in Nat
                               /\ b.earliestExpiresAt = expiresAt(t)
    BY <1>1, <2>2, <2>7, <2>8, Types DEF Counted, expiresAt
  <2>10. b.earliestExpiresAt \in Nat => b.earliestExpiresAt <= b.now + RetryAfter(b) * TicksPerSecond
    <3> HIDE DEF secs
    <3>1. CASE secs < 1
      <4>1. secs * TicksPerSecond <= 1 * TicksPerSecond
        BY <2>5, <3>1, SMTT(30)
      <4> QED
        BY <2>4, <2>5, <2>6, <3>1, <4>1, NoneAssumption
    <3>2. CASE ~(secs < 1)
      BY <2>4, <2>5, <2>6, <3>2, NoneAssumption
    <3> QED
      BY <3>1, <3>2
  <2>11. RetryAfter(b) >= 1
    <3> HIDE DEF secs
    <3> QED
      BY <2>5, <2>6
  <2> QED
    BY <2>2, <2>9, <2>10, <2>11
<1> QED
  BY <1>1, ResponsesInvariant, PTL DEF Spec, BacklogRetryAfterFreesASlot

(* A retry that arrived while its response was recorded never runs the     *)
(* handler, and is not refused for its spent token, before that record     *)
(* expires.                                                                *)
THEOREM RetriesAreReplayed == Spec => RetryIsReplayed
<1>1. ASSUME IInv, RInv, [Next]_vars
      PROVE  [\A r \in Requests : Live(prior[r]) =>
               /\ handler'[r] = handler[r]
               /\ resp'[r] # resp[r] => resp'[r].code # "INVALID_CONFIRMATION"]_vars
  <2> SUFFICES ASSUME Next, NEW r \in Requests, Live(prior[r])
               PROVE  /\ handler'[r] = handler[r]
                      /\ resp'[r] # resp[r] => resp'[r].code # "INVALID_CONFIRMATION"
    BY <1>1
  <2>0. /\ resp \in [Requests -> Responses]
        /\ handler \in [Requests -> {"none", "running", "settled", "killed"}]
    BY <1>1, Types
  <2>1. /\ ~Ran(r) /\ pc[r] # "consumed" /\ pc[r] # "handling"
        /\ pc[r] = "lookedUp" => cached[r] # None
        /\ dedupeKey(msg[r]) # None
    BY <1>1, NoneAssumption DEF RInv, Retries, IInv, Stage, Live
  <2>2. ASSUME NEW q \in Requests, NEW code, NEW of, NEW n, Answer(q, code, of, n)
        PROVE  resp'[r] # resp[r] => q = r /\ resp'[r].code = code
    BY <2>0, <2>2 DEF Answer
  <2>a. ASSUME NEW q \in Requests, NEW m, Arrive(q, m)
        PROVE  /\ handler' = handler
               /\ resp'[r] # resp[r] => resp'[r].code # "INVALID_CONFIRMATION"
    <3>1. \/ Answer(q, "NOT_FOUND", None, 0)
          \/ resp' = resp
      BY <2>a DEF Arrive, errorResponse, Goto
    <3> QED
      BY <2>2, <2>a, <3>1 DEF Arrive
  <2>3. ASSUME NEW q \in Requests,
               \/ PrepareRefused(q) \/ CallRefused(q) \/ PrepareReply(q)
               \/ PrepareBacklogFull(q) \/ CallTimeout(q) \/ CallReply(q)
               \/ CallReplay(q) \/ Fault(q) \/ DedupePutFails(q) \/ CallSigned(q)
        PROVE  /\ handler' = handler
               /\ resp'[r] # resp[r] => resp'[r].code # "INVALID_CONFIRMATION"
    <3>1. handler' = handler
      BY <2>3 DEF PrepareRefused, CallRefused, Refused, PrepareReply,
         PrepareBacklogFull, CallTimeout, CallReply, CallReplay, Fault,
         DedupePutFails, CallSigned
    <3>2. \/ \E code, of, n : Answer(q, code, of, n) /\ code # "INVALID_CONFIRMATION"
          \/ resp' = resp
      BY <2>3 DEF PrepareRefused, CallRefused, Refused, PrepareReply,
         PrepareBacklogFull, CallTimeout, CallReply, CallReplay, Fault,
         DedupePutFails, CallSigned, errorResponse, Goto
    <3> QED
      BY <2>2, <3>1, <3>2
  <2>4. ASSUME NEW q \in Requests,
               \/ PrepareSweep(q) \/ PreparePut(q) \/ CallLookup(q) \/ Tick
        PROVE  handler' = handler /\ resp' = resp
    BY <2>4 DEF PrepareSweep, PreparePut, CallLookup, Tick, Goto
  <2>5. ASSUME NEW q \in Requests, CallGate(q) \/ CallMiss(q)
        PROVE  handler'[r] = handler[r] /\ resp'[r] = resp[r]
    <3>1. q # r
      BY <2>1, <2>5 DEF CallGate, CallMiss
    <3> QED
      BY <2>0, <2>5, <3>1 DEF CallGate, CallMiss, ConfirmationGate, StartHandler,
         Goto, errorResponse, Answer
  <2>6. ASSUME NEW q \in Requests, CallConfirmed(q) \/ CallInvalid(q)
        PROVE  handler'[r] = handler[r] /\ resp'[r] = resp[r]
    <3>1. q # r
      BY <2>1, <2>6 DEF CallConfirmed, CallInvalid
    <3> QED
      BY <2>0, <2>6, <3>1 DEF CallConfirmed, CallInvalid, StartHandler,
         Goto, errorResponse, Answer
  <2>7. ASSUME NEW q \in Requests, HandlerSettles(q) \/ HandlerSettlesLate(q)
        PROVE  handler'[r] = handler[r] /\ resp'[r] = resp[r]
    <3>1. q # r
      BY <2>1, <2>7 DEF HandlerSettles, HandlerSettlesLate, Ran
    <3> QED
      BY <2>0, <2>7, <3>1 DEF HandlerSettles, HandlerSettlesLate, Goto,
         errorResponse, Answer
  <2>8. CASE Crash
    BY <2>0, <2>1, <2>8 DEF Crash, Ran
  <2> QED
    BY <2>a, <2>3, <2>4, <2>5, <2>6, <2>7, <2>8
       DEF Next, Continue, Tick, ArrivePrepare, ArriveCall
<1> QED
  BY <1>1, ResponsesInvariant, PTL DEF Spec, RetryIsReplayed
------------------------------------------------------------------------------
(* The confirmation flow of the server implements the life cycle of        *)
(* ConfirmationTickets, for every set of requests, glyphs and inputs, with *)
(* every fault and crash.                                                  *)

(* The abstract variables, as the INSTANCE in GlyphServer maps them. *)
States == [t \in Requests |-> TicketState(t)]

Issued == [t \in Requests |->
             IF t \in minted THEN <<msg[t].name, msg[t].input>> ELSE None]

RunsOf == {<<msg[r].token, <<msg[r].name, msg[r].input>>>> :
             r \in {q \in Requests : ConfirmedRun(q)}}

(* Some request has taken the entry of t and has not yet judged it. *)
Claimed(t) ==
  \E r \in Requests : pc[r] = "consumed" /\ got[r] # None /\ msg[r].token = t

(* What the four abstract states of a ticket mean in the stores: a stored  *)
(* or claimed ticket is minted, and a claimed one is no longer stored.     *)
StateMeans(t) ==
  /\ pending[t] # None => t \in minted /\ ~Claimed(t)
  /\ Claimed(t) => t \in minted /\ pending[t] = None
  /\ TicketState(t) = "live" <=> pending[t] # None
  /\ TicketState(t) = "claimed" <=> Claimed(t)
  /\ TicketState(t) = "spent" <=> t \in minted /\ pending[t] = None /\ ~Claimed(t)
  /\ TicketState(t) = "unissued" <=> t \notin minted
  /\ TicketState(t) \in {"live", "claimed", "spent", "unissued"}

StatesMean == \A t \in Requests : StateMeans(t)
------------------------------------------------------------------------------

(* The invariant gives the abstract states their meaning.                  *)
LEMMA StateMeaning == IInv => StatesMean
<1> SUFFICES ASSUME IInv, NEW t \in Requests PROVE StateMeans(t)
  BY DEF StatesMean
<1>1. Minted(t) /\ \A r \in Requests : Holds(r)
  BY DEF IInv
<1>2. Claimed(t) => t \in minted /\ pending[t] = None
  BY <1>1 DEF Claimed, Holds
<1>3. pending[t] # None => t \in minted
  BY <1>1 DEF Minted
<1> QED
  BY <1>2, <1>3 DEF StateMeans, TicketState, Claimed

(* The server starts with no ticket issued. *)
LEMMA InitRefines == Init => Tickets!Init
<1> SUFFICES ASSUME Init PROVE Tickets!Init
  OBVIOUS
<1>1. \A t \in Requests : TicketState(t) = "unissued"
  BY DEF Init, TicketState
<1>2. States = [t \in Requests |-> "unissued"]
  BY <1>1 DEF States
<1>3. Issued = [t \in Requests |-> None]
  BY DEF Init, Issued
<1>4. RunsOf = {}
  BY DEF Init, RunsOf, ConfirmedRun, Ran
<1> QED
  BY <1>2, <1>3, <1>4 DEF Tickets!Init, States, Issued, RunsOf

(* A step that leaves messages, minted tokens and confirmed runs alone and *)
(* only takes tickets out of the store or drops claims discards a set of   *)
(* tickets (none, for most steps).                                         *)
LEMMA DiscardStep ==
  ASSUME IInv, IInv', UNCHANGED <<msg, minted>>,
         \A q \in Requests : ConfirmedRun(q)' <=> ConfirmedRun(q),
         \A t \in Requests : pending'[t] \in {pending[t], None},
         \A t \in Requests : Claimed(t)' => Claimed(t)
  PROVE  Tickets!Next
<1>0. StatesMean /\ StatesMean'
  BY StateMeaning, PTL
<1> DEFINE Lost == {t \in Requests : States[t] # "spent" /\ States'[t] = "spent"}
<1>1. \A t \in Requests : /\ States[t] = TicketState(t)
                          /\ States'[t] = TicketState(t)'
  BY DEF States
<1>2. ASSUME NEW t \in Requests
      PROVE  /\ t \in Lost => States[t] \in {"live", "claimed"}
             /\ t \notin Lost => States'[t] = States[t]
  <2>1. StateMeans(t) /\ StateMeans(t)'
    BY <1>0 DEF StatesMean
  <2> QED
    BY <1>1, <2>1 DEF StateMeans
<1>3. States' = [t \in Requests |-> IF t \in Lost THEN "spent" ELSE States[t]]
  BY <1>2 DEF States
<1>4. Issued' = Issued /\ RunsOf' = RunsOf
  BY DEF Issued, RunsOf
<1>5. Lost \in SUBSET Requests
  OBVIOUS
<1> HIDE DEF Lost
<1> QED
  BY <1>2, <1>3, <1>4, <1>5 DEF Tickets!Next, Tickets!Discard, States, Issued, RunsOf

(* put() issues the ticket of a /prepare for its glyph and input.          *)
LEMMA IssueStep ==
  ASSUME IInv, IInv', NEW r \in Requests, PreparePut(r)
  PROVE  Tickets!Next
<1>0. StatesMean /\ StatesMean'
  BY StateMeaning, PTL
<1> DEFINE a == <<msg[r].name, msg[r].input>>
<1>1. /\ r \notin minted /\ a \in Glyphs \X Inputs
      /\ pending' = [pending EXCEPT ![r] = pending'[r]] /\ pending'[r] # None
      /\ minted' = minted \cup {r} /\ pc' = [pc EXCEPT ![r] = "minted"]
      /\ pc[r] = "swept" /\ UNCHANGED <<msg, got, handler>>
  <2>1. /\ pc[r] = "swept" /\ Stage(r) /\ Stage(r)'
        /\ pending \in [Requests -> PendingConfirmation \cup {None}]
    BY DEF IInv, TypeOK, PreparePut
  <2>2. r \notin minted /\ a \in Glyphs \X Inputs
    BY <2>1 DEF Stage, Admitted, Messages, Awaits
  <2>3. /\ minted' = minted \cup {r} /\ pc' = [pc EXCEPT ![r] = "minted"]
        /\ UNCHANGED <<msg, got, handler>>
    BY DEF PreparePut, Goto, locals
  <2> DEFINE entry == [glyphName |-> msg[r].name, inputHash |-> msg[r].input,
                       expiresAt |-> expiresAt(r)]
  <2>4. entry \in PendingConfirmation
    BY <2>1, <2>2, ConstantsAssumption
       DEF IInv, TypeOK, PendingConfirmation, expiresAt
  <2>5. pending' = [pending EXCEPT ![r] = entry]
    BY DEF PreparePut
  <2>6. entry # None
    BY <2>4, NoneAssumption
  <2> HIDE DEF entry
  <2> QED
    BY <2>1, <2>2, <2>3, <2>5, <2>6
<1>2. \A t \in Requests : Claimed(t)' <=> Claimed(t)
  BY <1>1 DEF Claimed, IInv, TypeOK
<1>3. TicketState(r) = "unissued" /\ TicketState(r)' = "live"
  BY <1>0, <1>1 DEF StatesMean, StateMeans
<1>4. ASSUME NEW t \in Requests, t # r
      PROVE  TicketState(t)' = TicketState(t)
  <2>1. StateMeans(t) /\ StateMeans(t)' /\ pending'[t] = pending[t]
    BY <1>0, <1>1, <1>4 DEF StatesMean, IInv, TypeOK
  <2> QED
    BY <1>1, <1>2, <1>4, <2>1 DEF StateMeans
<1>5. States[r] = "unissued" /\ States' = [States EXCEPT ![r] = "live"]
  BY <1>3, <1>4 DEF States
<1>6. Issued' = [Issued EXCEPT ![r] = a]
  BY <1>1 DEF Issued
<1>7. RunsOf' = RunsOf
  BY <1>1 DEF RunsOf, ConfirmedRun, Ran
<1> HIDE DEF a
<1> QED
  BY <1>1, <1>5, <1>6, <1>7 DEF Tickets!Next, Tickets!Issue, States, Issued, RunsOf

(* consume() of a stored ticket claims it.                                 *)
LEMMA ClaimStep ==
  ASSUME IInv, IInv', NEW r \in Requests, pc[r] # "consumed",
         NEW t \in Requests, msg[r].token = t, pending[t] # None,
         got' = [got EXCEPT ![r] = pending[t]],
         pending' = [pending EXCEPT ![t] = None],
         pc' = [pc EXCEPT ![r] = "consumed"],
         UNCHANGED <<msg, minted, handler>>
  PROVE  Tickets!Next
<1>0. StatesMean /\ StatesMean'
  BY StateMeaning, PTL
<1>1. \A u \in Requests : u # t => (Claimed(u)' <=> Claimed(u))
  BY DEF Claimed, IInv, TypeOK
<1>2. Claimed(t)'
  BY DEF Claimed, IInv, TypeOK
<1>3. TicketState(t) = "live" /\ TicketState(t)' = "claimed"
  BY <1>0, <1>2 DEF StatesMean, StateMeans
<1>4. ASSUME NEW u \in Requests, u # t
      PROVE  TicketState(u)' = TicketState(u)
  <2>1. StateMeans(u) /\ StateMeans(u)' /\ pending'[u] = pending[u]
    BY <1>0, <1>4 DEF StatesMean, IInv, TypeOK
  <2> QED
    BY <1>1, <1>4, <2>1 DEF StateMeans
<1>5. States[t] = "live" /\ States' = [States EXCEPT ![t] = "claimed"]
  BY <1>3, <1>4 DEF States
<1>6. Issued' = Issued /\ RunsOf' = RunsOf
  BY DEF Issued, RunsOf, ConfirmedRun, Ran
<1> QED
  BY <1>5, <1>6 DEF Tickets!Next, Tickets!Claim, States, Issued, RunsOf

(* A valid ticket is spent on one run of the glyph and input it was issued *)
(* for.                                                                    *)
LEMMA RunStep ==
  ASSUME IInv, IInv', NEW r \in Requests, CallConfirmed(r)
  PROVE  Tickets!Next
<1>0. StatesMean /\ StatesMean'
  BY StateMeaning, PTL
<1>t. PICK t \in Requests : t = msg[r].token
  BY DEF CallConfirmed, IInv, Stage
<1>1. /\ pc[r] = "consumed" /\ pc' = [pc EXCEPT ![r] = "handling"]
      /\ handler' = [handler EXCEPT ![r] = "running"]
      /\ UNCHANGED <<msg, minted, got, pending>>
      /\ got[r] # None /\ got[r].glyphName = msg[r].name
      /\ got[r].inputHash = msg[r].input
  BY DEF CallConfirmed, StartHandler, Goto, Valid, Live, stores, locals
<1>2. /\ t \in minted /\ pending[t] = None
      /\ msg[t].name = msg[r].name /\ msg[t].input = msg[r].input
      /\ msg[r].name \in Confirmed
      /\ \A q \in Requests : got[q] # None /\ q # r => msg[q].token # t
  <2>1. Stage(r) /\ Holds(r)
    BY DEF IInv
  <2> QED
    BY <1>t, <1>1, <2>1 DEF Stage, Holds
<1>3. Claimed(t) /\ ~Claimed(t)'
  BY <1>t, <1>1, <1>2 DEF Claimed, IInv, TypeOK
<1>4. \A u \in Requests : u # t => (Claimed(u)' <=> Claimed(u))
  BY <1>t, <1>1 DEF Claimed, IInv, TypeOK
<1>5. TicketState(t) = "claimed" /\ TicketState(t)' = "spent"
  BY <1>0, <1>1, <1>2, <1>3 DEF StatesMean, StateMeans
<1>6. ASSUME NEW u \in Requests, u # t
      PROVE  TicketState(u)' = TicketState(u)
  <2>1. StateMeans(u) /\ StateMeans(u)'
    BY <1>0 DEF StatesMean
  <2> QED
    BY <1>1, <1>4, <1>6, <2>1 DEF StateMeans
<1>7. States[t] = "claimed" /\ States' = [States EXCEPT ![t] = "spent"]
  BY <1>2, <1>5, <1>6 DEF States
<1>8. Issued' = Issued /\ Issued[t] = <<msg[r].name, msg[r].input>>
  BY <1>1, <1>2 DEF Issued
<1>9. RunsOf' = RunsOf \cup {<<t, Issued[t]>>}
  <2>1. \A q \in Requests : ConfirmedRun(q)' <=> ConfirmedRun(q) \/ q = r
    BY <1>1, <1>2 DEF ConfirmedRun, Ran, IInv, TypeOK
  <2> QED
    BY <1>t, <1>1, <1>8, <2>1 DEF RunsOf
<1> QED
  BY <1>2, <1>7, <1>8, <1>9 DEF Tickets!Next, Tickets!Run, States, Issued, RunsOf

(* A request that arrives holds and runs nothing yet.                      *)
LEMMA ArriveStutters ==
  ASSUME IInv, NEW r \in Requests, NEW m, Arrive(r, m)
  PROVE  UNCHANGED <<States, Issued, RunsOf>>
<1>1. /\ pc[r] = "idle" /\ r \notin minted /\ ~Ran(r)
      /\ msg' = [msg EXCEPT ![r] = m]
      /\ \E s \in {"done", "received"} : pc' = [pc EXCEPT ![r] = s]
      /\ UNCHANGED <<pending, got, minted, handler>>
  BY DEF Arrive, errorResponse, Answer, Goto, IInv, Stage
<1>2. \A t \in Requests : Claimed(t)' <=> Claimed(t)
  BY <1>1 DEF Claimed, IInv, TypeOK
<1>3. \A t \in Requests : TicketState(t)' = TicketState(t)
  BY <1>1, <1>2 DEF TicketState, Claimed
<1>4. Issued' = Issued
  BY <1>1 DEF Issued, IInv, TypeOK
<1>5. \A q \in Requests : ConfirmedRun(q)' <=> ConfirmedRun(q)
  BY <1>1 DEF ConfirmedRun, Ran, IInv, TypeOK
<1>6. \A q \in Requests : ConfirmedRun(q) => msg'[q] = msg[q]
  BY <1>1 DEF ConfirmedRun, IInv, TypeOK
<1>7. RunsOf' = RunsOf
  BY <1>5, <1>6 DEF RunsOf
<1> QED
  BY <1>3, <1>4, <1>7 DEF States

(* A step in which no request starts to hold an entry.                     *)
LEMMA QuietStep ==
  ASSUME IInv, IInv', UNCHANGED <<msg, minted, got>>,
         \A q \in Requests : ConfirmedRun(q)' <=> ConfirmedRun(q),
         \A q \in Requests : pc'[q] = "consumed" => pc[q] = "consumed",
         \A t \in Requests : pending'[t] \in {pending[t], None}
  PROVE  Tickets!Next
<1>1. \A t \in Requests : Claimed(t)' => Claimed(t)
  BY DEF Claimed
<1> QED
  BY <1>1, DiscardStep

(* The confirmation gate starts a handler that needs no ticket, refuses    *)
(* the call, claims a ticket or finds none.                                *)
LEMMA GateStep ==
  ASSUME IInv, IInv', NEW r \in Requests, pc[r] \in {"received", "lookedUp"},
         ConfirmationGate(r), UNCHANGED <<msg, minted>>
  PROVE  Tickets!Next
<1>0. /\ pc \in [Requests -> Statuses]
      /\ pending \in [Requests -> PendingConfirmation \cup {None}]
      /\ got \in [Requests -> PendingConfirmation \cup {None}]
      /\ handler \in [Requests -> {"none", "running", "settled", "killed"}]
      /\ msg[r] \in Messages
  BY DEF IInv, TypeOK, Stage
<1>1. CASE msg[r].name \notin Confirmed /\ StartHandler(r) /\ UNCHANGED <<pending, got>>
  <2>1. /\ \A q \in Requests : ConfirmedRun(q)' <=> ConfirmedRun(q)
        /\ \A q \in Requests : pc'[q] = "consumed" => pc[q] = "consumed"
    BY <1>0, <1>1 DEF StartHandler, Goto, ConfirmedRun, Ran
  <2> QED
    BY <1>1, <2>1, QuietStep
<1>2. CASE /\ errorResponse(r, "CONFIRMATION_REQUIRED")
           /\ UNCHANGED <<pending, got, handler>>
  <2>1. /\ \A q \in Requests : ConfirmedRun(q)' <=> ConfirmedRun(q)
        /\ \A q \in Requests : pc'[q] = "consumed" => pc[q] = "consumed"
    BY <1>0, <1>2 DEF errorResponse, Answer, ConfirmedRun, Ran
  <2> QED
    BY <1>2, <2>1, QuietStep
<1>3. CASE /\ msg[r].token # None /\ consume(r, msg[r].token)
           /\ Goto(r, "consumed") /\ UNCHANGED handler
  <2>1. PICK t \in Requests : t = msg[r].token
    BY <1>0, <1>3 DEF Messages
  <2>2. /\ got' = [got EXCEPT ![r] = pending[t]]
        /\ pending' = [pending EXCEPT ![t] = None]
        /\ pc' = [pc EXCEPT ![r] = "consumed"]
    BY <1>3, <2>1 DEF consume, Goto
  <2>3. CASE pending[t] # None
    BY <1>3, <2>1, <2>2, <2>3, ClaimStep
  <2>4. CASE pending[t] = None
    <3>1. \A u \in Requests : Claimed(u)' => Claimed(u)
      BY <1>0, <2>2, <2>4 DEF Claimed
    <3>2. \A q \in Requests : ConfirmedRun(q)' <=> ConfirmedRun(q)
      BY <1>3 DEF ConfirmedRun, Ran
    <3>3. \A u \in Requests : pending'[u] \in {pending[u], None}
      BY <1>0, <2>2
    <3> QED
      BY <3>1, <3>2, <3>3, DiscardStep
  <2> QED
    BY <2>3, <2>4
<1> QED
  BY <1>1, <1>2, <1>3 DEF ConfirmationGate

(* Every step of the server is a step of the abstract life cycle or leaves *)
(* it alone.                                                               *)
LEMMA StepRefines == IInv /\ IInv' /\ [Next]_vars => [Tickets!Next]_(Tickets!vars)
<1> SUFFICES ASSUME IInv, IInv', [Next]_vars
             PROVE  Tickets!Next \/ UNCHANGED <<States, Issued, RunsOf>>
  BY DEF Tickets!vars, States, Issued, RunsOf
<1>0. /\ pc \in [Requests -> Statuses]
      /\ handler \in [Requests -> {"none", "running", "settled", "killed"}]
      /\ \A q \in Requests : Stage(q)
  BY DEF IInv, TypeOK
<1>1. ASSUME NEW r \in Requests, ArrivePrepare(r) \/ ArriveCall(r)
      PROVE  UNCHANGED <<States, Issued, RunsOf>>
  <2>1. \E m : Arrive(r, m)
    BY <1>1 DEF ArrivePrepare, ArriveCall
  <2> QED
    BY <2>1, ArriveStutters
<1>2. ASSUME NEW r \in Requests,
             \/ PrepareRefused(r) \/ CallRefused(r) \/ PrepareReply(r)
             \/ PrepareBacklogFull(r) \/ CallReplay(r) \/ CallInvalid(r)
             \/ CallTimeout(r) \/ CallReply(r) \/ Fault(r)
             \/ DedupePutFails(r) \/ CallLookup(r) \/ CallSigned(r)
      PROVE  Tickets!Next
  <2>1. UNCHANGED <<msg, minted, got, handler, pending>>
    BY <1>2 DEF PrepareRefused, CallRefused, Refused, PrepareReply,
       PrepareBacklogFull, CallReplay, CallInvalid, CallTimeout, CallReply,
       Fault, DedupePutFails, CallLookup, CallSigned, stores, locals
  <2>2. \E s \in {"done", "lookedUp", "recording"} : pc' = [pc EXCEPT ![r] = s]
    BY <1>2 DEF PrepareRefused, CallRefused, Refused, PrepareReply,
       PrepareBacklogFull, CallReplay, CallInvalid, CallTimeout, CallReply,
       Fault, DedupePutFails, CallLookup, CallSigned, errorResponse, Answer, Goto
  <2>3. \A q \in Requests : pc'[q] = "consumed" => pc[q] = "consumed"
    BY <1>0, <2>2
  <2>4. \A q \in Requests : ConfirmedRun(q)' <=> ConfirmedRun(q)
    BY <2>1 DEF ConfirmedRun, Ran
  <2> QED
    BY <2>1, <2>3, <2>4, QuietStep
<1>3. ASSUME NEW r \in Requests, PrepareSweep(r)
      PROVE  Tickets!Next
  <2>1. UNCHANGED <<msg, minted, got, handler>> /\ pc' = [pc EXCEPT ![r] = "swept"]
    BY <1>3 DEF PrepareSweep, Goto
  <2>2. \A t \in Requests : pending'[t] \in {pending[t], None}
    BY <1>3 DEF PrepareSweep, sweep, swept
  <2>3. \A q \in Requests : pc'[q] = "consumed" => pc[q] = "consumed"
    BY <1>0, <2>1
  <2>4. \A q \in Requests : ConfirmedRun(q)' <=> ConfirmedRun(q)
    BY <2>1 DEF ConfirmedRun, Ran
  <2> QED
    BY <2>1, <2>2, <2>3, <2>4, QuietStep
<1>4. ASSUME NEW r \in Requests, CallGate(r) \/ CallMiss(r)
      PROVE  Tickets!Next
  <2>1. /\ pc[r] \in {"received", "lookedUp"} /\ ConfirmationGate(r)
        /\ UNCHANGED <<msg, minted>>
    BY <1>4 DEF CallGate, CallMiss
  <2> QED
    BY <2>1, GateStep
<1>5. ASSUME NEW r \in Requests, HandlerSettles(r) \/ HandlerSettlesLate(r)
      PROVE  Tickets!Next
  <2>1. /\ UNCHANGED <<msg, minted, got, pending>>
        /\ handler' = [handler EXCEPT ![r] = "settled"] /\ Ran(r)
        /\ (\E s \in {"done", "signing"} : pc' = [pc EXCEPT ![r] = s]) \/ pc' = pc
    BY <1>0, <1>5 DEF HandlerSettles, HandlerSettlesLate, stores, locals,
       errorResponse, Answer, Goto, Stage, Ran
  <2>2. \A q \in Requests : pc'[q] = "consumed" => pc[q] = "consumed"
    BY <1>0, <2>1
  <2>3. \A q \in Requests : ConfirmedRun(q)' <=> ConfirmedRun(q)
    BY <1>0, <2>1 DEF ConfirmedRun, Ran
  <2> QED
    BY <2>1, <2>2, <2>3, QuietStep
<1>6. ASSUME Crash \/ Tick
      PROVE  Tickets!Next
  <2>1. /\ UNCHANGED <<msg, minted, got>>
        /\ \A t \in Requests : pending'[t] \in {pending[t], None}
        /\ \A q \in Requests : pc'[q] = "consumed" => pc[q] = "consumed"
    BY <1>6 DEF Crash, Tick, stores, locals
  <2>2. \A q \in Requests : ConfirmedRun(q)' <=> ConfirmedRun(q)
    BY <1>0, <1>6 DEF Crash, Tick, ConfirmedRun, Ran
  <2> QED
    BY <2>1, <2>2, QuietStep
<1>7. CASE UNCHANGED vars
  BY <1>7 DEF vars, States, Issued, RunsOf, TicketState, ConfirmedRun, Ran
<1> QED
  BY <1>1, <1>2, <1>3, <1>4, <1>5, <1>6, <1>7, IssueStep, RunStep
     DEF Next, Continue

(* The confirmation flow of the server, with its races, faults and         *)
(* crashes, implements the abstract life cycle of a ticket.                *)
THEOREM Refinement == Spec => ImplementsTickets
<1>1. Spec => []IInv
  BY Invariance
<1> QED
  BY <1>1, InitRefines, StepRefines, PTL DEF Spec, ImplementsTickets, Tickets!Spec
==============================================================================
