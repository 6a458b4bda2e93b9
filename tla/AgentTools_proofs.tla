--------------------------- MODULE AgentTools_proofs ---------------------------
(***************************************************************************)
(* That a glyph which needs a confirmation runs only after a hook approved *)
(* its name, and only as the card the hook was asked about unless a late   *)
(* registerAsync replaced that, for any number of requests, glyphs and     *)
(* registrations, any consumer and any restarts of the server.             *)
(*                                                                         *)
(* The property says nothing of a request under way.  Tickets adds that a  *)
(* request owns no ticket before it prepared one, and goes on only if the  *)
(* hook said yes; and that, while its ticket lasts, the card shown to the  *)
(* hook is the one the server has, or one that was replaced (Current).     *)
(*                                                                         *)
(* And that the lists of tools are right: no wanted glyph is missing from  *)
(* a list, and a name that was shown runs the glyph it stood for.  DInv    *)
(* follows a glyph from the server to the list (Covered), and says that    *)
(* the lexica one process answers grow, so that the largest one an eager   *)
(* bridge loaded completely decides every name shown so far (Known).       *)
(***************************************************************************)
EXTENDS AgentTools, TLAPS

Early == {"idle", "lexicon", "cards", "act", "calling", "prepare"}
Ended == {"listed", "done", "failed", "declined", "unconfirmed"}

(* The card shown for the ticket of request r. *)
Current(r) ==
  /\ r.name \in Names /\ r.card # None /\ r.card.name = r.name
  /\ glyphs[r.name] = r.card \/ r.card \in replaced

Owned(a, r) ==
  /\ "at" \in DOMAIN r
  /\ r.at \in Early \cup Ended \cup {"hook", "confirmed"}
  /\ r.at \in Early => \A x : <<a, x>> \notin tickets
  /\ r.at \in {"hook", "confirmed"} =>
       \A x : <<a, x>> \in tickets => Current(r)
  /\ r.at = "confirmed" => r.yes = TRUE

(* What is registered under a name has that name. *)
Registered ==
  /\ signing \subseteq Definitions
  /\ DOMAIN glyphs = Names
  /\ \A n \in Names : glyphs[n] # None => glyphs[n].name = n

Tickets ==
  /\ DOMAIN req = Requests
  /\ \A a \in Requests : Owned(a, req[a])

IInv == Registered /\ Tickets /\ OnlyApprovedRuns

------------------------------------------------------------------------------
(* A step of one request that draws no ticket and runs nothing: it stays   *)
(* in the early part of its life or ends.                                  *)
LEMMA QuietStep ==
  ASSUME IInv, NEW a \in Requests, NEW r, req' = [req EXCEPT ![a] = r],
         "at" \in DOMAIN r,
         (r.at \in Early /\ req[a].at \in Early) \/ r.at \in Ended,
         UNCHANGED <<server, ran>>
  PROVE  IInv'
<1>1. Tickets'
  <2> SUFFICES ASSUME NEW b \in Requests PROVE Owned(b, req[b])'
    BY DEF IInv, Tickets
  <2>1. CASE b = a
    BY <2>1 DEF IInv, Tickets, Owned, Early, Ended, server
  <2>2. CASE b # a
    BY <2>2 DEF IInv, Tickets, Owned, Current, server
  <2> QED
    BY <2>1, <2>2
<1>2. Registered' /\ OnlyApprovedRuns'
  BY DEF IInv, OnlyApprovedRuns, Registered, server
<1> QED
  BY <1>1, <1>2 DEF IInv

(* A step that leaves the glyphs, keeps their names or notes what it       *)
(* replaced keeps the tickets that last.                                   *)
LEMMA ServerStep ==
  ASSUME IInv, UNCHANGED <<req, ran>>, tickets' \subseteq tickets, Registered',
         tickets' # {} => /\ replaced \subseteq replaced'
                          /\ \A n \in Names : glyphs[n] # None =>
                               glyphs'[n] = glyphs[n] \/ glyphs[n] \in replaced'
  PROVE  IInv'
<1>1. Tickets'
  <2> SUFFICES ASSUME NEW b \in Requests PROVE Owned(b, req[b])'
    BY DEF IInv, Tickets
  <2>1. ASSUME NEW x, <<b, x>> \in tickets', Current(req[b]) PROVE Current(req[b])'
    BY <2>1 DEF Current
  <2> QED
    BY <2>1 DEF IInv, Tickets, Owned
<1>2. OnlyApprovedRuns'
  BY DEF IInv, OnlyApprovedRuns
<1> QED
  BY <1>1, <1>2 DEF IInv

(* A step that ends the request with a run: of a glyph that needs no       *)
(* confirmation, or of the one that was approved, or of what replaced it.  *)
LEMMA RunStep ==
  ASSUME IInv, NEW a \in Requests, NEW d, NEW card,
         At(a, [at |-> "done"]), Run(a, d, card),
         tickets' \subseteq tickets, UNCHANGED <<glyphs, signing, replaced>>,
         d.confirm => /\ card # None /\ card.name = d.name
                      /\ card = d \/ card \in replaced
  PROVE  IInv'
<1>1. Tickets'
  <2> SUFFICES ASSUME NEW b \in Requests PROVE Owned(b, req[b])'
    BY DEF IInv, Tickets, At
  <2>1. CASE b = a
    BY <2>1 DEF IInv, Tickets, Owned, Early, Ended, At
  <2>2. CASE b # a
    BY <2>2 DEF IInv, Tickets, Owned, Current, At
  <2> QED
    BY <2>1, <2>2
<1>2. Registered'
  BY DEF IInv, Registered
<1>3. OnlyApprovedRuns'
  <2> SUFFICES ASSUME NEW x \in ran', x.glyph.confirm
               PROVE  /\ x.approved # None /\ x.approved.name = x.glyph.name
                      /\ x.approved = x.glyph \/ x.replaced
    BY DEF OnlyApprovedRuns
  <2>1. CASE x \in ran
    BY <2>1 DEF IInv, OnlyApprovedRuns
  <2>2. CASE x \notin ran
    <3>1. x.glyph = d /\ x.approved = card /\ x.replaced = (card \in replaced)
      BY <2>2 DEF Run
    <3> QED
      BY <3>1
  <2> QED
    BY <2>1, <2>2
<1> QED
  BY <1>1, <1>2, <1>3 DEF IInv

------------------------------------------------------------------------------
(* Discovery, and what the consumer does before it calls. *)
LEMMA DiscoveryKeepsIInv ==
  ASSUME IInv, NEW a \in Requests,
         \/ getLexicon(a) \/ ExchangeFails(a) \/ answerList(a) \/ glyph_index(a)
         \/ ToolsBuilt(a) \/ answerCall(a) \/ glyph_invoke(a) \/ InvokeTool(a)
         \/ \E n \in Names : loadCards(a, n) \/ ensureIndex(a, n) \/ buildTool(a, n)
  PROVE  IInv'
<1>0. "at" \in DOMAIN req[a]
  BY DEF IInv, Tickets, Owned
<1>a. ASSUME Fail(a), UNCHANGED <<server, ran>> PROVE IInv'
  <2> DEFINE r == [at |-> "failed"]
  <2>1. "at" \in DOMAIN r /\ r.at = "failed"
    OBVIOUS
  <2>2. req' = [req EXCEPT ![a] = r]
    BY <1>a DEF Fail, At
  <2> HIDE DEF r
  <2> QED
    BY <1>a, <2>1, <2>2, QuietStep DEF Ended
<1>b. ASSUME NEW todo, NEW got, Complete(a, todo, got), req[a].at \in Early,
             UNCHANGED <<server, ran>>
      PROVE  IInv'
  <2>1. CASE todo # {}
    <3> DEFINE r == [req[a] EXCEPT !.at = "cards", !.todo = todo, !.got = got]
    <3>1. "at" \in DOMAIN r /\ r.at = "cards"
      BY <1>0
    <3> QED
      BY <1>b, <2>1, <3>1, QuietStep DEF Complete, At, Early
  <2>2. CASE todo = {}
    <3> DEFINE r == [req[a] EXCEPT !.at = "act", !.todo = {}, !.got = got]
    <3>1. "at" \in DOMAIN r /\ r.at = "act"
      BY <1>0
    <3> QED
      BY <1>b, <2>2, <3>1, QuietStep DEF Complete, At, Early
  <2> QED
    BY <2>1, <2>2
<1>c. ASSUME NEW shown, List(a, shown), UNCHANGED <<server, ran>> PROVE IInv'
  <2> DEFINE r == [at |-> "listed", shown |-> shown]
  <2>1. "at" \in DOMAIN r /\ r.at = "listed"
    OBVIOUS
  <2>2. req' = [req EXCEPT ![a] = r]
    BY <1>c DEF List, At
  <2> HIDE DEF r
  <2> QED
    BY <1>c, <2>1, <2>2, QuietStep DEF Ended
<1>d. ASSUME NEW m, NEW allowed, NEW object, Invoke(a, m, allowed, object)
      PROVE  IInv'
  <2>1. CASE allowed
    <3> DEFINE r == [at |-> "calling", name |-> m, said |-> req[a].said,
                     object |-> object]
    <3>1. "at" \in DOMAIN r /\ r.at = "calling"
      OBVIOUS
    <3>2. req' = [req EXCEPT ![a] = r] /\ req[a].at = "act"
          /\ UNCHANGED <<server, ran>>
      BY <1>d, <2>1 DEF Invoke, At, server
    <3> HIDE DEF r
    <3> QED
      BY <3>1, <3>2, QuietStep DEF Early
  <2>2. CASE ~allowed
    BY <1>a, <1>d, <2>2 DEF Invoke, server
  <2> QED
    BY <2>1, <2>2
<1>1. CASE getLexicon(a)
  <2>1. CASE Served = {}
    BY <1>b, <1>1, <2>1 DEF getLexicon, Early
  <2>2. CASE Served # {}
    <3> DEFINE r == [req[a] EXCEPT !.at = "cards", !.todo = Served]
    <3>1. "at" \in DOMAIN r /\ r.at = "cards"
      BY <1>0
    <3> QED
      BY <1>1, <2>2, <3>1, QuietStep DEF getLexicon, At, Early
  <2> QED
    BY <2>1, <2>2
<1>2. CASE ExchangeFails(a)
  BY <1>a, <1>2 DEF ExchangeFails, server
<1>3. CASE answerList(a)
  BY <1>c, <1>3 DEF answerList
<1>4. CASE glyph_index(a)
  BY <1>c, <1>4 DEF glyph_index, server
<1>5. CASE ToolsBuilt(a)
  BY <1>c, <1>5 DEF ToolsBuilt, server
<1>6. CASE answerCall(a)
  BY <1>d, <1>6 DEF answerCall
<1>7. CASE glyph_invoke(a)
  BY <1>d, <1>7 DEF glyph_invoke
<1>8. CASE InvokeTool(a)
  BY <1>d, <1>8 DEF InvokeTool
<1>9. ASSUME NEW n \in Names, loadCards(a, n) PROVE IInv'
  BY <1>a, <1>b, <1>9 DEF loadCards, Early
<1>10. ASSUME NEW n \in Names, ensureIndex(a, n) PROVE IInv'
  <2>1. CASE glyphs[n] = None
    BY <1>a, <1>10, <2>1 DEF ensureIndex, server
  <2>2. CASE glyphs[n] # None
    <3> DEFINE rest == req[a].todo \ {n}
               r == [req[a] EXCEPT !.todo = rest,
                                   !.at = IF rest = {} THEN "act" ELSE "cards"]
    <3>1. "at" \in DOMAIN r /\ r.at \in {"act", "cards"}
      BY <1>0
    <3>2. /\ req' = [req EXCEPT ![a] = r] /\ req[a].at \in Early
          /\ UNCHANGED <<server, ran>>
      BY <1>10, <2>2 DEF ensureIndex, At, Early
    <3> HIDE DEF r
    <3> QED
      BY <3>1, <3>2, QuietStep DEF Early
  <2> QED
    BY <2>1, <2>2
<1>11. ASSUME NEW n \in Names, buildTool(a, n) PROVE IInv'
  BY <1>b, <1>11 DEF buildTool, Early
<1> QED
  BY <1>1, <1>2, <1>3, <1>4, <1>5, <1>6, <1>7, <1>8, <1>9, <1>10, <1>11

(* Calling, preparing, asking the hook and confirming. *)
LEMMA ConfirmationKeepsIInv ==
  ASSUME IInv, NEW a \in Requests,
         call(a) \/ prepare(a) \/ onConfirmation(a) \/ confirm(a)
  PROVE  IInv'
<1>0. /\ Owned(a, req[a]) /\ DOMAIN req = Requests
      /\ \A b \in Requests : Owned(b, req[b])
      /\ Registered
  BY DEF IInv, Tickets
<1>a. ASSUME NEW r, req' = [req EXCEPT ![a] = r], Owned(a, r)',
             \A b \in Requests : b # a =>
               \A x : <<b, x>> \in tickets' => <<b, x>> \in tickets,
             UNCHANGED <<glyphs, signing, replaced, ran>>
      PROVE  IInv'
  <2>1. ASSUME NEW b \in Requests PROVE Owned(b, req[b])'
    <3>1. CASE b = a
      BY <1>0, <1>a, <3>1
    <3>2. CASE b # a
      BY <1>0, <1>a, <3>2 DEF Owned, Current
    <3> QED
      BY <3>1, <3>2
  <2>2. DOMAIN req' = Requests
    BY <1>0, <1>a
  <2>3. Tickets'
    BY <2>1, <2>2 DEF Tickets
  <2>4. Registered' /\ OnlyApprovedRuns'
    BY <1>a DEF IInv, OnlyApprovedRuns, Registered
  <2> QED
    BY <2>3, <2>4 DEF IInv
<1>b. ASSUME Fail(a), tickets' \subseteq tickets,
             UNCHANGED <<glyphs, signing, replaced, ran>>
      PROVE  IInv'
  <2> DEFINE r == [at |-> "failed"]
  <2>1. "at" \in DOMAIN r /\ r.at = "failed"
    OBVIOUS
  <2>2. req' = [req EXCEPT ![a] = r]
    BY <1>b DEF Fail, At
  <2> HIDE DEF r
  <2>3. Owned(a, r)'
    BY <2>1 DEF Owned, Early, Ended
  <2> QED
    BY <1>a, <1>b, <2>2, <2>3
<1>1. CASE call(a)
  <2> DEFINE d == glyphs[req[a].name]
  <2>0. req[a].at = "calling" /\ UNCHANGED server
    BY <1>1 DEF call
  <2>1. CASE At(a, [req[a] EXCEPT !.at = "prepare"]) /\ UNCHANGED ran
    <3> DEFINE r == [req[a] EXCEPT !.at = "prepare"]
    <3>1. "at" \in DOMAIN r /\ r.at = "prepare"
      BY <1>0 DEF Owned
    <3>2. req' = [req EXCEPT ![a] = r]
      BY <2>1 DEF At
    <3> HIDE DEF r
    <3> QED
      BY <2>0, <2>1, <3>1, <3>2, QuietStep DEF Early
  <2>2. CASE At(a, [at |-> "unconfirmed"]) /\ UNCHANGED ran
    <3> DEFINE r == [at |-> "unconfirmed"]
    <3>1. "at" \in DOMAIN r /\ r.at = "unconfirmed"
      OBVIOUS
    <3>2. req' = [req EXCEPT ![a] = r]
      BY <2>2 DEF At
    <3> HIDE DEF r
    <3> QED
      BY <2>0, <2>2, <3>1, <3>2, QuietStep DEF Ended
  <2>3. CASE Fail(a) /\ UNCHANGED ran
    BY <1>b, <2>0, <2>3 DEF server
  <2>4. CASE At(a, [at |-> "done"]) /\ Run(a, d, None) /\ ~d.confirm
    BY <2>0, <2>4, RunStep DEF server
  <2> QED
    BY <1>1, <2>1, <2>2, <2>3, <2>4 DEF call
<1>2. CASE prepare(a)
  <2> DEFINE d == glyphs[req[a].name]
  <2> PICK r : r = [at |-> "hook", name |-> req[a].name, said |-> req[a].said,
                    object |-> req[a].object, card |-> d]
    OBVIOUS
  <2>1. CASE Fail(a) /\ UNCHANGED tickets
    BY <1>b, <1>2, <2>1 DEF prepare
  <2>2. CASE req[a].name \in Served /\ At(a, r)
             /\ tickets' = tickets \cup {<<a, req[a].name>>}
    <3>1. "at" \in DOMAIN r /\ r.at = "hook" /\ r.name = req[a].name /\ r.card = d
      OBVIOUS
    <3>2. /\ req' = [req EXCEPT ![a] = r] /\ req[a].name \in Names /\ d # None
          /\ UNCHANGED <<glyphs, signing, replaced, ran>>
      BY <1>2, <2>2 DEF prepare, At, Served
    <3>3. Current(r)'
      BY <1>0, <3>1, <3>2 DEF Current, Registered
    <3>4. Owned(a, r)'
      BY <3>1, <3>3 DEF Owned, Early
    <3> QED
      BY <1>a, <2>2, <3>2, <3>4
  <2> QED
    BY <1>2, <2>1, <2>2 DEF prepare
<1>3. CASE onConfirmation(a)
  <2>0. req[a].at = "hook" /\ UNCHANGED <<server, ran>>
    BY <1>3 DEF onConfirmation
  <2>1. CASE At(a, Answered(a, TRUE))
    <3> PICK r : r = Answered(a, TRUE)
      OBVIOUS
    <3>1. /\ "at" \in DOMAIN r /\ r.at = "confirmed" /\ r.card = req[a].card
          /\ r.name = req[a].name /\ r.yes = TRUE
      BY DEF Answered
    <3>2. req' = [req EXCEPT ![a] = r]
      BY <2>1 DEF At
    <3>3. Owned(a, r)'
      BY <1>0, <2>0, <3>1 DEF Owned, Early, Current, server
    <3> QED
      BY <1>a, <2>0, <3>2, <3>3 DEF server
  <2>2. CASE At(a, [at |-> "declined"])
    <3> DEFINE r == [at |-> "declined"]
    <3>1. "at" \in DOMAIN r /\ r.at = "declined"
      OBVIOUS
    <3>2. req' = [req EXCEPT ![a] = r]
      BY <2>2 DEF At
    <3> HIDE DEF r
    <3> QED
      BY <2>0, <3>1, <3>2, QuietStep DEF Ended
  <2> QED
    BY <1>3, <2>1, <2>2 DEF onConfirmation
<1>4. CASE confirm(a)
  <2> DEFINE d == glyphs[req[a].name]
             token == <<a, req[a].name>>
  <2>0. /\ req[a].at = "confirmed" /\ req[a].yes = TRUE /\ tickets' \subseteq tickets
        /\ UNCHANGED <<glyphs, signing, replaced>>
        /\ token \in tickets => Current(req[a])
    BY <1>0, <1>4 DEF confirm, Owned
  <2>1. CASE Fail(a) /\ UNCHANGED ran
    BY <1>b, <2>0, <2>1
  <2>2. CASE /\ req[a].name \in Served /\ (d.confirm => token \in tickets)
             /\ At(a, [at |-> "done"]) /\ Run(a, d, Approved(a))
    <3>1. Approved(a) = req[a].card
      BY <2>0 DEF Approved
    <3>2. d.confirm => /\ Approved(a) # None /\ Approved(a).name = d.name
                       /\ Approved(a) = d \/ Approved(a) \in replaced
      BY <1>0, <2>0, <2>2, <3>1 DEF Current, Served, Registered
    <3> QED
      BY <2>0, <2>2, <3>2, RunStep
  <2> QED
    BY <1>4, <2>1, <2>2 DEF confirm
<1> QED
  BY <1>1, <1>2, <1>3, <1>4

LEMMA InitIInv == Init => IInv
<1> SUFFICES ASSUME Init PROVE IInv
  OBVIOUS
<1>1. ASSUME NEW a \in Requests PROVE Owned(a, req[a])
  <2>1. req[a] = [at |-> "idle"] /\ tickets = {}
    BY DEF Init
  <2>2. "at" \in DOMAIN req[a] /\ req[a].at = "idle"
    BY <2>1
  <2> QED
    BY <2>1, <2>2 DEF Owned, Early
<1> QED
  BY <1>1 DEF Init, IInv, Tickets, OnlyApprovedRuns, Registered, Nothing

LEMMA StepKeepsIInv == IInv /\ [Next]_vars => IInv'
<1> SUFFICES ASSUME IInv, [Next]_vars PROVE IInv'
  OBVIOUS
<1>0. Registered
  BY DEF IInv
<1>1. ASSUME NEW d \in Definitions,
             register(d) \/ registerAsync(d) \/ Signed(d) \/ SignFails(d)
      PROVE  IInv'
  <2>1. Registered'
    BY <1>0, <1>1, AgentAssumption
       DEF Registered, register, registerAsync, Signed, SignFails, Set
  <2>2. CASE register(d)
    BY <1>0, <2>1, <2>2, ServerStep, AgentAssumption DEF register, Set, Registered
  <2>3. CASE Signed(d)
    BY <1>0, <2>1, <2>3, ServerStep, AgentAssumption DEF Signed, Set, Registered
  <2>4. CASE registerAsync(d) \/ SignFails(d)
    BY <2>1, <2>4, ServerStep DEF registerAsync, SignFails
  <2> QED
    BY <1>1, <2>2, <2>3, <2>4
<1>2. ASSUME NEW n \in Names, registerManifest(n) PROVE IInv'
  BY <1>0, <1>2, ServerStep DEF registerManifest, Registered
<1>3. CASE Restart
  BY <1>3, ServerStep DEF Restart, Registered, Nothing
<1>4. ASSUME NEW a \in Requests, NEW kind, NEW said, Ask(a, kind, said)
      PROVE  IInv'
  <2> DEFINE cached == loaded /\ config.consumer # "uncached"
                       /\ ~(Tools /\ kind = "list")
             r == [at |-> IF cached THEN "act" ELSE "lexicon", kind |-> kind,
                   said |-> said, todo |-> {},
                   got |-> IF cached THEN cards ELSE Nothing]
  <2>1. "at" \in DOMAIN r /\ r.at \in {"act", "lexicon"}
    OBVIOUS
  <2>2. /\ req' = [req EXCEPT ![a] = r] /\ req[a].at = "idle"
        /\ UNCHANGED <<server, ran>>
    BY <1>4 DEF Ask, At
  <2> HIDE DEF r
  <2> QED
    BY <2>1, <2>2, QuietStep DEF Early
<1>5. ASSUME NEW a \in Requests, Request(a) PROVE IInv'
  <2>1. CASE call(a) \/ prepare(a) \/ onConfirmation(a) \/ confirm(a)
    BY <2>1, ConfirmationKeepsIInv
  <2>2. CASE \/ getLexicon(a) \/ ExchangeFails(a) \/ answerList(a)
             \/ glyph_index(a) \/ ToolsBuilt(a) \/ answerCall(a)
             \/ glyph_invoke(a) \/ InvokeTool(a)
             \/ \E n \in Names :
                  loadCards(a, n) \/ ensureIndex(a, n) \/ buildTool(a, n)
    BY <2>2, DiscoveryKeepsIInv
  <2> QED
    BY <1>5, <2>1, <2>2 DEF Request
<1>6. CASE UNCHANGED vars
  BY <1>0, <1>6, ServerStep DEF vars, server, Registered
<1> QED
  BY <1>1, <1>2, <1>3, <1>4, <1>5, <1>6 DEF Next

(* A glyph that needs a confirmation never runs for an agent unless the    *)
(* application's hook approved a ticket of that very card (makeInvoke, the *)
(* bridges' gate, POST /call).                                             *)
THEOREM ApprovalBeforeRunning == Spec => []OnlyApprovedRuns
<1>1. IInv => OnlyApprovedRuns
  BY DEF IInv
<1> QED
  BY <1>1, InitIInv, StepKeepsIInv, PTL DEF Spec
------------------------------------------------------------------------------
(* Discovery *)

Loading == {"lexicon", "cards", "act"}

(* The cards a request goes by: the lazy bridge has one map c for all.     *)
Sees(r, c) == Shown(IF Lazy THEN c ELSE r.got)

(* The record of a request that discovers, and what the agent said.        *)
Shape(r) ==
  /\ "at" \in DOMAIN r
  /\ r.at \in Loading =>
       /\ DOMAIN r = {"at", "kind", "said", "todo", "got"}
       /\ DOMAIN r.got = Names /\ r.todo \subseteq Names
       /\ r.kind = "invoke" => r.said \in Names
  /\ r.at = "lexicon" => r.todo = {} /\ Shown(r.got) = {}

(* Nothing of what was wanted, w, gets lost on the way to the answer.      *)
Covers(r, w, c) ==
  /\ r.at = "cards" => w # None /\ w \subseteq r.todo \cup Sees(r, c)
  /\ r.at = "act" => w # None /\ w \subseteq Sees(r, c)
  /\ r.at = "listed" => w # None /\ w \subseteq r.shown

(* The names of the lexicon an eager request read.                         *)
Lex(r) == r.todo \cup Shown(r.got)

Reaches(K, said, n) == n \in K /\ (Safe(n) = said \/ n = said)

OneToOne(S) == \A m, n \in S : Safe(m) = Safe(n) => m = n

Comparable(S, T) == S \subseteq T \/ T \subseteq S

(* The part of an eager request: a complete map is known, a map under way  *)
(* is of a lexicon that is comparable with what is known.                  *)
Within(K, r) ==
  /\ r.at = "act" => Shown(r.got) \subseteq K
  /\ r.at = "calling" => Reaches(K, r.said, r.name)
  /\ r.at = "cards" => /\ Lex(r) \subseteq Served /\ Comparable(Lex(r), K)
                       /\ OneToOne(Shown(r.got))
  /\ r.at \notin {"prepare", "hook", "confirmed"}

(* K holds the largest lexicon that an eager bridge loaded completely.     *)
(* Lexica only grow in one process, so each of them contains or is         *)
(* contained in every other; and none was completed with a clash.          *)
KnownBy(K) ==
  /\ K \subseteq Served /\ OneToOne(K)
  /\ Shown(cards) \subseteq K
  /\ \A l \in listed : l.name \in K /\ l.shown = Safe(l.name)
  /\ \A x \in ran : Reaches(K, x.said, x.glyph.name)
  /\ \A a \in Requests : Within(K, req[a])
  /\ \A a, b \in Requests : req[a].at = "cards" /\ req[b].at = "cards" =>
                              Comparable(Lex(req[a]), Lex(req[b]))

ServerInv ==
  /\ epoch \in Nat
  /\ DOMAIN glyphs = Names /\ DOMAIN cards = Names /\ DOMAIN req = Requests
  /\ \A n \in Names : glyphs[n] # None => glyphs[n].name = n
  /\ signing \subseteq Definitions
  /\ \A a \in Requests : Shape(req[a])

Covered ==
  /\ wanted = None \/ wanted \subseteq Served
  /\ loaded => wanted # None /\ wanted \subseteq Shown(cards)
  /\ \A a \in Requests : Covers(req[a], wanted, cards)

Known == IF Eager THEN \E K \in SUBSET Names : KnownBy(K) ELSE listed = {}

DInv == ServerInv /\ (epoch = 0 => Covered /\ Known)

(* No bridge has read anything yet.                                        *)
LEMMA InitDInv == Init => DInv
<1> SUFFICES ASSUME Init PROVE DInv
  OBVIOUS
<1>1. \A a \in Requests : req[a].at = "idle" /\ "at" \in DOMAIN req[a]
  BY DEF Init
<1>2. Shown(cards) = {} /\ DOMAIN cards = Names /\ DOMAIN glyphs = Names /\ Served = {}
  BY DEF Init, Nothing, Shown, Served
<1>3. ServerInv
  BY <1>1, <1>2 DEF Init, ServerInv, Shape, Loading, Nothing
<1>4. Covered
  BY <1>1 DEF Init, Covered, Covers
<1>5. KnownBy({})
  BY <1>1, <1>2 DEF Init, KnownBy, OneToOne, Within
<1> QED
  BY <1>3, <1>4, <1>5 DEF DInv, Known, Init

(* What a step of request a to r leaves in line with K.                    *)
Keeps(K, a, r) ==
  /\ Shown(cards') \subseteq K
  /\ \A l \in listed' : l.name \in K /\ l.shown = Safe(l.name)
  /\ \A x \in ran' : Reaches(K, x.said, x.glyph.name)
  /\ Within(K, r)
  /\ r.at = "cards" => \A b \in Requests \ {a} :
                         req[b].at = "cards" => Comparable(Lex(r), Lex(req[b]))

(* A step of one request, for the whole of DInv.                           *)
LEMMA RequestStep ==
  ASSUME DInv, NEW a \in Requests, NEW r, req' = [req EXCEPT ![a] = r],
         UNCHANGED <<config, epoch, glyphs, signing>>,
         DOMAIN cards' = Names, Shape(r),
         epoch = 0 =>
           /\ wanted' = wanted \/ (wanted = None /\ wanted' = Served)
           /\ Lazy => Shown(cards) \subseteq Shown(cards')
           /\ loaded' => wanted' # None /\ wanted' \subseteq Shown(cards')
           /\ Covers(r, wanted', cards')
           /\ ~Eager => listed' = listed
           /\ Eager => \A K \in SUBSET Names : KnownBy(K) =>
                         \E K2 \in SUBSET Names : KnownBy(K2) /\ Keeps(K2, a, r)
  PROVE  DInv'
<1>1. /\ DOMAIN req = Requests /\ req'[a] = r /\ DOMAIN req' = Requests
      /\ \A b \in Requests \ {a} : req'[b] = req[b]
  BY DEF DInv, ServerInv
<1>2. Served' = Served /\ (Lazy' <=> Lazy) /\ (Eager' <=> Eager)
  BY DEF Served, Lazy, Eager
<1>3. ServerInv'
  <2>1. \A b \in Requests : Shape(req'[b])
    BY <1>1 DEF DInv, ServerInv
  <2> QED
    BY <1>1, <2>1 DEF DInv, ServerInv, Shape, Shown
<1>4. ASSUME epoch = 0 PROVE Covered'
  <2>1. \A b \in Requests : Covers(req'[b], wanted', cards')
    <3> SUFFICES ASSUME NEW b \in Requests \ {a} PROVE Covers(req[b], wanted', cards')
      BY <1>1, <1>4
    <3>1. Covers(req[b], wanted, cards)
      BY <1>4 DEF DInv, Covered
    <3>2. Sees(req[b], cards) \subseteq Sees(req[b], cards')
      BY <1>4 DEF Sees
    <3> QED
      BY <1>4, <3>1, <3>2 DEF Covers
  <2>3. \A b \in Requests : Covers(req[b], wanted, cards)'
    BY <1>2, <2>1 DEF Covers, Sees, Shown
  <2>4. wanted' = None \/ wanted' \subseteq Served'
    BY <1>2, <1>4 DEF DInv, Covered
  <2> QED
    BY <1>4, <2>3, <2>4 DEF Covered, Shown
<1>5. ASSUME epoch = 0 PROVE Known'
  <2>1. CASE ~Eager
    BY <1>2, <1>5, <2>1 DEF DInv, Known
  <2>2. CASE Eager
    <3>1. PICK K \in SUBSET Names : KnownBy(K) /\ Keeps(K, a, r)
      BY <1>5, <2>2 DEF DInv, Known
    <3>2. ASSUME NEW b \in Requests PROVE Within(K, req[b])'
      <4>1. Within(K, req'[b])
        BY <1>1, <3>1 DEF KnownBy, Keeps
      <4> QED
        BY <1>2, <4>1 DEF Within, Reaches, Lex, Shown, Comparable, OneToOne
    <3>3. ASSUME NEW b \in Requests, NEW c \in Requests,
                 req'[b].at = "cards", req'[c].at = "cards"
          PROVE  Comparable(Lex(req'[b]), Lex(req'[c]))
      <4>1. CASE b # a /\ c # a
        BY <1>1, <3>1, <3>3, <4>1 DEF KnownBy
      <4>2. CASE b = a /\ c # a
        BY <1>1, <3>1, <3>3, <4>2 DEF Keeps
      <4>3. CASE b # a /\ c = a
        BY <1>1, <3>1, <3>3, <4>3 DEF Keeps, Comparable
      <4>4. CASE b = a /\ c = a
        BY <4>4 DEF Comparable
      <4> QED
        BY <4>1, <4>2, <4>3, <4>4
    <3>4. KnownBy(K)'
      BY <1>2, <3>1, <3>2, <3>3 DEF KnownBy, Keeps, Lex, Shown, Comparable, Reaches,
         OneToOne
    <3> QED
      BY <1>2, <2>2, <3>4 DEF Known
  <2> QED
    BY <2>1, <2>2
<1> QED
  BY <1>3, <1>4, <1>5 DEF DInv

(* A request that leaves the bridge's maps alone and is not loading: it    *)
(* calls, or has ended.                                                    *)
LEMMA PlainStep ==
  ASSUME DInv, NEW a \in Requests, NEW r, req' = [req EXCEPT ![a] = r],
         UNCHANGED <<config, epoch, glyphs, signing, cards, loaded, wanted, listed>>,
         "at" \in DOMAIN r, r.at \notin Loading \cup {"listed"},
         epoch = 0 /\ Eager => \A K \in SUBSET Names : KnownBy(K) =>
           Within(K, r) /\ \A x \in ran' : Reaches(K, x.said, x.glyph.name)
  PROVE  DInv'
<1>1. Shape(r) /\ DOMAIN cards' = Names
  BY DEF Shape, Loading, DInv, ServerInv
<1>2. ASSUME epoch = 0
      PROVE  /\ loaded' => wanted' # None /\ wanted' \subseteq Shown(cards')
             /\ Covers(r, wanted', cards')
             /\ Lazy => Shown(cards) \subseteq Shown(cards')
  BY <1>2 DEF DInv, Covered, Covers, Loading
<1>3. ASSUME epoch = 0, Eager, NEW K \in SUBSET Names, KnownBy(K)
      PROVE  KnownBy(K) /\ Keeps(K, a, r)
  BY <1>3 DEF KnownBy, Keeps, Loading
<1> QED
  BY <1>1, <1>2, <1>3, RequestStep

(* An error ends the request.                                              *)
LEMMA FailDInv ==
  ASSUME DInv, NEW a \in Requests, Fail(a), UNCHANGED <<config, server, bridge, ran>>
  PROVE  DInv'
<1> DEFINE r == [at |-> "failed"]
<1>1. "at" \in DOMAIN r /\ r.at = "failed" /\ req' = [req EXCEPT ![a] = r]
  BY DEF Fail, At
<1> HIDE DEF r
<1>2. r.at \notin Loading \cup {"listed"}
  BY <1>1 DEF Loading
<1>3. \A K \in SUBSET Names : KnownBy(K) =>
           Within(K, r) /\ \A x \in ran' : Reaches(K, x.said, x.glyph.name)
  BY <1>1 DEF KnownBy, Within
<1> QED
  BY <1>1, <1>2, <1>3, PlainStep DEF server, bridge

(* A request arrives: from the cache, or with the lexicon still to read.   *)
LEMMA AskDInv ==
  ASSUME DInv, NEW a \in Requests, NEW kind \in {"list", "invoke"}, NEW said,
         kind = "invoke" => said \in Names, Ask(a, kind, said)
  PROVE  DInv'
<1> DEFINE cached == loaded /\ config.consumer # "uncached"
                     /\ ~(Tools /\ kind = "list")
           r == [at |-> IF cached THEN "act" ELSE "lexicon", kind |-> kind,
                 said |-> said, todo |-> {},
                 got |-> IF cached THEN cards ELSE Nothing]
<1>1. /\ DOMAIN r = {"at", "kind", "said", "todo", "got"}
      /\ r.at = (IF cached THEN "act" ELSE "lexicon") /\ r.kind = kind /\ r.said = said
      /\ r.todo = {} /\ r.got = (IF cached THEN cards ELSE Nothing)
  OBVIOUS
<1>2. /\ req' = [req EXCEPT ![a] = r]
      /\ UNCHANGED <<config, epoch, glyphs, signing, cards, loaded, wanted, listed, ran>>
  BY DEF Ask, At, server, bridge
<1>3. cached => loaded
  OBVIOUS
<1> HIDE DEF r, cached
<1>4. DOMAIN Nothing = Names /\ Shown(Nothing) = {} /\ DOMAIN cards = Names
  BY DEF Nothing, Shown, DInv, ServerInv
<1>5. Shape(r)
  BY <1>1, <1>4 DEF Shape, Loading
<1>6. ASSUME epoch = 0
      PROVE  /\ loaded => wanted # None /\ wanted \subseteq Shown(cards)
             /\ Covers(r, wanted, cards)
  BY <1>1, <1>3, <1>6 DEF DInv, Covered, Covers, Sees
<1>7. ASSUME NEW K \in SUBSET Names, KnownBy(K) PROVE Keeps(K, a, r)
  BY <1>1, <1>2, <1>4, <1>7 DEF KnownBy, Keeps, Within
<1>8. DOMAIN cards' = Names
  BY <1>2, <1>4
<1> QED
  BY <1>2, <1>5, <1>6, <1>7, <1>8, RequestStep

(* GET /lexicon: all that was ever wanted is to be loaded.                 *)
LEMMA LexiconDInv ==
  ASSUME DInv, NEW a \in Requests, getLexicon(a)
  PROVE  DInv'
<1>1. /\ req[a].at = "lexicon" /\ Wants
      /\ UNCHANGED <<config, epoch, glyphs, signing, listed, ran>>
  BY DEF getLexicon, server
<1>2. /\ DOMAIN req[a] = {"at", "kind", "said", "todo", "got"}
      /\ DOMAIN req[a].got = Names /\ Shown(req[a].got) = {} /\ req[a].todo = {}
      /\ req[a].kind = "invoke" => req[a].said \in Names
      /\ DOMAIN cards = Names
  BY <1>1 DEF DInv, ServerInv, Shape, Loading
<1>3. epoch = 0 => /\ wanted' = wanted \/ (wanted = None /\ wanted' = Served)
                   /\ wanted' # None /\ wanted' \subseteq Served
  <2>1. Served \subseteq Names
    BY DEF Served
  <2>2. Served # None
    BY <2>1, AgentAssumption
  <2> QED
    BY <1>1, <2>2 DEF Wants, DInv, Covered
<1>4. CASE Served = {}
  <2> DEFINE r == [req[a] EXCEPT !.at = "act", !.todo = {}, !.got = Nothing]
  <2>1. /\ req' = [req EXCEPT ![a] = r] /\ loaded' = TRUE
        /\ cards' = (IF Lazy THEN cards ELSE Nothing)
    BY <1>4 DEF getLexicon, Complete, At
  <2>2. /\ DOMAIN r = {"at", "kind", "said", "todo", "got"} /\ r.at = "act"
        /\ r.todo = {} /\ r.got = Nothing /\ r.kind = req[a].kind /\ r.said = req[a].said
    BY <1>2
  <2> HIDE DEF r
  <2>3. DOMAIN Nothing = Names /\ Shown(Nothing) = {}
    BY DEF Nothing, Shown
  <2>4. Shape(r) /\ DOMAIN cards' = Names
    BY <1>2, <2>1, <2>2, <2>3 DEF Shape, Loading
  <2>5. epoch = 0 => /\ wanted' # None /\ wanted' \subseteq Shown(cards')
                     /\ Covers(r, wanted', cards')
                     /\ Lazy => Shown(cards) \subseteq Shown(cards')
    BY <1>3, <1>4, <2>1, <2>2 DEF Covers
  <2>6. ASSUME NEW K \in SUBSET Names, KnownBy(K) PROVE Keeps(K, a, r)
    BY <1>1, <2>1, <2>2, <2>3, <2>6 DEF KnownBy, Keeps, Within
  <2> QED
    BY <1>1, <1>3, <2>1, <2>4, <2>5, <2>6, RequestStep
<1>5. CASE Served # {}
  <2> DEFINE r == [req[a] EXCEPT !.at = "cards", !.todo = Served]
  <2>1. /\ req' = [req EXCEPT ![a] = r] /\ UNCHANGED <<cards, loaded>>
    BY <1>5 DEF getLexicon, At
  <2>2. /\ DOMAIN r = {"at", "kind", "said", "todo", "got"} /\ r.at = "cards"
        /\ r.todo = Served /\ r.got = req[a].got /\ r.kind = req[a].kind
        /\ r.said = req[a].said
    BY <1>2
  <2> HIDE DEF r
  <2>3. Shape(r) /\ DOMAIN cards' = Names
    BY <1>2, <2>1, <2>2 DEF Shape, Loading, Served
  <2>4. epoch = 0 => /\ loaded' => wanted' # None /\ wanted' \subseteq Shown(cards')
                     /\ Covers(r, wanted', cards')
    BY <1>3, <2>1, <2>2 DEF Covers, DInv, Covered
  <2>5. ASSUME NEW K \in SUBSET Names, KnownBy(K) PROVE Keeps(K, a, r)
    <3>1. Lex(r) = Served /\ Shown(r.got) = {}
      BY <1>2, <2>2 DEF Lex
    <3>2. \A b \in Requests : req[b].at = "cards" => Lex(req[b]) \subseteq Served
      BY <2>5 DEF KnownBy, Within
    <3>3. Within(K, r)
      BY <2>2, <2>5, <3>1 DEF KnownBy, Within, Comparable, OneToOne
    <3> QED
      BY <1>1, <2>1, <2>5, <3>1, <3>2, <3>3 DEF KnownBy, Keeps, Comparable
  <2>6. Lazy => Shown(cards) \subseteq Shown(cards')
    BY <2>1
  <2> QED
    BY <1>1, <1>3, <2>1, <2>3, <2>4, <2>5, <2>6, RequestStep
<1> QED
  BY <1>4, <1>5

(* A lexicon without a clash, once loaded, joins what is known.            *)
LEMMA KnownMore ==
  ASSUME NEW K \in SUBSET Names, KnownBy(K), NEW a \in Requests, req[a].at = "cards",
         OneToOne(Lex(req[a]))
  PROVE  KnownBy(K \cup Lex(req[a]))
<1>1. Lex(req[a]) \subseteq Served /\ Comparable(Lex(req[a]), K)
  BY DEF KnownBy, Within
<1>2. CASE Lex(req[a]) \subseteq K
  <2>1. K \cup Lex(req[a]) = K
    BY <1>2
  <2> QED
    BY <2>1
<1>3. CASE K \subseteq Lex(req[a])
  <2>1. PICK L : L = Lex(req[a])
    OBVIOUS
  <2>2. K \cup Lex(req[a]) = L
    BY <1>3, <2>1
  <2>3. ASSUME NEW b \in Requests PROVE Within(L, req[b])
    <3>1. Within(K, req[b]) /\ (req[b].at = "cards" => Comparable(Lex(req[b]), L))
      BY <2>1 DEF KnownBy
    <3> QED
      BY <1>3, <2>1, <3>1 DEF Within, Reaches
  <2>4. KnownBy(L)
    BY <1>1, <1>3, <2>1, <2>3 DEF KnownBy, Reaches
  <2> QED
    BY <2>2, <2>4
<1> QED
  BY <1>1, <1>2, <1>3 DEF Comparable

(* Card n arrives in the map got: no wanted name is left behind.           *)
LEMMA OneMore ==
  ASSUME NEW got, DOMAIN got = Names, NEW n \in Names, NEW d, d # None
  PROVE  /\ DOMAIN [got EXCEPT ![n] = d] = Names
         /\ Shown([got EXCEPT ![n] = d]) = Shown(got) \cup {n}
BY DEF Shown

(* GET /glyphs/:name of an eager bridge.                                   *)
LEMMA LoadDInv ==
  ASSUME DInv, NEW a \in Requests, NEW n \in Names, loadCards(a, n)
  PROVE  DInv'
<1>1. /\ Eager /\ ~Lazy /\ req[a].at = "cards" /\ n \in req[a].todo
      /\ UNCHANGED <<config, server, wanted, listed, ran>>
  BY DEF loadCards, Eager, Lazy
<1>2. CASE Fail(a) /\ UNCHANGED <<cards, loaded>>
  BY <1>1, <1>2, FailDInv DEF bridge
<1>3. CASE /\ glyphs[n] # None /\ ~Collides(req[a].got, n)
           /\ Complete(a, req[a].todo \ {n}, [req[a].got EXCEPT ![n] = glyphs[n]])
  <2>1. /\ DOMAIN req[a] = {"at", "kind", "said", "todo", "got"}
        /\ DOMAIN req[a].got = Names /\ req[a].todo \subseteq Names
        /\ req[a].kind = "invoke" => req[a].said \in Names
        /\ DOMAIN cards = Names
    BY <1>1 DEF DInv, ServerInv, Shape, Loading
  <2>2. PICK got : got = [req[a].got EXCEPT ![n] = glyphs[n]]
    OBVIOUS
  <2>3. DOMAIN got = Names /\ Shown(got) = Shown(req[a].got) \cup {n}
    BY <1>3, <2>1, <2>2, OneMore
  <2>4. PICK rest : rest = req[a].todo \ {n}
    OBVIOUS
  <2>5. Complete(a, rest, got) /\ rest \cup Shown(got) = Lex(req[a])
    BY <1>1, <1>3, <2>2, <2>3, <2>4 DEF Lex
  <2>6. epoch = 0 => /\ wanted # None /\ wanted \subseteq rest \cup Shown(got)
                     /\ loaded => wanted \subseteq Shown(cards)
    BY <1>1, <2>5 DEF DInv, Covered, Covers, Sees, Lex
  <2>7. ASSUME NEW K, KnownBy(K) PROVE OneToOne(Shown(got))
    <3>1. OneToOne(Shown(req[a].got))
      BY <1>1, <2>7 DEF KnownBy, Within
    <3>2. \A m \in Shown(req[a].got) : Safe(m) # Safe(n)
      BY <1>3 DEF Collides, Shown
    <3> QED
      BY <2>3, <3>1, <3>2 DEF OneToOne
  <2>8. CASE rest # {}
    <3> DEFINE r == [req[a] EXCEPT !.at = "cards", !.todo = rest, !.got = got]
    <3>1. req' = [req EXCEPT ![a] = r] /\ UNCHANGED <<cards, loaded>>
      BY <2>5, <2>8 DEF Complete, At
    <3>2. /\ DOMAIN r = {"at", "kind", "said", "todo", "got"} /\ r.at = "cards"
          /\ r.todo = rest /\ r.got = got /\ r.kind = req[a].kind
          /\ r.said = req[a].said
      BY <2>1
    <3> HIDE DEF r
    <3>3. Shape(r) /\ DOMAIN cards' = Names
      BY <2>1, <2>3, <2>4, <3>1, <3>2 DEF Shape, Loading
    <3>4. epoch = 0 => /\ loaded' => wanted' # None /\ wanted' \subseteq Shown(cards')
                       /\ Covers(r, wanted', cards')
      BY <1>1, <2>6, <3>1, <3>2 DEF Covers, Sees
    <3>5. ASSUME NEW K \in SUBSET Names, KnownBy(K) PROVE Keeps(K, a, r)
      <4>1. Lex(r) = Lex(req[a])
        BY <2>5, <3>2 DEF Lex
      <4>2. Within(K, r)
        BY <1>1, <2>7, <3>2, <3>5, <4>1 DEF KnownBy, Within
      <4> QED
        BY <1>1, <3>1, <3>5, <4>1, <4>2 DEF KnownBy, Keeps
    <3> QED
      BY <1>1, <3>1, <3>3, <3>4, <3>5, RequestStep DEF server
  <2>9. CASE rest = {}
    <3> DEFINE r == [req[a] EXCEPT !.at = "act", !.todo = {}, !.got = got]
    <3>1. req' = [req EXCEPT ![a] = r] /\ cards' = got /\ loaded' = TRUE
      BY <1>1, <2>5, <2>9 DEF Complete, At
    <3>2. /\ DOMAIN r = {"at", "kind", "said", "todo", "got"} /\ r.at = "act"
          /\ r.todo = {} /\ r.got = got /\ r.kind = req[a].kind
          /\ r.said = req[a].said
      BY <2>1
    <3> HIDE DEF r
    <3>3. Shape(r) /\ DOMAIN cards' = Names
      BY <2>1, <2>3, <3>1, <3>2 DEF Shape, Loading
    <3>4. epoch = 0 => /\ loaded' => wanted' # None /\ wanted' \subseteq Shown(cards')
                       /\ Covers(r, wanted', cards')
      BY <1>1, <2>6, <2>9, <3>1, <3>2 DEF Covers, Sees
    <3>5. ASSUME NEW K \in SUBSET Names, KnownBy(K)
          PROVE  \E K2 \in SUBSET Names : KnownBy(K2) /\ Keeps(K2, a, r)
      <4>1. PICK K2 : K2 = K \cup Lex(req[a])
        OBVIOUS
      <4>2. KnownBy(K2)
        BY <1>1, <2>5, <2>7, <2>9, <3>5, <4>1, KnownMore
      <4>3. K2 \subseteq Names /\ Shown(got) \subseteq K2
        BY <2>5, <2>9, <4>1, <4>2 DEF KnownBy, Served
      <4>4. Within(K2, r)
        BY <3>2, <4>3 DEF Within
      <4>5. Keeps(K2, a, r)
        BY <1>1, <3>1, <3>2, <4>2, <4>3, <4>4 DEF KnownBy, Keeps
      <4> QED
        BY <4>2, <4>3, <4>5
    <3> QED
      BY <1>1, <3>1, <3>3, <3>4, <3>5, RequestStep DEF server
  <2> QED
    BY <2>8, <2>9
<1> QED
  BY <1>2, <1>3 DEF loadCards

(* A card enters the lazy bridge's one map.                                *)
LEMMA LazyDInv ==
  ASSUME DInv, NEW a \in Requests, NEW n \in Names, ensureIndex(a, n)
  PROVE  DInv'
<1>1. /\ Lazy /\ ~Eager /\ req[a].at = "cards" /\ n \in req[a].todo
      /\ UNCHANGED <<config, server, wanted, listed, ran>>
  BY DEF ensureIndex, Eager, Lazy
<1>2. CASE Fail(a) /\ UNCHANGED <<cards, loaded>>
  BY <1>1, <1>2, FailDInv DEF bridge
<1>3. CASE glyphs[n] # None
  <2>1. /\ DOMAIN req[a] = {"at", "kind", "said", "todo", "got"}
        /\ DOMAIN req[a].got = Names /\ req[a].todo \subseteq Names
        /\ req[a].kind = "invoke" => req[a].said \in Names
        /\ DOMAIN cards = Names
    BY <1>1 DEF DInv, ServerInv, Shape, Loading
  <2>2. PICK rest : rest = req[a].todo \ {n}
    OBVIOUS
  <2>3. PICK w : w = IF rest = {} THEN "act" ELSE "cards"
    OBVIOUS
  <2> DEFINE r == [req[a] EXCEPT !.todo = rest, !.at = w]
  <2>4. /\ req' = [req EXCEPT ![a] = r] /\ cards' = [cards EXCEPT ![n] = glyphs[n]]
        /\ loaded' = (loaded \/ rest = {})
    BY <1>3, <2>2, <2>3 DEF ensureIndex, At
  <2>5. /\ DOMAIN r = {"at", "kind", "said", "todo", "got"} /\ r.at = w
        /\ r.todo = rest /\ r.got = req[a].got /\ r.kind = req[a].kind
        /\ r.said = req[a].said
    BY <2>1
  <2> HIDE DEF r
  <2>6. DOMAIN cards' = Names /\ Shown(cards') = Shown(cards) \cup {n}
    BY <1>3, <2>1, <2>4, OneMore
  <2>7. Shape(r)
    BY <2>1, <2>2, <2>3, <2>5 DEF Shape, Loading
  <2>8. epoch = 0 => /\ wanted # None /\ wanted \subseteq rest \cup Shown(cards')
                     /\ loaded => wanted \subseteq Shown(cards')
    BY <1>1, <2>2, <2>6 DEF DInv, Covered, Covers, Sees
  <2>9. epoch = 0 => Covers(r, wanted', cards')
    BY <1>1, <2>3, <2>5, <2>8 DEF Covers, Sees
  <2> QED
    BY <1>1, <2>4, <2>6, <2>7, <2>8, <2>9, RequestStep DEF server
<1> QED
  BY <1>2, <1>3 DEF ensureIndex

(* A tool is built for every name, with the card or without.               *)
LEMMA ToolDInv ==
  ASSUME DInv, NEW a \in Requests, NEW n \in Names, buildTool(a, n)
  PROVE  DInv'
<1>1. /\ Tools /\ req[a].at = "cards" /\ n \in req[a].todo
      /\ UNCHANGED <<config, server, wanted, listed, ran>>
  BY DEF buildTool
<1>2. ~Lazy /\ ~Eager
  BY <1>1, AgentAssumption DEF Tools, Lazy, Eager
<1>3. /\ DOMAIN req[a] = {"at", "kind", "said", "todo", "got"}
      /\ DOMAIN req[a].got = Names /\ req[a].todo \subseteq Names
      /\ req[a].kind = "invoke" => req[a].said \in Names
      /\ DOMAIN cards = Names
  BY <1>1 DEF DInv, ServerInv, Shape, Loading
<1>4. PICK d : d # None /\ Complete(a, req[a].todo \ {n}, [req[a].got EXCEPT ![n] = d])
  BY AgentAssumption DEF buildTool
<1>5. PICK got : got = [req[a].got EXCEPT ![n] = d]
  OBVIOUS
<1>6. DOMAIN got = Names /\ Shown(got) = Shown(req[a].got) \cup {n}
  BY <1>3, <1>4, <1>5, OneMore
<1>7. PICK rest : rest = req[a].todo \ {n}
  OBVIOUS
<1>8. epoch = 0 => /\ wanted # None /\ wanted \subseteq rest \cup Shown(got)
                   /\ loaded => wanted \subseteq Shown(cards)
  BY <1>1, <1>2, <1>6, <1>7 DEF DInv, Covered, Covers, Sees
<1>9. PICK w : w = IF rest = {} THEN "act" ELSE "cards"
  OBVIOUS
<1> DEFINE r == [req[a] EXCEPT !.at = w, !.todo = rest, !.got = got]
<1>10. /\ req' = [req EXCEPT ![a] = r]
       /\ rest = {} => cards' = got /\ loaded' = TRUE
       /\ rest # {} => cards' = cards /\ loaded' = loaded
  <2>1. Complete(a, rest, got)
    BY <1>4, <1>5, <1>7
  <2>2. CASE rest = {}
    BY <1>2, <1>9, <2>1, <2>2 DEF Complete, At
  <2>3. CASE rest # {}
    BY <1>9, <2>1, <2>3 DEF Complete, At
  <2> QED
    BY <2>2, <2>3
<1>11. /\ DOMAIN r = {"at", "kind", "said", "todo", "got"} /\ r.at = w
       /\ r.todo = rest /\ r.got = got /\ r.kind = req[a].kind /\ r.said = req[a].said
  BY <1>3
<1> HIDE DEF r
<1>12. Shape(r) /\ DOMAIN cards' = Names
  BY <1>3, <1>6, <1>7, <1>9, <1>10, <1>11 DEF Shape, Loading
<1>13. epoch = 0 => /\ loaded' => wanted' # None /\ wanted' \subseteq Shown(cards')
                    /\ Covers(r, wanted', cards')
  BY <1>1, <1>2, <1>8, <1>9, <1>10, <1>11 DEF Covers, Sees
<1> QED
  BY <1>1, <1>2, <1>10, <1>12, <1>13, RequestStep DEF server

(* A list is complete, and an eager one shows known glyphs by their names. *)
LEMMA ListDInv ==
  ASSUME DInv, NEW a \in Requests, answerList(a) \/ glyph_index(a) \/ ToolsBuilt(a)
  PROVE  DInv'
<1>1. /\ req[a].at = "act"
      /\ UNCHANGED <<config, server, cards, loaded, wanted, ran>>
      /\ ~Eager => listed' = listed
  BY AgentAssumption
     DEF answerList, glyph_index, ToolsBuilt, List, bridge, Eager, Lazy, Tools
<1>2. PICK shown : /\ shown = Sees(req[a], cards)
                   /\ req' = [req EXCEPT ![a] = [at |-> "listed", shown |-> shown]]
  BY AgentAssumption
     DEF answerList, glyph_index, ToolsBuilt, List, At, Sees, Eager, Lazy, Tools
<1> DEFINE r == [at |-> "listed", shown |-> shown]
<1>3. /\ "at" \in DOMAIN r /\ r.at = "listed" /\ r.shown = shown
      /\ req' = [req EXCEPT ![a] = r]
  BY <1>2
<1> HIDE DEF r
<1>4. Shape(r) /\ DOMAIN cards' = Names
  BY <1>1, <1>3 DEF Shape, Loading, DInv, ServerInv
<1>5. epoch = 0 => /\ loaded' => wanted' # None /\ wanted' \subseteq Shown(cards')
                   /\ Covers(r, wanted', cards')
                   /\ Lazy => Shown(cards) \subseteq Shown(cards')
  BY <1>1, <1>2, <1>3 DEF DInv, Covered, Covers
<1>6. ASSUME Eager, NEW K \in SUBSET Names, KnownBy(K) PROVE Keeps(K, a, r)
  <2>1. Shown(req[a].got) \subseteq K
    BY <1>1, <1>6 DEF KnownBy, Within
  <2>2. listed' = listed \cup {[shown |-> Safe(n), name |-> n] : n \in Shown(req[a].got)}
    BY <1>6, AgentAssumption DEF answerList, glyph_index, ToolsBuilt, Eager, Lazy, Tools
  <2>3. \A l \in listed' : l.name \in K /\ l.shown = Safe(l.name)
    BY <1>6, <2>1, <2>2 DEF KnownBy
  <2>4. Within(K, r)
    BY <1>3 DEF Within
  <2> QED
    BY <1>1, <1>3, <1>6, <2>3, <2>4 DEF KnownBy, Keeps
<1> QED
  BY <1>1, <1>3, <1>4, <1>5, <1>6, RequestStep DEF server

(* tools/call: the name the agent says leads to a known glyph.             *)
LEMMA InvokeDInv ==
  ASSUME DInv, NEW a \in Requests, answerCall(a) \/ glyph_invoke(a) \/ InvokeTool(a)
  PROVE  DInv'
<1>1. PICK n, allowed, object :
        /\ Invoke(a, n, allowed, object)
        /\ Eager => /\ n = original(req[a].got, req[a].said)
                    /\ allowed => req[a].got[n] # None
  BY AgentAssumption DEF answerCall, glyph_invoke, InvokeTool, Eager, Lazy, Tools
<1>2. /\ req[a].at = "act" /\ req[a].kind = "invoke"
      /\ UNCHANGED <<config, server, bridge, ran>>
  BY <1>1 DEF Invoke
<1>3. CASE ~allowed
  BY <1>1, <1>2, <1>3, FailDInv DEF Invoke
<1>4. CASE allowed
  <2> DEFINE r == [at |-> "calling", name |-> n, said |-> req[a].said, object |-> object]
  <2>1. /\ "at" \in DOMAIN r /\ r.at = "calling" /\ r.name = n /\ r.said = req[a].said
        /\ req' = [req EXCEPT ![a] = r]
    BY <1>1, <1>4 DEF Invoke, At
  <2> HIDE DEF r
  <2>2. ASSUME Eager, NEW K \in SUBSET Names, KnownBy(K)
        PROVE  Within(K, r) /\ \A x \in ran' : Reaches(K, x.said, x.glyph.name)
    <3>1. Shown(req[a].got) \subseteq K
      BY <1>2, <2>2 DEF KnownBy, Within
    <3>2. req[a].said \in Names
      BY <1>2 DEF DInv, ServerInv, Shape, Loading
    <3>3. n \in Shown(req[a].got) /\ (Safe(n) = req[a].said \/ n = req[a].said)
      <4>1. CASE \E m \in Shown(req[a].got) : Safe(m) = req[a].said
        <5>1. n = CHOOSE m \in Shown(req[a].got) : Safe(m) = req[a].said
          BY <1>1, <2>2, <4>1 DEF original
        <5> QED
          BY <4>1, <5>1
      <4>2. CASE ~\E m \in Shown(req[a].got) : Safe(m) = req[a].said
        <5>1. n = req[a].said
          BY <1>1, <2>2, <4>2 DEF original
        <5> QED
          BY <1>1, <1>4, <2>2, <3>2, <5>1 DEF Shown
      <4> QED
        BY <4>1, <4>2
    <3>4. Within(K, r)
      BY <2>1, <3>1, <3>3 DEF Within, Reaches
    <3> QED
      BY <1>2, <2>2, <3>4 DEF KnownBy
  <2>3. r.at \notin Loading \cup {"listed"}
    BY <2>1 DEF Loading
  <2> QED
    BY <1>2, <2>1, <2>2, <2>3, PlainStep DEF server, bridge
<1> QED
  BY <1>3, <1>4

(* The call runs the glyph the request named; no bridge confirms.          *)
LEMMA CallDInv ==
  ASSUME DInv, NEW a \in Requests,
         call(a) \/ prepare(a) \/ onConfirmation(a) \/ confirm(a)
  PROVE  DInv'
<1>1. UNCHANGED <<config, epoch, glyphs, signing, cards, loaded, wanted, listed>>
  BY DEF call, prepare, onConfirmation, confirm, server, bridge
<1>2. "at" \in DOMAIN req[a]
  BY DEF DInv, ServerInv, Shape
<1>3. ASSUME NEW r, req' = [req EXCEPT ![a] = r], "at" \in DOMAIN r,
             r.at \in {"failed", "unconfirmed", "done", "declined"} \/
               (~Eager /\ r.at \in {"prepare", "hook", "confirmed"}),
             Eager => ran' = ran \/ (call(a) /\ Run(a, glyphs[req[a].name], None))
      PROVE  DInv'
  <2>1. r.at \notin Loading \cup {"listed"}
    BY <1>3 DEF Loading
  <2>2. ASSUME Eager, NEW K \in SUBSET Names, KnownBy(K)
        PROVE  Within(K, r) /\ \A x \in ran' : Reaches(K, x.said, x.glyph.name)
    <3>1. Within(K, r)
      BY <1>3, <2>2 DEF Within
    <3>2. CASE ran' = ran
      BY <2>2, <3>1, <3>2 DEF KnownBy
    <3>3. CASE call(a) /\ Run(a, glyphs[req[a].name], None)
      <4>1. Reaches(K, req[a].said, req[a].name)
        BY <2>2, <3>3 DEF KnownBy, Within, call
      <4>2. glyphs[req[a].name].name = req[a].name
        BY <2>2, <4>1 DEF Reaches, KnownBy, Served, DInv, ServerInv
      <4> QED
        BY <2>2, <3>1, <3>3, <4>1, <4>2 DEF KnownBy, Run
    <3> QED
      BY <1>3, <2>2, <3>2, <3>3
  <2> QED
    BY <1>1, <1>3, <2>1, <2>2, PlainStep
<1>4. ASSUME NEW w \in {"failed", "unconfirmed", "done", "declined"},
             At(a, [at |-> w]),
             Eager => ran' = ran \/ (call(a) /\ Run(a, glyphs[req[a].name], None))
      PROVE  DInv'
  <2> DEFINE r == [at |-> w]
  <2>1. "at" \in DOMAIN r /\ r.at = w /\ req' = [req EXCEPT ![a] = r]
    BY <1>4 DEF At
  <2> HIDE DEF r
  <2> QED
    BY <1>3, <1>4, <2>1
<1>5. CASE call(a)
  <2>1. CASE At(a, [req[a] EXCEPT !.at = "prepare"]) /\ Tools /\ UNCHANGED ran
    <3> DEFINE r == [req[a] EXCEPT !.at = "prepare"]
    <3>1. "at" \in DOMAIN r /\ r.at = "prepare" /\ req' = [req EXCEPT ![a] = r] /\ ~Eager
      BY <1>2, <2>1, AgentAssumption DEF At, Tools, Eager
    <3> HIDE DEF r
    <3> QED
      BY <1>3, <2>1, <3>1
  <2>2. CASE \/ At(a, [at |-> "unconfirmed"]) /\ UNCHANGED ran
             \/ Fail(a) /\ UNCHANGED ran
             \/ At(a, [at |-> "done"]) /\ Run(a, glyphs[req[a].name], None)
    BY <1>4, <1>5, <2>2 DEF Fail
  <2> QED
    BY <1>5, <2>1, <2>2 DEF call
<1>6. CASE prepare(a) \/ onConfirmation(a) \/ confirm(a)
  <2>1. CASE epoch = 0 /\ Eager
    <3>1. PICK K \in SUBSET Names : KnownBy(K)
      BY <2>1 DEF DInv, Known
    <3>2. req[a].at \notin {"prepare", "hook", "confirmed"}
      BY <3>1 DEF KnownBy, Within
    <3> QED
      BY <1>6, <3>2 DEF prepare, onConfirmation, confirm
  <2>2. CASE ~(epoch = 0 /\ Eager)
    <3>1. ASSUME NEW r, req' = [req EXCEPT ![a] = r], "at" \in DOMAIN r,
                 r.at \in {"failed", "declined", "done", "hook", "confirmed"}
          PROVE  DInv'
      <4>1. r.at \notin Loading \cup {"listed"}
        BY <3>1 DEF Loading
      <4> QED
        BY <1>1, <2>2, <3>1, <4>1, PlainStep
    <3>2. ASSUME NEW w \in {"failed", "declined", "done"}, At(a, [at |-> w]) PROVE DInv'
      <4> DEFINE r == [at |-> w]
      <4>1. "at" \in DOMAIN r /\ r.at = w /\ req' = [req EXCEPT ![a] = r]
        BY <3>2 DEF At
      <4> HIDE DEF r
      <4> QED
        BY <3>1, <4>1
    <3>3. ASSUME NEW y, At(a, [at |-> "hook", name |-> req[a].name,
                               said |-> req[a].said, object |-> req[a].object,
                               card |-> y])
          PROVE  DInv'
      <4> DEFINE r == [at |-> "hook", name |-> req[a].name, said |-> req[a].said,
                       object |-> req[a].object, card |-> y]
      <4>1. "at" \in DOMAIN r /\ r.at = "hook" /\ req' = [req EXCEPT ![a] = r]
        BY <3>3 DEF At
      <4> HIDE DEF r
      <4> QED
        BY <3>1, <4>1
    <3>4. ASSUME NEW y, At(a, Answered(a, y)) PROVE DInv'
      <4> DEFINE r == Answered(a, y)
      <4>1. "at" \in DOMAIN r /\ r.at = "confirmed" /\ req' = [req EXCEPT ![a] = r]
        BY <3>4 DEF At, Answered
      <4> HIDE DEF r
      <4> QED
        BY <3>1, <4>1
    <3>5. CASE prepare(a)
      BY <3>2, <3>3, <3>5 DEF prepare, Fail
    <3>6. CASE onConfirmation(a)
      BY <3>2, <3>4, <3>6 DEF onConfirmation
    <3>7. CASE confirm(a)
      BY <3>2, <3>7 DEF confirm, Fail
    <3> QED
      BY <1>6, <3>5, <3>6, <3>7
  <2> QED
    BY <2>1, <2>2
<1> QED
  BY <1>5, <1>6

(* The provider registers: lexica grow, and a name keeps its glyph's name. *)
LEMMA RegisterDInv ==
  ASSUME DInv, UNCHANGED <<config, epoch, bridge, req, ran>>,
         signing' \subseteq Definitions,
         glyphs' = glyphs \/ \E d \in Definitions : Set(d)
  PROVE  DInv'
<1>1. DOMAIN glyphs' = Names /\ \A n \in Names : glyphs'[n] # None => glyphs'[n].name = n
  BY AgentAssumption DEF DInv, ServerInv, Set
<1>2. Served \subseteq Served'
  BY AgentAssumption DEF DInv, ServerInv, Set, Served
<1>3. ServerInv'
  BY <1>1 DEF DInv, ServerInv, Shape, Shown, bridge
<1>4. ASSUME epoch = 0 PROVE Covered'
  BY <1>2, <1>4 DEF DInv, Covered, Covers, Sees, Shown, Lazy, bridge
<1>5. ASSUME epoch = 0 PROVE Known'
  <2>1. CASE ~Eager
    BY <1>5, <2>1 DEF DInv, Known, Eager, bridge
  <2>2. CASE Eager
    <3>1. PICK K \in SUBSET Names : KnownBy(K)
      BY <1>5, <2>2 DEF DInv, Known
    <3>2. ASSUME NEW b \in Requests PROVE Within(K, req[b])'
      <4>1. Within(K, req[b])
        BY <3>1 DEF KnownBy
      <4> QED
        BY <1>2, <4>1 DEF Within, Reaches, Lex, Shown, Comparable, OneToOne
    <3>3. KnownBy(K)'
      BY <1>2, <3>1, <3>2 DEF KnownBy, Lex, Shown, Comparable, Reaches, OneToOne, bridge
    <3> QED
      BY <2>2, <3>3 DEF Known, Eager
  <2> QED
    BY <2>1, <2>2
<1> QED
  BY <1>3, <1>4, <1>5 DEF DInv

(* DInv through every step; a restart ends the process it speaks of.       *)
LEMMA NextDInv == DInv /\ [Next]_vars => DInv'
<1> SUFFICES ASSUME DInv, [Next]_vars PROVE DInv'
  OBVIOUS
<1>1. ASSUME NEW d \in Definitions,
             register(d) \/ registerAsync(d) \/ Signed(d) \/ SignFails(d)
      PROVE  DInv'
  <2>1. signing \subseteq Definitions
    BY DEF DInv, ServerInv
  <2> QED
    BY <1>1, <2>1, RegisterDInv DEF register, registerAsync, Signed, SignFails
<1>2. ASSUME NEW n \in Names, registerManifest(n) PROVE DInv'
  <2>1. signing \subseteq Definitions
    BY DEF DInv, ServerInv
  <2> QED
    BY <1>2, <2>1, RegisterDInv DEF registerManifest
<1>3. CASE Restart
  <2>1. epoch' \in Nat /\ epoch' # 0
    BY <1>3 DEF Restart, DInv, ServerInv
  <2>2. ServerInv'
    BY <1>3, <2>1 DEF Restart, DInv, ServerInv, Nothing, Shape, Shown, bridge
  <2> QED
    BY <2>1, <2>2 DEF DInv
<1>4. ASSUME NEW a \in Requests, Ask(a, "list", None) PROVE DInv'
  BY <1>4, AskDInv
<1>5. ASSUME NEW a \in Requests, NEW said \in Names, Ask(a, "invoke", said) PROVE DInv'
  BY <1>5, AskDInv
<1>6. ASSUME NEW a \in Requests, Request(a) PROVE DInv'
  <2>1. CASE ExchangeFails(a)
    BY <2>1, FailDInv DEF ExchangeFails
  <2> QED
    BY <1>6, <2>1, LexiconDInv, ListDInv, InvokeDInv, CallDInv, LoadDInv, LazyDInv,
       ToolDInv DEF Request
<1>7. CASE UNCHANGED vars
  <2>1. signing \subseteq Definitions
    BY DEF DInv, ServerInv
  <2> QED
    BY <1>7, <2>1, RegisterDInv DEF vars, server
<1> QED
  BY <1>1, <1>2, <1>3, <1>4, <1>5, <1>6, <1>7 DEF Next

(* While one server process lives, a list, an index or a set of tools      *)
(* misses no glyph that the lexicon held when it was first read, and an    *)
(* MCP name the agent was shown reaches the glyph it was shown for,        *)
(* whatever requests overlap and whichever of them fail (ensureIndex,      *)
(* loadCards, sanitizeMcpName and the alias map).                          *)
THEOREM ListsHold == Spec => []ListsAreRight
<1>1. DInv => ListsAreRight
  <2> SUFFICES ASSUME DInv, epoch = 0 PROVE
        /\ \A a \in Requests : req[a].at = "listed" => wanted \subseteq req[a].shown
        /\ \A r \in ran, l \in listed : r.said = l.shown => r.glyph.name = l.name
    BY DEF ListsAreRight
  <2>1. \A a \in Requests : req[a].at = "listed" => wanted \subseteq req[a].shown
    BY DEF DInv, Covered, Covers
  <2>2. ASSUME NEW r \in ran, NEW l \in listed, r.said = l.shown
        PROVE  r.glyph.name = l.name
    <3>1. PICK K \in SUBSET Names : KnownBy(K)
      BY DEF DInv, Known
    <3>2. /\ Reaches(K, r.said, r.glyph.name) /\ l.name \in K /\ l.shown = Safe(l.name)
          /\ OneToOne(K)
      BY <3>1 DEF KnownBy
    <3>3. Safe(r.glyph.name) = Safe(l.name)
      BY <2>2, <3>2, AgentAssumption DEF Reaches
    <3> QED
      BY <3>2, <3>3 DEF Reaches, OneToOne
  <2> QED
    BY <2>1, <2>2
<1> QED
  BY <1>1, InitDInv, NextDInv, PTL DEF Spec
==============================================================================
