------------------------------ MODULE AgentTools ------------------------------
(***************************************************************************)
(* How an agent reaches glyphs through tools of another protocol: the      *)
(* server's registration and discovery routes (server/src/server.ts,       *)
(* define.ts), the two MCP bridges (adapters/mcp-server) and the four      *)
(* framework packages under integrations.                                  *)
(*                                                                         *)
(* A request of the agent runs from await to await; every await on the     *)
(* Glyph client is one exchange with the server, which may fail.  The      *)
(* gates inside POST /call are those of GlyphServer; here a call reaches   *)
(* its handler or is refused in one step.                                  *)
(***************************************************************************)
EXTENDS Integers, FiniteSets

CONSTANTS
  Names,
  Definitions, \* what the provider registers: name, id, confirm, object
  Safe(_),     \* sanitizeMcpName
  Requests,    \* requests of the agent
  Configs,     \* consumer, client and server options
  Frameworks,  \* the integrations' packages
  MaxRegister, \* bound on registrations in one process
  MaxRestarts, \* bound on restarts of the server
  None

ASSUME AgentAssumption ==
  /\ MaxRegister \in Nat /\ MaxRestarts \in Nat
  /\ \A d \in Definitions : d.name \in Names
  /\ None \notin Names /\ None \notin Definitions
  /\ \A n \in Names : None # [name |-> n, object |-> TRUE]
  /\ \A S \in SUBSET Names : None # S
  /\ Frameworks \cap {"eager", "uncached", "lazy"} = {}
  /\ \A n \in Names : Safe(n) \in Names => Safe(Safe(n)) = Safe(n)

VARIABLES
  config,
  up,        \* did the constructor return?
  epoch,     \* number of the server's restarts
  glyphs,    \* GlyphServer.glyphs
  signing,   \* registerAsync calls that await their signature
  manifests, \* GlyphServer.manifests: the card id each names
  registered,\* number of registrations the process began
  tickets,   \* tokens in the server's store, with the name each was issued for
  replaced,  \* history: cards of this process that a late signature replaced
  cards,     \* the bridge's card cache
  loaded,    \* is the bridge's cache complete (cardCache, indexLoaded)?
  req,       \* the agent's requests
  wanted,    \* history: what the lexicon held when the bridge first read it
  listed,    \* history: MCP names shown to the agent, with their glyph
  ran        \* history: handlers run, with the request and its approval

server == <<up, epoch, glyphs, signing, manifests, registered, tickets, replaced>>
bridge == <<cards, loaded, wanted, listed>>
vars == <<config, server, bridge, req, ran>>

Nothing == [n \in Names |-> None]
Served == {n \in Names : glyphs[n] # None}

------------------------------------------------------------------------------
(* The server's process *)

(* The production guard: missing options throw when strict, which is the   *)
(* default in production, and are a warning otherwise.                     *)
constructor(o) ==
  ~ (o.production /\ o.strict /\ ~(o.auth /\ o.rateLimit /\ o.keyPair))

Init ==
  /\ config \in Configs
  /\ up = constructor(config)
  /\ epoch = 0
  /\ glyphs = Nothing
  /\ signing = {}
  /\ manifests = Nothing
  /\ registered = 0
  /\ tickets = {}
  /\ replaced = {}
  /\ cards = Nothing
  /\ loaded = FALSE
  /\ req = [a \in Requests |-> [at |-> "idle"]]
  /\ wanted = None
  /\ listed = {}
  /\ ran = {}

Set(d) == glyphs' = [glyphs EXCEPT ![d.name] = d]

(* A name that is taken throws; otherwise the card is signed and set. *)
register(d) ==
  /\ up /\ registered < MaxRegister
  /\ glyphs[d.name] = None
  /\ registered' = registered + 1
  /\ Set(d)
  /\ UNCHANGED <<config, up, epoch, signing, manifests, tickets, replaced,
                 bridge, req, ran>>

(* registerAsync checks the name before it awaits the signer. *)
registerAsync(d) ==
  /\ up /\ registered < MaxRegister
  /\ glyphs[d.name] = None /\ d \notin signing
  /\ registered' = registered + 1
  /\ signing' = signing \cup {d}
  /\ UNCHANGED <<config, up, epoch, glyphs, manifests, tickets, replaced,
                 bridge, req, ran>>

(* It does not check again: the name may have been taken meanwhile, and    *)
(* its card is replaced.                                                   *)
Signed(d) ==
  /\ d \in signing
  /\ signing' = signing \ {d}
  /\ Set(d)
  /\ replaced' = replaced \cup ({glyphs[d.name]} \ {None})
  /\ UNCHANGED <<config, up, epoch, manifests, registered, tickets,
                 bridge, req, ran>>

SignFails(d) ==
  /\ d \in signing
  /\ signing' = signing \ {d}
  /\ UNCHANGED <<config, up, epoch, glyphs, manifests, registered,
                 tickets, replaced, bridge, req, ran>>

(* Only for a registered glyph, and always about its current card. *)
registerManifest(n) ==
  /\ up /\ glyphs[n] # None /\ manifests[n] # glyphs[n].id
  /\ manifests' = [manifests EXCEPT ![n] = glyphs[n].id]
  /\ UNCHANGED <<config, up, epoch, glyphs, signing, registered, tickets,
                 replaced, bridge, req, ran>>

(* The process is replaced: glyphs, manifests and, in the default store,   *)
(* tickets were in memory.                                                 *)
Restart ==
  /\ up /\ epoch < MaxRestarts
  /\ epoch' = epoch + 1
  /\ up' = constructor(config)
  /\ glyphs' = Nothing /\ manifests' = Nothing
  /\ signing' = {} /\ tickets' = {} /\ replaced' = {}
  /\ registered' = 0
  /\ UNCHANGED <<config, bridge, req, ran>>

------------------------------------------------------------------------------
(* Discovery: a bridge loads the lexicon and every card of it *)

Eager == config.consumer \in {"eager", "uncached"}
Lazy == config.consumer = "lazy"
Tools == config.consumer \in Frameworks

At(a, r) == req' = [req EXCEPT ![a] = r]
Fail(a) == At(a, [at |-> "failed"])

(* When the last card is there the cache is complete: the eager bridge     *)
(* replaces its pair of maps, the lazy one has filled its map on the way.  *)
Complete(a, todo, got) ==
  IF todo # {}
  THEN /\ At(a, [req[a] EXCEPT !.at = "cards", !.todo = todo, !.got = got])
       /\ UNCHANGED <<cards, loaded>>
  ELSE /\ At(a, [req[a] EXCEPT !.at = "act", !.todo = {}, !.got = got])
       /\ cards' = IF Lazy THEN cards ELSE got
       /\ loaded' = TRUE

(* tools/list, tools/call, a meta-tool, or a tool of a framework.  The     *)
(* agent says any name it can have seen.                                   *)
Ask(a, kind, said) ==
  /\ req[a].at = "idle"
  /\ Tools /\ kind = "invoke" => loaded
  /\ LET cached == loaded /\ config.consumer # "uncached"
                   /\ ~(Tools /\ kind = "list")
     IN At(a, [at |-> IF cached THEN "act" ELSE "lexicon", kind |-> kind,
               said |-> said, todo |-> {}, got |-> IF cached THEN cards ELSE Nothing])
  /\ UNCHANGED <<config, server, bridge, ran>>

Wants == wanted' = IF wanted = None /\ epoch = 0 THEN Served ELSE wanted

(* Faulty variant: the index counts as loaded once the lexicon is there. *)
getLexicon_Early(a) ==
  /\ req[a].at = "lexicon" /\ up
  /\ Wants
  /\ At(a, [req[a] EXCEPT !.at = IF Served = {} THEN "act" ELSE "cards",
                          !.todo = Served])
  /\ loaded' = TRUE
  /\ UNCHANGED <<config, server, cards, listed, ran>>

(* GET /lexicon *)
getLexicon(a) ==
  /\ req[a].at = "lexicon" /\ up
  /\ Wants
  /\ IF Served = {} THEN Complete(a, {}, Nothing)
     ELSE /\ At(a, [req[a] EXCEPT !.at = "cards", !.todo = Served])
          /\ UNCHANGED <<cards, loaded>>
  /\ UNCHANGED <<config, server, listed, ran>>

Collides(got, n) == \E m \in Names : got[m] # None /\ Safe(m) = Safe(n)

(* GET /glyphs/:name, of an eager bridge: two glyphs with one MCP name     *)
(* throw.                                                                  *)
loadCards(a, n) ==
  /\ Eager /\ req[a].at = "cards" /\ n \in req[a].todo /\ up
  /\ IF glyphs[n] = None \/ Collides(req[a].got, n)
     THEN Fail(a) /\ UNCHANGED <<cards, loaded>>
     ELSE Complete(a, req[a].todo \ {n}, [req[a].got EXCEPT ![n] = glyphs[n]])
  /\ UNCHANGED <<config, server, wanted, listed, ran>>

(* The lazy bridge stores every card at once; a failure leaves them there  *)
(* and the next request starts over.                                       *)
ensureIndex(a, n) ==
  /\ Lazy /\ req[a].at = "cards" /\ n \in req[a].todo /\ up
  /\ IF glyphs[n] = None
     THEN Fail(a) /\ UNCHANGED <<cards, loaded>>
     ELSE LET rest == req[a].todo \ {n}
          IN /\ cards' = [cards EXCEPT ![n] = glyphs[n]]
             /\ loaded' = (loaded \/ rest = {})
             /\ At(a, [req[a] EXCEPT !.todo = rest,
                                     !.at = IF rest = {} THEN "act" ELSE "cards"])
  /\ UNCHANGED <<config, server, wanted, listed, ran>>

(* A framework's tool is built with the card's schema, or with an empty    *)
(* one when the card cannot be fetched.                                    *)
buildTool(a, n) ==
  /\ Tools /\ req[a].at = "cards" /\ n \in req[a].todo
  /\ \E d \in {glyphs[n], None} :
       /\ d # None => up
       /\ Complete(a, req[a].todo \ {n},
                   [req[a].got EXCEPT ![n] =
                      IF d = None THEN [name |-> n, object |-> TRUE] ELSE d])
  /\ UNCHANGED <<config, server, wanted, listed, ran>>

(* An exchange fails: the network, a refusal of the server, no server. *)
ExchangeFails(a) ==
  /\ \/ req[a].at \in {"lexicon", "calling", "prepare", "confirmed"}
     \/ req[a].at = "cards" /\ ~Tools
  /\ Fail(a)
  /\ UNCHANGED <<config, server, bridge, ran>>

------------------------------------------------------------------------------
(* The answers *)

Shown(got) == {n \in Names : got[n] # None}

List(a, shown) ==
  /\ req[a].at = "act" /\ req[a].kind = "list"
  /\ At(a, [at |-> "listed", shown |-> shown])

(* tools/list shows every card under its MCP name. *)
answerList(a) ==
  /\ Eager /\ List(a, Shown(req[a].got))
  /\ listed' = listed \cup
       {[shown |-> Safe(n), name |-> n] : n \in Shown(req[a].got)}
  /\ UNCHANGED <<config, server, cards, loaded, wanted, ran>>

(* glyph_index shows the cards that are loaded by now. *)
glyph_index(a) ==
  /\ Lazy /\ List(a, Shown(cards))
  /\ UNCHANGED <<config, server, bridge, ran>>

(* An integration hands its tools to the framework. *)
ToolsBuilt(a) ==
  /\ Tools /\ List(a, Shown(req[a].got))
  /\ UNCHANGED <<config, server, bridge, ran>>

(* The glyph an MCP name stands for; a name without alias is taken as is. *)
original(got, said) ==
  IF \E n \in Shown(got) : Safe(n) = said
  THEN CHOOSE n \in Shown(got) : Safe(n) = said
  ELSE said

Invoke(a, n, allowed, object) ==
  /\ req[a].at = "act" /\ req[a].kind = "invoke"
  /\ IF allowed THEN At(a, [at |-> "calling", name |-> n, said |-> req[a].said,
                            object |-> object])
     ELSE Fail(a)
  /\ UNCHANGED <<config, server, bridge, ran>>

(* tools/call: names without a card, and glyphs whose card, as cached,     *)
(* needs a confirmation, are errors.                                       *)
answerCall(a) ==
  LET n == original(req[a].got, req[a].said)
      card == req[a].got[n]
  IN Eager /\ Invoke(a, n, card # None /\ ~card.confirm, TRUE)

(* glyph_invoke: the same, of the cards loaded by now and by glyph name. *)
glyph_invoke(a) ==
  LET card == cards[req[a].said]
  IN Lazy /\ Invoke(a, req[a].said, card # None /\ ~card.confirm, TRUE)

(* A tool the framework holds goes straight to client.call(). *)
InvokeTool(a) ==
  LET card == req[a].got[req[a].said]
  IN Tools /\ Invoke(a, req[a].said, card # None, card # None => card.object)

(* LlamaIndex takes object schemas only: another schema is wrapped in a    *)
(* property, and so are the arguments the model then sends.                *)
mapToObjectSchema(object) == config.consumer = "llamaindex" /\ ~object

(* The server's inputSchema refuses what the wrapping made of the input.   *)
Accepts(d, a) == ~(mapToObjectSchema(req[a].object) /\ ~d.object)

(* The handler of d runs; shown is the card that the hook approved.        *)
Run(a, d, shown) ==
  ran' = ran \cup {[req |-> a, said |-> req[a].said, glyph |-> d,
                    approved |-> shown, replaced |-> shown \in replaced]}

(* POST /glyphs/:name/call without a token: a glyph that needs none runs   *)
(* if its input is valid.  Of the refusals only CONFIRMATION_REQUIRED can  *)
(* be told apart, and only from an error that carries a code.              *)
call(a) ==
  /\ req[a].at = "calling" /\ up
  /\ LET d == glyphs[req[a].name]
     IN IF req[a].name \notin Served \/ ~Accepts(d, a)
        THEN Fail(a) /\ UNCHANGED ran
        ELSE IF d.confirm
        THEN /\ IF Tools /\ config.coded
                THEN At(a, [req[a] EXCEPT !.at = "prepare"])
                ELSE At(a, [at |-> "unconfirmed"])
             /\ UNCHANGED ran
        ELSE At(a, [at |-> "done"]) /\ Run(a, d, None)
  /\ UNCHANGED <<config, server, bridge>>

(* POST /glyphs/:name/prepare: a token for this name and this request's    *)
(* input, also when the glyph needs none by now.  The hook is asked about  *)
(* the card of the moment: the answer tells its name and cost.             *)
prepare(a) ==
  /\ req[a].at = "prepare" /\ up
  /\ LET d == glyphs[req[a].name]
     IN IF req[a].name \notin Served \/ ~Accepts(d, a)
        THEN Fail(a) /\ UNCHANGED tickets
        ELSE /\ tickets' = tickets \cup {<<a, req[a].name>>}
             /\ At(a, [at |-> "hook", name |-> req[a].name, said |-> req[a].said,
                       object |-> req[a].object, card |-> d])
  /\ UNCHANGED <<config, up, epoch, glyphs, signing, manifests,
                 registered, replaced, bridge, ran>>

Answered(a, answer) ==
  [at |-> "confirmed", name |-> req[a].name, said |-> req[a].said,
   object |-> req[a].object, card |-> req[a].card, yes |-> answer]

(* Anything but true, a hook that throws, and no hook at all, refuse. *)
onConfirmation(a) ==
  /\ req[a].at = "hook"
  /\ \E answer \in (IF config.hook THEN {TRUE, FALSE} ELSE {FALSE}) :
       IF answer THEN At(a, Answered(a, answer))
       ELSE At(a, [at |-> "declined"])
  /\ UNCHANGED <<config, server, bridge, ran>>

Approved(a) == IF req[a].yes THEN req[a].card ELSE None

(* Faulty variant: a token the store does not know is not refused.         *)
confirm_UnknownToken(a) ==
  /\ req[a].at = "confirmed" /\ up
  /\ LET d == glyphs[req[a].name]
     IN IF req[a].name \notin Served \/ ~Accepts(d, a)
        THEN Fail(a) /\ UNCHANGED <<tickets, ran>>
        ELSE /\ tickets' = tickets \ {<<a, req[a].name>>}
             /\ At(a, [at |-> "done"]) /\ Run(a, d, Approved(a))
  /\ UNCHANGED <<config, up, epoch, glyphs, signing, manifests,
                 registered, replaced, bridge>>

(* The second call carries the token.  A glyph that needs a confirmation   *)
(* consumes it and looks at its name and input, not at the card.           *)
confirm(a) ==
  /\ req[a].at = "confirmed" /\ up
  /\ LET d == glyphs[req[a].name]
         token == <<a, req[a].name>>
     IN IF req[a].name \notin Served \/ ~Accepts(d, a)
        THEN Fail(a) /\ UNCHANGED <<tickets, ran>>
        ELSE /\ tickets' = IF d.confirm THEN tickets \ {token} ELSE tickets
             /\ IF d.confirm /\ token \notin tickets
                THEN Fail(a) /\ UNCHANGED ran
                ELSE At(a, [at |-> "done"]) /\ Run(a, d, Approved(a))
  /\ UNCHANGED <<config, up, epoch, glyphs, signing, manifests,
                 registered, replaced, bridge>>

Request(a) ==
  \/ getLexicon(a) \/ ExchangeFails(a)
  \/ answerList(a) \/ glyph_index(a) \/ ToolsBuilt(a)
  \/ answerCall(a) \/ glyph_invoke(a) \/ InvokeTool(a)
  \/ call(a) \/ prepare(a) \/ onConfirmation(a) \/ confirm(a)
  \/ \E n \in Names : loadCards(a, n) \/ ensureIndex(a, n) \/ buildTool(a, n)

Next ==
  \/ \E d \in Definitions :
       register(d) \/ registerAsync(d) \/ Signed(d) \/ SignFails(d)
  \/ \E n \in Names : registerManifest(n)
  \/ Restart
  \/ \E a \in Requests :
       \/ Ask(a, "list", None)
       \/ \E said \in Names : Ask(a, "invoke", said)
       \/ Request(a)

Spec == Init /\ [][Next]_vars

------------------------------------------------------------------------------
(* Properties *)

(* A glyph that needs a confirmation runs for an agent only after the      *)
(* application's hook returned true for a ticket of that name, and never   *)
(* through a bridge: not with a card cached before the glyph needed one,   *)
(* and not when the server was restarted between the ticket and the second *)
(* call.  It runs the very card the hook was shown, unless a registerAsync *)
(* that overlapped another replaced that card in the same process: the     *)
(* ticket holds the name and the input, not the card (makeInvoke, the      *)
(* bridges' gate, server.ts prepare and call).                             *)
OnlyApprovedRuns ==
  \A r \in ran : r.glyph.confirm =>
    /\ r.approved # None
    /\ r.approved.name = r.glyph.name
    /\ r.approved = r.glyph \/ r.replaced

(* What discovery hands to the agent: a list, an index or a set of tools   *)
(* misses no glyph that the lexicon held when it was first read, whatever  *)
(* requests overlapped and whichever of them failed half-way; and what the *)
(* agent says as an MCP name it was shown reaches the glyph it was shown   *)
(* for, while one server process lives (ensureIndex, loadCards,            *)
(* sanitizeMcpName and the alias map).                                     *)
ListsAreRight ==
  epoch = 0 =>
    /\ \A a \in Requests : req[a].at = "listed" => wanted \subseteq req[a].shown
    /\ \A r \in ran, l \in listed : r.said = l.shown => r.glyph.name = l.name

(* "Approval hook invoked when a glyph carries requiresConfirmation: true":*)
(* a tool of an integration that was given a hook does not end with        *)
(* CONFIRMATION_REQUIRED before the hook was asked (makeInvoke,            *)
(* GlyphClient.post).                                                      *)
HookAsked ==
  \A a \in Requests : req[a].at = "unconfirmed" => ~(Tools /\ config.hook)
==============================================================================
