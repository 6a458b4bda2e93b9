----------------------------- MODULE PureFunctions -----------------------------
(***************************************************************************)
(* The pure functions that take a document, a name, a query, a request or  *)
(* a server, without recursion into it.  A behaviour chooses one input of  *)
(* one function; the invariants say what the function does with it.        *)
(***************************************************************************)
EXTENDS Canonical, McpAdapter, Resolver, OpenApiRequests, Conformance

CONSTANTS
  Objects,      \* objects to sign: sequences of names
  Imports,      \* OpenAPI documents with the operator's options
  extractHost,  \* the host of each URL that a document may name
  Requests,     \* inputs of imported operations, with operation and context
  ToolLists,    \* tools of an MCP server, with the limit on their number
  Queries,      \* queries of the resolver, with its entries and options
  Servers       \* servers under test, with the options of the suite

Scheme ==
  [type : {"bearer", "basic", "apiKey"}, in : {"", "header", "query", "cookie"},
   name : STRING]

ASSUME InputAssumption ==
  /\ \A s \in Objects :
       /\ s \in Seq(Names) /\ s # <<>>
       /\ \A k \in Signers :
            NoValue \notin {canonicalHash(s), signGlyph(s, k).signature,
                            signReceipt(s, k).signature,
                            signProvidersRegistry(s, k).signature}
  /\ \A r \in Requests :
       /\ r.op.params \in Seq([name : STRING, in : {"path", "query", "header", "cookie"}])
       /\ r.op.security \in Seq(STRING) /\ r.ctx.documentSecurity \in Seq(STRING)
       /\ \A s \in DOMAIN r.ctx.schemes :
            /\ r.ctx.schemes[s] \in Scheme
            /\ r.ctx.schemes[s].type = "apiKey" => r.ctx.schemes[s].in # ""
  /\ \A l \in ToolLists : l.tools \in Seq([name : Seq([sep : STRING, word : STRING]),
       annotations : [readOnlyHint : BOOLEAN, destructiveHint : BOOLEAN]])
  /\ \A q \in Queries :
       /\ q.query \in Seq(STRING)
       /\ q.entries \in Seq([strong : SUBSET STRING, intent : SUBSET STRING])
       /\ q.limit \in Nat /\ q.minScore \in Nat
  /\ \A s \in Servers :
       /\ s.server \in [up : BOOLEAN, lexicon : SUBSET STRING, max : Nat,
            auth : BOOLEAN, manifest : BOOLEAN, keys : BOOLEAN, broken : SUBSET STRING]
       /\ s.options \in [levels : SUBSET ALL_LEVELS, fixtures : SUBSET Fixtures,
                         authToken : BOOLEAN]

VARIABLE input

Is(f) == input.of = f

Init == input = [of |-> "nothing"]

Choose(f, S) == \E x \in S : input' = [of |-> f, arg |-> x]

ChooseObject == Choose("object", Objects)
ChooseImport == Choose("import", Imports)
ChooseRequest == Choose("request", Requests)
ChooseTools == Choose("tools", ToolLists)
ChooseQuery == Choose("query", Queries)
ChooseServer == Choose("server", Servers)

Next ==
  /\ Is("nothing")
  /\ \/ ChooseObject \/ ChooseImport \/ ChooseRequest \/ ChooseTools
     \/ ChooseQuery \/ ChooseServer

Spec == Init /\ [][Next]_input

------------------------------------------------------------------------------
(* Signed cards, receipts and manifests verify wherever they arrive whole, *)
(* in whatever order their keys arrive; and a directory is trusted for its *)
(* pinned issuer only (canonicalize and its copies, discoverProviders).    *)
SignedDocumentsTravel ==
  Is("object") => SignedTravels(input.arg) /\ DirectoryFromRoot(input.arg)

(* The operator stays in charge of an imported API: a document decides     *)
(* neither its host nor its side effects, a caller cannot replace a        *)
(* credential, or join one unless the document declares a cookie of its    *)
(* name or a header of its name in another spelling, an upstream error     *)
(* shows none, and every input reaches the upstream (documentBase,         *)
(* applySecurity, redactUrl, appendQuery).                                 *)
OperatorStaysInCharge ==
  /\ Is("import") => ImportTrusts(input.arg.doc, input.arg.options, extractHost)
  /\ Is("request") =>
       /\ CredentialsWin(input.arg.op, input.arg.ctx, input.arg.given)
       /\ ErrorsHide(input.arg.op, input.arg.ctx, input.arg.given)
       /\ InputsReach(input.arg.op, input.arg.ctx, input.arg.given)

(* A glyph's shown name tells its risk (deriveCost, toKebab). *)
RiskSurvivesRenaming ==
  Is("tools") => NameShowsRisk(input.arg.tools, input.arg.maxTools)

(* The best matches come first and none is lost (GlyphResolver.resolve). *)
BestMatchesFirst ==
  Is("query") => ResolvesBest(input.arg.query, input.arg.entries,
                              input.arg.limit, input.arg.minScore)

(* Servers that answer rightly pass, and only they (runConformance). *)
SuiteVerdictIsRight ==
  Is("server") => /\ PassIsEarned(input.arg.server, input.arg.options)
                  /\ GoodServerPasses(input.arg.server, input.arg.options)
==============================================================================
