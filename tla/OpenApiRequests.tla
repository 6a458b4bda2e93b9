---------------------------- MODULE OpenApiRequests ----------------------------
(***************************************************************************)
(* adapters/openapi/src/index.ts: how the handler of an imported operation *)
(* turns an input into an upstream request, and what the import of a       *)
(* document trusts.                                                        *)
(*                                                                         *)
(* An operation is a record [params, requestBody, security]: a sequence of *)
(* records [name, in], whether it takes a body, and the scheme names it    *)
(* requires, in order.  The context is a record [schemes,                  *)
(* documentSecurity, credentials]: a scheme is a record [type, in, name],  *)
(* a credential its type.  A value is a record [t, fields, items].         *)
(***************************************************************************)
EXTENDS Integers, Sequences, SequencesExt

(* Query and headers are sets of pairs of name and value, cookies are a    *)
(* sequence of such sets, sent in this order; a value says whether the     *)
(* caller or a credential gave it.  Header names are kept as they are      *)
(* spelled; fetch joins the values of two spellings into one header.       *)
Said(x) == <<"caller", x>>
Secret(s) == <<"credential", s>>

SameHeader(m, n) ==
  m = n \/ {m, n} \in {{"Authorization", "authorization"}, {"Cookie", "cookie"}}

SENSITIVE_PARAMS == {"api_key", "token"}

redactUrl(query, extra) ==
  {<<p[1], IF p[1] \in SENSITIVE_PARAMS \cup extra THEN <<"***", "">> ELSE p[2]>> :
     p \in query}

appendQuery(name, v) ==
  CASE v.t = "array"  -> {<<name, Said(v.items[i])>> : i \in DOMAIN v.items}
    [] v.t = "object" -> {<<k, Said(v.fields[k])>> : k \in DOMAIN v.fields}
    [] OTHER          -> {<<name, Said(v.t)>>}

(* The parameters of a place that the input has a value for.  Those of one *)
(* name have one value, so none of them can be lost to another.            *)
Given(op, input, place) ==
  {op.params[i].name : i \in {j \in DOMAIN op.params :
     op.params[j].in = place /\ op.params[j].name \in DOMAIN input}}

Placed(op, input, place) == {<<n, Said(input[n].t)>> : n \in Given(op, input, place)}

Parameters(op, input) ==
  [path    |-> Placed(op, input, "path"),
   query   |-> UNION {appendQuery(n, input[n]) : n \in Given(op, input, "query")},
   headers |-> Placed(op, input, "header"),
   cookies |-> <<Placed(op, input, "cookie")>>,
   body    |-> {Said(input[n].t) : n \in {x \in DOMAIN input :
                                            op.requestBody /\ x = "body"}}]

(* A requirement whose scheme is undeclared, or for which the operator has *)
(* no credential of the scheme's type, is passed over.                     *)
Applies(s, ctx) ==
  /\ s \in DOMAIN ctx.schemes /\ s \in DOMAIN ctx.credentials
  /\ ctx.credentials[s] = ctx.schemes[s].type

(* Where a scheme puts its credential. *)
Slot(s, ctx) ==
  IF ctx.schemes[s].type \in {"bearer", "basic"} THEN <<"header", "Authorization">>
  ELSE <<ctx.schemes[s].in, ctx.schemes[s].name>>

(* The requirements that apply and, of those with one slot, the last. *)
Applied(requirements, ctx) ==
  {i \in DOMAIN requirements : Applies(requirements[i], ctx)}

Final(requirements, ctx) ==
  {i \in Applied(requirements, ctx) :
     \A j \in Applied(requirements, ctx) :
       Slot(requirements[j], ctx) = Slot(requirements[i], ctx) => j <= i}

Credentials(requirements, ctx, which, place) ==
  {<<Slot(requirements[i], ctx)[2], Secret(requirements[i])>> :
     i \in {j \in which : Slot(requirements[j], ctx)[1] = place}}

(* The pairs that no credential takes the place of, and the credentials. *)
Override(pairs, secrets) ==
  {p \in pairs : \A c \in secrets : c[1] # p[1]} \cup secrets

(* A header or a query parameter is set, a cookie is pushed. *)
applySecurity(req, requirements, ctx) ==
  LET final(place) ==
        Credentials(requirements, ctx, Final(requirements, ctx), place)
  IN [req EXCEPT
        !.headers = Override(@, final("header")),
        !.query   = Override(@, final("query")),
        !.cookies = Append(@, Credentials(requirements, ctx,
                                          Applied(requirements, ctx), "cookie"))]

effectiveSecurity(op, ctx) ==
  IF op.security = <<"inherit">> THEN ctx.documentSecurity ELSE op.security

(* The cookies, and the type of a body, become headers in the end, in      *)
(* place of headers of these names.                                        *)
Written(req) ==
  {n \in {"Cookie", "Content-Type"} :
     IF n = "Cookie" THEN UNION ToSet(req.cookies) # {} ELSE req.body # {}}

Finished(req) == [req EXCEPT !.headers = {h \in @ : h[1] \notin Written(req)}]

(* Faulty variant: credentials first, parameters over them. *)
buildHandler_SecurityFirst(op, ctx, input) ==
  LET req  == Parameters(op, input)
      none == [path |-> {}, query |-> {}, headers |-> {}, cookies |-> <<>>, body |-> {}]
      sec  == applySecurity(none, effectiveSecurity(op, ctx), ctx)
  IN [req EXCEPT !.headers = Override(sec.headers, @), !.query = @ \cup sec.query,
                 !.cookies = sec.cookies \o @]

buildHandler(op, ctx, input) ==
  Finished(applySecurity(Parameters(op, input), effectiveSecurity(op, ctx), ctx))

(* Every query scheme of the document, required here or not. *)
querySchemeNames(ctx) ==
  {ctx.schemes[s].name : s \in {x \in DOMAIN ctx.schemes :
     ctx.schemes[x].type = "apiKey" /\ ctx.schemes[x].in = "query"}}

ErrorMessage(req, ctx) == redactUrl(req.query, querySchemeNames(ctx))

(* The values under a name, and under a header's name in any spelling. *)
Under(pairs, name) == {p[2] : p \in {q \in pairs : q[1] = name}}
Joined(headers, name) == {h[2] : h \in {g \in headers : SameHeader(g[1], name)}}

(* The document has a header parameter of that name in another spelling. *)
Respelled(op, name) ==
  \E i \in DOMAIN op.params :
    /\ op.params[i].in = "header" /\ op.params[i].name # name
    /\ SameHeader(op.params[i].name, name)

(* The credentials that an operation requires and the operator configured  *)
(* are sent, and no input of the caller replaces one.  A query parameter   *)
(* or a header of the credential's name holds one credential and nothing   *)
(* of the caller.  There are three ways around it, all of them up to the   *)
(* document and not to the caller:                                         *)
(*   - a cookie parameter of the credential's name is sent too, before the *)
(*     credential: which of the two counts is up to the upstream;          *)
(*   - a header parameter that spells the credential's header otherwise    *)
(*     joins it in fetch;                                                  *)
(*   - a scheme whose header is Cookie or Content-Type is overwritten when *)
(*     the handler has cookies or a body (buildHandler, applySecurity).    *)
CredentialsWin(op, ctx, input) ==
  LET req       == buildHandler(op, ctx, input)
      secrets   == {Secret(s) : s \in DOMAIN ctx.schemes}
      alone(n)  == Respelled(op, n) \/ Joined(req.headers, n) \subseteq secrets
      one(pairs, n) == \E x \in secrets : Under(pairs, n) = {x}
  IN \A s \in ToSet(effectiveSecurity(op, ctx)) : Applies(s, ctx) =>
       LET place == Slot(s, ctx)[1] name == Slot(s, ctx)[2]
       IN CASE place = "header" ->
                 name \in Written(req) \/ (one(req.headers, name) /\ alone(name))
            [] place = "query"  -> one(req.query, name)
            [] place = "cookie" ->
                 /\ \E k \in DOMAIN req.cookies :
                      /\ <<name, Secret(s)>> \in req.cookies[k]
                      /\ \A j \in DOMAIN req.cookies :
                           Under(req.cookies[j], name) \subseteq secrets \/ j < k
                 /\ alone("Cookie")

(* The error of a failed upstream call never shows a credential, whichever *)
(* scheme put it in the URL (querySchemeNames, redactUrl).                 *)
ErrorsHide(op, ctx, input) ==
  \A p \in ErrorMessage(buildHandler(op, ctx, input), ctx) :
    \A s \in DOMAIN ctx.schemes : p[2] # Secret(s)

(* Everything the caller gave for a declared parameter or body reaches the *)
(* upstream in the place the document says, all items of an array and all  *)
(* fields of an object, unless a credential has that name, or it is a      *)
(* header that the handler writes itself.                                  *)
InputsReach(op, ctx, input) ==
  LET req == buildHandler(op, ctx, input)
      sent(pairs, n, x) == \/ <<n, Said(x)>> \in pairs
                           \/ \E s \in DOMAIN ctx.schemes : <<n, Secret(s)>> \in pairs
  IN /\ op.requestBody /\ "body" \in DOMAIN input => Said(input["body"].t) \in req.body
     /\ \A i \in DOMAIN op.params : op.params[i].name \in DOMAIN input =>
          LET p == op.params[i] v == input[p.name]
          IN CASE p.in = "path"   -> <<p.name, Said(v.t)>> \in req.path
               [] p.in = "cookie" -> <<p.name, Said(v.t)>> \in UNION ToSet(req.cookies)
               [] p.in = "header" -> \/ sent(req.headers, p.name, v.t)
                                     \/ p.name \in Written(req)
               [] p.in = "query"  ->
                    CASE v.t = "array"  -> \A j \in DOMAIN v.items :
                                             sent(req.query, p.name, v.items[j])
                      [] v.t = "object" -> \A k \in DOMAIN v.fields :
                                             sent(req.query, k, v.fields[k])
                      [] OTHER          -> sent(req.query, p.name, v.t)
------------------------------------------------------------------------------
(* The import of a document: [server, ops] with the URL of its first       *)
(* server, or "", and operations [method, risk].  An error anywhere aborts *)
(* the whole import, which is the empty sequence.                          *)

RISK_TIERS == {"safe", "caution", "danger"}

deriveCost_openapi(method, override) ==
  LET derivedTier == CASE method = "delete" -> "danger"
                       [] method = "get"    -> "safe"
                       [] OTHER             -> "caution"
      riskTier == IF override = "" THEN derivedTier ELSE override
  IN [sideEffects |-> method # "get", reversible |-> method = "get",
      riskTier |-> riskTier, requiresConfirmation |-> riskTier = "danger"]

(* The URL the document may contribute when the operator gave none. *)
documentBase(server, options, extractHost) ==
  IF ~options.allowDocumentServerUrl \/ server = "" THEN ""
  ELSE IF options.hosts # {} /\ extractHost[server] \notin options.hosts
  THEN "" ELSE server

glyphsFromOpenApi(doc, options, extractHost) ==
  LET base == IF options.baseUrl # "" THEN options.baseUrl
              ELSE documentBase(doc.server, options, extractHost)
      bad  == \E i \in DOMAIN doc.ops :
                doc.ops[i].risk \notin RISK_TIERS \cup {""}
  IN IF base = "" \/ bad THEN <<>>
     ELSE [i \in DOMAIN doc.ops |->
             [method |-> doc.ops[i].method, base |-> base,
              cost |-> deriveCost_openapi(doc.ops[i].method, doc.ops[i].risk),
              idempotent |-> doc.ops[i].method \in {"get", "put", "delete"}]]

(* Whatever a document says of itself, an imported glyph calls the URL the *)
(* operator gave or a host he opted in to, its cost tells whether it       *)
(* changes state, and it asks for confirmation when its tier is danger.    *)
ImportTrusts(doc, options, extractHost) ==
  LET glyphs == glyphsFromOpenApi(doc, options, extractHost)
  IN \A i \in DOMAIN glyphs :
       /\ \/ glyphs[i].base = options.baseUrl
          \/ /\ options.allowDocumentServerUrl /\ options.baseUrl = ""
             /\ options.hosts = {}
                \/ extractHost[glyphs[i].base] \in options.hosts
       /\ glyphs[i].cost.sideEffects = (glyphs[i].method # "get")
       /\ glyphs[i].cost.riskTier \in RISK_TIERS
       /\ glyphs[i].cost.riskTier = "danger"
            <=> glyphs[i].cost.requiresConfirmation
==============================================================================
