------------------------------ MODULE MCFunctions ------------------------------
(***************************************************************************)
(* The pure functions of the repository over bounded inputs: instances of  *)
(* PureFunctions, and the functions that recur into a text, a schema or a  *)
(* tree.                                                                   *)
(***************************************************************************)
EXTENDS PureFunctions, Sanitizer, OpenApiAdapter, SchemaGuard

CONSTANTS
  MaxText,     \* bound on the length of a text
  MaxObject    \* bound on the keys of an object

------------------------------------------------------------------------------
(* Texts and paths *)

Texts == BoundedSeq(Chars, MaxText)

PathKeys == BoundedSeq({"~", "/", "0", "1"}, 2)
KeyPaths == {<<k>> : k \in PathKeys} \cup {<<j, k>> : j, k \in PathKeys}

ChooseText == Choose("text", Texts)
ChoosePath == Choose("path", KeyPaths)

(* One pass of sanitize() is enough; the Go and the Python SDK depart from *)
(* core in two ways only, the word joiner they strip and the normalised    *)
(* characters they do not count; and no two strings of a value are         *)
(* reported under one path, which is the same path in every SDK            *)
(* (sanitizeString and escapeToken of core, sanitize.go and core.py).      *)
SanitizersAgree ==
  /\ Is("text") => Idempotent(input.arg) /\ SdksSanitize(input.arg)
  /\ Is("path") =>
       /\ \A p \in KeyPaths :
            sanitizePath(p) = sanitizePath(input.arg) => p = input.arg
       /\ sanitizePath_go(input.arg) = sanitizePath(input.arg)
       /\ sanitizePath_py(input.arg) = sanitizePath(input.arg)

------------------------------------------------------------------------------
(* Signed documents *)

(* Names chosen so that the orders in use differ: by UTF-16 code units, by *)
(* code points, and JavaScript's own, which lists array indices first.     *)
MCUnits ==
  [n \in {"!", "9", "10", "01", "a", "ab", "U+FF61", "U+10000"} |->
     CASE n = "!" -> <<33>>   [] n = "9" -> <<57>>  [] n = "10" -> <<49, 48>>
       [] n = "01" -> <<48, 49>> [] n = "a" -> <<97>>  [] n = "ab" -> <<97, 98>>
       [] n = "U+FF61" -> <<65377>> [] n = "U+10000" -> <<55296, 56320>>]
MCNames == DOMAIN MCUnits
MCArrayIndex == [n \in {"9", "10"} |-> IF n = "9" THEN 9 ELSE 10]

MCObjects == {s \in UNION {[1 .. n -> MCNames] : n \in 1 .. MaxObject} :
                IsInjective(s)}

------------------------------------------------------------------------------
(* OpenAPI documents *)

Scalar(t) == [t |-> t, fields |-> <<>>, items |-> <<>>]
ObjectOf(f) == [t |-> "object", fields |-> f, items |-> <<>>]
ArrayOf(s) == [t |-> "array", fields |-> <<>>, items |-> s]

Flat == {Scalar("string"), Scalar("integer"), ObjectOf(<<>>), ArrayOf(<<>>)}
Values ==
  LET once == Flat \cup {ObjectOf([p |-> v]) : v \in Flat}
                   \cup {ArrayOf(<<v>>) : v \in Flat}
  IN once \cup {ObjectOf([p |-> v, q |-> w]) : v, w \in once}
          \cup {ArrayOf(<<v>>) : v \in once}

ObjectSchema(props, required) ==
  [Typed("object") EXCEPT !.props = props, !.required = required]
ArraySchema(items) == [Typed("array") EXCEPT !.items = <<items>>]

Schemas ==
  {Typed("string"), Typed("integer"), Typed("number"), AnySchema, Typed("object"),
   [AnySchema EXCEPT !.enum = {"string"}], Ref("A"), Ref("absent"),
   ArraySchema(Ref("A")), ObjectSchema([p |-> Ref("A"), q |-> Ref("A")], {"p"}),
   ObjectSchema([p |-> Ref("A"), q |-> Ref("B")], {"q"})}

AcyclicDocs ==
  {[A |-> a, B |-> b] :
     a \in {Typed("string"), Ref("B"), ArraySchema(Ref("B")),
            ObjectSchema([p |-> Ref("B")], {"p"})},
     b \in {Typed("integer"), Typed("array"), Ref("absent")}}

CyclicDocs ==
  {[A |-> a, B |-> b] :
     a \in {Ref("B"), ObjectSchema([p |-> Ref("B")], {"p"})},
     b \in {Ref("A"), ArraySchema(Ref("A"))}}

ChooseSchema == Choose("schema", [node : Schemas, doc : AcyclicDocs])

Param(n, in, req, schema) ==
  [name |-> n, in |-> in, required |-> req, schema |-> schema]

Bodies ==
  {b \in [kind : {"none", "json", "other"}, required : BOOLEAN,
          schema : {Typed("string"), Ref("A"), AnySchema}] :
     b.required => b.kind = "json"}

ChooseOperation ==
  \E n \in {"p", "q", "body"}, m \in {"p", "q"}, r, s \in BOOLEAN, body \in Bodies,
     y \in {Typed("string"), Ref("A"), AnySchema} :
    Choose("operation",
      [doc : AcyclicDocs \cup CyclicDocs,
       op  : {[params |-> <<Param(n, "query", r, body.schema), Param(m, "path", s, y)>>,
               body |-> body]}])

ChooseToolInput ==
  Choose("tool input", {n \in Schemas : n.type = "object"} \cup {AnySchema})

Inputs == {ObjectOf(<<>>)}
  \cup {ObjectOf([p |-> v]) : v \in Flat}
  \cup {ObjectOf([p |-> v, q |-> w]) : v, w \in Flat}
  \cup {ObjectOf([p |-> v, q |-> v, body |-> w]) : v, w \in Flat}

(* A card's references mean what the document's do, and what a card allows *)
(* the server accepts (resolveRefs, buildZodInput of both adapters).       *)
CardsMeanTheirDocuments ==
  /\ Is("schema") => RefsMean(input.arg.node, input.arg.doc, Values)
  /\ Is("operation") => CardAllows(input.arg.op, input.arg.doc, Inputs)
  /\ Is("tool input") => ToolAllows(input.arg, Values)

(* extractHost of the servers a document names; one is no URL at all. *)
MCHosts == [s \in {"https://a", "https://b", "/relative", ""} |->
            CASE s = "https://a" -> "a" [] s = "https://b" -> "b" [] OTHER -> ""]

Pairs(S) == {<<a, b>> : a, b \in S}

MCImports ==
  [doc : [server : DOMAIN MCHosts,
          ops : Pairs([method : {"get", "post", "delete"},
                       risk : {"", "safe", "danger", "none"}])],
   options : [baseUrl : {"", "https://a"}, allowDocumentServerUrl : BOOLEAN,
              hosts : SUBSET {"a", ""}]]

(* Requests: two parameters, two schemes; parameters of the credential's   *)
(* name, and headers that fetch or the handler take for another.           *)
Schemes ==
  {[type |-> "bearer", in |-> "", name |-> ""],
   [type |-> "apiKey", in |-> "header", name |-> "x-key"],
   [type |-> "apiKey", in |-> "header", name |-> "Cookie"],
   [type |-> "apiKey", in |-> "query", name |-> "x-key"],
   [type |-> "apiKey", in |-> "query", name |-> "token"],
   [type |-> "apiKey", in |-> "cookie", name |-> "x-key"]}

Arguments == {Scalar("v"), [t |-> "array", fields |-> <<>>, items |-> <<"v", "w">>],
           [t |-> "object", fields |-> [token |-> "v", id |-> "w"],
            items |-> <<>>]}

MCRequests ==
  UNION {
    [op : [params : {<<[name |-> "id", in |-> i], [name |-> m, in |-> j]>>},
           requestBody : BOOLEAN,
           security : {<<"inherit">>, <<>>, <<"s", "t">>, <<"u", "t">>}],
     ctx : {[schemes |-> [s |-> s, t |-> t], documentSecurity |-> <<"t">>,
             credentials |-> [s |-> c, t |-> t.type]] :
              s, t \in Schemes, c \in {"apiKey", "bearer"}},
     given : {[x \in {"id", m, "body"} |->
                 CASE x = "id" -> v [] x = m -> w [] OTHER -> Scalar("v")] :
                v \in {a \in Arguments : a.t # "v" => i = "query"},
                w \in {a \in Arguments : a.t # "v" => j = "query"}}] :
    i \in {"path", "query", "header", "cookie"},
    <<j, m>> \in {"path", "query", "header", "cookie"} \X {"x-key", "Authorization"}
                 \cup {"header"} \X {"authorization", "cookie", "Cookie", "Content-Type"}}

------------------------------------------------------------------------------
(* MCP tools, schemas and queries *)

Chunks == [sep : {"", "_", "-", ".", "hump"}, word : {"delete", "file"}]

MCToolLists ==
  [maxTools : 0 .. 1,
   tools : {<<t>> : t \in
     [name : {<<first>> \o rest : first \in [sep : {"", "_"}, word : {"delete", "file"}],
                                  rest \in BoundedSeq(Chunks, 2)},
      annotations : [readOnlyHint : BOOLEAN, destructiveHint : BOOLEAN]]}]

Leaf == [object |-> FALSE, children |-> <<>>]
Over(nodes) == {Leaf} \cup [object : {TRUE}, children : BoundedSeq(nodes, 2)]
Trees == Over(Over(Over({Leaf})))

ChooseTree == Choose("tree", [tree : Trees, maxNodes : 1 .. 5, maxDepth : 1 .. 3])

(* The limits on a schema are exact (validateSchemaComplexity). *)
ComplexityExact ==
  Is("tree") => GuardIsExact(input.arg.tree, input.arg.maxNodes, input.arg.maxDepth)

EntriesOf == [strong : SUBSET {"pay", "the"}, intent : SUBSET {"pay", "bill"}]

MCQueries ==
  [query : BoundedSeq({"the", "pay", "bill"}, 2), entries : Pairs(EntriesOf),
   limit : 0 .. 2, minScore : {0, 5}]

------------------------------------------------------------------------------
(* Servers under test: right in everything, wrong in one check, or in two  *)
(* of which one could hide the other, or not there at all.                 *)

Checks ==
  LET all == Judged([lexicon |-> Fixtures, manifest |-> TRUE, keys |-> TRUE],
                    [fixtures |-> Fixtures, authToken |-> TRUE])
  IN UNION {all[l] : l \in DOMAIN all}

Wrong == {{}} \cup {{c} : c \in Checks}
  \cup {{"handshake.accept", "lexicon"}, {"call.success", "call.receipt"},
        {"card.shape", "card.signature"}, {"lexicon", "call.malformedJson"}}

MCServers ==
  [server :
     {s \in [up : BOOLEAN, auth : BOOLEAN, manifest : BOOLEAN, keys : BOOLEAN,
             max : {0, 3, 20, 220}, broken : Wrong,
             lexicon : {{}, {"tool"}, {"tool", "echo"}, Fixtures}] :
        (s.up \/ s.broken = {}) /\ s.manifest = s.keys},
   options : [levels : Range(PROFILE_LEVELS) \cup
                         {{}, {"execution"}, {"execution", "governance"}},
              fixtures : {Fixtures}, authToken : BOOLEAN]]

------------------------------------------------------------------------------
MCNext ==
  \/ Next
  \/ /\ Is("nothing")
     /\ \/ ChooseText \/ ChoosePath \/ ChooseSchema \/ ChooseToolInput
        \/ ChooseOperation \/ ChooseTree

MCSpec == Init /\ [][MCNext]_input
==============================================================================
