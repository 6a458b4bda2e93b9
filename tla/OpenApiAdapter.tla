---------------------------- MODULE OpenApiAdapter -----------------------------
(***************************************************************************)
(* adapters/openapi/src/index.ts: the schemas of an OpenAPI document.  The *)
(* input schema a card publishes and the validator the server runs are     *)
(* built side by side from one operation.  OpenApiRequests has the rest.   *)
(*                                                                         *)
(* A document gives every reference that can be looked up its schema.      *)
(***************************************************************************)
EXTENDS JsonSchemas

(* References are replaced by what they point to, anywhere in a schema; a  *)
(* reference met again on its own path, or to nothing, becomes {}.         *)
RECURSIVE resolveRefs_Shallow(_, _, _)
(* Faulty variant: the target of a reference is not resolved itself. *)
resolveRefs_Shallow(node, doc, seen) ==
  IF node.ref # ""
  THEN IF node.ref \in seen \/ node.ref \notin DOMAIN doc THEN AnySchema
       ELSE doc[node.ref]
  ELSE [node EXCEPT
          !.props = [p \in DOMAIN @ |-> resolveRefs_Shallow(@[p], doc, seen)],
          !.items = [i \in DOMAIN @ |-> resolveRefs_Shallow(@[i], doc, seen)]]

RECURSIVE resolveRefs(_, _, _)
resolveRefs(node, doc, seen) ==
  IF node.ref # ""
  THEN IF node.ref \in seen \/ node.ref \notin DOMAIN doc THEN AnySchema
       ELSE resolveRefs(doc[node.ref], doc, seen \cup {node.ref})
  ELSE [node EXCEPT
          !.props = [p \in DOMAIN @ |-> resolveRefs(@[p], doc, seen)],
          !.items = [i \in DOMAIN @ |-> resolveRefs(@[i], doc, seen)]]

------------------------------------------------------------------------------
(* An operation is a record [method, risk, params, body, response,         *)
(* security]: params a sequence of records [name, in, required, schema],   *)
(* body a record [kind, required, schema] of kind "none", "json" or        *)
(* "other", security "inherit" or a set of scheme names.                   *)

(* The last parameter of a name gives its schema; any required one makes   *)
(* the name required; a JSON body takes the name body.                     *)
Declared(op) == {op.params[i].name : i \in DOMAIN op.params}
LastOf(op, n) == op.params[CHOOSE i \in DOMAIN op.params :
                             /\ op.params[i].name = n
                             /\ \A j \in DOMAIN op.params :
                                  op.params[j].name = n => j <= i]

buildInputSchema(op, doc) ==
  LET json == op.body.kind = "json"
  IN [Typed("object") EXCEPT
        !.props = [n \in Declared(op) \cup IF json THEN {"body"} ELSE {} |->
                     IF n = "body" /\ json
                     THEN resolveRefs(op.body.schema, doc, {})
                     ELSE resolveRefs(LastOf(op, n).schema, doc, {})],
        !.required = {op.params[i].name :
                        i \in {j \in DOMAIN op.params : op.params[j].required}}
                     \cup IF json /\ op.body.required THEN {"body"} ELSE {}]

(* Any request body at all takes the name body; one without a JSON schema  *)
(* is unconstrained.                                                       *)
buildZodInput(op, doc) ==
  LET body == op.body.kind # "none"
  IN [Typed("object") EXCEPT
        !.props = [n \in Declared(op) \cup IF body THEN {"body"} ELSE {} |->
                     IF n = "body" /\ body
                     THEN IF op.body.kind = "json"
                          THEN resolveRefs(op.body.schema, doc, {}) ELSE AnySchema
                     ELSE resolveRefs(LastOf(op, n).schema, doc, {})],
        !.required = {n \in Declared(op) : LastOf(op, n).required}
                     \cup IF body /\ op.body.required THEN {"body"} ELSE {}]

(* A reference of an acyclic document means in the card what it means in   *)
(* the document: inlining accepts exactly the values that following the    *)
(* references accepts (resolveRefs, pointerLookup).                        *)
RefsMean(node, doc, values) ==
  \A v \in values :
    SchemaAccepts(resolveRefs(node, doc, {}), <<>>, v)
      = SchemaAccepts(node, doc, v)

(* No call that a card's published input schema allows is refused by the   *)
(* validator the server runs for that card (buildInputSchema,              *)
(* buildZodInput), for recursive documents too.                            *)
CardAllows(op, doc, values) ==
  \A v \in values :
    SchemaAccepts(buildInputSchema(op, doc), <<>>, v)
      => zodAccepts(buildZodInput(op, doc), v)
==============================================================================
