----------------------------- MODULE JsonSchemas ------------------------------
(***************************************************************************)
(* What the OpenAPI and the MCP adapter share: JSON Schemas, the values    *)
(* they describe, and the Zod validator both adapters build from a schema  *)
(* (jsonTypeToZod, which each of them has a copy of).                      *)
(*                                                                         *)
(* A schema is a record [ref, type, enum, props, required, items] with ""  *)
(* and {} for what it does not declare; items is a sequence of at most one *)
(* schema.  A JSON value is a record [t, fields, items].  The format of a  *)
(* string is left out: all strings are well formed.                        *)
(***************************************************************************)
EXTENDS Integers, Sequences

AnySchema == [ref |-> "", type |-> "", enum |-> {}, props |-> <<>>, required |-> {},
        items |-> <<>>]
Typed(t) == [AnySchema EXCEPT !.type = t]
Ref(r) == [AnySchema EXCEPT !.ref = r]

HasType(type, t) == type \in {"", t} \/ (type = "number" /\ t = "integer")

(* What a JSON Schema validator says of a value, references followed. *)
RECURSIVE SchemaAccepts(_, _, _)
SchemaAccepts(node, doc, v) ==
  IF node.ref # ""
  THEN node.ref \in DOMAIN doc => SchemaAccepts(doc[node.ref], doc, v)
  ELSE /\ HasType(node.type, v.t)
       /\ node.enum # {} => v.t \in node.enum
       /\ v.t = "object" =>
            /\ node.required \subseteq DOMAIN v.fields
            /\ \A p \in DOMAIN node.props \cap DOMAIN v.fields :
                 SchemaAccepts(node.props[p], doc, v.fields[p])
       /\ v.t = "array" /\ node.items # <<>> =>
            \A i \in DOMAIN v.items : SchemaAccepts(node.items[1], doc, v.items[i])

(* A field that a validator does not constrain may be absent (z.unknown). *)
Unconstrained(node) ==
  node.enum = {} /\ node.type \notin
    {"string", "integer", "number", "boolean", "array", "object"}

(* jsonTypeToZod: the validator of a resolved schema.  An enum decides by  *)
(* itself, and properties are only looked at under type object.            *)
RECURSIVE zodAccepts(_, _)
zodAccepts(node, v) ==
  IF node.enum # {} THEN v.t \in node.enum
  ELSE CASE node.type = "number" -> v.t \in {"integer", "number"}
         [] node.type \in {"string", "integer", "boolean"} -> v.t = node.type
         [] node.type = "array" ->
              /\ v.t = "array"
              /\ node.items # <<>> =>
                   \A i \in DOMAIN v.items : zodAccepts(node.items[1], v.items[i])
         [] node.type = "object" ->
              /\ v.t = "object"
              /\ \A p \in DOMAIN node.props :
                   IF p \in DOMAIN v.fields
                   THEN zodAccepts(node.props[p], v.fields[p])
                   ELSE p \in node.required => Unconstrained(node.props[p])
         [] OTHER -> TRUE

(* The MCP adapter's own copy. *)
jsonTypeToZod_mcp(node, v) == zodAccepts(node, v)

(* A tool that declares no object with properties takes any object. *)
buildZodInput_mcp(schema, v) ==
  IF schema.type = "object" /\ schema.props # <<>>
  THEN jsonTypeToZod_mcp([schema EXCEPT !.enum = {}], v)
  ELSE v.t = "object"

(* The schema of a tool's arguments, which the card publishes as it is;    *)
(* MCP has tools take objects.  The same promise as of OpenAPI cards.      *)
ToolAllows(schema, values) ==
  \A v \in {x \in values : x.t = "object"} :
    SchemaAccepts(schema, <<>>, v) => buildZodInput_mcp(schema, v)
===============================================================================
