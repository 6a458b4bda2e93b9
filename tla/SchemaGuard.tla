------------------------------ MODULE SchemaGuard ------------------------------
(***************************************************************************)
(* core/src/json-schema-validator.ts: the walk that refuses a schema with  *)
(* too many nodes or too deep before Ajv compiles it.                      *)
(*                                                                         *)
(* A node is a record [object, children]; a scalar has object FALSE.       *)
(* Arrays and objects are walked alike.                                    *)
(***************************************************************************)
EXTENDS Integers, Sequences, FiniteSetsExt, SequencesExt

(* walk(): acc is [nodes, thrown], `thrown' ending everything after it. *)
RECURSIVE walk_LeafDepth(_, _, _, _, _)
(* Faulty variant: looks at the depth before it knows the node is a scalar. *)
walk_LeafDepth(acc, node, depth, maxNodes, maxDepth) ==
  LET count == IF node.object THEN acc.nodes + 1 ELSE acc.nodes
  IN IF acc.thrown THEN acc
     ELSE IF count > maxNodes \/ depth > maxDepth
     THEN [nodes |-> count, thrown |-> TRUE]
     ELSE FoldLeft(LAMBDA a, n : walk_LeafDepth(a, n, depth + 1, maxNodes, maxDepth),
                   [acc EXCEPT !.nodes = count], node.children)

RECURSIVE walk(_, _, _, _, _)
walk(acc, node, depth, maxNodes, maxDepth) ==
  IF acc.thrown \/ ~node.object THEN acc
  ELSE IF acc.nodes + 1 > maxNodes \/ depth > maxDepth
  THEN [nodes |-> acc.nodes + 1, thrown |-> TRUE]
  ELSE FoldLeft(LAMBDA a, n : walk(a, n, depth + 1, maxNodes, maxDepth),
                [acc EXCEPT !.nodes = @ + 1], node.children)

validateSchemaComplexity(schema, maxNodes, maxDepth) ==
  walk([nodes |-> 0, thrown |-> FALSE], schema, 1, maxNodes, maxDepth)

(* compileJsonSchema, up to Ajv itself: what becomes of the schema.        *)
compileJsonSchema(schema, outputValidation, compiles, maxNodes, maxDepth) ==
  IF outputValidation = "none" \/ schema = <<>> THEN "passthrough"
  ELSE IF schema[1].object /\ schema[1].children = <<>> THEN "passthrough"
  ELSE IF validateSchemaComplexity(schema[1], maxNodes, maxDepth).thrown
  THEN "too complex"
  ELSE IF compiles THEN "validator" ELSE "compilation failed"

RECURSIVE CountObjects(_)
CountObjects(node) ==
  IF ~node.object THEN 0
  ELSE FoldLeft(LAMBDA n, c : n + CountObjects(c), 1, node.children)

RECURSIVE Depth(_)
Depth(node) ==
  IF ~node.object THEN 0
  ELSE 1 + Max({0} \cup {Depth(node.children[i]) : i \in DOMAIN node.children})

(* Exactly the schemas with more than maxNodes objects and arrays, or with *)
(* one nested deeper than maxDepth, are refused, with the root at depth 1  *)
(* and scalars free; and the walk never counts past the first node over    *)
(* the limit, so its work is bounded too (validateSchemaComplexity).       *)
GuardIsExact(schema, maxNodes, maxDepth) ==
  LET r == validateSchemaComplexity(schema, maxNodes, maxDepth)
      c == compileJsonSchema(<<schema>>, "schema", TRUE, maxNodes, maxDepth)
      small == CountObjects(schema) <= maxNodes /\ Depth(schema) <= maxDepth
  IN /\ r.thrown = ~small
     /\ r.nodes <= maxNodes + 1
     /\ ~r.thrown => r.nodes = CountObjects(schema)
     /\ c = "validator" => small
     /\ c = "too complex" => ~small
==============================================================================
