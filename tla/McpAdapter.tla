------------------------------ MODULE McpAdapter -------------------------------
(***************************************************************************)
(* adapters/mcp/src/index.ts: the tools of an MCP server become glyphs.    *)
(* The risk of a glyph is derived from the tool's own name and its         *)
(* annotations; consumers only see the kebab-case name.                    *)
(*                                                                         *)
(* A tool name is a sequence of chunks [sep, word]: a lower-case word and  *)
(* what stands before it: "_", "-", ".", "hump" (a capital after a small   *)
(* letter) or "" (nothing that separates, as in an acronym or at the       *)
(* start).                                                                 *)
(***************************************************************************)
EXTENDS Integers, Sequences

DANGEROUS_TOOL_WORDS == {"delete", "write"}

(* The words that stand by themselves once the separators in seps part     *)
(* the name.                                                               *)
Apart(name, seps, i) == i = 1 \/ name[i].sep \in seps

WholeWords(name, seps) ==
  {name[i].word : i \in {k \in DOMAIN name :
     /\ Apart(name, seps, k)
     /\ k = Len(name) \/ Apart(name, seps, k + 1)}}

(* Faulty variant: relies on \b alone, to which "_" is a letter. *)
isDangerousName_NoReplace(name) ==
  WholeWords(name, {"-", ".", "hump"}) \cap DANGEROUS_TOOL_WORDS # {}

(* "_", "-" and humps become spaces; \b parts at any other non-letter. *)
isDangerousName(name) ==
  LET normalized == [i \in DOMAIN name |->
                       IF name[i].sep \in {"_", "-", "hump"}
                       THEN [name[i] EXCEPT !.sep = " "] ELSE name[i]]
  IN WholeWords(normalized, {" ", "."}) \cap DANGEROUS_TOOL_WORDS # {}

(* Humps, then every run of other characters, become one dash; the ends    *)
(* are trimmed.                                                            *)
toKebab(name) ==
  [i \in DOMAIN name |->
     [sep  |-> IF i > 1 /\ name[i].sep \in {"hump", "_", "-", "."} THEN "-" ELSE "",
      word |-> name[i].word]]

deriveCost(name, annotations) ==
  LET dangerousName == isDangerousName(name)
      readOnly      == annotations.readOnlyHint /\ ~dangerousName
      destructive   == annotations.destructiveHint \/ dangerousName
  IN [sideEffects |-> ~readOnly, reversible |-> readOnly,
      riskTier |-> IF destructive THEN "danger"
                   ELSE IF readOnly THEN "safe" ELSE "caution",
      requiresConfirmation |-> destructive]

(* A tool is a record [name, annotations].  More tools than maxTools abort *)
(* the whole import.                                                       *)
glyphsFromMcpTools(tools, maxTools) ==
  IF Len(tools) > maxTools THEN <<>>
  ELSE [i \in DOMAIN tools |->
          [name |-> toKebab(tools[i].name), calls |-> tools[i].name,
           cost |-> deriveCost(tools[i].name, tools[i].annotations)]]

(* A consumer who judges a glyph by the name it shows is not misled: a     *)
(* dangerous word of the kebab-case name always comes with danger and a    *)
(* confirmation, whatever the tool's own spelling and the server's hints   *)
(* (isDangerousName, deriveCost, toKebab).                                 *)
NameShowsRisk(tools, maxTools) ==
  \A i \in DOMAIN glyphsFromMcpTools(tools, maxTools) :
    LET g == glyphsFromMcpTools(tools, maxTools)[i]
    IN /\ WholeWords(g.name, {"-"}) \cap DANGEROUS_TOOL_WORDS # {} =>
            /\ g.cost.riskTier = "danger" /\ g.cost.requiresConfirmation
            /\ g.cost.sideEffects
       /\ g.cost.riskTier = "safe" => ~g.cost.sideEffects
==============================================================================
