----------------------------- MODULE MCAgentTools -----------------------------
(* The instances of AgentTools that TLC checks.                            *)
EXTENDS AgentTools, TLC

MCNames == {"fs.read", "fs_read", "db"}

(* The only character of these names that MCP does not allow is the dot. *)
MCSafe(n) == IF n = "fs.read" THEN "fs_read" ELSE n

Definition(n, v, confirmed, object) ==
  [name |-> n, id |-> v, confirm |-> confirmed, object |-> object]

(* Two names that MCP cannot tell apart; one name with three definitions,  *)
(* of which two need a confirmation and one takes no object.               *)
MCDefinitions ==
  { Definition("fs.read", 1, FALSE, TRUE), Definition("fs_read", 2, FALSE, TRUE),
    Definition("db", 3, TRUE, TRUE), Definition("db", 4, FALSE, FALSE),
    Definition("db", 5, TRUE, TRUE) }

Config(consumer, coded, hook, production, strict, keyPair) ==
  [consumer |-> consumer, coded |-> coded, hook |-> hook,
   production |-> production, strict |-> strict, auth |-> TRUE,
   rateLimit |-> TRUE, keyPair |-> keyPair]

(* GlyphClient throws errors without a code; clients whose errors carry    *)
(* one are what the integrations are written for.                          *)
MCConfigs ==
  { Config("eager", FALSE, FALSE, TRUE, TRUE, TRUE),
    Config("uncached", FALSE, FALSE, TRUE, FALSE, FALSE),
    Config("lazy", FALSE, FALSE, FALSE, FALSE, FALSE),
    Config("langchain", TRUE, TRUE, TRUE, TRUE, FALSE),
    Config("llamaindex", TRUE, TRUE, FALSE, FALSE, TRUE) }

RealClient == { Config(f, FALSE, TRUE, FALSE, FALSE, TRUE) : f \in Frameworks }

Symmetry == Permutations(Requests)
==============================================================================
