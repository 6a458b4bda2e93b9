----------------------------- MODULE Conformance ------------------------------
(***************************************************************************)
(* packages/conformance: the suite that certifies servers.  A run sends    *)
(* its probes one after the other, and what one of them costs or finds out *)
(* decides about later ones: the rate limit counts them all, the lexicon   *)
(* says which fixtures there are.                                          *)
(*                                                                         *)
(* The server under test is a record [up, lexicon, max, auth, manifest,    *)
(* keys, broken]: the glyphs it lists, the requests its rate limit allows  *)
(* within the run (0: no limit), whether it asks for a token, publishes a  *)
(* manifest and keys, and the checks it would answer wrongly.  The options *)
(* are [levels, fixtures, authToken].                                      *)
(***************************************************************************)
EXTENDS Integers, Sequences

ALL_LEVELS == {"discovery", "execution", "security", "governance"}

PROFILE_LEVELS ==
  [minimal    |-> {"discovery", "execution"},
   secure     |-> {"discovery", "execution", "security"},
   production |-> ALL_LEVELS]

Fixtures == {"echo", "requiresConfirmation", "slow", "invalidOutput"}

BURST == 200

(* One exchange or several that decide about checks, of which the first    *)
(* fails the others with it; needs names the fixture, "glyph" (any) or     *)
(* "" (nothing) without which the checks are skipped, or not reported.     *)
Probe(needs, requests, checks) ==
  [needs |-> needs, requests |-> requests, checks |-> checks]

(* What a run knows: the requests in its rate-limit bucket, ctx.lexiconNames *)
(* and the results so far, a set of [level, check, status].                *)
Start == [sent |-> 0, names |-> {}, results |-> {}]

Record(run, level, check, status) ==
  [run EXCEPT !.results = @ \cup
     {[level |-> level, check |-> check, status |-> status]}]

StatusOf(run, check) == {r.status : r \in {x \in run.results : x.check = check}}

(* The server lets n more requests of the run through both middlewares. *)
http(server, options, run, n) ==
  /\ server.up
  /\ server.auth => options.authToken
  /\ server.max = 0 \/ run.sent + n <= server.max

Available(options, run, needs) ==
  CASE needs = ""      -> TRUE
    [] needs = "glyph" -> run.names # {}
    [] OTHER           -> needs \in options.fixtures \cap run.names

(* What becomes of check i of probe p when the fixture is there. *)
Right(server, options, run, p, i) ==
  /\ http(server, options, run, p.requests)
  /\ p.checks[1] \notin server.broken
  /\ p.checks[i] \notin server.broken

(* The exchange of a probe, with the status of each of its checks. *)
Sent(options, level, run, p, status) ==
  [run EXCEPT
     !.sent = @ + IF Available(options, run, p.needs) THEN p.requests ELSE 0,
     !.results = @ \cup {[level |-> level, check |-> p.checks[i], status |-> status[i]] :
                           i \in DOMAIN p.checks}]

(* Faulty variant: a check whose request failed counts as skipped. *)
send_Lenient(server, options, level, run, p) ==
  Sent(options, level, run, p,
    [i \in DOMAIN p.checks |->
       IF /\ Available(options, run, p.needs)
          /\ Right(server, options, run, p, i) THEN "passed" ELSE "skipped"])

send(server, options, level, run, p) ==
  Sent(options, level, run, p,
    [i \in DOMAIN p.checks |->
       IF ~Available(options, run, p.needs) THEN "skipped"
       ELSE IF Right(server, options, run, p, i) THEN "passed" ELSE "failed"])

(* /health passes both middlewares.  The lexicon is the handshake's, or    *)
(* else the one of GET /lexicon.                                           *)
discoveryLevel(server, options, run) ==
  LET probe(r, p) == send(server, options, "discovery", r, p)
      health == Record(run, "discovery", "health",
                  IF server.up /\ "health" \notin server.broken
                  THEN "passed" ELSE "failed")
      accepted == probe(health, Probe("", 1, <<"handshake.accept">>))
      rejected == probe(accepted, Probe("", 1, <<"handshake.reject">>))
      listed == probe(rejected, Probe("", 1, <<"lexicon">>))
      known == "passed" \in StatusOf(listed, "handshake.accept")
                              \cup StatusOf(listed, "lexicon")
      named == [listed EXCEPT !.names = IF known THEN server.lexicon ELSE {}]
      shaped == probe(named, Probe("glyph", 1, <<"card.shape", "card.signature">>))
      deep == probe(shaped, Probe("", 1, <<"card.depthEnum">>))
  IN probe(deep, Probe("", 1, <<"error.notFound">>))

executionLevel(server, options, run) ==
  LET probe(r, p) == send(server, options, "execution", r, p)
      called == probe(run, Probe("echo", 1, <<"call.success", "call.envelope",
                                    "call.receipt", "call.sanitization">>))
      checked == probe(called, Probe("echo", 1, <<"call.inputValidation">>))
      malformed == probe(checked, Probe("echo", 1, <<"call.malformedJson">>))
  IN probe(malformed, Probe("invalidOutput", 1, <<"call.outputValidation">>))

(* One request without the token: an open server fails.  A server that     *)
(* verifies tokens counts it in another bucket.                            *)
authRequired(server, options, run) ==
  IF ~options.authToken THEN Record(run, "security", "auth.required", "skipped")
  ELSE Record([run EXCEPT !.sent = @ + IF server.auth THEN 0 ELSE 1],
              "security", "auth.required",
              IF server.up /\ server.auth /\ "auth.required" \notin server.broken
              THEN "passed" ELSE "failed")

(* Calls until one is refused, or BURST of them were not. *)
rateLimit(server, options, run) ==
  LET limited == server.max > 0 /\ run.sent + BURST > server.max
  IN IF ~Available(options, run, "echo")
     THEN Record(run, "security", "rateLimit", "skipped")
     ELSE Record([run EXCEPT !.sent = IF limited THEN server.max + 1 ELSE @ + BURST],
                 "security", "rateLimit",
                 IF ~server.up THEN "failed"
                 ELSE IF limited THEN "passed" ELSE "skipped")

securityLevel(server, options, run) ==
  LET probe(r, p) == send(server, options, "security", r, p)
      required == probe(run, Probe("requiresConfirmation", 1, <<"confirmation.required">>))
      invalid == probe(required, Probe("requiresConfirmation", 1, <<"confirmation.invalid">>))
      unlocked == probe(invalid, Probe("requiresConfirmation", 2, <<"confirmation.unlocks">>))
      refused == authRequired(server, options, unlocked)
      timed == probe(refused, Probe("slow", 1, <<"timeout">>))
  IN rateLimit(server, options, timed)

(* An endpoint that may answer 404, which is a skip. *)
optional(server, options, run, needs, exists, check) ==
  IF http(server, options, run, 1) /\ ~exists
  THEN Record([run EXCEPT !.sent = @ + IF Available(options, run, needs) THEN 1 ELSE 0],
              "governance", check, "skipped")
  ELSE send(server, options, "governance", run, Probe(needs, 1, <<check>>))

governanceLevel(server, options, run) ==
  LET depth == send(server, options, "governance", run,
                    Probe("glyph", 3, <<"card.depthIdentity">>))
      manifest == optional(server, options, depth, "glyph", server.manifest, "manifest")
  IN optional(server, options, manifest, "", server.keys, "keyRegistry")

RUNNERS(level, server, options, run) ==
  CASE level = "discovery"  -> discoveryLevel(server, options, run)
    [] level = "execution"  -> executionLevel(server, options, run)
    [] level = "security"   -> securityLevel(server, options, run)
    [] level = "governance" -> governanceLevel(server, options, run)

(* Without the discovery level the lexicon is fetched quietly. *)
quietLexicon(server, options) ==
  IF "discovery" \in options.levels \/ options.levels = {} THEN Start
  ELSE [Start EXCEPT !.sent = 1,
          !.names = IF http(server, options, Start, 1) /\ "lexicon" \notin server.broken
                    THEN server.lexicon ELSE {}]

(* The levels that were asked for, in the order of ALL_LEVELS. *)
Levels(server, options) ==
  LET level(l, run) == IF l \in options.levels
                       THEN RUNNERS(l, server, options, run) ELSE run
      discovered == level("discovery", quietLexicon(server, options))
      executed == level("execution", discovered)
      secured == level("security", executed)
  IN level("governance", secured)

(* The levels passed: those of whose checks none failed. *)
runConformance(server, options) ==
  LET results == Levels(server, options).results
      compatibility == {l \in options.levels :
                          \A r \in results : r.level = l => r.status # "failed"}
  IN [compatibility |-> compatibility, passed |-> compatibility = options.levels,
      results |-> results]

------------------------------------------------------------------------------
(* The checks a server can fail, by level, with what they are about. *)
Judged(server, options) ==
  LET has(f) == f \in options.fixtures \cap server.lexicon
  IN [discovery |-> {"health", "handshake.accept", "handshake.reject", "lexicon",
                     "card.depthEnum", "error.notFound"}
        \cup (IF server.lexicon # {} THEN {"card.shape", "card.signature"} ELSE {}),
      execution |->
        (IF has("echo") THEN {"call.success", "call.envelope", "call.receipt",
           "call.sanitization", "call.inputValidation", "call.malformedJson"} ELSE {})
        \cup (IF has("invalidOutput") THEN {"call.outputValidation"} ELSE {}),
      security |->
        (IF has("requiresConfirmation")
         THEN {"confirmation.required", "confirmation.invalid", "confirmation.unlocks"}
         ELSE {})
        \cup (IF has("slow") THEN {"timeout"} ELSE {})
        \cup (IF options.authToken THEN {"auth.required"} ELSE {}),
      governance |->
        (IF server.lexicon # {} THEN {"card.depthIdentity"} ELSE {})
        \cup (IF server.manifest /\ server.lexicon # {} THEN {"manifest"} ELSE {})
        \cup (IF server.keys THEN {"keyRegistry"} ELSE {})]

(* A run with the discovery level passes only a server that is reachable   *)
(* with the token given and answers rightly every check of the levels that *)
(* its glyphs and the declared fixtures make possible: no failure hides    *)
(* another by having it skipped (runConformance and the four levels).      *)
PassIsEarned(server, options) ==
  "discovery" \in options.levels /\ runConformance(server, options).passed =>
    /\ server.up /\ (server.auth => options.authToken)
    /\ \A l \in options.levels :
         Judged(server, options)[l] \cap server.broken = {}
    /\ options.authToken /\ "security" \in options.levels => server.auth

(* A server that answers everything rightly passes every level, whatever   *)
(* subset of the fixtures it has, if its limit leaves room for the probes: *)
(* 20 requests, and the burst of the security level as well if a level     *)
(* follows it (securityLevel, governanceLevel).                            *)
GoodServerPasses(server, options) ==
  /\ server.up /\ server.broken = {} /\ server.auth = options.authToken
  /\ \/ server.max = 0 \/ server.max >= 20 + BURST
     \/ server.max >= 20 /\ ~({"security", "governance"} \subseteq options.levels
                               /\ "echo" \in options.fixtures \cap server.lexicon)
  => runConformance(server, options).passed
==============================================================================
