------------------------------ MODULE RateLimiter ------------------------------
(***************************************************************************)
(* The fixed-window limiter: rateLimitMiddleware and authMiddleware of     *)
(* packages/server/src/middleware.ts and MemoryRateLimitStore of           *)
(* packages/server/src/stores.ts.                                          *)
(*                                                                         *)
(* hit() runs in the same step as Date.now(), so a request is one action.  *)
(* A token is a bearer token of the request; Verified are the ones the     *)
(* auth verifier accepts.                                                  *)
(***************************************************************************)
EXTENDS Integers, FiniteSets

CONSTANTS
  Tokens, Verified,
  Addresses,       \* remote IPs
  AuthOn,          \* is auth configured?
  WindowMs,        \* config.windowMs, in clock ticks
  Max,             \* config.max
  SweepBatch,      \* expired entries one hit() drops (100)
  TicksPerSecond,  \* clock ticks in the unit of Retry-After
  MaxClock,        \* bound on the clock
  MaxRequests,     \* bound on the requests sent
  None

ASSUME LimiterAssumption ==
  /\ Verified \subseteq Tokens
  /\ AuthOn \in BOOLEAN
  /\ None \notin Tokens \cup Addresses
  /\ Tokens \cap Addresses = {}
  /\ WindowMs \in Nat \ {0} /\ Max \in Nat
  /\ SweepBatch \in Nat \ {0} /\ TicksPerSecond \in Nat \ {0}
  /\ MaxClock \in Nat /\ MaxRequests \in Nat
  /\ None \notin [count : Nat, resetAt : Nat]

VARIABLES
  clock,  \* Date.now()
  hits,   \* MemoryRateLimitStore.hits, by bucket key
  log     \* history: the requests and what became of them

vars == <<clock, hits, log>>

Keys == Tokens \cup Addresses

Request ==
  [number : 1 .. MaxRequests, time : 0 .. MaxClock, token : Tokens \cup {None},
   address : Addresses, answer : {"served", "UNAUTHORIZED", "RATE_LIMITED"},
   retryAfter : Nat]

Init ==
  /\ clock = 0
  /\ hits = [k \in Keys |-> None]
  /\ log = {}

------------------------------------------------------------------------------
(* Without auth there is no verifier, and no token is verified. *)
verifyToken(token) == AuthOn /\ token \in Verified

(* Faulty variant: any token earns a bucket of its own. *)
clientKey_AnyToken(token, address) == IF token # None THEN token ELSE address

(* A verified token earns its own bucket; everything else shares the IP's. *)
clientKey(token, address) == IF verifyToken(token) THEN token ELSE address

Expired(entry) == entry # None /\ clock >= entry.resetAt

(* The entry hit() counts in: a fresh window replaces an expired one. *)
Current(entry) ==
  IF entry = None \/ Expired(entry)
    THEN [count |-> 0, resetAt |-> clock + WindowMs] ELSE entry

(* hit(): sweeps up to SweepBatch expired entries, whichever come first in *)
(* the map, then counts.                                                   *)
hit(key, entry) ==
  LET expired == {k \in Keys : Expired(hits[k])}
  IN  \E gone \in SUBSET expired :
        /\ gone = expired \/ Cardinality(gone) = SweepBatch
        /\ Cardinality(gone) <= SweepBatch
        /\ hits' = [k \in Keys |-> IF k = key THEN entry
                                   ELSE IF k \in gone THEN None ELSE hits[k]]

OverLimit(entry) == entry.count > Max

(* Faulty variant: the delay is rounded down. *)
RetryAfter_Floor(entry) == (entry.resetAt - clock) \div TicksPerSecond

(* Math.ceil((resetAt - now) / 1000) *)
RetryAfter(entry) ==
  (entry.resetAt - clock + TicksPerSecond - 1) \div TicksPerSecond

(* Every route but /health: the limiter, then the auth gate. *)
Receive(token, address) ==
  LET key   == clientKey(token, address)
      was   == Current(hits[key])
      entry == [was EXCEPT !.count = @ + 1]
      over  == OverLimit(entry)
  IN  /\ Cardinality(log) < MaxRequests
      /\ hit(key, entry)
      /\ log' = log \cup
           {[number |-> Cardinality(log) + 1, time |-> clock, token |-> token,
             address |-> address,
             answer |-> IF over THEN "RATE_LIMITED"
                        ELSE IF AuthOn /\ ~verifyToken(token)
                          THEN "UNAUTHORIZED" ELSE "served",
             retryAfter |-> IF over THEN RetryAfter(entry) ELSE 0]}
      /\ UNCHANGED clock

Tick ==
  /\ clock < MaxClock
  /\ clock' = clock + 1
  /\ UNCHANGED <<hits, log>>

Next ==
  \/ \E token \in Tokens \cup {None}, address \in Addresses :
       Receive(token, address)
  \/ Tick

Spec == Init /\ [][Next]_vars

------------------------------------------------------------------------------
(* Properties *)

(* The counters of MemoryRateLimitStore: a window that is counted in has   *)
(* at least one request and ends no later than a whole window from now.    *)
TypeOK ==
  /\ clock \in 0 .. MaxClock
  /\ log \subseteq Request
  /\ hits \in [Keys -> [count : Nat, resetAt : Nat] \cup {None}]
  /\ \A k \in Keys : hits[k] # None =>
       /\ hits[k].count \in 1 .. MaxRequests
       /\ hits[k].resetAt \in 1 .. clock + WindowMs

(* The caller behind a request, as the limiter should see it: the owner of *)
(* a verified token, otherwise the remote address.                         *)
Caller(r) == IF AuthOn /\ r.token \in Verified THEN r.token ELSE r.address

PassedBy(c, from, to) ==
  {r \in log : /\ Caller(r) = c /\ r.answer # "RATE_LIMITED"
               /\ from <= r.time /\ r.time < to}

(* No caller gets more than Max requests past the limiter in its current   *)
(* window, whatever tokens it rotates through and whatever the sweep drops *)
(* (clientKey, hit).                                                       *)
AtMostMaxPerWindow ==
  \A c \in Keys : hits[c] # None =>
    Cardinality(PassedBy(c, hits[c].resetAt - WindowMs, hits[c].resetAt)) <= Max

(* A rejected caller is told to wait, and after that wait its window has   *)
(* run out, so its next request starts a new one (Retry-After).            *)
WaitingIsEnough ==
  [][ \A r \in log' \ log : r.answer = "RATE_LIMITED" =>
        /\ r.retryAfter >= 1
        /\ hits'[Caller(r)].resetAt <= clock + r.retryAfter * TicksPerSecond
    ]_vars
==============================================================================
