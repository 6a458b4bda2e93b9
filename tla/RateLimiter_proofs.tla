-------------------------- MODULE RateLimiter_proofs --------------------------
(***************************************************************************)
(* The limiter for every number of requests, tokens and addresses, every   *)
(* window, maximum and sweep batch.                                        *)
(*                                                                         *)
(* That a caller passes at most Max times in its window is not inductive:  *)
(* it says nothing of how the counter relates to the requests, nor of what *)
(* a new window starts from.  Counts adds that the counter covers every    *)
(* request of the window that passed, and Past that a caller whose window  *)
(* has run out, or was swept, has no request at the current instant.       *)
(***************************************************************************)
EXTENDS RateLimiter, FiniteSetTheorems, TLAPS

Window(c) == PassedBy(c, hits[c].resetAt - WindowMs, hits[c].resetAt)

(* The history holds finitely many requests, numbered and of the past; one *)
(* of this very instant is from the current window of its caller.          *)
Past ==
  /\ IsFiniteSet(log)
  /\ \A r \in log :
       /\ r.number <= Cardinality(log)
       /\ r.time <= clock
       /\ r.time = clock => /\ hits[Caller(r)] # None
                            /\ clock < hits[Caller(r)].resetAt

(* The counter of a window covers the requests that passed in it, and is   *)
(* covered by all the requests there were.                                 *)
Counts ==
  \A c \in Keys : hits[c] # None =>
    /\ hits[c].count <= Cardinality(log)
    /\ Cardinality(Window(c)) <= hits[c].count
    /\ Cardinality(Window(c)) <= Max

IInv == TypeOK /\ Past /\ Counts

------------------------------------------------------------------------------
(* A verified token is its own bucket and anything else is the address:    *)
(* the bucket of a request is its caller (clientKey).                      *)
LEMMA BucketIsCaller ==
  ASSUME NEW r \in Request
  PROVE  /\ Caller(r) = clientKey(r.token, r.address)
         /\ Caller(r) \in Keys
BY LimiterAssumption DEF Caller, clientKey, verifyToken, Keys, Request

(* A ceiling of a positive quotient is positive and covers it             *)
(* (Retry-After).                                                          *)
LEMMA CeilingCovers ==
  ASSUME NEW x \in Nat, x >= 1
  PROVE  /\ (x + TicksPerSecond - 1) \div TicksPerSecond \in Nat
         /\ (x + TicksPerSecond - 1) \div TicksPerSecond >= 1
         /\ x <= ((x + TicksPerSecond - 1) \div TicksPerSecond) * TicksPerSecond
<1> DEFINE t == TicksPerSecond
           q == (x + t - 1) \div t
<1>1. t \in Nat /\ t >= 1
  BY LimiterAssumption
<1>2. q \in Int /\ t * q <= x + t - 1 /\ x + t - 1 < t * q + t
  BY <1>1, SMTT(30)
<1>3. q >= 1
  BY <1>1, <1>2, SMTT(30)
<1> QED
  BY <1>1, <1>2, <1>3, SMTT(30)

------------------------------------------------------------------------------
(* What hit() counts in: a window that is open now, and whose counter      *)
(* covers the requests that passed in it.                                  *)
LEMMA CurrentWindow ==
  ASSUME IInv, NEW key \in Keys, NEW was, was = Current(hits[key])
  PROVE  LET S == PassedBy(key, was.resetAt - WindowMs, was.resetAt)
         IN  /\ was \in [count : Nat, resetAt : Nat]
             /\ clock < was.resetAt /\ was.resetAt <= clock + WindowMs
             /\ was.count <= Cardinality(log)
             /\ IsFiniteSet(S) /\ Cardinality(S) \in Nat
             /\ Cardinality(S) <= was.count /\ Cardinality(S) <= Max
<1> DEFINE S == PassedBy(key, was.resetAt - WindowMs, was.resetAt)
<1>1. clock \in Nat /\ WindowMs \in Nat \ {0} /\ Max \in Nat
  BY LimiterAssumption DEF IInv, TypeOK
<1>2. IsFiniteSet(log) /\ Cardinality(log) \in Nat
  BY FS_CardinalityType DEF IInv, Past
<1>3. IsFiniteSet(S) /\ Cardinality(S) \in Nat
  <2>1. S \subseteq log
    BY DEF PassedBy
  <2> QED
    BY <2>1, <1>2, FS_Subset, FS_CardinalityType
<1>4. CASE hits[key] # None /\ ~ Expired(hits[key])
  <2>1. was = hits[key]
    BY <1>4 DEF Current
  <2>2. was \in [count : Nat, resetAt : Nat] /\ was.resetAt <= clock + WindowMs
    BY <1>1, <1>4, <2>1 DEF IInv, TypeOK
  <2>3. clock < was.resetAt
    BY <1>1, <1>4, <2>1, <2>2 DEF Expired
  <2>4. /\ was.count <= Cardinality(log)
        /\ Cardinality(S) <= was.count /\ Cardinality(S) <= Max
    BY <1>4, <2>1 DEF IInv, Counts, Window
  <2> QED
    BY <1>3, <2>2, <2>3, <2>4
<1>5. CASE hits[key] = None \/ Expired(hits[key])
  <2>1. was = [count |-> 0, resetAt |-> clock + WindowMs]
    BY <1>5 DEF Current
  <2>2. S = {}
    <3> SUFFICES ASSUME NEW r \in log, Caller(r) = key,
                        was.resetAt - WindowMs <= r.time
                 PROVE  FALSE
      BY DEF PassedBy
    <3>1. r.time \in Nat /\ r.time <= clock
      BY DEF IInv, TypeOK, Past, Request
    <3>2. r.time = clock
      BY <1>1, <2>1, <3>1
    <3>3. hits[key] # None /\ clock < hits[key].resetAt
      BY <3>2 DEF IInv, Past
    <3>4. hits[key].resetAt \in Nat
      BY <3>3 DEF IInv, TypeOK
    <3> QED
      BY <1>1, <1>5, <3>3, <3>4 DEF Expired
  <2>3. Cardinality(S) = 0
    BY <2>2, FS_EmptySet
  <2> QED
    BY <1>1, <1>2, <1>3, <2>1, <2>3
<1> QED
  BY <1>4, <1>5

(* A request keeps the invariant: it is counted in the window of its own   *)
(* caller, and the sweep drops only windows that have run out.             *)
LEMMA ReceiveKeepsIInv ==
  ASSUME IInv, NEW token \in Tokens \cup {None}, NEW address \in Addresses,
         Receive(token, address)
  PROVE  IInv'
<1> DEFINE key   == clientKey(token, address)
           was   == Current(hits[key])
           entry == [was EXCEPT !.count = @ + 1]
           over  == OverLimit(entry)
           n     == Cardinality(log)
           S     == PassedBy(key, was.resetAt - WindowMs, was.resetAt)
           req   == [number |-> n + 1, time |-> clock, token |-> token,
                     address |-> address,
                     answer |-> IF over THEN "RATE_LIMITED"
                                ELSE IF AuthOn /\ ~verifyToken(token)
                                  THEN "UNAUTHORIZED" ELSE "served",
                     retryAfter |-> IF over THEN RetryAfter(entry) ELSE 0]
<1>1. /\ clock \in 0 .. MaxClock /\ WindowMs \in Nat \ {0} /\ Max \in Nat
      /\ MaxClock \in Nat /\ MaxRequests \in Nat /\ log \subseteq Request
  BY LimiterAssumption DEF IInv, TypeOK
<1>2. IsFiniteSet(log) /\ n \in Nat /\ n < MaxRequests
  BY FS_CardinalityType DEF IInv, Past, Receive
<1>3. key \in Keys
  BY LimiterAssumption DEF clientKey, verifyToken, Keys
<1>4. /\ was \in [count : Nat, resetAt : Nat]
      /\ clock < was.resetAt /\ was.resetAt <= clock + WindowMs
      /\ was.count <= n
      /\ IsFiniteSet(S) /\ Cardinality(S) \in Nat
      /\ Cardinality(S) <= was.count /\ Cardinality(S) <= Max
  <2> HIDE DEF key
  <2> QED
    BY <1>3, CurrentWindow
<1>5. PICK gone \in SUBSET {k \in Keys : Expired(hits[k])} :
        hits' = [k \in Keys |-> IF k = key THEN entry
                                ELSE IF k \in gone THEN None ELSE hits[k]]
  BY DEF Receive, hit
<1>6. log' = log \cup {req} /\ clock' = clock
  BY DEF Receive
<1> HIDE DEF key, was
<1>7. /\ entry \in [count : Nat, resetAt : Nat] /\ entry # None
      /\ entry.count = was.count + 1 /\ entry.resetAt = was.resetAt
  BY <1>4, LimiterAssumption
<1>8. over => RetryAfter(entry) \in Nat
  <2>1. entry.resetAt - clock \in Nat /\ entry.resetAt - clock >= 1
    BY <1>1, <1>4, <1>7
  <2> QED
    BY <2>1, CeilingCovers DEF RetryAfter
<1> HIDE DEF entry
<1>9. /\ req \in Request /\ req.number = n + 1 /\ req.time = clock
      /\ req.answer = "RATE_LIMITED" <=> over
  BY <1>1, <1>2, <1>8 DEF Request
<1>10. Caller(req) = key
  BY DEF Caller, key, clientKey, verifyToken
<1> HIDE DEF req
<1>11. req \notin log
  BY <1>2, <1>9 DEF IInv, Past
<1>12. IsFiniteSet(log') /\ Cardinality(log') = n + 1
  BY <1>2, <1>6, <1>11, FS_AddElement
<1>13. \A c \in Keys : c # key /\ hits'[c] # None => hits'[c] = hits[c]
  BY <1>5
<1>14. hits'[key] = entry
  BY <1>3, <1>5
<1>15. TypeOK'
  <2>1. hits' \in [Keys -> [count : Nat, resetAt : Nat] \cup {None}]
    BY <1>5, <1>7 DEF IInv, TypeOK
  <2>2. ASSUME NEW k \in Keys, hits'[k] # None
        PROVE  /\ hits'[k].count \in 1 .. MaxRequests
               /\ hits'[k].resetAt \in 1 .. clock + WindowMs
    <3>1. CASE k = key
      BY <1>1, <1>2, <1>4, <1>7, <1>14, <3>1
    <3>2. CASE k # key
      BY <1>13, <2>2, <3>2 DEF IInv, TypeOK
    <3> QED
      BY <3>1, <3>2
  <2> QED
    BY <1>1, <1>6, <1>9, <2>1, <2>2 DEF TypeOK
<1>16. Past'
  <2> SUFFICES ASSUME NEW r \in log'
               PROVE  /\ r.number <= n + 1
                      /\ r.time <= clock
                      /\ r.time = clock => /\ hits'[Caller(r)] # None
                                           /\ clock < hits'[Caller(r)].resetAt
    BY <1>6, <1>12 DEF Past, Caller
  <2>1. CASE r = req
    BY <1>1, <1>2, <1>4, <1>7, <1>9, <1>10, <1>14, <2>1
  <2>2. CASE r \in log
    <3>1. r.number \in Nat /\ r.number <= n /\ r.time <= clock
      BY <1>1, <2>2 DEF IInv, Past, Request
    <3>2. ASSUME r.time = clock
          PROVE  hits'[Caller(r)] # None /\ clock < hits'[Caller(r)].resetAt
      <4>1. /\ hits[Caller(r)] # None
            /\ clock < hits[Caller(r)].resetAt
        BY <2>2, <3>2 DEF IInv, Past
      <4>2. Caller(r) \in Keys
        BY <1>1, <2>2, BucketIsCaller
      <4>3. hits[Caller(r)].resetAt \in Nat
        BY <4>1, <4>2 DEF IInv, TypeOK
      <4>4. Caller(r) \notin gone
        BY <1>1, <4>1, <4>3 DEF Expired
      <4>5. CASE Caller(r) = key
        BY <1>4, <1>7, <1>14, <4>5
      <4>6. CASE Caller(r) # key
        BY <1>5, <4>1, <4>2, <4>4, <4>6
      <4> QED
        BY <4>5, <4>6
    <3> QED
      BY <1>2, <3>1, <3>2
  <2> QED
    BY <1>6, <2>1, <2>2
<1>17. Counts'
  <2> SUFFICES ASSUME NEW c \in Keys, hits'[c] # None
               PROVE  /\ hits'[c].count <= n + 1
                      /\ Cardinality(Window(c)') <= hits'[c].count
                      /\ Cardinality(Window(c)') <= Max
    BY <1>12 DEF Counts
  <2>1. Window(c)' = {r \in log \cup {req} :
            /\ Caller(r) = c /\ r.answer # "RATE_LIMITED"
            /\ hits'[c].resetAt - WindowMs <= r.time
            /\ r.time < hits'[c].resetAt}
    BY <1>6 DEF Window, PassedBy, Caller
  <2>2. CASE c = key
    <3>1. CASE over
      <4>1. Window(c)' = S
        BY <1>7, <1>9, <1>14, <2>1, <2>2, <3>1 DEF PassedBy
      <4> QED
        BY <1>2, <1>4, <1>7, <1>14, <2>2, <4>1
    <3>2. CASE ~over
      <4>1. Window(c)' = S \cup {req}
        BY <1>1, <1>4, <1>7, <1>9, <1>10, <1>14, <2>1, <2>2, <3>2 DEF PassedBy
      <4>2. Cardinality(Window(c)') = Cardinality(S) + 1
        <5>1. req \notin S
          BY <1>11 DEF PassedBy
        <5> QED
          BY <1>4, <4>1, <5>1, FS_AddElement
      <4>3. was.count + 1 <= Max
        BY <1>1, <1>4, <1>7, <3>2 DEF OverLimit
      <4> QED
        BY <1>1, <1>2, <1>4, <1>7, <1>14, <2>2, <4>2, <4>3
    <3> QED
      BY <3>1, <3>2
  <2>3. CASE c # key
    <3>1. hits'[c] = hits[c] /\ hits[c] # None
      BY <1>13, <2>3
    <3>2. Window(c)' = Window(c)
      BY <1>10, <2>1, <2>3, <3>1 DEF Window, PassedBy
    <3>3. hits[c].count \in Nat
      BY <3>1 DEF IInv, TypeOK
    <3> QED
      BY <1>2, <3>1, <3>2, <3>3 DEF IInv, Counts
  <2> QED
    BY <2>2, <2>3
<1> QED
  BY <1>15, <1>16, <1>17 DEF IInv

(* The clock only leaves requests further behind. *)
LEMMA TickKeepsIInv ==
  ASSUME IInv, Tick
  PROVE  IInv'
<1>1. /\ clock \in Nat /\ MaxClock \in Nat /\ WindowMs \in Nat
      /\ clock < MaxClock /\ clock' = clock + 1
      /\ hits' = hits /\ log' = log
  BY LimiterAssumption DEF IInv, TypeOK, Tick
<1>2. TypeOK'
  <2>1. \A k \in Keys : hits[k] # None =>
          hits[k].resetAt \in 1 .. clock + WindowMs + 1
    BY <1>1 DEF IInv, TypeOK
  <2> QED
    BY <1>1, <2>1 DEF IInv, TypeOK
<1>3. Past'
  <2>1. \A r \in log : r.time \in Nat /\ r.time <= clock
    BY DEF IInv, TypeOK, Past, Request
  <2> QED
    BY <1>1, <2>1 DEF IInv, Past, Caller
<1>4. Counts'
  BY <1>1 DEF IInv, Counts, Window, PassedBy, Caller
<1> QED
  BY <1>2, <1>3, <1>4 DEF IInv

LEMMA InitIInv == Init => IInv
<1> SUFFICES ASSUME Init PROVE IInv
  OBVIOUS
<1>1. TypeOK
  BY LimiterAssumption DEF Init, TypeOK
<1>2. Past
  BY FS_EmptySet DEF Init, Past
<1>3. Counts
  BY DEF Init, Counts
<1> QED
  BY <1>1, <1>2, <1>3 DEF IInv

LEMMA StepKeepsIInv == IInv /\ [Next]_vars => IInv'
<1> SUFFICES ASSUME IInv, [Next]_vars PROVE IInv'
  OBVIOUS
<1>1. ASSUME NEW token \in Tokens \cup {None}, NEW address \in Addresses,
             Receive(token, address)
      PROVE  IInv'
  BY <1>1, ReceiveKeepsIInv
<1>2. CASE Tick
  BY <1>2, TickKeepsIInv
<1>3. CASE UNCHANGED vars
  BY <1>3 DEF vars, IInv, TypeOK, Past, Counts, Window, PassedBy, Caller
<1> QED
  BY <1>1, <1>2, <1>3 DEF Next

LEMMA Invariance == Spec => []IInv
BY InitIInv, StepKeepsIInv, PTL DEF Spec

------------------------------------------------------------------------------
(* The limiter's windows are well formed: a bucket that is counted in has  *)
(* seen a request, and its window ends within one window from now (hit).   *)
THEOREM TypeCorrect == Spec => []TypeOK
<1>1. IInv => TypeOK
  BY DEF IInv
<1> QED
  BY <1>1, Invariance, PTL

(* Rotating tokens, or a bounded sweep that leaves or drops other buckets, *)
(* never lets a caller past the limiter more than Max times in its window  *)
(* (clientKey, MemoryRateLimitStore.hit).                                  *)
THEOREM WindowsHold == Spec => []AtMostMaxPerWindow
<1>1. IInv => AtMostMaxPerWindow
  BY DEF IInv, Counts, Window, AtMostMaxPerWindow
<1> QED
  BY <1>1, Invariance, PTL

(* The announced Retry-After is at least one second, and when it is over   *)
(* the window of the rejected caller has run out (rateLimitMiddleware).    *)
THEOREM AnnouncedWaitSuffices == Spec => WaitingIsEnough
<1> DEFINE Suffices(r) ==
      r.answer = "RATE_LIMITED" =>
        /\ r.retryAfter >= 1
        /\ hits'[Caller(r)].resetAt <= clock + r.retryAfter * TicksPerSecond
<1>1. ASSUME IInv, [Next]_vars
      PROVE  [\A r \in log' \ log : Suffices(r)]_vars
  <2>1. ASSUME NEW token \in Tokens \cup {None}, NEW address \in Addresses,
               Receive(token, address), NEW r \in log' \ log,
               r.answer = "RATE_LIMITED"
        PROVE  /\ r.retryAfter >= 1
               /\ hits'[Caller(r)].resetAt
                     <= clock + r.retryAfter * TicksPerSecond
    <3> DEFINE key   == clientKey(token, address)
               was   == Current(hits[key])
               entry == [was EXCEPT !.count = @ + 1]
    <3>1. key \in Keys
      BY LimiterAssumption DEF clientKey, verifyToken, Keys
    <3>2. clock \in Nat /\ TicksPerSecond \in Nat
      BY <1>1, LimiterAssumption DEF IInv, TypeOK
    <3>3. was \in [count : Nat, resetAt : Nat] /\ clock < was.resetAt
      <4> HIDE DEF key
      <4> QED
        BY <1>1, <3>1, CurrentWindow
    <3>4. hits'[key] = entry
      BY <2>1, <3>1 DEF Receive, hit
    <3>5. Caller(r) = key /\ r.retryAfter = RetryAfter(entry)
      BY <2>1 DEF Receive, Caller, clientKey, verifyToken
    <3> HIDE DEF key, was
    <3>6. entry.resetAt = was.resetAt
      BY <3>3
    <3>7. /\ RetryAfter(entry) \in Nat /\ RetryAfter(entry) >= 1
          /\ entry.resetAt - clock <= RetryAfter(entry) * TicksPerSecond
      <4>1. entry.resetAt - clock \in Nat /\ entry.resetAt - clock >= 1
        BY <3>2, <3>3, <3>6
      <4> QED
        BY <4>1, CeilingCovers DEF RetryAfter
    <3> HIDE DEF entry
    <3>8. RetryAfter(entry) * TicksPerSecond \in Nat /\ entry.resetAt \in Nat
      BY <3>2, <3>3, <3>6, <3>7
    <3> QED
      BY <3>2, <3>4, <3>5, <3>7, <3>8
  <2>2. CASE Tick
    BY <2>2 DEF Tick
  <2>3. CASE UNCHANGED vars
    BY <2>3
  <2> QED
    BY <1>1, <2>1, <2>2, <2>3 DEF Next
<1> QED
  BY <1>1, Invariance, PTL DEF Spec, WaitingIsEnough
==============================================================================
