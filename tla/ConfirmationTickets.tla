------------------------- MODULE ConfirmationTickets -------------------------
(***************************************************************************)
(* What the confirmation flow promises, without routes, stores, clocks or  *)
(* requests: a ticket is issued once, for one glyph and one input; it may  *)
(* be discarded at any time before it is used; at most one run of a glyph  *)
(* is authorised by it, and that run is of the ticket's glyph and input.   *)
(* GlyphServer is shown to implement this specification.                   *)
(***************************************************************************)
CONSTANTS Tokens, Actions, None
  \* Actions: what can be confirmed, a glyph with an input

VARIABLES
  state,   \* life cycle of each token
  action,  \* what the token was issued for
  runs     \* the confirmed runs: a token and the action that ran

vars == <<state, action, runs>>

Init ==
  /\ state = [t \in Tokens |-> "unissued"]
  /\ action = [t \in Tokens |-> None]
  /\ runs = {}

Issue(t, a) ==
  /\ state[t] = "unissued"
  /\ state' = [state EXCEPT ![t] = "live"]
  /\ action' = [action EXCEPT ![t] = a]
  /\ UNCHANGED runs

(* Somebody presents the token: from now on nobody else can. *)
Claim(t) ==
  /\ state[t] = "live"
  /\ state' = [state EXCEPT ![t] = "claimed"]
  /\ UNCHANGED <<action, runs>>

Run(t) ==
  /\ state[t] = "claimed"
  /\ state' = [state EXCEPT ![t] = "spent"]
  /\ runs' = runs \cup {<<t, action[t]>>}
  /\ UNCHANGED action

(* Expiry, a mismatch, a failure or a crash: any set of tickets is lost. *)
Discard(T) ==
  /\ \A t \in T : state[t] \in {"live", "claimed"}
  /\ state' = [t \in Tokens |-> IF t \in T THEN "spent" ELSE state[t]]
  /\ UNCHANGED <<action, runs>>

Next ==
  \/ \E t \in Tokens, a \in Actions : Issue(t, a)
  \/ \E t \in Tokens : Claim(t) \/ Run(t)
  \/ \E T \in SUBSET Tokens : Discard(T)

Spec == Init /\ [][Next]_vars
==============================================================================
