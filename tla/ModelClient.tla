------------------------------ MODULE ModelClient ------------------------------
(***************************************************************************)
(* The clients of the language and vision services (core/providers): what  *)
(* each makes of what a service answered, and how often it asks again.      *)
(***************************************************************************)
EXTENDS Naturals

CONSTANTS
  MaxTries,    \* bound on the attempts of one call
  Rpm          \* groq_rpm, gemini_rpm: calls within one window

ASSUME ModelClientAssumption == MaxTries \in Nat \ {0} /\ Rpm \in Nat \ {0}

(* A service answers with usable content, with nothing but its reasoning,   *)
(* with an empty message, with something that is no answer; it is busy      *)
(* (429), down (5xx), unreachable, or refuses (other 4xx).                  *)
Outcomes == {"content", "thought", "empty", "garbled", "busy", "down", "unreachable", "refused"}

Tries(n) == IF n < MaxTries THEN n ELSE MaxTries

(* An empty message is asked for again with twice the budget.  A message of *)
(* reasoning alone is not empty until the reasoning has been taken out.     *)
Text == [tries |-> Tries(5), good |-> {"content", "thought"},
         again |-> {"empty", "garbled", "busy", "down", "unreachable"}]
Groq == [tries |-> Tries(8), good |-> {"content"}, again |-> {"busy", "down", "unreachable"}]
Gemini == [tries |-> Tries(6), good |-> {"content"},
           again |-> {"empty", "busy", "down", "unreachable"}]
Local == [tries |-> 1, good |-> {"content"}, again |-> {}]
Vision == [tries |-> Tries(4), good |-> {"content"}, again |-> {"busy", "down", "unreachable"}]

(* Mutant: the attempt is not counted.                                      *)
Tried_Uncounted(n) == n
Tried(n) == n + 1

(* Asked for the n-th time.                                                 *)
Succeeds(policy, outcome) == outcome \in policy.good
AsksAgain(policy, n, outcome) ==
  ~Succeeds(policy, outcome) /\ outcome \in policy.again /\ n < policy.tries
Fails(policy, n, outcome) == ~Succeeds(policy, outcome) /\ ~AsksAgain(policy, n, outcome)
=============================================================================
