------------------------------ MODULE MCRegion ------------------------------
(* Instances of Region for TLC: a branch of two stages, the first of them an  *)
(* agent with a model to escalate to, and a branch of one stage, a tool.      *)
EXTENDS Region, TLC

CONSTANTS s1, s2, s3

Chains == << <<s1, s2>>, <<s3>> >>
Retries == s1 :> 3 @@ s2 :> 0 @@ s3 :> 1
Tools == s1 :> FALSE @@ s2 :> FALSE @@ s3 :> TRUE
Partials == s1 :> FALSE @@ s2 :> TRUE @@ s3 :> FALSE
Every == [partial : BOOLEAN, deadEnds : SUBSET DOMAIN Chains]
\* A first visit, and a later one: in the earlier one, s1 failed when it was tried
\* twice (in a split with allow_partial, or visited by the main loop before the
\* split), and s3 succeeded when it was.
Fresh == [count |-> [s \in DOMAIN Retries |-> 0], key |-> [s \in DOMAIN Retries |-> 0]]
Revisit == [count |-> [Fresh.count EXCEPT ![s1] = 1],
            key |-> [Fresh.key EXCEPT ![s1] = 1, ![s3] = 1]]
Visits == {Fresh, Revisit}
Models == s1 :> 1 @@ s2 :> 0 @@ s3 :> 1
=============================================================================
