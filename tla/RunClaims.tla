----------------------------- MODULE RunClaims -----------------------------
(***************************************************************************)
(* What the documents, an error text and the comments say of a run, where  *)
(* the code does something else.  Each of these properties is refuted by a *)
(* run of its own; RunHistory has the properties the code keeps.           *)
(***************************************************************************)
EXTENDS RunHistory

\* docs/strongdm/attractor/attractor-spec.md:48, "If the process crashes,
\* execution resumes from the last checkpoint": the checkpoints a resumed run
\* saves name no commit, and a second resume refuses them.
CrashIsResumable ==
    pc = "down" /\ checkpoint[pointer] # NoCheckpoint => Loadable(pointer)

\* attractor-spec.md:152, "If true, this node must reach SUCCESS before the
\* pipeline can exit": while a gate is attempted again its status.json is gone,
\* and a resume then takes the gate for a node that was never reached.
GateMustPass ==
    pc = "persist" /\ verdict = "success" /\ e.cur \in Terminal =>
        \A n \in Graph.gates : truth[e.root][n] # NoOutcome => Passing(truth[e.root][n])
=============================================================================
