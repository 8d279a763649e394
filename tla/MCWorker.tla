------------------------------ MODULE MCWorker ------------------------------
(***************************************************************************)
(* Instances of Worker.tla for TLC.                                        *)
(***************************************************************************)
EXTENDS Worker, TLC

CONSTANTS red, blue,    \* the best team, another one
          ann, bob,     \* their members
          sol           \* the solution

Calls == {RegisterTeam(t, m) : t \in Names, m \in Members}
            \cup {SubmitSolution(t) : t \in Names} \cup {GetLeaderboard}

Set(panic, delay, error) == [panic |-> panic, delay |-> delay, error |-> error]

\* Each switch on; the second command is applied in part only.
Orders == {Set("false", "true", "true"), Set("true", "false", "other")}
NoOrders == {}

\* Handlers do not differ in what they do.
Symmetric == Permutations(Handlers)
=============================================================================
