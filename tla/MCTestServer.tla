---------------------------- MODULE MCTestServer ----------------------------
(***************************************************************************)
(* Instances of TestServer.tla for TLC.                                    *)
(***************************************************************************)
EXTENDS TestServer, TLC

CONSTANTS red,        \* a team
          ann, bob,   \* two lists of members
          sol         \* a solution

Register(name, members) == [op |-> "register", team |-> name, members |-> members]
Submit(name, solution) == [op |-> "submit", team |-> name, solution |-> solution]
GetBoard == [op |-> "board"]

\* Two registrations of a team that differ about its members, one without
\* members, a submission, one of the empty solution.
Rivals == {Register(red, ann), Register(red, bob), Register(red, Empty),
           Submit(red, sol), Submit(red, Empty), GetBoard}
JustBoard == {GetBoard}

Set(panic, delay, error) == [panic |-> panic, delay |-> delay, error |-> error]

AllOn == {Set("true", "true", "true")}
PanicOnly == {Set("true", "absent", "absent")}

\* Neither the handlers nor the two lists of members differ in what they do.
Symmetric == Permutations(Handlers) \cup Permutations({ann, bob})
=============================================================================
