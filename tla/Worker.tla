------------------------------- MODULE Worker -------------------------------
(***************************************************************************)
(* test-service/internal/client/worker.go: the load client, composed with  *)
(* the server it calls.  A worker keeps a map of teams and, at every tick, *)
(* registers one of them, submits a solution for one of them, or asks for  *)
(* the leaderboard.  It does not remember what it was answered, and every  *)
(* error is logged and forgotten, so the map may hold teams that the       *)
(* server was never told of or has lost in a restart.                      *)
(***************************************************************************)
EXTENDS TestServer

CONSTANTS
    BestTeam,       \* "best-team"
    BestMembers,    \* member-1, member-2, member-3
    BestSolution,   \* "best-solution"
    MaxStops        \* bound on the number of times a client is stopped

VARIABLES
    teams,      \* teams[c]: the map of client c, from names to members or None
    created,    \* history: the members that each team was created with
    stops       \* number of times a client was stopped so far

workerVars == <<teams, created, stops>>
allVars == <<vars, workerVars>>

RegisterTeam(t, m) == [op |-> "register", team |-> t, members |-> m]
SubmitSolution(t) == [op |-> "submit", team |-> t, solution |-> BestSolution]
GetLeaderboard == [op |-> "board"]

ASSUME WorkerAssumption ==
    /\ BestTeam \in Names
    /\ BestMembers \in Members
    /\ BestSolution \in Solutions
    /\ None \notin Members
    /\ MaxStops \in Nat
    /\ \A t \in Names, m \in Members : RegisterTeam(t, m) \in Requests
    /\ \A t \in Names : SubmitSolution(t) \in Requests
    /\ GetLeaderboard \in Requests

\* The map as the program starts with it.
Initially == [t \in Names |-> IF t = BestTeam THEN BestMembers ELSE None]

WorkerInit ==
    /\ Init
    /\ teams = [c \in Clients |-> Initially]
    /\ created = Initially
    /\ stops = 0

-----------------------------------------------------------------------------
(* Worker.do.                                                              *)

\* The call reaches the server.
Sent(c, r) == \E h \in Handlers : Send(c, h, r)

\* The call fails at once: there is no server, or the connection to it is
\* waiting to be tried again.
Unavailable(c) ==
    /\ waiting[c] = None
    /\ UNCHANGED vars

\* A plausible fault: the team has no members yet.
CreateEmpty(c) ==
    /\ \E t \in Names :
        /\ created[t] = None
        /\ teams' = [teams EXCEPT ![c][t] = Empty]
        /\ created' = [created EXCEPT ![t] = Empty]
    /\ UNCHANGED stops

\* A team whose name and member are made of the present time.
Create(c) ==
    /\ \E t \in Names, m \in Members :
        /\ created[t] = None
        /\ \A u \in Names : created[u] # m
        /\ teams' = [teams EXCEPT ![c][t] = m]
        /\ created' = [created EXCEPT ![t] = m]
    /\ UNCHANGED stops

\* A plausible fault: name and members are those of two walks over the map.
RegistrationsMixed(c) ==
    {RegisterTeam(t, teams[c][u]) : t, u \in {n \in Names : teams[c][n] # None}}

\* A plausible fault: the best team is taken to be registered.
RegistrationsOfNew(c) ==
    {RegisterTeam(t, teams[c][t]) :
        t \in {n \in Names : teams[c][n] # None /\ n # BestTeam}}

\* What the worker may register: any team of its map, the new one excepted,
\* which is put in the map later.
Registrations(c) ==
    {RegisterTeam(t, teams[c][t]) : t \in {n \in Names : teams[c][n] # None}}

Register(c, r) ==
    /\ r \in Registrations(c)
    /\ Sent(c, r)
    /\ Create(c) \/ UNCHANGED workerVars

\* The team that comes with a registration is made whether it fails or not.
RegisterUnavailable(c) ==
    /\ Unavailable(c)
    /\ Create(c)

Submit(c, t) ==
    /\ teams[c][t] # None
    /\ Sent(c, SubmitSolution(t))
    /\ UNCHANGED workerVars

Ask(c) ==
    /\ Sent(c, GetLeaderboard)
    /\ UNCHANGED workerVars

\* The client is stopped, its call is over, and docker starts it again.
Stop(c) ==
    /\ stops < MaxStops
    /\ stops' = stops + 1
    /\ teams' = [teams EXCEPT ![c] = Initially]
    /\ Deadline(c) \/ Unavailable(c)
    /\ UNCHANGED created

WorkerNext ==
    \/ \E c \in Clients :
        \/ \E r \in Requests : Register(c, r)
        \/ RegisterUnavailable(c)
        \/ \E t \in Names : Submit(c, t)
        \/ Ask(c)
        \/ Stop(c)
    \/ Server /\ UNCHANGED workerVars

WorkerSpec == WorkerInit /\ [][WorkerNext]_allVars

\* Every tick takes any team of the map, for either call, with a chance that
\* depends on the size of the map alone.
Luck ==
    \A c \in Clients, t \in Names :
        /\ SF_allVars(\E m \in Members : Register(c, RegisterTeam(t, m)))
        /\ SF_allVars(Submit(c, t))

FairWorkerSpec == WorkerSpec /\ Fairness /\ Luck

-----------------------------------------------------------------------------
(* Properties.                                                             *)

\* Types of the variables, those of the server included.
WorkerTypeOK ==
    /\ TypeOK
    /\ teams \in [Clients -> [Names -> Members \cup {None}]]
    /\ created \in [Names -> Members \cup {None}]
    /\ stops \in Nat

\* Whatever calls race, are late, or are repeated after a restart of either
\* side, a team on the server has the members it was created with.
MembersAsCreated ==
    \A t \in Registered : data[t].members = created[t]

\* Nothing disturbs the calls any more.
Calm == up /\ \A s \in Switches : ~switch[s]

Complete(t) ==
    /\ data[t] # None
    /\ data[t].solution = BestSolution

\* The demonstration heals itself: once the server stays up with its switches
\* off, every team of a client comes to be, and to stay, on the server with its
\* solution, whatever the restarts and time-outs before have lost.
Heals ==
    \A c \in Clients, t \in Names :
        <>[](Calm /\ teams[c][t] # None) => <>[]Complete(t)
=============================================================================
