----------------------------- MODULE TestServer -----------------------------
(***************************************************************************)
(* test-service: the gRPC team server.  Every call is a goroutine          *)
(* (Handlers) that goes through controlInterceptor.Intercept, which reads  *)
(* the three fault switches one after the other, and then through a method *)
(* of truetech.Service.  The methods use the team storage in separate      *)
(* critical sections: a Get, and later perhaps a Put.  The switches are    *)
(* set over HTTP by Operators while calls are running, without a lock.     *)
(*                                                                         *)
(* A client waits 500 ms for its call; the goroutine that serves the call  *)
(* does not look at the deadline and goes on.  A panic in the interceptor  *)
(* ends the process; the container may also run out of its 10 MB.  Docker  *)
(* starts a new process, which has no teams and all switches off.          *)
(***************************************************************************)
EXTENDS Naturals, FiniteSets

CONSTANTS
    Clients,        \* processes that call the server, one call at a time
    Handlers,       \* goroutines of the gRPC server
    Operators,      \* goroutines of the control server
    Requests,       \* what clients send, see RequestType
    Commands,       \* the query parameters of /debug/control, see CommandType
    Names,          \* team names
    Members,        \* lists of members
    Solutions,      \* solutions that are not empty
    Empty,          \* an empty name, list of members, or solution
    None,           \* no team, no request, no call, nobody
    MaxKills        \* bound on the number of times the process is killed

Switches == {"panic", "delay", "error"}

\* A parameter of a command: absent, a boolean, or something else.
CommandType == [Switches -> {"absent", "true", "false", "other"}]

RequestType ==
         [op: {"register"}, team: Names \cup {Empty}, members: Members \cup {Empty}]
    \cup [op: {"submit"}, team: Names \cup {Empty}, solution: Solutions \cup {Empty}]
    \cup [op: {"board"}]

\* model.Team; the score is 0 for ever.
Team == [members: Members, solution: Solutions \cup {Empty}]

Codes == {"OK", "AlreadyExists", "InvalidArgument", "NotFound", "Internal", "Unknown"}

\* The end of a call; the teams of a leaderboard, for the other calls none.
ReplyType == [code: Codes, board: SUBSET Names]

ASSUME ServerAssumption ==
    /\ Requests \subseteq RequestType
    /\ Commands \subseteq CommandType
    /\ Empty \notin Names \cup Members \cup Solutions
    /\ None \notin Team \cup ReplyType
    /\ None \notin RequestType \cup CommandType \cup Handlers
    /\ MaxKills \in Nat

VARIABLES
    up,             \* the process is running
    kills,          \* number of times it was killed so far
    data,           \* InMemory.data
    switch,         \* mustPanic, mustDelay, mustError
    stage, command, \* controlInterceptor.handle: the parameter it is at, its input
    pc, request, team,  \* the handlers: control point, input, local variable team
    reply,          \* what the handler returns: [code, board]
    waiting,        \* waiting[c]: the handler of the call that c waits for
    ordered,        \* history: the last panic value an operator has set
    confirmed,      \* history: teams that a client knows to be registered
    promised,       \* history: promised[h], confirmed when the call was sent
    exposed,        \* history: exposed[h], ordered when the call was sent
    raced           \* history: teams that two RegisterTeam calls found absent at once

control == <<switch, stage, command, ordered>>
calls == <<pc, request, team, reply, promised, exposed>>
vars == <<up, kills, data, switch, stage, command, pc, request, team, reply,
          waiting, ordered, confirmed, promised, exposed, raced>>

Registered == {t \in Names : data[t] # None}

Reply(code) == [code |-> code, board |-> {}]

Init ==
    /\ up = TRUE
    /\ kills = 0
    /\ ordered = FALSE
    /\ data = [t \in Names |-> None]
    /\ switch = [s \in Switches |-> FALSE]
    /\ stage = [o \in Operators |-> "idle"]
    /\ command = [o \in Operators |-> None]
    /\ pc = [h \in Handlers |-> "idle"]
    /\ request = [h \in Handlers |-> None]
    /\ team = [h \in Handlers |-> None]
    /\ reply = [h \in Handlers |-> None]
    /\ waiting = [c \in Clients |-> None]
    /\ confirmed = {}
    /\ promised = [h \in Handlers |-> {}]
    /\ exposed = [h \in Handlers |-> FALSE]
    /\ raced = {}

-----------------------------------------------------------------------------
(* Clients.  A call to a server that is down fails at once, and changes    *)
(* nothing.                                                                *)

Send(c, h, r) ==
    /\ up
    /\ waiting[c] = None
    /\ pc[h] = "idle"
    /\ waiting' = [waiting EXCEPT ![c] = h]
    /\ pc' = [pc EXCEPT ![h] = "panic"]
    /\ request' = [request EXCEPT ![h] = r]
    /\ promised' = [promised EXCEPT ![h] = confirmed]
    /\ exposed' = [exposed EXCEPT ![h] = ordered]
    /\ UNCHANGED <<up, kills, data, control, team, reply, confirmed, raced>>

\* The 500 ms are over.  The goroutine of the call is not told.
Deadline(c) ==
    /\ waiting[c] # None
    /\ waiting' = [waiting EXCEPT ![c] = None]
    /\ UNCHANGED <<up, kills, data, control, calls, confirmed, raced>>

\* The team of a call that is answered with code is registered.
Confirms(r, code) ==
    \/ r.op = "register" /\ code \in {"OK", "AlreadyExists"}
    \/ r.op = "submit" /\ code = "OK"

\* The call returns to the client, if it still waits.
Return(h) ==
    /\ pc[h] = "reply"
    /\ pc' = [pc EXCEPT ![h] = "idle"]
    /\ request' = [request EXCEPT ![h] = None]
    /\ reply' = [reply EXCEPT ![h] = None]
    /\ promised' = [promised EXCEPT ![h] = {}]
    /\ exposed' = [exposed EXCEPT ![h] = FALSE]
    /\ waiting' = [c \in Clients |-> IF waiting[c] = h THEN None ELSE waiting[c]]
    /\ confirmed' =
         IF (\E c \in Clients : waiting[c] = h) /\ Confirms(request[h], reply[h].code)
         THEN confirmed \cup {request[h].team} ELSE confirmed
    /\ UNCHANGED <<up, kills, data, control, team, raced>>

-----------------------------------------------------------------------------
(* The interceptor.  Each switch is read at an instant of its own.         *)

Move(h, from, to) ==
    /\ pc[h] = from
    /\ pc' = [pc EXCEPT ![h] = to]

Unmoved == <<up, kills, control, request, waiting, confirmed, promised, exposed>>

Answer(h, from, a) ==
    /\ Move(h, from, "reply")
    /\ reply' = [reply EXCEPT ![h] = a]
    /\ team' = [team EXCEPT ![h] = None]
    /\ UNCHANGED Unmoved

PassPanic(h) ==
    /\ ~switch["panic"]
    /\ Move(h, "panic", "delay")
    /\ UNCHANGED <<Unmoved, data, team, reply, raced>>

ReadDelay(h) ==
    /\ Move(h, "delay", IF switch["delay"] THEN "sleep" ELSE "error")
    /\ UNCHANGED <<Unmoved, data, team, reply, raced>>

\* A plausible fault: the switch is looked at again after the delay.
SleepAgain(h) ==
    /\ Move(h, "sleep", "delay")
    /\ UNCHANGED <<Unmoved, data, team, reply, raced>>

\* 100 to 999 ms, the deadline of the client among them.
Sleep(h) ==
    /\ Move(h, "sleep", "error")
    /\ UNCHANGED <<Unmoved, data, team, reply, raced>>

PassError(h) ==
    /\ ~switch["error"]
    /\ Move(h, "error", "serve")
    /\ UNCHANGED <<Unmoved, data, team, reply, raced>>

MustError(h) ==
    /\ switch["error"]
    /\ Answer(h, "error", Reply("Internal"))
    /\ UNCHANGED <<data, raced>>

-----------------------------------------------------------------------------
(* RegisterTeam.                                                           *)

Stored(name) == IF name = Empty THEN None ELSE data[name]

Serves(h, op) == pc[h] = "serve" /\ request[h].op = op

Incomplete(r) == r.team = Empty \/ r.members = Empty

RegisterInvalid(h) ==
    /\ Serves(h, "register")
    /\ Incomplete(request[h])
    /\ Answer(h, "serve", Reply("InvalidArgument"))
    /\ UNCHANGED <<data, raced>>

RegisterFound(h) ==
    /\ Serves(h, "register")
    /\ ~Incomplete(request[h])
    /\ Stored(request[h].team) # None
    /\ Answer(h, "serve", Reply("AlreadyExists"))
    /\ UNCHANGED <<data, raced>>

\* Some handler has found the team absent and has not stored it yet.
Registering(name) ==
    \E h \in Handlers : pc[h] = "register" /\ request[h].team = name

\* A plausible fault: the test of found is lost.
RegisterAbsentUnchecked(h) ==
    /\ Serves(h, "register")
    /\ ~Incomplete(request[h])
    /\ Move(h, "serve", "register")
    /\ raced' = IF Registering(request[h].team)
                THEN raced \cup {request[h].team} ELSE raced
    /\ UNCHANGED <<Unmoved, data, team, reply>>

RegisterAbsent(h) ==
    /\ Serves(h, "register")
    /\ ~Incomplete(request[h])
    /\ Stored(request[h].team) = None
    /\ Move(h, "serve", "register")
    /\ raced' = IF Registering(request[h].team)
                THEN raced \cup {request[h].team} ELSE raced
    /\ UNCHANGED <<Unmoved, data, team, reply>>

RegisterPut(h) ==
    /\ Answer(h, "register", Reply("OK"))
    /\ data' = [data EXCEPT ![request[h].team] =
                   [members |-> request[h].members, solution |-> Empty]]
    /\ UNCHANGED raced

-----------------------------------------------------------------------------
(* SubmitSolution.                                                         *)

SubmitAbsent(h) ==
    /\ Serves(h, "submit")
    /\ Stored(request[h].team) = None
    /\ Answer(h, "serve", Reply("NotFound"))
    /\ UNCHANGED <<data, raced>>

\* A plausible fault: the copy is a field of the service, shared by all calls.
SubmitGetShared(h) ==
    /\ Serves(h, "submit")
    /\ Stored(request[h].team) # None
    /\ Move(h, "serve", "submit")
    /\ team' = [g \in Handlers |-> Stored(request[h].team)]
    /\ UNCHANGED <<Unmoved, data, reply, raced>>

\* The team is copied ...
SubmitGet(h) ==
    /\ Serves(h, "submit")
    /\ Stored(request[h].team) # None
    /\ Move(h, "serve", "submit")
    /\ team' = [team EXCEPT ![h] = Stored(request[h].team)]
    /\ UNCHANGED <<Unmoved, data, reply, raced>>

\* A plausible fault: a team of just the solution is stored.
SubmitPutBare(h) ==
    /\ Answer(h, "submit", Reply("OK"))
    /\ data' = [data EXCEPT ![request[h].team] =
                   [members |-> Empty, solution |-> request[h].solution]]
    /\ UNCHANGED raced

\* ... and stored with the solution, whatever has become of it.
SubmitPut(h) ==
    /\ Answer(h, "submit", Reply("OK"))
    /\ data' = [data EXCEPT ![request[h].team] =
                   [team[h] EXCEPT !.solution = request[h].solution]]
    /\ UNCHANGED raced

-----------------------------------------------------------------------------
(* GetLeaderboard.                                                         *)

\* One call in five.
BoardFails(h) ==
    /\ Serves(h, "board")
    /\ Answer(h, "serve", Reply("Unknown"))
    /\ UNCHANGED <<data, raced>>

\* A plausible fault: teams without a solution are left out.
BoardOfSolvers(h) ==
    /\ Serves(h, "board")
    /\ Answer(h, "serve",
              [code |-> "OK", board |-> {t \in Registered : data[t].solution # Empty}])
    /\ UNCHANGED <<data, raced>>

Board(h) ==
    /\ Serves(h, "board")
    /\ Answer(h, "serve", [code |-> "OK", board |-> Registered])
    /\ UNCHANGED <<data, raced>>

-----------------------------------------------------------------------------
(* controlInterceptor.handle: the parameters are applied one by one, and   *)
(* one that does not parse ends the command with what was applied before.  *)

After == [panic |-> "delay", delay |-> "error", error |-> "idle"]

Command(o, cmd) ==
    /\ up
    /\ stage[o] = "idle"
    /\ stage' = [stage EXCEPT ![o] = "panic"]
    /\ command' = [command EXCEPT ![o] = cmd]
    /\ UNCHANGED <<up, kills, data, switch, ordered, calls, waiting, confirmed, raced>>

ApplyParameter(o) ==
    LET s == stage[o]
        param == command[o][s]
        value == IF param = "absent" THEN switch[s] ELSE param = "true"
    IN  /\ s # "idle"
        /\ IF param = "other"
           THEN /\ stage' = [stage EXCEPT ![o] = "idle"]
                /\ UNCHANGED <<switch, ordered>>
           ELSE /\ stage' = [stage EXCEPT ![o] = After[s]]
                /\ switch' = [switch EXCEPT ![s] = value]
                /\ ordered' = IF s = "panic" /\ param # "absent" THEN value ELSE ordered
        /\ command' = [command EXCEPT ![o] = IF stage'[o] = "idle" THEN None ELSE @]
        /\ UNCHANGED <<up, kills, data, calls, waiting, confirmed, raced>>

-----------------------------------------------------------------------------
(* The process.                                                            *)

Die ==
    /\ up
    /\ up' = FALSE
    /\ data' = [t \in Names |-> None]
    /\ switch' = [s \in Switches |-> FALSE]
    /\ stage' = [o \in Operators |-> "idle"]
    /\ command' = [o \in Operators |-> None]
    /\ pc' = [h \in Handlers |-> "idle"]
    /\ request' = [h \in Handlers |-> None]
    /\ team' = [h \in Handlers |-> None]
    /\ reply' = [h \in Handlers |-> None]
    /\ waiting' = [c \in Clients |-> None]
    /\ confirmed' = {}
    /\ promised' = [h \in Handlers |-> {}]
    /\ exposed' = [h \in Handlers |-> FALSE]
    /\ raced' = {}
    /\ UNCHANGED ordered

\* log.Panic in the interceptor; nothing recovers it.
Panic(h) ==
    /\ pc[h] = "panic"
    /\ switch["panic"]
    /\ Die
    /\ UNCHANGED kills

\* Out of memory, or stopped: SIGTERM is caught and ignored, SIGKILL follows.
Kill ==
    /\ kills < MaxKills
    /\ kills' = kills + 1
    /\ Die

Restart ==
    /\ ~up
    /\ up' = TRUE
    /\ UNCHANGED <<kills, data, control, calls, waiting, confirmed, raced>>

Serve(h) ==
    \/ RegisterInvalid(h) \/ RegisterFound(h) \/ RegisterAbsent(h) \/ RegisterPut(h)
    \/ SubmitAbsent(h) \/ SubmitGet(h) \/ SubmitPut(h)
    \/ BoardFails(h) \/ Board(h)

Intercept(h) ==
    \/ Panic(h) \/ PassPanic(h)
    \/ ReadDelay(h) \/ Sleep(h)
    \/ MustError(h) \/ PassError(h)

\* All but what clients send.
Server ==
    \/ \E c \in Clients : Deadline(c)
    \/ \E h \in Handlers : Intercept(h) \/ Serve(h) \/ Return(h)
    \/ \E o \in Operators :
        \/ \E cmd \in Commands : Command(o, cmd)
        \/ ApplyParameter(o)
    \/ Kill
    \/ Restart

Next ==
    \/ \E c \in Clients, h \in Handlers, r \in Requests : Send(c, h, r)
    \/ Server

Spec == Init /\ [][Next]_vars

\* The timer of a client's call fires, goroutines run, docker restarts.
Fairness ==
    /\ WF_vars(Restart)
    /\ \A c \in Clients : WF_vars(Deadline(c))
    /\ \A h \in Handlers : WF_vars(Intercept(h) \/ Serve(h) \/ Return(h))
    /\ \A o \in Operators : WF_vars(ApplyParameter(o))

FairSpec == Spec /\ Fairness

-----------------------------------------------------------------------------
(* Properties.                                                             *)

\* Types of the variables.
TypeOK ==
    /\ up \in BOOLEAN
    /\ kills \in Nat
    /\ data \in [Names -> Team \cup {None}]
    /\ switch \in [Switches -> BOOLEAN]
    /\ stage \in [Operators -> Switches \cup {"idle"}]
    /\ command \in [Operators -> Commands \cup {None}]
    /\ pc \in [Handlers -> {"idle", "panic", "delay", "sleep", "error", "serve",
                            "register", "submit", "reply"}]
    /\ request \in [Handlers -> Requests \cup {None}]
    /\ team \in [Handlers -> Team \cup {None}]
    /\ reply \in [Handlers -> ReplyType \cup {None}]
    /\ waiting \in [Clients -> Handlers \cup {None}]
    /\ ordered \in BOOLEAN
    /\ confirmed \subseteq Names
    /\ promised \in [Handlers -> SUBSET Names]
    /\ exposed \in [Handlers -> BOOLEAN]
    /\ raced \subseteq Names

\* Until the process ends, no call contradicts what a client had been told
\* before the call was sent: a team that is confirmed is not registered again,
\* is not NotFound, and is on every leaderboard.  Late handlers of calls that
\* timed out, and their Puts, make no difference.
RepliesRespectConfirmed ==
    \A h \in Handlers : pc[h] = "reply" =>
        LET r == request[h] IN
        /\ r.op = "register" /\ reply[h].code = "OK" => r.team \notin promised[h]
        /\ reply[h].code = "NotFound" => r.team \notin promised[h]
        /\ r.op = "board" /\ reply[h].code = "OK" => promised[h] \subseteq reply[h].board

\* A call that submits the empty solution for team t stores it now.
StoresNoSolution(t) ==
    \E h \in Handlers :
        /\ pc[h] = "submit" /\ pc'[h] = "reply"
        /\ request[h].team = t /\ request[h].solution = Empty

\* While the process runs, a registered team stays.  It gets other members only
\* if two RegisterTeam calls had both found it absent, and it is without its
\* solution again only after such a race or because a client has submitted the
\* empty solution: a SubmitSolution that is overtaken never restores an older
\* team otherwise.
TeamLostOnlyToRegisterRace ==
    [][up' => \A t \in Registered :
          /\ data'[t] # None
          /\ data'[t].members # data[t].members => t \in raced
          /\ data[t].solution # Empty /\ data'[t].solution = Empty
                => t \in raced \/ StoresNoSolution(t)]_vars

\* Every call that reaches the server ends, by an answer or with the process:
\* neither the switches nor a client that has given up keep a handler for ever.
HandlersEnd == \A h \in Handlers : pc[h] # "idle" ~> pc[h] = "idle"

\* README.md:31: panic=true makes every gRPC request end in a panic.  No call
\* that is sent while this is what the operator ordered last gets an answer.
PanicWhileOrdered ==
    \A h \in Handlers : (exposed[h] /\ ordered) => pc[h] # "reply"
=============================================================================
