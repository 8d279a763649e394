---------------------------- MODULE WorkerProofs ----------------------------
(***************************************************************************)
(* Proofs about Worker.tla, for any number of clients, teams and handlers, *)
(* and any number of stops and kills.                                      *)
(*                                                                         *)
(* The workers keep to what TestServer.tla allows its clients, so all that *)
(* is proved of the server holds with them.  The invariant of their own    *)
(* follows the members of a team from the map of a worker (MapInv) through *)
(* the calls under way (CallInv) to the storage (MembersAsCreated).        *)
(***************************************************************************)
EXTENDS Worker, TestServerProofs

MapInv ==
    /\ created[BestTeam] = BestMembers
    /\ \A c \in Clients, t \in Names :
          teams[c][t] # None => teams[c][t] = created[t]

\* A registration names a team and the members it was created with.
AsCreated(r) ==
    r.op = "register" =>
        r.team \in Names /\ created[r.team] # None /\ r.members = created[r.team]

CallInv ==
    \A h \in Handlers :
        /\ pc[h] # "idle" => AsCreated(request[h])
        /\ pc[h] = "submit" => team[h].members = created[TeamOf(h)]

WInv == IInv /\ WorkerTypeOK /\ MapInv /\ CallInv /\ MembersAsCreated

-----------------------------------------------------------------------------
\* What the proofs use of the constants.
LEMMA WorkerFacts ==
  /\ BestTeam \in Names /\ BestMembers \in Members
  /\ None \notin Members
  /\ \A t \in Names, m \in Members : RegisterTeam(t, m) \in Requests
  /\ \A t \in Names : SubmitSolution(t) \in Requests
  /\ GetLeaderboard \in Requests
  BY WorkerAssumption DEF WorkerAssumption

\* Every step of the composition is one of the server, or leaves it alone.
LEMMA WorkerStepsServer == [WorkerNext]_allVars => [Next]_vars
  <1> SUFFICES ASSUME [WorkerNext]_allVars  PROVE  [Next]_vars
    OBVIOUS
  <1>1. ASSUME NEW c \in Clients, NEW r \in Requests, Register(c, r)
        PROVE  [Next]_vars
    BY <1>1 DEF Register, Sent, Next
  <1>2. ASSUME NEW c \in Clients, RegisterUnavailable(c)
        PROVE  [Next]_vars
    BY <1>2 DEF RegisterUnavailable, Unavailable
  <1>3. ASSUME NEW c \in Clients, NEW t \in Names, Submit(c, t)
        PROVE  [Next]_vars
    BY <1>3, WorkerFacts DEF Submit, Sent, Next
  <1>4. ASSUME NEW c \in Clients, Ask(c)
        PROVE  [Next]_vars
    BY <1>4, WorkerFacts DEF Ask, Sent, Next
  <1>5. ASSUME NEW c \in Clients, Stop(c)
        PROVE  [Next]_vars
    BY <1>5 DEF Stop, Unavailable, Next, Server
  <1>6. CASE Server
    BY <1>6 DEF Next
  <1>7. CASE UNCHANGED allVars
    BY <1>7 DEF allVars
  <1>8. QED  BY <1>1, <1>2, <1>3, <1>4, <1>5, <1>6, <1>7 DEF WorkerNext

\* The client that has just started knows its first team only.
LEMMA InitWInv == WorkerInit => WInv
  <1> SUFFICES ASSUME WorkerInit  PROVE  WInv
    OBVIOUS
  <1>1. IInv
    BY InitIInv DEF WorkerInit
  <1>2. WorkerTypeOK
    BY <1>1, WorkerFacts, WorkerAssumption
    DEF WorkerInit, WorkerTypeOK, WorkerAssumption, Initially, IInv
  <1>3. MapInv
    BY WorkerFacts DEF WorkerInit, MapInv, Initially
  <1>4. CallInv /\ MembersAsCreated
    BY DEF WorkerInit, Init, CallInv, MembersAsCreated, Registered
  <1>5. QED  BY <1>1, <1>2, <1>3, <1>4 DEF WInv

-----------------------------------------------------------------------------
(* The workers.                                                            *)

\* The maps change by a team that no map had, and created keeps what it has.
LEMMA CreateStep ==
  ASSUME WInv, NEW c \in Clients, Create(c) \/ UNCHANGED workerVars
  PROVE  /\ teams' \in [Clients -> [Names -> Members \cup {None}]]
         /\ created' \in [Names -> Members \cup {None}]
         /\ stops' \in Nat
         /\ MapInv'
         /\ \A t \in Names : created[t] # None => created'[t] = created[t]
  <1> USE WorkerFacts DEF WInv, WorkerTypeOK, MapInv
  <1>1. CASE UNCHANGED workerVars
    BY <1>1 DEF workerVars
  <1>2. ASSUME NEW t \in Names, NEW m \in Members, created[t] = None,
               teams' = [teams EXCEPT ![c][t] = m],
               created' = [created EXCEPT ![t] = m], stops' = stops
        PROVE  /\ teams' \in [Clients -> [Names -> Members \cup {None}]]
               /\ created' \in [Names -> Members \cup {None}]
               /\ stops' \in Nat
               /\ MapInv'
               /\ \A u \in Names : created[u] # None => created'[u] = created[u]
    <2>1. \A d \in Clients : teams[d][t] = None
      BY <1>2
    <2>2. \A d \in Clients, u \in Names :
              teams'[d][u] # None => teams'[d][u] = created'[u]
      BY <1>2, <2>1
    <2>3. QED  BY <1>2, <2>2
  <1>3. QED  BY <1>1, <1>2 DEF Create

\* A worker's step that sends a call, or none, and creates a team, or none.
LEMMA WorkerStep ==
  ASSUME WInv, NEW c \in Clients, Create(c) \/ UNCHANGED workerVars,
         \/ UNCHANGED vars
         \/ \E h \in Handlers, r \in Requests : Send(c, h, r) /\ AsCreated(r)
  PROVE  WInv'
  <1>1. IInv'
    BY NextIInv DEF WInv, Next
  <1>2. /\ teams' \in [Clients -> [Names -> Members \cup {None}]]
        /\ created' \in [Names -> Members \cup {None}]
        /\ stops' \in Nat
        /\ MapInv'
        /\ \A t \in Names : created[t] # None => created'[t] = created[t]
    BY CreateStep
  <1>3. WorkerTypeOK'
    BY <1>1, <1>2 DEF WorkerTypeOK, IInv
  <1>4. data' = data /\ team' = team
    BY DEF Send, vars
  <1>5. \A t \in Registered : created[t] # None
    BY WorkerFacts DEF WInv, IInv, TypeOK, MembersAsCreated, Registered, Team
  <1>6. MembersAsCreated'
    BY <1>2, <1>4, <1>5 DEF WInv, MembersAsCreated, Registered
  <1>7. \A r \in Requests : AsCreated(r) => AsCreated(r)'
    BY <1>2 DEF AsCreated
  <1>8. ASSUME NEW h \in Handlers
        PROVE  /\ pc'[h] # "idle" => AsCreated(request[h])'
               /\ pc'[h] = "submit" => team'[h].members = created'[request'[h].team]
    <2>1. CASE pc'[h] = pc[h] /\ request'[h] = request[h]
      <3>1. pc[h] # "idle" => request[h] \in Requests
        BY DEF WInv, IInv, HandlerInv
      <3>2. pc[h] = "submit" =>
                /\ TeamOf(h) \in Registered
                /\ team[h].members = created[TeamOf(h)]
        BY DEF WInv, IInv, HandlerInv, CallInv, Registered
      <3>3. pc'[h] # "idle" => AsCreated(request[h])'
        BY <2>1, <3>1, <1>7 DEF AsCreated, WInv, CallInv
      <3>4. pc'[h] = "submit" => team'[h].members = created'[request'[h].team]
        BY <2>1, <3>2, <1>2, <1>4, <1>5 DEF TeamOf, Registered
      <3>5. QED  BY <3>3, <3>4
    <2>2. CASE ~(pc'[h] = pc[h] /\ request'[h] = request[h])
      <3>1. pc'[h] = "panic" /\ request'[h] \in Requests /\ AsCreated(request'[h])
        BY <2>2 DEF Send, vars, WInv, IInv, TypeOK
      <3>2. QED  BY <3>1, <1>2 DEF AsCreated
    <2>3. QED  BY <2>1, <2>2
  <1>9. CallInv'
    BY <1>8 DEF CallInv, TeamOf
  <1>10. QED  BY <1>1, <1>2, <1>3, <1>6, <1>9 DEF WInv

\* The ticks of a worker.
LEMMA WorkerSteps ==
  ASSUME WInv, NEW c \in Clients,
         \/ \E r \in Requests : Register(c, r)
         \/ RegisterUnavailable(c)
         \/ \E t \in Names : Submit(c, t)
         \/ Ask(c)
  PROVE  WInv'
  <1>1. ASSUME NEW r \in Requests, Register(c, r)
        PROVE  WInv'
    <2>1. AsCreated(r)
      BY <1>1 DEF Register, Registrations, RegisterTeam, AsCreated, WInv, MapInv
    <2>2. QED  BY <1>1, <2>1, WorkerStep DEF Register, Sent
  <1>2. CASE RegisterUnavailable(c)
    BY <1>2, WorkerStep DEF RegisterUnavailable, Unavailable
  <1>3. ASSUME NEW t \in Names, Submit(c, t)
        PROVE  WInv'
    <2>1. SubmitSolution(t) \in Requests /\ AsCreated(SubmitSolution(t))
      BY WorkerFacts DEF SubmitSolution, AsCreated
    <2>2. QED  BY <1>3, <2>1, WorkerStep DEF Submit, Sent
  <1>4. CASE Ask(c)
    <2>1. GetLeaderboard \in Requests /\ AsCreated(GetLeaderboard)
      BY WorkerFacts DEF GetLeaderboard, AsCreated
    <2>2. QED  BY <1>4, <2>1, WorkerStep DEF Ask, Sent
  <1>5. QED  BY <1>1, <1>2, <1>3, <1>4

\* A client that starts again knows the best team only.
LEMMA StopStep ==
  ASSUME WInv, NEW c \in Clients, Stop(c)
  PROVE  WInv'
  <1>1. IInv'
    BY NextIInv DEF WInv, Stop, Unavailable, Next, Server
  <1>2. Initially \in [Names -> Members \cup {None}]
    BY WorkerFacts DEF Initially
  <1>3. WorkerTypeOK'
    BY <1>1, <1>2 DEF Stop, WInv, WorkerTypeOK, IInv
  <1>4. MapInv'
    BY WorkerFacts DEF Stop, WInv, MapInv, WorkerTypeOK, Initially
  <1>5. UNCHANGED <<data, pc, request, team, created>>
    BY DEF Stop, Deadline, Unavailable, vars, calls
  <1>6. CallInv' /\ MembersAsCreated'
    BY <1>5 DEF WInv, CallInv, AsCreated, TeamOf, MembersAsCreated, Registered
  <1>7. QED  BY <1>1, <1>3, <1>4, <1>6 DEF WInv

-----------------------------------------------------------------------------
\* The server takes the members from the call to the storage.
LEMMA ServerSteps ==
  ASSUME WInv, Server \/ UNCHANGED vars, UNCHANGED workerVars
  PROVE  WInv'
  <1>1. IInv'
    BY NextIInv DEF WInv, Next
  <1>2. WorkerTypeOK' /\ MapInv'
    BY <1>1 DEF WInv, WorkerTypeOK, MapInv, IInv, workerVars
  <1>3. CallInv' /\ MembersAsCreated'
    <2> USE DEF WInv, IInv, TypeOK, HandlerInv, CallInv, AsCreated, TeamOf,
                MembersAsCreated, Registered, workerVars
    <2>1. ASSUME NEW h \in Handlers, RegisterPut(h)
          PROVE  CallInv' /\ MembersAsCreated'
      BY <2>1, ConstantFacts DEF RegisterPut, Answer, Move, Unmoved
    <2>2. ASSUME NEW h \in Handlers, SubmitPut(h)
          PROVE  CallInv' /\ MembersAsCreated'
      <3>1. team[h] \in Team /\ team[h].members = created[TeamOf(h)]
        BY <2>2 DEF SubmitPut, Answer, Move
      <3>2. [team[h] EXCEPT !.solution = request[h].solution].members = created[TeamOf(h)]
        BY <3>1 DEF Team
      <3>3. QED  BY <2>2, <3>2 DEF SubmitPut, Answer, Move, Unmoved
    <2>3. ASSUME NEW h \in Handlers, SubmitGet(h)
          PROVE  CallInv' /\ MembersAsCreated'
      <3>1. /\ pc[h] = "serve" /\ request[h].op = "submit"
            /\ Stored(TeamOf(h)) # None
            /\ team' = [team EXCEPT ![h] = Stored(TeamOf(h))]
            /\ pc' = [pc EXCEPT ![h] = "submit"]
            /\ UNCHANGED <<request, data>>
        BY <2>3 DEF SubmitGet, Serves, Move, Unmoved
      <3>2. TeamOf(h) \in Registered /\ Stored(TeamOf(h)) = data[TeamOf(h)]
        BY <3>1, RequestFacts, ConstantFacts DEF Stored
      <3>3. QED  BY <3>1, <3>2
    <2>4. CASE Kill \/ \E h \in Handlers : Panic(h)
      BY <2>4 DEF Kill, Panic, Die
    <2>5. ASSUME NEW h \in Handlers,
                 PassPanic(h) \/ ReadDelay(h) \/ Sleep(h) \/ MustError(h) \/ PassError(h)
          PROVE  CallInv' /\ MembersAsCreated'
      BY <2>5 DEF PassPanic, ReadDelay, Sleep, MustError, PassError, Answer, Move, Unmoved
    <2>6. ASSUME NEW h \in Handlers,
                 \/ RegisterInvalid(h) \/ RegisterFound(h) \/ RegisterAbsent(h)
                 \/ SubmitAbsent(h) \/ BoardFails(h) \/ Board(h)
          PROVE  CallInv' /\ MembersAsCreated'
      BY <2>6 DEF RegisterInvalid, RegisterFound, RegisterAbsent, SubmitAbsent,
          BoardFails, Board, Serves, Answer, Move, Unmoved
    <2>7. ASSUME NEW h \in Handlers, Return(h)
          PROVE  CallInv' /\ MembersAsCreated'
      BY <2>7 DEF Return
    <2>8. CASE \/ UNCHANGED vars \/ Restart
               \/ \E c \in Clients : Deadline(c)
               \/ \E o \in Operators : ApplyParameter(o) \/ \E cmd \in Commands : Command(o, cmd)
      <3>1. UNCHANGED <<data, pc, request, team>>
        BY <2>8 DEF vars, Restart, Deadline, ApplyParameter, Command, calls
      <3>2. QED  BY <3>1
    <2>9. QED  BY <2>1, <2>2, <2>3, <2>4, <2>5, <2>6, <2>7, <2>8 DEF Server, Intercept, Serve
  <1>4. QED  BY <1>1, <1>2, <1>3 DEF WInv

\* Every step of the workers with the server keeps the invariant.
LEMMA NextWInv == WInv /\ [WorkerNext]_allVars => WInv'
  <1>1. WInv /\ UNCHANGED allVars => WInv'
    BY ServerSteps DEF allVars
  <1>2. QED  BY <1>1, WorkerSteps, StopStep, ServerSteps DEF WorkerNext

-----------------------------------------------------------------------------
\* The server with workers for clients behaves as TestServer.tla says: what is
\* proved there of any clients holds with these.
THEOREM WorkersAreClients == WorkerSpec => Spec
  <1>1. WorkerInit => Init
    BY DEF WorkerInit
  <1>2. QED  BY <1>1, WorkerStepsServer, PTL DEF WorkerSpec, Spec

\* What a worker was told stays true, whatever the workers have in their maps.
THEOREM WorkersConfirmed == WorkerSpec => []RepliesRespectConfirmed
  BY WorkersAreClients, Confirmed, PTL

\* The variables keep their types; the maps hold teams with members.
THEOREM WorkerTypeCorrect == WorkerSpec => []WorkerTypeOK
  <1>1. WInv => WorkerTypeOK
    BY DEF WInv
  <1>2. QED  BY InitWInv, NextWInv, <1>1, PTL DEF WorkerSpec

\* No race, late handler, or restart gives a team other members.
THEOREM MembersKept == WorkerSpec => []MembersAsCreated
  <1>1. WInv => MembersAsCreated
    BY DEF WInv
  <1>2. QED  BY InitWInv, NextWInv, <1>1, PTL DEF WorkerSpec
=============================================================================
