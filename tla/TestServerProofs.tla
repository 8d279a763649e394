-------------------------- MODULE TestServerProofs --------------------------
(***************************************************************************)
(* Proofs about TestServer.tla, for any number of clients, handlers and    *)
(* operators, any requests and commands, and any number of kills.          *)
(*                                                                         *)
(* The inductive invariant says what each handler has found out about its  *)
(* team and still relies on (HandlerInv), that what was confirmed is there *)
(* (ConfirmInv), and that handlers which are about to store the same team, *)
(* or one that is there already, have been noted as racing (RaceInv).      *)
(***************************************************************************)
EXTENDS TestServer, TLAPS

TeamOf(h) == request[h].team

HandlerInv ==
    \A h \in Handlers :
        /\ pc[h] # "idle" => request[h] \in Requests
        /\ pc[h] = "register" =>
              /\ request[h].op = "register"
              /\ TeamOf(h) \in Names
              /\ request[h].members \in Members
              /\ TeamOf(h) \notin promised[h]
        /\ pc[h] = "submit" =>
              /\ request[h].op = "submit"
              /\ TeamOf(h) \in Names
              /\ data[TeamOf(h)] # None
              /\ team[h] \in Team
              /\ team[h].members = data[TeamOf(h)].members \/ TeamOf(h) \in raced
        /\ pc[h] = "reply" =>
              /\ reply[h] # None
              /\ Confirms(request[h], reply[h].code) => TeamOf(h) \in Registered

ConfirmInv ==
    /\ confirmed \subseteq Registered
    /\ \A h \in Handlers : promised[h] \subseteq confirmed

RaceInv ==
    /\ \A h \in Handlers :
          (pc[h] = "register" /\ data[TeamOf(h)] # None) => TeamOf(h) \in raced
    /\ \A g, h \in Handlers :
          (g # h /\ pc[g] = "register" /\ pc[h] = "register" /\ TeamOf(g) = TeamOf(h))
              => TeamOf(h) \in raced

IInv == TypeOK /\ HandlerInv /\ ConfirmInv /\ RaceInv /\ RepliesRespectConfirmed

-----------------------------------------------------------------------------
\* What the proofs use of the constants.
LEMMA ConstantFacts ==
  /\ None \notin Requests /\ None \notin Handlers /\ None \notin Commands
  /\ None \notin Team /\ None \notin ReplyType
  /\ Empty \notin Names /\ Empty \notin Members /\ Empty \notin Solutions
  BY ServerAssumption DEF ServerAssumption

\* The fields of a request.
LEMMA RequestFacts ==
  ASSUME NEW r \in Requests
  PROVE  /\ r.op \in {"register", "submit", "board"}
         /\ r.op = "register" =>
               r.team \in Names \cup {Empty} /\ r.members \in Members \cup {Empty}
         /\ r.op = "submit" =>
               r.team \in Names \cup {Empty} /\ r.solution \in Solutions \cup {Empty}
  BY ServerAssumption DEF ServerAssumption, RequestType

\* The process that has just started: nobody was promised anything.
LEMMA InitIInv == Init => IInv
  <1> USE DEF Init
  <1>1. Init => TypeOK
    <2> SUFFICES ASSUME Init  PROVE  TypeOK
      OBVIOUS
    <2>1. /\ up \in BOOLEAN /\ kills \in Nat /\ ordered \in BOOLEAN
          /\ data \in [Names -> Team \cup {None}]
          /\ switch \in [Switches -> BOOLEAN]
          /\ stage \in [Operators -> Switches \cup {"idle"}]
          /\ command \in [Operators -> Commands \cup {None}]
          /\ waiting \in [Clients -> Handlers \cup {None}]
      OBVIOUS
    <2>2. /\ request \in [Handlers -> Requests \cup {None}]
          /\ team \in [Handlers -> Team \cup {None}]
          /\ reply \in [Handlers -> ReplyType \cup {None}]
          /\ exposed \in [Handlers -> BOOLEAN]
      OBVIOUS
    <2>3. promised \in [Handlers -> SUBSET Names]
      OBVIOUS
    <2>4. QED  BY <2>1, <2>2, <2>3 DEF TypeOK
  <1>2. Init => HandlerInv /\ ConfirmInv /\ RaceInv /\ RepliesRespectConfirmed
    BY DEF HandlerInv, ConfirmInv, RaceInv, RepliesRespectConfirmed
  <1>3. QED  BY <1>1, <1>2 DEF IInv

-----------------------------------------------------------------------------
\* The clients.
LEMMA ClientSteps ==
  ASSUME IInv, NEW c \in Clients,
         Deadline(c) \/ \E h \in Handlers, r \in Requests : Send(c, h, r)
  PROVE  IInv'
  <1> USE ConstantFacts
          DEF IInv, TypeOK, HandlerInv, ConfirmInv, RaceInv, RepliesRespectConfirmed,
              Registered, TeamOf, Confirms, control, calls
  <1>1. CASE Deadline(c)
    BY <1>1 DEF Deadline
  <1>2. ASSUME NEW h \in Handlers, NEW r \in Requests, Send(c, h, r)
        PROVE  IInv'
    BY <1>2 DEF Send
  <1>3. QED  BY <1>1, <1>2

\* The end of a call.
LEMMA ReturnStep ==
  ASSUME IInv, NEW h \in Handlers, Return(h)
  PROVE  IInv'
  <1> USE ConstantFacts
          DEF IInv, TypeOK, HandlerInv, ConfirmInv, RaceInv, RepliesRespectConfirmed,
              Registered, TeamOf, control
  <1>1. /\ confirmed \subseteq confirmed'
        /\ confirmed' \subseteq Registered
    BY DEF Return
  <1>2. TypeOK'
    BY <1>1 DEF Return
  <1>3. HandlerInv' /\ RaceInv' /\ RepliesRespectConfirmed'
    BY DEF Return
  <1>4. ConfirmInv'
    BY <1>1 DEF Return
  <1>5. QED  BY <1>2, <1>3, <1>4

\* What a call that ends with a may not say.
Contradicts(h, a) ==
    \/ request[h].op = "register" /\ a.code = "OK" /\ TeamOf(h) \in promised[h]
    \/ a.code = "NotFound" /\ TeamOf(h) \in promised[h]
    \/ request[h].op = "board" /\ a.code = "OK" /\ ~(promised[h] \subseteq a.board)

\* An answer that leaves the storage alone.
LEMMA AnswerStep ==
  ASSUME IInv, NEW h \in Handlers, NEW from \in {"error", "serve"}, NEW a \in ReplyType,
         Answer(h, from, a), UNCHANGED <<data, raced>>,
         Confirms(request[h], a.code) => TeamOf(h) \in Registered,
         ~Contradicts(h, a)
  PROVE  IInv'
  <1> USE ConstantFacts
          DEF IInv, TypeOK, HandlerInv, ConfirmInv, RaceInv, RepliesRespectConfirmed,
              Registered, TeamOf, Move, Unmoved, control, Answer
  <1>1. a # None
    OBVIOUS
  <1>2. TypeOK'
    OBVIOUS
  <1>3. HandlerInv'
    BY <1>1 DEF Confirms
  <1>4. ConfirmInv' /\ RaceInv'
    OBVIOUS
  <1>5. RepliesRespectConfirmed'
    BY DEF Contradicts
  <1>6. QED  BY <1>2, <1>3, <1>4, <1>5

\* The interceptor, as long as the process lives.
LEMMA InterceptSteps ==
  ASSUME IInv, NEW h \in Handlers,
         PassPanic(h) \/ ReadDelay(h) \/ Sleep(h) \/ PassError(h) \/ MustError(h)
  PROVE  IInv'
  <1> USE ConstantFacts
          DEF IInv, TypeOK, HandlerInv, ConfirmInv, RaceInv, RepliesRespectConfirmed,
              Registered, TeamOf, Confirms, Move, Unmoved, control
  <1>1. CASE PassPanic(h)
    BY <1>1 DEF PassPanic
  <1>2. CASE ReadDelay(h)
    BY <1>2 DEF ReadDelay
  <1>3. CASE Sleep(h)
    BY <1>3 DEF Sleep
  <1>4. CASE PassError(h)
    BY <1>4 DEF PassError
  <1>5. CASE MustError(h)
    <2>1. Reply("Internal") \in ReplyType /\ Reply("Internal").code = "Internal"
      BY DEF Reply, ReplyType, Codes
    <2>2. Answer(h, "error", Reply("Internal")) /\ UNCHANGED <<data, raced>>
      BY <1>5 DEF MustError
    <2>3. QED  BY <2>1, <2>2, AnswerStep DEF Contradicts
  <1>6. QED  BY <1>1, <1>2, <1>3, <1>4, <1>5

\* Answers that leave the storage alone.
LEMMA AnswerSteps ==
  ASSUME IInv, NEW h \in Handlers,
         \/ RegisterInvalid(h) \/ RegisterFound(h)
         \/ SubmitAbsent(h) \/ BoardFails(h) \/ Board(h)
  PROVE  IInv'
  <1> USE ConstantFacts, RequestFacts
  <1>1. CASE RegisterInvalid(h)
    <2> DEFINE a == Reply("InvalidArgument")
    <2>1. Serves(h, "register") /\ Answer(h, "serve", a) /\ UNCHANGED <<data, raced>>
      BY <1>1 DEF RegisterInvalid
    <2>2. a \in ReplyType /\ a.code = "InvalidArgument"
      BY DEF Reply, ReplyType, Codes, Registered
    <2> HIDE DEF a
    <2>3. QED  BY <2>1, <2>2, AnswerStep DEF Serves, Confirms, Contradicts
  <1>2. CASE RegisterFound(h)
    <2> DEFINE a == Reply("AlreadyExists")
    <2>1. Serves(h, "register") /\ Answer(h, "serve", a) /\ UNCHANGED <<data, raced>>
      BY <1>2 DEF RegisterFound
    <2>2. a \in ReplyType /\ a.code = "AlreadyExists"
      BY DEF Reply, ReplyType, Codes, Registered
    <2>3. TeamOf(h) \in Registered
      BY <1>2, <2>1 DEF RegisterFound, IInv, HandlerInv, Serves, TeamOf,
          Registered, Incomplete, Stored
    <2> HIDE DEF a
    <2>4. QED  BY <2>1, <2>2, <2>3, AnswerStep DEF Serves, Confirms, Contradicts
  <1>3. CASE SubmitAbsent(h)
    <2> DEFINE a == Reply("NotFound")
    <2>1. Serves(h, "submit") /\ Answer(h, "serve", a) /\ UNCHANGED <<data, raced>>
      BY <1>3 DEF SubmitAbsent
    <2>2. a \in ReplyType /\ a.code = "NotFound"
      BY DEF Reply, ReplyType, Codes, Registered
    <2>3. TeamOf(h) \notin promised[h]
      BY <1>3, <2>1 DEF SubmitAbsent, IInv, HandlerInv, Serves, TeamOf,
          ConfirmInv, Registered, Stored
    <2> HIDE DEF a
    <2>4. QED  BY <2>1, <2>2, <2>3, AnswerStep DEF Serves, Confirms, Contradicts
  <1>4. CASE BoardFails(h)
    <2> DEFINE a == Reply("Unknown")
    <2>1. Serves(h, "board") /\ Answer(h, "serve", a) /\ UNCHANGED <<data, raced>>
      BY <1>4 DEF BoardFails
    <2>2. a \in ReplyType /\ a.code = "Unknown"
      BY DEF Reply, ReplyType, Codes, Registered
    <2> HIDE DEF a
    <2>3. QED  BY <2>1, <2>2, AnswerStep DEF Serves, Confirms, Contradicts
  <1>5. CASE Board(h)
    <2> DEFINE a == [code |-> "OK", board |-> Registered]
    <2>1. Serves(h, "board") /\ Answer(h, "serve", a) /\ UNCHANGED <<data, raced>>
      BY <1>5 DEF Board
    <2>2. a \in ReplyType /\ a.code = "OK" /\ a.board = Registered
      BY DEF Reply, ReplyType, Codes, Registered
    <2>3. promised[h] \subseteq Registered
      BY <1>5, <2>1 DEF Board, IInv, ConfirmInv
    <2> HIDE DEF a
    <2>4. QED  BY <2>1, <2>2, <2>3, AnswerStep DEF Serves, Confirms, Contradicts
  <1>6. QED  BY <1>1, <1>2, <1>3, <1>4, <1>5

\* The first half of RegisterTeam and of SubmitSolution.
LEMMA LookSteps ==
  ASSUME IInv, NEW h \in Handlers, RegisterAbsent(h) \/ SubmitGet(h)
  PROVE  IInv'
  <1> USE ConstantFacts, RequestFacts
          DEF IInv, TypeOK, HandlerInv, ConfirmInv, RaceInv, RepliesRespectConfirmed,
              Registered, TeamOf, Confirms, Move, Unmoved, control,
              Serves, Incomplete, Stored
  <1>1. CASE RegisterAbsent(h)
    <2>1. raced \subseteq raced' /\ raced' \subseteq Names
      BY <1>1 DEF RegisterAbsent
    <2>2. TypeOK' /\ ConfirmInv' /\ RepliesRespectConfirmed'
      BY <1>1, <2>1 DEF RegisterAbsent
    <2>3. HandlerInv'
      BY <1>1, <2>1 DEF RegisterAbsent
    <2>4. RaceInv'
      BY <1>1, <2>1 DEF RegisterAbsent, Registering
    <2>5. QED  BY <2>2, <2>3, <2>4
  <1>2. CASE SubmitGet(h)
    BY <1>2 DEF SubmitGet
  <1>3. QED  BY <1>1, <1>2

\* The second half: a team is stored under its name.
LEMMA PutSteps ==
  ASSUME IInv, NEW h \in Handlers, RegisterPut(h) \/ SubmitPut(h)
  PROVE  IInv'
  <1> USE ConstantFacts, RequestFacts
          DEF IInv, TypeOK, HandlerInv, ConfirmInv, RaceInv, RepliesRespectConfirmed,
              Registered, TeamOf, Confirms, Move, Unmoved, control, Answer
  <1>1. CASE RegisterPut(h)
    <2> DEFINE v == [members |-> request[h].members, solution |-> Empty]
    <2>1. v \in Team /\ v # None /\ v.members = request[h].members
      BY <1>1 DEF RegisterPut, Team
    <2>2. data' = [data EXCEPT ![TeamOf(h)] = v] /\ TeamOf(h) \in Names
      BY <1>1 DEF RegisterPut
    <2> HIDE DEF v
    <2>3. /\ Reply("OK") \in ReplyType /\ Reply("OK") # None
          /\ Reply("OK").code = "OK"
      BY DEF Reply, ReplyType, Codes
    <2>4. TypeOK' /\ ConfirmInv' /\ RepliesRespectConfirmed'
      BY <1>1, <2>1, <2>2, <2>3 DEF RegisterPut
    <2>5. HandlerInv'
      BY <1>1, <2>1, <2>2, <2>3 DEF RegisterPut
    <2>6. RaceInv'
      BY <1>1, <2>1, <2>2 DEF RegisterPut
    <2>7. QED  BY <2>4, <2>5, <2>6
  <1>2. CASE SubmitPut(h)
    <2> DEFINE v == [team[h] EXCEPT !.solution = request[h].solution]
    <2>1. v \in Team /\ v # None /\ v.members = team[h].members
      BY <1>2 DEF SubmitPut, Team
    <2>2. data' = [data EXCEPT ![TeamOf(h)] = v] /\ TeamOf(h) \in Names
      BY <1>2 DEF SubmitPut
    <2> HIDE DEF v
    <2>3. /\ Reply("OK") \in ReplyType /\ Reply("OK") # None
          /\ Reply("OK").code = "OK"
      BY DEF Reply, ReplyType, Codes
    <2>4. TypeOK' /\ ConfirmInv' /\ RepliesRespectConfirmed'
      BY <1>2, <2>1, <2>2, <2>3 DEF SubmitPut
    <2>5. HandlerInv'
      BY <1>2, <2>1, <2>2, <2>3 DEF SubmitPut
    <2>6. RaceInv'
      BY <1>2, <2>1, <2>2 DEF SubmitPut
    <2>7. QED  BY <2>4, <2>5, <2>6
  <1>3. QED  BY <1>1, <1>2

\* The operators.
LEMMA OperatorSteps ==
  ASSUME IInv, NEW o \in Operators,
         ApplyParameter(o) \/ \E cmd \in Commands : Command(o, cmd)
  PROVE  IInv'
  <1> USE ConstantFacts
          DEF IInv, HandlerInv, ConfirmInv, RaceInv, RepliesRespectConfirmed,
              Registered, TeamOf, Confirms, calls
  <1>1. ASSUME NEW cmd \in Commands, Command(o, cmd)
        PROVE  IInv'
    BY <1>1 DEF Command, TypeOK, Switches
  <1>2. CASE ApplyParameter(o)
    <2>1. stage[o] \in Switches /\ After[stage[o]] \in Switches \cup {"idle"}
      BY <1>2 DEF ApplyParameter, TypeOK, Switches, After
    <2>2. stage' \in [Operators -> Switches \cup {"idle"}]
      BY <1>2, <2>1 DEF ApplyParameter, TypeOK
    <2>3. switch' \in [Switches -> BOOLEAN] /\ ordered' \in BOOLEAN
      BY <1>2, <2>1 DEF ApplyParameter, TypeOK
    <2>4. command' \in [Operators -> Commands \cup {None}]
      BY <1>2 DEF ApplyParameter, TypeOK
    <2>5. TypeOK'
      BY <1>2, <2>2, <2>3, <2>4 DEF ApplyParameter, TypeOK
    <2>6. QED  BY <1>2, <2>5 DEF ApplyParameter
  <1>3. QED  BY <1>1, <1>2

\* The process.
LEMMA ProcessSteps ==
  ASSUME IInv,
         Kill \/ Restart \/ (\E h \in Handlers : Panic(h)) \/ UNCHANGED vars
  PROVE  IInv'
  <1> USE ConstantFacts
          DEF IInv, TypeOK, HandlerInv, ConfirmInv, RaceInv, RepliesRespectConfirmed,
              Registered, TeamOf, Confirms, control, calls
  <1>1. CASE Kill \/ \E h \in Handlers : Panic(h)
    <2>1. Die /\ kills' \in Nat
      BY <1>1 DEF Kill, Panic
    <2>2. /\ up' \in BOOLEAN /\ ordered' \in BOOLEAN
          /\ data' \in [Names -> Team \cup {None}]
          /\ switch' \in [Switches -> BOOLEAN]
          /\ stage' \in [Operators -> Switches \cup {"idle"}]
          /\ command' \in [Operators -> Commands \cup {None}]
          /\ waiting' \in [Clients -> Handlers \cup {None}]
      BY <2>1 DEF Die
    <2>3. /\ request' \in [Handlers -> Requests \cup {None}]
          /\ team' \in [Handlers -> Team \cup {None}]
          /\ reply' \in [Handlers -> ReplyType \cup {None}]
          /\ exposed' \in [Handlers -> BOOLEAN]
      BY <2>1 DEF Die
    <2>4. promised' \in [Handlers -> SUBSET Names]
      BY <2>1 DEF Die
    <2>5. TypeOK'
      BY <2>1, <2>2, <2>3, <2>4 DEF Die
    <2>6. HandlerInv' /\ ConfirmInv' /\ RaceInv' /\ RepliesRespectConfirmed'
      BY <2>1 DEF Die
    <2>7. QED  BY <2>5, <2>6
  <1>2. CASE Restart
    BY <1>2 DEF Restart
  <1>3. CASE UNCHANGED vars
    BY <1>3 DEF vars
  <1>4. QED  BY <1>1, <1>2, <1>3

\* Every step keeps the invariant.
LEMMA NextIInv == IInv /\ [Next]_vars => IInv'
  <1> SUFFICES ASSUME IInv, [Next]_vars  PROVE  IInv'
    OBVIOUS
  <1>1. ASSUME NEW h \in Handlers, Intercept(h) \/ Serve(h) \/ Return(h)
        PROVE  IInv'
    BY <1>1, ReturnStep, InterceptSteps, AnswerSteps, LookSteps, PutSteps, ProcessSteps
    DEF Intercept, Serve
  <1>2. QED  BY <1>1, ClientSteps, OperatorSteps, ProcessSteps DEF Next, Server

-----------------------------------------------------------------------------
\* The variables keep their types, through races, faults and restarts.
THEOREM TypeCorrect == Spec => []TypeOK
  <1>1. IInv => TypeOK
    BY DEF IInv
  <1>2. QED  BY InitIInv, NextIInv, <1>1, PTL DEF Spec

\* No call contradicts what a client knew when the call was sent.
THEOREM Confirmed == Spec => []RepliesRespectConfirmed
  <1>1. IInv => RepliesRespectConfirmed
    BY DEF IInv
  <1>2. QED  BY InitIInv, NextIInv, <1>1, PTL DEF Spec

\* A team is changed behind its back only by registrations that raced; the empty
\* solution takes the place of another one also when a client submits it.
THEOREM OnlyRegisterRace == Spec => TeamLostOnlyToRegisterRace
  <1> DEFINE Kept ==
        up' => \A t \in Registered :
                  /\ data'[t] # None
                  /\ data'[t].members # data[t].members => t \in raced
                  /\ data[t].solution # Empty /\ data'[t].solution = Empty
                        => t \in raced \/ StoresNoSolution(t)
  <1>1. ASSUME IInv, [Next]_vars
        PROVE  Kept
    <2>1. CASE UNCHANGED data
      BY <2>1, <1>1, ConstantFacts DEF IInv, TypeOK, Registered
    <2>2. ASSUME NEW h \in Handlers, RegisterPut(h)
          PROVE  Kept
      <3> DEFINE v == [members |-> request[h].members, solution |-> Empty]
      <3>1. pc[h] = "register" /\ data' = [data EXCEPT ![TeamOf(h)] = v]
        BY <2>2 DEF RegisterPut, Answer, Move, TeamOf
      <3>2. /\ TeamOf(h) \in Names /\ request[h].members \in Members
            /\ data[TeamOf(h)] # None => TeamOf(h) \in raced
        BY <1>1, <3>1 DEF IInv, HandlerInv, RaceInv
      <3>3. v # None
        BY <3>2, ConstantFacts DEF Team
      <3> HIDE DEF v
      <3>4. QED  BY <1>1, <3>1, <3>2, <3>3 DEF IInv, TypeOK, Registered
    <2>3. ASSUME NEW h \in Handlers, SubmitPut(h)
          PROVE  Kept
      <3> DEFINE v == [team[h] EXCEPT !.solution = request[h].solution]
      <3>1. /\ pc[h] = "submit" /\ pc' = [pc EXCEPT ![h] = "reply"]
            /\ data' = [data EXCEPT ![TeamOf(h)] = v]
        BY <2>3 DEF SubmitPut, Answer, Move, TeamOf
      <3>2. /\ request[h] \in Requests /\ request[h].op = "submit"
            /\ TeamOf(h) \in Names /\ team[h] \in Team
            /\ team[h].members = data[TeamOf(h)].members \/ TeamOf(h) \in raced
        BY <1>1, <3>1 DEF IInv, HandlerInv
      <3>3. /\ request[h].solution \in Solutions \cup {Empty}
            /\ request[h].solution = Empty => StoresNoSolution(TeamOf(h))
        BY <1>1, <3>1, <3>2, RequestFacts DEF StoresNoSolution, TeamOf, IInv, TypeOK
      <3>4. v \in Team /\ v.members = team[h].members /\ v.solution = request[h].solution
        BY <3>2, <3>3 DEF Team
      <3> HIDE DEF v
      <3>5. QED  BY <1>1, <3>1, <3>2, <3>3, <3>4, ConstantFacts DEF IInv, TypeOK, Registered
    <2>4. CASE Kill \/ \E h \in Handlers : Panic(h)
      BY <2>4 DEF Kill, Panic, Die
    <2>5. \/ UNCHANGED data
          \/ \E h \in Handlers : RegisterPut(h) \/ SubmitPut(h) \/ Panic(h)
          \/ Kill
      BY <1>1
      DEF Next, Server, vars, Send, Deadline, Return, Intercept, PassPanic, ReadDelay, Sleep,
          MustError, PassError, Serve, RegisterInvalid, RegisterFound, RegisterAbsent,
          SubmitAbsent, SubmitGet, BoardFails, Board, Command, ApplyParameter, Restart
    <2>6. QED  BY <2>1, <2>2, <2>3, <2>4, <2>5
  <1>2. IInv /\ [Next]_vars => [Kept]_vars
    BY <1>1
  <1>3. QED  BY InitIInv, NextIInv, <1>2, PTL DEF Spec, TeamLostOnlyToRegisterRace
=============================================================================
