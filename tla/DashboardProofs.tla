-------------------------- MODULE DashboardProofs --------------------------
(***************************************************************************)
(* Proofs about Dashboard.tla, for any number of clicks and errors.        *)
(*                                                                         *)
(* The inductive invariant adds to the properties that every outcome on    *)
(* the page is of a click that was sent (SentInv), that clicks in progress *)
(* were all made at once with every later one (RivalInv), and that the     *)
(* timers which run are those of the last errors (TimerInv).               *)
(***************************************************************************)
EXTENDS Dashboard, TLAPS

\* What is on the page belongs to clicks that were made.
SentInv ==
    /\ analysis # None => analysis.click <= sent
    /\ details <= sent

\* A click in progress is the rival of all clicks after it.
RivalInv == \A n \in Pending : \A m \in Clicks : (n < m /\ m <= sent) => AtOnce(n, m)

\* No timer is of an error still to come, and the last timer is of the last error.
TimerInv ==
    /\ \A i \in DOMAIN timers : timers[i] <= errors
    /\ timers # <<>> => timers[Len(timers)] = errors

IInv ==
    /\ TypeOK
    /\ SentInv
    /\ RivalInv
    /\ TimerInv
    /\ BusyTellsPending
    /\ VisibleErrorTimed

-----------------------------------------------------------------------------
\* The page that has just been loaded.
LEMMA InitIInv == Init => IInv
  <1> SUFFICES ASSUME Init  PROVE  IInv
    OBVIOUS
  <1> USE DashboardAssumption, NoneIsNoOutcome DEF Init, Clicks
  <1>1. TypeOK
    <2>1. timers \in Seq(Errors) /\ DOMAIN timers = {}
      OBVIOUS
    <2>2. /\ sent \in 0..MaxClicks /\ errors \in 0..MaxErrors /\ details \in 0..MaxClicks
          /\ \A n \in Clicks : phase[n] = "unsent" /\ n > sent
      OBVIOUS
    <2>3. phase \in [Clicks -> {"unsent", "response", "body", "ended"}]
      OBVIOUS
    <2>4. QED  BY <2>1, <2>2, <2>3 DEF TypeOK
  <1>2. Pending = {}
    BY DEF Pending
  <1>3. RivalInv /\ BusyTellsPending
    BY <1>2 DEF RivalInv, BusyTellsPending
  <1>4. SentInv /\ TimerInv /\ VisibleErrorTimed
    BY DEF SentInv, TimerInv, VisibleErrorTimed
  <1>5. QED  BY <1>1, <1>3, <1>4 DEF IInv

\* The part of the state that the error box is about.
AlertType ==
    /\ box \in BOOLEAN
    /\ errors \in 0..MaxErrors
    /\ timers \in Seq(Errors)
    /\ \A i, j \in DOMAIN timers : i < j => timers[i] < timers[j]

AlertInv == AlertType /\ TimerInv /\ VisibleErrorTimed

\* The part that the clicks are about.
PageInv ==
    /\ metrics \in {"loading", "loaded", "failed"}
    /\ sent \in 0..MaxClicks
    /\ phase \in [Clicks -> {"unsent", "response", "body", "ended"}]
    /\ \A n \in Clicks : phase[n] = "unsent" <=> n > sent
    /\ busy \in BOOLEAN
    /\ analysis \in Outcome \cup {None}
    /\ details \in 0..MaxClicks
    /\ rivals \subseteq Clicks \X Clicks
    /\ SentInv /\ RivalInv /\ BusyTellsPending

\* An error goes to the end of the queue of timers.
LEMMA ErrorStep ==
  ASSUME AlertInv, ShowError
  PROVE  AlertInv'
  <1> USE DashboardAssumption
          DEF AlertInv, AlertType, TimerInv, VisibleErrorTimed, Errors, ShowError
  <1>1. errors' \in Errors /\ errors' = errors + 1 /\ box'
    OBVIOUS
  <1>2. /\ timers' \in Seq(Errors)
        /\ Len(timers') = Len(timers) + 1 /\ DOMAIN timers' = 1..(Len(timers) + 1)
        /\ timers'[Len(timers) + 1] = errors'
        /\ \A i \in 1..Len(timers) : timers'[i] = timers[i]
        /\ Len(timers) \in Nat /\ DOMAIN timers = 1..Len(timers)
    BY <1>1
  <1>3. \A i \in 1..Len(timers) : timers[i] \in Nat /\ timers[i] <= errors
    OBVIOUS
  <1>4. AlertType' /\ TimerInv'
    BY <1>1, <1>2, <1>3
  <1>5. VisibleErrorTimed'
    BY <1>2
  <1>6. QED  BY <1>4, <1>5

\* The oldest timer fires.
LEMMA TimerStep ==
  ASSUME AlertInv, Timer
  PROVE  AlertInv'
  <1> USE DashboardAssumption
          DEF AlertInv, AlertType, TimerInv, VisibleErrorTimed, Errors, Timer
  <1>1. /\ timers' \in Seq(Errors)
        /\ Len(timers) \in Nat \ {0} /\ DOMAIN timers = 1..Len(timers)
        /\ Len(timers') = Len(timers) - 1 /\ DOMAIN timers' = 1..(Len(timers) - 1)
        /\ \A i \in 1..(Len(timers) - 1) : timers'[i] = timers[i + 1]
    OBVIOUS
  <1>2. \A i, j \in DOMAIN timers' : i < j => timers'[i] < timers'[j]
    <2>1. ASSUME NEW i \in 1..(Len(timers) - 1), NEW j \in 1..(Len(timers) - 1), i < j
          PROVE  timers'[i] < timers'[j]
      <3>1. i + 1 \in DOMAIN timers /\ j + 1 \in DOMAIN timers /\ i + 1 < j + 1
        BY <1>1, <2>1
      <3>2. QED  BY <1>1, <3>1
    <2> HIDE DEF AlertInv, Timer
    <2>2. QED  BY <1>1, <2>1
  <1>3. TimerInv'
    <2>1. timers' # <<>> => Len(timers') \in 1..(Len(timers) - 1)
      BY <1>1
    <2>2. timers' # <<>> => timers'[Len(timers')] = timers[Len(timers)]
      BY <1>1, <2>1
    <2>3. timers[Len(timers)] = errors
      BY <1>1
    <2>4. \A i \in DOMAIN timers' : timers'[i] <= errors
      BY <1>1
    <2>5. QED  BY <1>2, <2>2, <2>3, <2>4
  <1>4. QED  BY <1>1, <1>2, <1>3

\* A click makes itself the rival of all clicks in progress.
LEMMA ClickStep ==
  ASSUME PageInv, NEW by \in {"mouse", "keyboard"}, Click(by)
  PROVE  PageInv'
  <1> USE DashboardAssumption, NoneIsNoOutcome DEF PageInv, Clicks, Click, alert
  <1>1. sent' \in Clicks /\ sent' = sent + 1 /\ phase[sent'] = "unsent"
    OBVIOUS
  <1>2. Pending' = Pending \cup {sent'}
    BY <1>1 DEF Pending
  <1>3. /\ metrics' = metrics /\ sent' \in 0..MaxClicks
        /\ phase' \in [Clicks -> {"unsent", "response", "body", "ended"}]
        /\ \A n \in Clicks : phase'[n] = "unsent" <=> n > sent'
    BY <1>1
  <1>4. rivals' \subseteq Clicks \X Clicks /\ rivals \subseteq rivals'
    BY <1>1 DEF Pending
  <1>5. SentInv'
    BY <1>1 DEF SentInv, Outcome
  <1>6. RivalInv'
    <2> SUFFICES ASSUME NEW n \in Pending', NEW m \in Clicks, n < m, m <= sent'
                 PROVE  AtOnce(n, m)'
      BY DEF RivalInv
    <2>1. n \in Pending /\ n \in Clicks
      BY <1>1, <1>2 DEF Pending
    <2>2. CASE m = sent'
      BY <2>1, <2>2 DEF AtOnce
    <2>3. CASE m # sent'
      <3>1. m <= sent
        BY <1>1, <2>3
      <3>2. QED  BY <2>1, <3>1, <1>4 DEF RivalInv, AtOnce
    <2>4. QED  BY <2>2, <2>3
  <1>7. BusyTellsPending'
    BY <1>2 DEF BusyTellsPending
  <1>8. QED  BY <1>3, <1>4, <1>5, <1>6, <1>7

\* A request ends, with an answer or without.
LEMMA EndStep ==
  ASSUME PageInv, NEW n \in Clicks, n \in Pending, End(n),
         NEW ok \in BOOLEAN, analysis' = [click |-> n, ok |-> ok],
         details' \in {details, n}, UNCHANGED <<metrics, sent, rivals>>
  PROVE  PageInv'
  <1> USE DashboardAssumption, NoneIsNoOutcome DEF PageInv, Clicks, End
  <1>1. Pending' = Pending \ {n} /\ n <= sent
    BY DEF Pending
  <1>2. /\ phase' \in [Clicks -> {"unsent", "response", "body", "ended"}]
        /\ \A m \in Clicks : phase'[m] = "unsent" <=> m > sent'
    BY DEF Pending
  <1>3. analysis' \in Outcome /\ details' \in 0..MaxClicks
    BY DEF Outcome
  <1>4. SentInv'
    BY <1>1 DEF SentInv
  <1>5. RivalInv'
    BY <1>1 DEF RivalInv, AtOnce
  <1>6. BusyTellsPending'
    <2> SUFFICES ASSUME NEW m \in Pending'
                 PROVE  AtOnce(m, n)
      BY <1>1 DEF BusyTellsPending, AtOnce
    <2>1. m \in Clicks /\ m # n /\ m \in Pending /\ m <= sent
      BY <1>1 DEF Pending
    <2>2. m < n \/ n < m
      BY <2>1
    <2>3. QED  BY <1>1, <2>1, <2>2 DEF RivalInv, AtOnce
  <1>7. QED  BY <1>2, <1>3, <1>4, <1>5, <1>6

\* The response has come, and the body is still to come.
LEMMA RespondStep ==
  ASSUME PageInv, NEW n \in Clicks, Respond(n)
  PROVE  PageInv'
  <1> USE DEF PageInv, Respond, page
  <1>1. Pending' = Pending
    BY DEF Pending
  <1>2. QED  BY <1>1 DEF SentInv, RivalInv, BusyTellsPending, AtOnce

\* Every step keeps the invariant.
LEMMA NextIInv == IInv /\ [Next]_vars => IInv'
  <1> SUFFICES ASSUME PageInv, AlertInv, [Next]_vars
               PROVE  PageInv' /\ AlertInv'
    BY DEF IInv, PageInv, AlertInv, AlertType, TypeOK
  <1> USE DEF page, alert
  <1>1. UNCHANGED <<sent, phase, page, rivals>> /\ metrics' \in {"loading", "loaded", "failed"}
          => PageInv'
    BY DEF PageInv, SentInv, RivalInv, BusyTellsPending, AtOnce, Pending
  <1>2. UNCHANGED alert => AlertInv'
    BY DEF AlertInv, AlertType, TimerInv, VisibleErrorTimed
  <1>3. metrics \in {"loading", "loaded", "failed"}
    BY DEF PageInv
  <1>4. CASE MetricsLoad \/ MetricsFail
    BY <1>1, <1>2, <1>4, ErrorStep DEF MetricsLoad, MetricsFail
  <1>5. ASSUME NEW by \in {"mouse", "keyboard"}, ClickBlank(by) \/ Click(by)
        PROVE  PageInv' /\ AlertInv'
    BY <1>1, <1>2, <1>3, <1>5, ErrorStep, ClickStep DEF ClickBlank, Click
  <1>6. ASSUME NEW n \in Clicks, Respond(n) \/ Fail(n)
        PROVE  PageInv' /\ AlertInv'
    BY <1>2, <1>6, RespondStep, EndStep DEF Respond, Fail
  <1>7. ASSUME NEW n \in Clicks, Show(n)
        PROVE  PageInv' /\ AlertInv'
    <2>1. AlertInv'
      BY <1>7 DEF Show, AlertInv, AlertType, TimerInv, VisibleErrorTimed
    <2>2. PageInv'
      BY <1>7, EndStep DEF Show, Pending
    <2>3. QED  BY <2>1, <2>2
  <1>8. CASE Timer
    BY <1>1, <1>3, <1>8, TimerStep DEF Timer
  <1>9. CASE UNCHANGED vars
    BY <1>1, <1>2, <1>3, <1>9 DEF vars
  <1>10. QED  BY <1>4, <1>5, <1>6, <1>7, <1>8, <1>9 DEF Next

-----------------------------------------------------------------------------
\* The variables keep their types, and timers the order of their errors.
THEOREM TypeCorrect == Spec => []TypeOK
  <1>1. IInv => TypeOK
    BY DEF IInv
  <1>2. QED  BY InitIInv, NextIInv, <1>1, PTL DEF Spec

\* A busy page has an answer on its way, an idle one has not, but for races.
THEOREM Busy == Spec => []BusyTellsPending
  <1>1. IInv => BusyTellsPending
    BY DEF IInv
  <1>2. QED  BY InitIInv, NextIInv, <1>1, PTL DEF Spec

\* Every error that can be seen has its own timer to take it away.
THEOREM ErrorsTimed == Spec => []VisibleErrorTimed
  <1>1. IInv => VisibleErrorTimed
    BY DEF IInv
  <1>2. QED  BY InitIInv, NextIInv, <1>1, PTL DEF Spec

\* An outcome gives way to an older one only in a race of the two.
THEOREM NoOlderOutcome == Spec => OlderOnlyInRace
  <1> DEFINE Raced ==
        /\ (analysis # None /\ analysis'.click < analysis.click)
              => AtOnce(analysis.click, analysis'.click)
        /\ (details' # 0 /\ details' < details) => AtOnce(details, details')
  <1>1. ASSUME IInv, [Next]_vars
        PROVE  Raced
    <2> USE DashboardAssumption, NoneIsNoOutcome DEF IInv, TypeOK, Clicks
    <2>1. CASE UNCHANGED <<analysis, details>>
      <3>1. (analysis # None => analysis.click \in Nat) /\ details \in Nat
        BY <1>1 DEF Outcome
      <3>2. QED  BY <2>1, <3>1
    <2>2. ASSUME NEW n \in Clicks, Show(n) \/ Fail(n)
          PROVE  Raced
      <3>1. /\ n \in Pending /\ analysis'.click = n
            /\ details' = n \/ details' = details
        BY <2>2 DEF Show, Fail, End, Pending
      <3>2. \A m \in Clicks : (n < m /\ m <= sent) => AtOnce(m, n)
        BY <1>1, <3>1 DEF RivalInv, AtOnce
      <3>3. analysis # None => analysis.click \in Clicks /\ analysis.click <= sent
        BY <1>1 DEF SentInv, Outcome
      <3>4. details \in 0..MaxClicks /\ details <= sent
        BY <1>1 DEF SentInv
      <3>5. details > n => details \in Clicks
        BY <3>4
      <3>6. \A m \in Clicks : AtOnce(m, n) <=> AtOnce(n, m)
        BY DEF AtOnce
      <3>7. QED  BY <3>1, <3>2, <3>3, <3>4, <3>5, <3>6
    <2>3. \/ UNCHANGED <<analysis, details>>
          \/ \E n \in Clicks : Show(n) \/ Fail(n)
      BY <1>1
      DEF Next, vars, page, MetricsLoad, MetricsFail, ClickBlank, Click, Respond, Timer
    <2>4. QED  BY <2>1, <2>2, <2>3
  <1>2. IInv /\ [Next]_vars => [Raced]_vars
    BY <1>1
  <1>3. QED  BY InitIInv, NextIInv, <1>2, PTL DEF Spec, OlderOnlyInRace
=============================================================================
