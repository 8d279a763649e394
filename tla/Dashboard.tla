----------------------------- MODULE Dashboard -----------------------------
(***************************************************************************)
(* true-hack/static/index.html: the script of the dashboard.  Every click  *)
(* on Analyze is a run of an async function, which gives up the thread     *)
(* while it waits for the response and again for its body; what comes      *)
(* between two awaits is one step.  Errors that are not about an answer    *)
(* are shown in a box, which a timer hides after 5 seconds.                *)
(*                                                                         *)
(* The button is disabled with pointer-events-none: that stops the mouse,  *)
(* but the button keeps the focus and answers to the keyboard.             *)
(*                                                                         *)
(* The server is external: requests end in any order, with an answer, a    *)
(* bad status, or a broken connection.  A click with an empty date throws  *)
(* before it has changed anything, and is left out.                        *)
(***************************************************************************)
EXTENDS Naturals, Sequences

CONSTANTS
    MaxClicks,      \* bound on the number of requests sent
    MaxErrors,      \* bound on the number of errors put in the box
    None            \* no answer

ASSUME DashboardAssumption ==
    /\ MaxClicks \in Nat
    /\ MaxErrors \in Nat

\* The clicks that send a request, and the errors shown, in their order.
Clicks == 1..MaxClicks
Errors == 1..MaxErrors

\* What #analysis shows: the answer to a click, or why there is none.
Outcome == [click: Clicks, ok: BOOLEAN]

ASSUME NoneIsNoOutcome == None \notin Outcome

VARIABLES
    metrics,    \* the list of metrics: "loading", "loaded", "failed"
    sent,       \* number of requests sent
    phase,      \* phase[n]: what the function of click n awaits
    busy,       \* the button is disabled and the loading indicator shown
    analysis,   \* the text of the result, which is hidden as long as it is None
    details,    \* the click whose confidence, suggestions, metrics are shown
    box,        \* the error box is visible
    errors,     \* number of errors shown so far; the last one is in the box
    timers,     \* the errors whose timers run, in the order in which they fire
    rivals      \* history: pairs of clicks that were under way at once

page == <<busy, analysis, details>>
alert == <<box, errors, timers>>
vars == <<metrics, sent, phase, busy, analysis, details, box, errors, timers, rivals>>

Pending == {n \in Clicks : phase[n] \in {"response", "body"}}

Init ==
    /\ metrics = "loading"
    /\ sent = 0
    /\ phase = [n \in Clicks |-> "unsent"]
    /\ busy = FALSE
    /\ analysis = None
    /\ details = 0
    /\ box = FALSE
    /\ errors = 0
    /\ timers = <<>>
    /\ rivals = {}

-----------------------------------------------------------------------------
(* The error box.  All timers run for 5 seconds: the oldest fires first.   *)

\* A plausible fault: a timer that is already running is trusted to do.
ShowErrorUntimed ==
    /\ errors < MaxErrors
    /\ errors' = errors + 1
    /\ box' = TRUE
    /\ timers' = IF timers = <<>> THEN <<errors'>> ELSE timers

ShowError ==
    /\ errors < MaxErrors
    /\ errors' = errors + 1
    /\ box' = TRUE
    /\ timers' = Append(timers, errors')

\* A plausible fault: an interval in the place of the timer.
TimerRepeats ==
    /\ timers # <<>>
    /\ timers' = Append(Tail(timers), Head(timers))
    /\ box' = FALSE
    /\ UNCHANGED <<metrics, sent, phase, page, errors, rivals>>

\* The box is hidden, whichever error is in it.
Timer ==
    /\ timers # <<>>
    /\ timers' = Tail(timers)
    /\ box' = FALSE
    /\ UNCHANGED <<metrics, sent, phase, page, errors, rivals>>

-----------------------------------------------------------------------------
(* The list of metrics, asked for when the page is loaded.                 *)

MetricsLoad ==
    /\ metrics = "loading"
    /\ metrics' = "loaded"
    /\ UNCHANGED <<sent, phase, page, alert, rivals>>

MetricsFail ==
    /\ metrics = "loading"
    /\ metrics' = "failed"
    /\ ShowError
    /\ UNCHANGED <<sent, phase, page, rivals>>

-----------------------------------------------------------------------------
(* The click.                                                              *)

\* The mouse reaches the button when it is not disabled, the keyboard always.
Pressed(by) == by = "keyboard" \/ ~busy

ClickBlank(by) ==
    /\ Pressed(by)
    /\ ShowError
    /\ UNCHANGED <<metrics, sent, phase, page, rivals>>

Click(by) ==
    /\ Pressed(by)
    /\ sent < MaxClicks
    /\ sent' = sent + 1
    /\ phase' = [phase EXCEPT ![sent'] = "response"]
    /\ rivals' = rivals \cup {<<n, sent'>> : n \in Pending}
    /\ busy' = TRUE
    /\ UNCHANGED <<metrics, analysis, details, alert>>

\* The status is good, and the body is waited for.
Respond(n) ==
    /\ phase[n] = "response"
    /\ phase' = [phase EXCEPT ![n] = "body"]
    /\ UNCHANGED <<metrics, sent, page, alert, rivals>>

\* The finally clause.
End(n) ==
    /\ phase' = [phase EXCEPT ![n] = "ended"]
    /\ busy' = FALSE

Show(n) ==
    /\ phase[n] = "body"
    /\ analysis' = [click |-> n, ok |-> TRUE]
    /\ details' = n
    /\ box' = FALSE
    /\ End(n)
    /\ UNCHANGED <<metrics, sent, errors, timers, rivals>>

\* A plausible fault: the button is enabled by the answer, not by finally.
FailBusy(n) ==
    /\ n \in Pending
    /\ analysis' = [click |-> n, ok |-> FALSE]
    /\ phase' = [phase EXCEPT ![n] = "ended"]
    /\ UNCHANGED <<metrics, sent, busy, details, alert, rivals>>

\* A plausible fault: a timeout of the request that is not cleared by its end.
FailLate(n) ==
    /\ phase[n] # "unsent"
    /\ analysis' = [click |-> n, ok |-> FALSE]
    /\ End(n)
    /\ UNCHANGED <<metrics, sent, details, alert, rivals>>

\* No response, a bad status, or a body that does not parse.  The details of
\* an earlier answer stay below the text of the error.
Fail(n) ==
    /\ n \in Pending
    /\ analysis' = [click |-> n, ok |-> FALSE]
    /\ End(n)
    /\ UNCHANGED <<metrics, sent, details, alert, rivals>>

Next ==
    \/ MetricsLoad \/ MetricsFail
    \/ \E by \in {"mouse", "keyboard"} : ClickBlank(by) \/ Click(by)
    \/ \E n \in Clicks : Respond(n) \/ Show(n) \/ Fail(n)
    \/ Timer

Spec == Init /\ [][Next]_vars

\* Timers fire, and every request comes to an end of some kind.
FairSpec ==
    /\ Spec
    /\ WF_vars(Timer)
    /\ \A n \in Clicks : WF_vars(Respond(n) \/ Show(n) \/ Fail(n))

-----------------------------------------------------------------------------
(* Properties.                                                             *)

\* Types of the variables; timers fire in the order of their errors.
TypeOK ==
    /\ metrics \in {"loading", "loaded", "failed"}
    /\ sent \in 0..MaxClicks
    /\ phase \in [Clicks -> {"unsent", "response", "body", "ended"}]
    /\ \A n \in Clicks : phase[n] = "unsent" <=> n > sent
    /\ busy \in BOOLEAN
    /\ analysis \in Outcome \cup {None}
    /\ details \in 0..MaxClicks
    /\ box \in BOOLEAN
    /\ errors \in 0..MaxErrors
    /\ timers \in Seq(Errors)
    /\ \A i, j \in DOMAIN timers : i < j => timers[i] < timers[j]
    /\ rivals \subseteq Clicks \X Clicks

AtOnce(m, n) == <<m, n>> \in rivals \/ <<n, m>> \in rivals

\* The page looks busy only while an answer is on its way, and it looks idle
\* with an answer on its way only because another click was made on top of
\* that one and has ended first.
BusyTellsPending ==
    /\ busy => Pending # {}
    /\ ~busy => \A n \in Pending : \E m \in Clicks \ Pending : AtOnce(m, n)

\* The outcome of a click gives way to that of an earlier one only when the
\* two were under way at once; the same for the details.
OlderOnlyInRace ==
    [][/\ (analysis # None /\ analysis'.click < analysis.click)
             => AtOnce(analysis.click, analysis'.click)
       /\ (details' # 0 /\ details' < details) => AtOnce(details, details')]_vars

\* An error in the box has a timer of its own still to come: older timers, and
\* answers that hide the box, never leave it there for ever.
VisibleErrorTimed == box => \E i \in DOMAIN timers : timers[i] = errors

\* So it goes away by itself, and the button comes back.
PageSettles == /\ box ~> ~box
               /\ busy ~> ~busy
=============================================================================
