------------------------- MODULE InjectObservation -------------------------
(* What the daemon observes of one session after an inject, and whom it      *)
(* tells: the session's state machine (session-state.js), the pending report *)
(* of the newest tracked inject with its timers, the observations filed in   *)
(* the ledger and the notices to the source (session-actions.js,             *)
(* delivery-runtime.js).  Every handler runs to its next await; output,      *)
(* timers, other injects and answers of the ledger come between them.  How   *)
(* far a submit of the inject is, is left open.                              *)
(* The names begin with Obs where Ledger, which the proofs extend as well,   *)
(* has the same ones.                                                        *)
EXTENDS Naturals, SequencesExt

CONSTANTS
  MaxInject,   \* bound: tracked injects into the session, numbered as they begin
  MaxScreen,   \* bound: times the screen says something: output, silence, a ready frame
  MaxCalls,    \* bound: observations under way while the screen still changes
  MaxRearms,   \* IDLE_UNCONFIRMED_SETTLE_MAX_REARMS + IDLE_UNCONFIRMED_CPU_MAX_REARMS
  PushScreen   \* TELEPTY_COMPLETION_UNKNOWN_PUSH=1

ASSUME BoundsAssumption == {MaxInject, MaxScreen, MaxCalls, MaxRearms} \subseteq Nat

Inject == 1..MaxInject
NoInject == 0

VARIABLES
  screens,    \* times the screen has said something (bound)
  wrapped,    \* behind an owner bridge (ready frames), not spawned (sweeps, exits)
  machine,    \* the session's state machine: state, and a recent OSC 133 marker
  begun,      \* injects that have begun
  pending,    \* pendingReports[session]
  report,     \* the pending-report object of each inject
  record,     \* the ledger record of each inject: tracking state, last observation
  calls,      \* recordObservation calls that wait for the ledger
  delivered,  \* deliveredAbsenceIdentities of each inject
  told,       \* the notices the source has received
  owed        \* an idle edge awaits the end of the settle window it fell into

obsVars == <<screens, wrapped, machine, begun, pending, report, record, calls, delivered, told, owed>>

Busy == {"working", "thinking"}
State == Busy \cup {"starting", "idle", "waiting", "error", "dead", "gone"}

\* The measured causes, one for each observation identity; quiet stands for the three of _tick
\* and the sweep's.
Quiet == {"marker", "quiet"}
Cause == Quiet \cup {"output", "busy", "input_request", "repeated_error",
                     "thinking_timeout", "ready", "exit", "terminated", "kill_failed"}

NewReport ==
  [window |-> "unopened", timer |-> FALSE, opener |-> "none", rearms |-> 0, dwell |-> FALSE]

\* The session may have been at work before.
ObsInit ==
  /\ screens = 0 /\ wrapped \in BOOLEAN
  /\ machine \in [state : State \ {"dead", "gone"}, marked : BOOLEAN]
  /\ machine.state = "starting" => ~machine.marked
  /\ begun = 0 /\ pending = NoInject /\ report = [i \in Inject |-> NewReport]
  /\ record = [i \in Inject |-> [st |-> "none", last |-> "none"]]
  /\ calls = <<>> /\ delivered = [i \in Inject |-> {}] /\ told = <<>>
  /\ owed = [i \in Inject |-> FALSE]

Present == machine.state \notin {"dead", "gone"}
Shows ==
  /\ Len(calls) < MaxCalls
  /\ screens < MaxScreen /\ screens' = screens + 1

-----------------------------------------------------------------------------
(* Observations.                                                             *)

\* recordObservation up to its await.  (of: the inject that the cause was measured for.)
Filed(i, cause, push, of) ==
  Append(calls, [inject |-> i, cause |-> cause, push |-> push, of |-> of])

\* fireAutoReport for the report of i (reports: all of them, as the caller has left them).  A
\* ready frame is dropped when its submit has been answered and waits for one under way; the
\* first quiet opens a settle window; after the window everything is observed at once.
Fire(i, reports, cause, of) ==
  LET r == reports[i]
      Leaves(new) == report' = [reports EXCEPT ![i] = new]
  IN
  \/ cause = "ready" /\ Leaves(r) /\ UNCHANGED calls
  \/ cause = "ready" /\ Leaves([r EXCEPT !.dwell = TRUE]) /\ UNCHANGED calls
  \/ r.window = "open" /\ Leaves(r) /\ UNCHANGED calls
  \/ /\ r.window = "unopened" /\ UNCHANGED calls
     /\ Leaves([r EXCEPT !.window = "open", !.timer = TRUE, !.opener = cause])
  \/ r.window = "done" /\ Leaves(r) /\ calls' = Filed(i, cause, TRUE, of)

\* mapObservationCause and PROCESS_FACT_OBSERVATION_KINDS: may the source be interrupted?
MayPush(cause) == PushScreen \/ cause \in {"exit", "kill_failed"}

\* Mutant: only the ledger's comparison with the last observation.
AlreadyDeliveredByLedger(i, cause) == cause = record[i].last

\* markAbsenceDeliveredToSource has seen this identity for this inject.
AlreadyDelivered(i, cause) == cause \in delivered[i]

\* The ledger writes the observation of a call, and only then the source is told, once per
\* identity; or the observation repeats the last one, is refused, or its fate is unknown.
Written(k) ==
  LET c == calls[k]
      i == c.inject
  IN
  /\ c.cause # record[i].last
  /\ record' = [record EXCEPT ![i].last = c.cause]
  /\ calls' = RemoveAt(calls, k)
  /\ IF c.push /\ MayPush(c.cause) /\ ~AlreadyDelivered(i, c.cause)
     THEN /\ delivered' = [delivered EXCEPT ![i] = @ \cup {c.cause}]
          /\ told' = Append(told, <<i, c.cause>>)
     ELSE UNCHANGED <<delivered, told>>
  /\ UNCHANGED <<screens, wrapped, machine, begun, pending, report, owed>>

Unwritten(k) ==
  /\ calls' = RemoveAt(calls, k)
  /\ \/ UNCHANGED record
     \/ record' = [record EXCEPT ![calls[k].inject].last = "unknown"]
  /\ UNCHANGED <<screens, wrapped, machine, begun, pending, report, delivered, told, owed>>

Answer == \E k \in DOMAIN calls : Written(k) \/ Unwritten(k)

-----------------------------------------------------------------------------
(* The state machine and its observer.                                       *)

\* The idle edge waits for a settle window that does not end in the silence of a ready frame.
Settles(r) == r.window # "done" /\ (r.window = "open" => r.opener # "ready")

\* registerStateObserver: an idle edge has to settle, every other transition is observed at
\* once, and the end of the session takes the report away.
Observe(to, cause) ==
  IF pending = NoInject THEN UNCHANGED <<pending, report, calls, owed>>
  ELSE IF to = "idle"
  THEN /\ Fire(pending, report, cause, pending)
       /\ owed' = [owed EXCEPT ![pending] = @ \/ Settles(report[pending])]
       /\ UNCHANGED pending
  ELSE /\ calls' = Filed(pending, cause, to \notin Busy, pending)
       /\ pending' = IF to = "dead" THEN NoInject ELSE pending
       /\ UNCHANGED <<report, owed>>

\* _transition: the observer hears of changes only.
Transition(to, cause, marked) ==
  /\ machine' = [state |-> to, marked |-> marked]
  /\ IF to # machine.state THEN Observe(to, cause)
                           ELSE UNCHANGED <<pending, report, calls, owed>>
  /\ UNCHANGED <<wrapped, begun, record, delivered, told>>

\* _detect: a question, an error repeated often enough, a busy indicator, anything else.
Detected == {<<"waiting", "input_request">>, <<"error", "repeated_error">>,
             <<"thinking", "busy">>, <<"working", "output">>}

\* feed: a prompt marker decides alone.
Output ==
  /\ Present /\ Shows
  /\ \/ Transition("idle", "marker", TRUE)
     \/ \E d \in Detected : Transition(d[1], d[2], machine.marked)

\* _tick after a silence: a marker may have grown old; work that went quiet is idle, thinking
\* only with a recent marker.
Silence ==
  /\ machine.state \in Busy /\ Shows
  /\ \E marked \in {machine.marked, FALSE} :
       /\ machine.state = "thinking" => marked
       /\ Transition("idle", "quiet", marked)

ThinkingTimeout ==
  /\ machine.state = "thinking" /\ Shows
  /\ Transition("error", "thinking_timeout", machine.marked)

\* The PTY's onExit (spawn.js), or DELETE of the session, whose kill may throw (session-actions.js).
Ends ==
  /\ Present /\ UNCHANGED screens
  /\ \/ ~wrapped /\ Transition("dead", "exit", FALSE)
     \/ \E cause \in {"terminated", "kill_failed"} : Transition("dead", cause, FALSE)

\* The health poll removes a session disconnected for long, without a transition.
Collected ==
  /\ Present /\ wrapped
  /\ machine' = [state |-> "gone", marked |-> FALSE]
  /\ UNCHANGED <<screens, wrapped, begun, pending, report, record, calls, delivered, told, owed>>

-----------------------------------------------------------------------------
(* Ready frames, sweeps, and the timers of the reports.                      *)

\* A ready frame of the bridge, or the health poll's sweep over spawned sessions.
Surfaces ==
  /\ Present /\ pending # NoInject /\ Shows
  /\ Fire(pending, report, IF wrapped THEN "ready" ELSE "quiet", pending)
  /\ UNCHANGED <<wrapped, machine, begun, pending, record, delivered, told, owed>>

\* The dwell timer of a ready frame serves whatever report is pending by then.
ReadyTimer(i) ==
  /\ report[i].dwell
  /\ LET reports == [report EXCEPT ![i].dwell = FALSE] IN
       IF pending = NoInject THEN report' = reports /\ UNCHANGED calls
                             ELSE Fire(pending, reports, "ready", i)
  /\ UNCHANGED <<screens, wrapped, machine, begun, pending, record, delivered, told, owed>>

\* Mutant: for nothing only when no report is pending.
AnyPending(i) == pending # NoInject

\* The settle timer has fired; it is for nothing once another report is pending.
Fired(r) == [r EXCEPT !.timer = FALSE, !.window = "unopened"]
StillPending(i) == pending = i

\* Mutant: a busy session puts the end of the window off.
SettlePutOff(i) ==
  /\ report[i].timer /\ ~StillPending(i)
  /\ report' = [report EXCEPT ![i] = Fired(@)]
  /\ owed' = [owed EXCEPT ![i] = FALSE]
  /\ UNCHANGED <<screens, wrapped, machine, begun, pending, record, calls, delivered, told>>

SettleDropped(i) ==
  /\ report[i].timer
  /\ ~StillPending(i) \/ machine.state \in Busy
  /\ report' = [report EXCEPT ![i] = Fired(@)]
  /\ owed' = [owed EXCEPT ![i] = FALSE]
  /\ UNCHANGED <<screens, wrapped, machine, begun, pending, record, calls, delivered, told>>

\* Mutant: the last rearming is one too many.
SettleRearmedOnceMore(i) ==
  /\ report[i].timer /\ StillPending(i) /\ machine.state \notin Busy
  /\ report[i].rearms <= MaxRearms
  /\ report' = [report EXCEPT ![i].rearms = @ + 1]
  /\ UNCHANGED <<screens, wrapped, machine, begun, pending, record, calls, delivered, told, owed>>

\* Activity since the window was armed, or a child that used the CPU, opens it again, a bounded
\* number of times.
SettleRearmed(i) ==
  /\ report[i].timer /\ StillPending(i) /\ machine.state \notin Busy
  /\ report[i].rearms < MaxRearms
  /\ report' = [report EXCEPT ![i].rearms = @ + 1]
  /\ UNCHANGED <<screens, wrapped, machine, begun, pending, record, calls, delivered, told, owed>>

SettleSpeaks(i) ==
  /\ report[i].timer /\ StillPending(i) /\ machine.state \notin Busy
  /\ LET reports == [report EXCEPT ![i] = [Fired(@) EXCEPT !.window = "done"]]
     IN Fire(pending, reports, report[i].opener, i)
  /\ owed' = [owed EXCEPT ![i] = FALSE]
  /\ UNCHANGED <<screens, wrapped, machine, begun, pending, record, delivered, told>>

Settle(i) == SettleDropped(i) \/ SettleRearmed(i) \/ SettleSpeaks(i)

-----------------------------------------------------------------------------
(* Injects.                                                                  *)

\* beginTrackedInjection and the handler of /inject, once the begin is durable (the session may
\* have ended by then): it supersedes the tracked injects of the session, and its report takes
\* the place of theirs.
Begin(i) ==
  /\ i = begun + 1 /\ begun' = i
  /\ record' = [j \in Inject |->
       IF j = i THEN [st |-> "tracked", last |-> "tracking_started"]
       ELSE IF record[j].st = "tracked"
            THEN [st |-> "superseded", last |-> "tracking_superseded"]
       ELSE record[j]]
  /\ pending' = i /\ report' = [report EXCEPT ![i] = NewReport]
  /\ UNCHANGED <<screens, wrapped, machine, calls, delivered, told, owed>>

\* abortTrackedInjection of a refused delivery: the report goes if it is this inject's; the
\* record is aborted unless it has been superseded meanwhile or the ledger does not answer.
Refused(i) ==
  /\ i <= begun /\ record[i].st # "aborted"
  /\ pending' = IF pending = i THEN NoInject ELSE pending
  /\ \/ UNCHANGED record
     \/ /\ record[i].st = "tracked"
        /\ record' = [record EXCEPT ![i] = [st |-> "aborted", last |-> "inject_delivery_refused"]]
  /\ UNCHANGED <<screens, wrapped, machine, begun, report, calls, delivered, told, owed>>

\* DELETE /api/pendingReports/:id.
Dismissed ==
  /\ pending # NoInject /\ pending' = NoInject
  /\ UNCHANGED <<screens, wrapped, machine, begun, report, record, calls, delivered, told, owed>>

-----------------------------------------------------------------------------
ObsNext ==
  \/ Output \/ Silence \/ ThinkingTimeout \/ Ends \/ Collected \/ Surfaces \/ Answer
  \/ Dismissed
  \/ \E i \in Inject : ReadyTimer(i) \/ Settle(i) \/ Begin(i) \/ Refused(i)

ObsSpec == ObsInit /\ [][ObsNext]_obsVars

\* Timers fire and the ledger answers; nothing makes a session speak.
ObsFairSpec == ObsSpec /\ WF_obsVars(Answer) /\ \A i \in Inject : WF_obsVars(Settle(i))

-----------------------------------------------------------------------------
(* Properties.                                                               *)

Report ==
  [window : {"unopened", "open", "done"}, timer : BOOLEAN, opener : Quiet \cup {"none", "ready"},
   rearms : 0..MaxRearms, dwell : BOOLEAN]

ObsTypeOK ==
  /\ screens \in 0..MaxScreen /\ wrapped \in BOOLEAN
  /\ machine \in [state : State, marked : BOOLEAN]
  /\ begun \in 0..MaxInject /\ pending \in 0..begun /\ report \in [Inject -> Report]
  /\ record \in [Inject -> [st : {"none", "tracked", "superseded", "aborted"},
                            last : Cause \cup {"none", "tracking_started", "tracking_superseded",
                                               "inject_delivery_refused", "unknown"}]]
  /\ calls \in Seq([inject : Inject, cause : Cause, push : BOOLEAN, of : Inject])
  /\ delivered \in [Inject -> SUBSET Cause] /\ told \in Seq(Inject \X Cause)
  /\ owed \in [Inject -> BOOLEAN]
  /\ \A i \in Inject : report[i].timer <=> report[i].window = "open"

\* What the screen shows is filed under the inject it was measured for: a settle window that
\* outlives its inject says nothing of the next one.  (A deferred ready frame is not bound by it.)
OwnEvidence == \A c \in ToSet(calls) : c.cause # "ready" => c.of = c.inject

\* Each absence of an inject reaches its source once, although the ledger, which compares only
\* with the last observation, may have written it again.
ToldOnce == IsInjective(told)

\* An idle edge is followed by its observation, or by news that the session is busy again or
\* that the report has gone.
QuietAnswered == \A i \in Inject : owed[i] ~> ~owed[i]
=============================================================================
