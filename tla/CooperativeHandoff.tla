------------------------- MODULE CooperativeHandoff -------------------------
(***************************************************************************)
(* Cooperative handoff of a wrapped session                                *)
(* (src/principal/cooperative-handoff.js, src/principal/pending-handoff.js *)
(* and the custody checks of src/mailbox).  The owning principal asks the  *)
(* daemon to stop the incumbent child; once the incumbent's bridge reports *)
(* its exit, the session moves to a new epoch with a new bearer.  Messages *)
(* that were never attempted and whose senders consented cross the epoch   *)
(* and are dispatched to the successor, each once.                         *)
(*                                                                         *)
(* The daemon keeps a record in memory (mem) and in its session store      *)
(* (store); messages are in the mailbox's journal; a bridge (cli.js)       *)
(* holds the child.  The bridge of epoch e is the one started with the     *)
(* bearer of e.  Frames between daemon and bridge are ordered and die with *)
(* their connection; a store write may fail, or be visible without being   *)
(* acknowledged; the daemon may be killed.                                 *)
(***************************************************************************)
EXTENDS Naturals, FiniteSets, Sequences

CONSTANTS
  Message,    \* messages for the session
  NoMessage,
  MaxEpoch,   \* epochs of the session: 1 and one more for each handoff
  MaxOwner,   \* bound on the owner generations (claims of the session)
  MaxIntent,  \* bound on the handoff requests
  MaxFaults   \* bound on store failures, lost connections and kills

ASSUME HandoffAssumption ==
  /\ NoMessage \notin Message
  /\ MaxEpoch \in Nat \ {0} /\ MaxOwner \in Nat \ {0}
  /\ MaxIntent \in Nat /\ MaxFaults \in Nat

VARIABLES
  up,       \* the daemon runs
  mem,      \* its record of the session
  store,    \* the record in the session store
  attempt,  \* the handoff request that awaits an acknowledgement
  journal,  \* journal[m]: the last state of m in the mailbox
  consent,  \* consent[m]: the epoch and owner generation that m's sender agreed to leave
  target,   \* target[m]: the owner generation in injectionTargets, 0 for none
  settled,  \* the messages with a row in handoff-settlements.jsonl
  flight,   \* the transferred message whose receipt the delivery engine awaits
  barrier,  \* the message whose return is owed (session.pendingSubmit)
  down,     \* frames from the daemon to the owner's bridge
  back,     \* frames from the owner's bridge to the daemon
  child,    \* child[b]: the process held by the bridge of epoch b
  held,     \* held[b]: the intent for which bridge b stops its child (handoffPending)
  queue,    \* queue[b]: input that bridge b accepted and has not written
  tried,    \* tried[b]: the messages in the receipts of b's pending writer
  bearers,  \* the epochs whose bearer was disclosed to the owner
  wrote,    \* wrote[m]: how often m's text was written to a child
  captured, \* the messages that some committed handoff recorded
  ended,    \* the session was deleted
  claims, intents, faults

daemonVars == <<up, mem, store, attempt, bearers, captured, ended>>
mailVars == <<journal, consent, target, settled, flight, barrier>>
wireVars == <<down, back>>
bridgeVars == <<child, held, queue, tried, wrote>>
counters == <<claims, intents, faults>>
vars == <<daemonVars, mailVars, wireVars, bridgeVars, counters>>

Bridge == 1..MaxEpoch
Owner == 0..MaxOwner
Terminal == {"acked", "closed", "gone"}
Journal == {"none", "pristine", "pending", "in_flight", "unknown"} \cup Terminal
IntentState == {"absent", "awaiting_ack", "refused", "outcome_unknown", "committed"}

NoIntent == [id |-> 0, state |-> "absent", epoch |-> 0, owner |-> 0,
             records |-> {}, started |-> {}, invoked |-> {}]
NoAttempt == [id |-> 0, sent |-> FALSE, expired |-> FALSE]
NoFlight == [msg |-> NoMessage, epoch |-> 0, owner |-> 0]
NoBarrier == [msg |-> NoMessage, owner |-> 0]

(* activeHandoff *)
Active(s) == s.intent.state \in {"awaiting_ack", "outcome_unknown"}

\* What a save writes, and what a restart makes of it: no owner, nothing ready.
Persisted(s) == [epoch |-> s.epoch, intent |-> s.intent]
Restored(p) == [epoch |-> p.epoch, intent |-> p.intent, owner |-> 0, ws |-> FALSE, ready |-> FALSE]

Spend(fault) == /\ fault => faults < MaxFaults
                /\ faults' = faults + IF fault THEN 1 ELSE 0

\* persistSessions: done, visible but not acknowledged, or failed.
Results == {"ok", "visible", "failed"}
Save(result, s) == store' = IF result = "failed" THEN store ELSE Persisted(s)

Init ==
  /\ up = TRUE /\ ended = FALSE
  /\ mem = [epoch |-> 1, intent |-> NoIntent, owner |-> 0, ws |-> FALSE, ready |-> FALSE]
  /\ store = Persisted(mem)
  /\ attempt = NoAttempt
  /\ journal = [m \in Message |-> "none"]
  /\ consent = [m \in Message |-> <<0, 0>>]
  /\ target = [m \in Message |-> 0]
  /\ settled = {} /\ flight = NoFlight /\ barrier = NoBarrier
  /\ down = <<>> /\ back = <<>>
  /\ child = [b \in Bridge |-> "none"]
  /\ held = [b \in Bridge |-> 0]
  /\ queue = [b \in Bridge |-> {}]
  /\ tried = [b \in Bridge |-> {}]
  /\ bearers = {1} /\ captured = {}
  /\ wrote = [m \in Message |-> 0]
  /\ claims = 0 /\ intents = 0 /\ faults = 0

Running == up /\ ~ended

-----------------------------------------------------------------------------
(* Custody: what the mailbox's files say at an authority transfer.  An       *)
(* attempt that was fenced and not settled, or a quarantined message, makes  *)
(* every strict reader refuse.                                               *)

Unsettled == \E m \in Message : journal[m] \in {"in_flight", "unknown"}

\* withCustodySnapshot: nothing is waiting (the 'empty' policy).
CustodyEmpty == ~Unsettled /\ \A m \in Message : journal[m] \notin {"pristine", "pending"}

\* withNeverAttemptedCustody and validConsent: what waits has never been tried,
\* and its sender agreed to leave this very owner.
NeverAttempted(s) ==
  /\ ~Unsettled
  /\ \A m \in Message : /\ journal[m] # "pending"
                        /\ journal[m] = "pristine" => consent[m] = <<s.epoch, s.owner>>
Waiting == {m \in Message : journal[m] = "pristine"}

\* Mutant: a return that is still owed is not looked at.
MayCaptureOwingReturn(policy) == IF policy = "empty" THEN CustodyEmpty ELSE NeverAttempted(mem)

\* captureCustody, with hasUnsettled.
MayCapture(policy) ==
  /\ barrier = NoBarrier
  /\ IF policy = "empty" THEN CustodyEmpty ELSE NeverAttempted(mem)

\* pendingNamespaceReserved: until every captured message was invoked and
\* acknowledged, with a settlement for those that compaction has removed.
Reserved ==
  LET event == mem.intent
  IN  /\ event.state = "committed" /\ event.records # {}
      /\ \/ ~(event.records \subseteq event.invoked)
         \/ Unsettled
         \/ \E m \in event.records :
              journal[m] # "acked" /\ ~(journal[m] \in {"none", "gone"} /\ m \in settled)

-----------------------------------------------------------------------------
(* The owner's connection.                                                   *)

\* An owner claim: the current bearer, and no handoff under way.
Claim(b) ==
  /\ Running /\ b = mem.epoch /\ b \in bearers
  /\ child[b] \in {"none", "alive"} /\ held[b] = 0
  /\ ~mem.ws /\ ~Active(mem) /\ claims < MaxOwner
  /\ claims' = claims + 1
  /\ mem' = [mem EXCEPT !.ws = TRUE, !.owner = claims + 1, !.ready = FALSE]
  /\ child' = [child EXCEPT ![b] = "alive"]
  /\ UNCHANGED <<up, store, attempt, bearers, captured, ended, mailVars, wireVars,
                 held, queue, tried, wrote, intents, faults>>

\* The owner's bridge reports a surface that is ready for a pending write.
Ready ==
  /\ Running /\ mem.ws /\ ~mem.ready
  /\ child[mem.epoch] = "alive" /\ held[mem.epoch] = 0 /\ queue[mem.epoch] = {}
  /\ mem' = [mem EXCEPT !.ready = TRUE]
  /\ UNCHANGED <<up, store, attempt, bearers, captured, ended, mailVars, wireVars,
                 bridgeVars, counters>>

Disconnected(s) == [s EXCEPT !.ws = FALSE]

\* The connection is lost.  A bridge that stops its child does not come back.
Lose ==
  /\ Running /\ mem.ws
  /\ Spend(TRUE)
  /\ mem' = Disconnected(mem) /\ down' = <<>> /\ back' = <<>>
  /\ UNCHANGED <<up, store, attempt, bearers, captured, ended, mailVars, bridgeVars,
                 claims, intents>>

-----------------------------------------------------------------------------
(* The mailbox and the delivery engine.                                      *)

\* deliverInjectionToSession.  A consented message has no return (noEnter).
Enqueue(m, consented, enter) ==
  /\ Running /\ mem.ws /\ ~Active(mem) /\ barrier = NoBarrier
  /\ journal[m] = "none" /\ ~(consented /\ enter)
  /\ journal' = [journal EXCEPT ![m] = IF consented THEN "pristine" ELSE "pending"]
  /\ consent' = [consent EXCEPT ![m] = IF consented THEN <<mem.epoch, mem.owner>> ELSE <<0, 0>>]
  /\ target' = [target EXCEPT ![m] = mem.owner]
  /\ barrier' = IF enter THEN [msg |-> m, owner |-> 0] ELSE NoBarrier
  /\ UNCHANGED <<daemonVars, settled, flight, wireVars, bridgeVars, counters>>

\* mailboxDeliveryOptions.canProcess
CanProcess ==
  /\ Running /\ ~Active(mem) /\ mem.ws
  /\ Cardinality(mem.intent.records) > Cardinality(mem.intent.started) => mem.ready

\* A tick of the engine is at m.
AtMessage(m) == CanProcess /\ flight = NoFlight /\ journal[m] \in {"pristine", "pending"}

\* A message that was enqueued for an epoch before the current one.
FromBefore(m) == consent[m][1] \notin {0, mem.epoch}
\* transferredRecord: the committed handoff recorded it.
Transferred(m) == mem.intent.state = "committed" /\ m \in mem.intent.records

\* ack compacts the journal when enough of its messages have ended.
Acked(m) ==
  \/ journal' = [journal EXCEPT ![m] = "acked"]
  \/ journal' = [n \in Message |-> IF n = m \/ journal[n] \in Terminal THEN "gone" ELSE journal[n]]

Text(m) == [type |-> "text", msg |-> m, id |-> 0]

\* An ordinary message: to the owner it was enqueued for, if that is still the
\* owner.  Fence, write and ack run without giving way to another request.
DispatchPlain(m) ==
  /\ AtMessage(m) /\ ~FromBefore(m)
  /\ target' = [target EXCEPT ![m] = 0]
  /\ IF target[m] \in {0, mem.owner}
     THEN /\ Acked(m) /\ down' = Append(down, Text(m))
          /\ barrier' = IF barrier.msg = m THEN [barrier EXCEPT !.owner = mem.owner] ELSE barrier
     ELSE journal' = [journal EXCEPT ![m] = "closed"] /\ UNCHANGED <<down, barrier>>
  /\ UNCHANGED <<daemonVars, consent, settled, flight, back, bridgeVars, counters>>

\* The fence of an attempt cannot be written: nack enqueues the message again,
\* without its consent.
FenceFails(m) ==
  /\ AtMessage(m) /\ Spend(TRUE)
  /\ journal' = [journal EXCEPT ![m] = "pending"]
  /\ consent' = [consent EXCEPT ![m] = <<0, 0>>]
  /\ UNCHANGED <<daemonVars, target, settled, flight, barrier, wireVars, bridgeVars,
                 claims, intents>>

StartedUnrecorded(m) == [mem EXCEPT !.ready = FALSE]   \* Mutant: the start is not recorded.
Started(m) == [mem EXCEPT !.intent.started = @ \cup {m}, !.ready = FALSE]

\* A transferred message: the start of its dispatch is saved before it is sent,
\* and a start that was saved, or may have been, is never repeated.
DispatchPending(m) ==
  /\ AtMessage(m) /\ FromBefore(m)
  /\ IF ~Transferred(m) \/ m \in mem.intent.started
     THEN /\ journal' = [journal EXCEPT ![m] = "unknown"]
          /\ UNCHANGED <<mem, store, flight, target, down, faults>>
     ELSE \E result \in Results :
            /\ Save(result, Started(m)) /\ Spend(result # "ok")
            /\ mem' = IF result = "failed" THEN mem ELSE Started(m)
            /\ IF result = "ok"
               THEN /\ journal' = [journal EXCEPT ![m] = "in_flight"]
                    /\ flight' = [msg |-> m, epoch |-> mem.epoch, owner |-> mem.owner]
                    /\ target' = [target EXCEPT ![m] = mem.owner]
                    /\ down' = Append(down, [type |-> "pending", msg |-> m, id |-> mem.intent.id])
               ELSE /\ journal' = [journal EXCEPT ![m] = "unknown"]
                    /\ UNCHANGED <<flight, target, down>>
  /\ UNCHANGED <<up, attempt, bearers, captured, ended, consent, settled, barrier, back,
                 bridgeVars, claims, intents>>

\* The deferred return goes to the owner of its text, and not through a handoff.
\* A text that is not written in time is withdrawn.
Return ==
  LET m == barrier.msg
      written == barrier.owner # 0
  IN
  /\ Running /\ m # NoMessage
  /\ barrier' = NoBarrier
  /\ down' = IF written /\ mem.ws /\ mem.owner = barrier.owner /\ ~Active(mem)
             THEN Append(down, [type |-> "return", msg |-> m, id |-> 0]) ELSE down
  /\ journal' = IF journal[m] = "pending" THEN [journal EXCEPT ![m] = "closed"] ELSE journal
  /\ UNCHANGED <<daemonVars, consent, target, settled, flight, back, bridgeVars, counters>>

\* What becomes of a transferred message when its receipt is in (done), or is
\* refused, late or lost.  A receipt is saved, then turned into a settlement by a
\* trusted ack.
Settle(done) ==
  LET m == flight.msg
      invoked == [mem EXCEPT !.intent.invoked = @ \cup {m}]
  IN
  /\ flight' = NoFlight
  /\ IF done
     THEN \E result \in Results, proof \in BOOLEAN :
            /\ Spend(result # "ok" \/ ~proof) /\ Save(result, invoked)
            /\ mem' = IF result = "failed" THEN mem ELSE invoked
            /\ IF result = "ok" /\ proof
               THEN Acked(m) /\ settled' = settled \cup {m}
               ELSE journal' = [journal EXCEPT ![m] = "unknown"] /\ settled' = settled
            /\ target' = IF result = "ok" THEN [target EXCEPT ![m] = 0] ELSE target
     ELSE /\ journal' = [journal EXCEPT ![m] = "unknown"]
          /\ UNCHANGED <<mem, store, settled, target, faults>>

\* The timer of requestPendingWrite.
ReceiptTimeout ==
  /\ Running /\ flight # NoFlight
  /\ Settle(FALSE)
  /\ UNCHANGED <<up, attempt, bearers, captured, ended, consent, barrier, wireVars, bridgeVars,
                 claims, intents>>

\* Mutant: an attempt that nobody finished is tried again.
RecoverToRetry(m) ==
  /\ CanProcess /\ flight = NoFlight /\ journal[m] = "in_flight"
  /\ journal' = [journal EXCEPT ![m] = "pending"]
  /\ UNCHANGED <<daemonVars, consent, target, settled, flight, barrier, wireVars, bridgeVars,
                 counters>>

\* The sweeps of a tick: an attempt that nobody finished is quarantined, a message
\* that waited too long has expired.
Recover(m) ==
  /\ CanProcess /\ flight = NoFlight /\ journal[m] = "in_flight"
  /\ journal' = [journal EXCEPT ![m] = "unknown"]
  /\ UNCHANGED <<daemonVars, consent, target, settled, flight, barrier, wireVars, bridgeVars,
                 counters>>
Expire(m) ==
  /\ AtMessage(m)
  /\ journal' = [journal EXCEPT ![m] = "closed"]
  /\ UNCHANGED <<daemonVars, consent, target, settled, flight, barrier, wireVars, bridgeVars,
                 counters>>

-----------------------------------------------------------------------------
(* The owner's bridge.                                                       *)

Answer(status) == [type |-> "ack", msg |-> NoMessage, id |-> Head(down).id, status |-> status]

\* handoff_stop: nothing may be left to write, and the deadline lies ahead; a
\* signal that cannot be sent is a refusal.
Stop(b) ==
  /\ Head(down).type = "stop"
  /\ \/ /\ child[b] = "alive" /\ held[b] = 0 /\ queue[b] = {}
        /\ attempt.id = Head(down).id /\ ~attempt.expired
        /\ held' = [held EXCEPT ![b] = attempt.id]
        /\ child' = [child EXCEPT ![b] = "stopping"]
        /\ back' = back
     \/ back' = Append(back, Answer("refused")) /\ UNCHANGED <<held, child>>
  /\ UNCHANGED <<queue, tried, wrote>>

Accept(b) ==
  /\ Head(down).type \in {"text", "return"}
  /\ queue' = IF held[b] = 0 THEN [queue EXCEPT ![b] = @ \cup {Head(down)}] ELSE queue
  /\ UNCHANGED <<held, child, tried, wrote, back>>

\* createPendingWriter: a message has one try, whether it is written, written in
\* part or refused; the receipt says which.
PendingWrite(b) ==
  LET m == Head(down).msg
      inTime == flight.msg = m
      receipt(ok) == [type |-> "receipt", msg |-> m, id |-> Head(down).id,
                      status |-> IF ok THEN "invoked" ELSE "unknown"]
  IN
  /\ Head(down).type = "pending"
  /\ IF held[b] # 0 THEN UNCHANGED <<tried, wrote, back>>
     ELSE IF ~inTime \/ m \in tried[b]
     THEN back' = Append(back, receipt(FALSE)) /\ UNCHANGED <<tried, wrote>>
     ELSE /\ tried' = [tried EXCEPT ![b] = @ \cup {m}]
          /\ \/ /\ child[b] = "alive" /\ queue[b] = {}
                /\ \E ok \in BOOLEAN :
                     /\ wrote' = [wrote EXCEPT ![m] = @ + 1]
                     /\ back' = Append(back, receipt(ok))
             \/ back' = Append(back, receipt(FALSE)) /\ wrote' = wrote
  /\ UNCHANGED <<held, child, queue>>

\* The bridge takes a frame.
Receive ==
  /\ mem.ws /\ down # <<>>
  /\ down' = Tail(down)
  /\ \/ Stop(mem.epoch) \/ Accept(mem.epoch) \/ PendingWrite(mem.epoch)
  /\ UNCHANGED <<daemonVars, mailVars, counters>>

\* The bridge writes what it has queued; the daemon may be gone.
BridgeWrites(b) ==
  /\ child[b] = "alive" /\ held[b] = 0
  /\ \E f \in queue[b] :
       /\ queue' = [queue EXCEPT ![b] = @ \ {f}]
       /\ wrote' = IF f.type = "text" THEN [wrote EXCEPT ![f.msg] = @ + 1] ELSE wrote
  /\ UNCHANGED <<daemonVars, mailVars, wireVars, child, held, tried, counters>>

\* The held child exits; the bridge reports it if it is still connected.
ChildExit(b) ==
  /\ child[b] = "stopping"
  /\ child' = [child EXCEPT ![b] = "exited"]
  /\ back' = IF mem.ws /\ mem.epoch = b
             THEN Append(back, [type |-> "ack", msg |-> NoMessage, id |-> held[b],
                                status |-> "exited"]) ELSE back
  /\ UNCHANGED <<daemonVars, mailVars, down, held, queue, tried, wrote, counters>>

-----------------------------------------------------------------------------
(* The handoff.                                                              *)

\* POST /handoff: the request is recorded durably before the bridge is asked to
\* stop.  A record that may be on disk, but is not acknowledged, keeps its fence.
OpenHandoff(policy, result, sent) ==
  LET intent == [id |-> intents + 1, state |-> "awaiting_ack", epoch |-> mem.epoch,
                 owner |-> mem.owner, records |-> IF policy = "empty" THEN {} ELSE Waiting,
                 started |-> {}, invoked |-> {}]
      opened == [mem EXCEPT !.intent = intent]
  IN
  /\ Running /\ mem.ws /\ ~Active(mem) /\ attempt = NoAttempt
  /\ MayCapture(policy)
  /\ intents < MaxIntent /\ mem.epoch < MaxEpoch
  /\ intents' = intents + 1
  /\ Spend(result # "ok" \/ ~sent) /\ Save(result, opened)
  /\ mem' = IF result = "failed" THEN mem ELSE opened
  /\ IF result = "ok"
     THEN /\ attempt' = [id |-> intent.id, sent |-> sent, expired |-> FALSE]
          /\ down' = IF sent THEN Append(down, [type |-> "stop", msg |-> NoMessage, id |-> intent.id])
                     ELSE down
     ELSE UNCHANGED <<attempt, down>>
  /\ UNCHANGED <<up, bearers, captured, ended, mailVars, back, bridgeVars, claims>>

\* The request still names the session's owner, epoch and intent (current).
Current == mem.intent.id = attempt.id /\ mem.ws /\ mem.owner = mem.intent.owner

\* The custody that the request recorded, nothing more and nothing less.
SameCustody ==
  /\ MayCapture(IF mem.intent.records = {} THEN "empty" ELSE "never-attempted")
  /\ Waiting = mem.intent.records

WithIntent(state) == [mem EXCEPT !.intent.state = state]

\* No commit: the intent ends as state, or as unknown when that cannot be saved.
Abandon(state, rest) ==
  /\ \E result \in Results :
       /\ Spend(result # "ok") /\ Save(result, WithIntent(state))
       /\ mem' = WithIntent(IF result = "ok" THEN state ELSE "outcome_unknown")
  /\ back' = rest /\ UNCHANGED <<bearers, captured, down>>

\* The commit: a new epoch and bearer, no owner, and the record of what crosses,
\* in one save.
Commit(rest) ==
  LET committed == [mem EXCEPT !.epoch = @ + 1, !.owner = 0, !.ws = FALSE, !.ready = FALSE,
                               !.intent.state = "committed"]
  IN
  \/ \E result \in {"ok", "visible"} :
       /\ Spend(result # "ok") /\ Save(result, committed)
       /\ mem' = committed
       /\ captured' = captured \cup mem.intent.records
       /\ bearers' = IF result = "ok" THEN bearers \cup {committed.epoch} ELSE bearers
       /\ down' = <<>> /\ back' = <<>>
  \/ \E result \in Results :
       /\ Spend(TRUE) /\ Save(result, WithIntent("outcome_unknown"))
       /\ mem' = WithIntent("outcome_unknown")
       /\ back' = rest /\ UNCHANGED <<bearers, captured, down>>

AnsweredAtAll(status) == status # "none"   \* Mutant: any answer is an exit.
Exited(status) == status = "exited" /\ ~attempt.expired

Verdict(status) == IF status = "refused" THEN "refused" ELSE "outcome_unknown"

\* What the request does once it has an answer, or none in time.
Finish(status, rest) ==
  /\ attempt' = NoAttempt
  /\ IF ~Current
     THEN back' = rest /\ UNCHANGED <<mem, store, bearers, captured, down, faults>>
     ELSE IF ~Exited(status) THEN Abandon(Verdict(status), rest)
     ELSE IF SameCustody THEN Commit(rest) ELSE Abandon("outcome_unknown", rest)

TimedOut ==
  /\ Running /\ attempt # NoAttempt /\ (attempt.expired \/ ~attempt.sent)
  /\ Finish("none", back)
  /\ UNCHANGED <<up, ended, mailVars, bridgeVars, claims, intents>>

\* acceptAck: only for the intent of the request that waits, and before its deadline.
TakeAck ==
  LET f == Head(back)
  IN
  /\ Running /\ mem.ws /\ back # <<>> /\ f.type = "ack"
  /\ IF attempt # NoAttempt /\ attempt.id = f.id /\ mem.intent.id = f.id /\ ~attempt.expired
     THEN Finish(f.status, Tail(back))
     ELSE UNCHANGED <<mem, store, attempt, bearers, captured, down, faults>> /\ back' = Tail(back)
  /\ UNCHANGED <<up, ended, mailVars, bridgeVars, claims, intents>>

TakeReceipt ==
  LET f == Head(back)
  IN
  /\ Running /\ mem.ws /\ back # <<>> /\ f.type = "receipt"
  /\ back' = Tail(back)
  /\ IF flight.msg = f.msg /\ flight.epoch = mem.epoch /\ flight.owner = mem.owner
     THEN Settle(f.status = "invoked")
     ELSE UNCHANGED <<mem, store, journal, target, settled, flight, faults>>
  /\ UNCHANGED <<up, attempt, bearers, captured, ended, consent, barrier, down, bridgeVars,
                 claims, intents>>

Deadline ==
  /\ Running /\ attempt # NoAttempt /\ ~attempt.expired
  /\ attempt' = [attempt EXCEPT !.expired = TRUE]
  /\ UNCHANGED <<up, mem, store, bearers, captured, ended, mailVars, wireVars, bridgeVars,
                 counters>>

-----------------------------------------------------------------------------
(* The daemon's life and the session's end.                                  *)

\* Any later save of the daemon writes the record as it is in memory.
Persist ==
  /\ Running /\ store # Persisted(mem)
  /\ store' = Persisted(mem)
  /\ UNCHANGED <<up, mem, attempt, bearers, captured, ended, mailVars, wireVars, bridgeVars,
                 counters>>

Killed ==
  /\ Running /\ Spend(TRUE)
  /\ up' = FALSE /\ mem' = [Disconnected(mem) EXCEPT !.owner = 0, !.ready = FALSE]
  /\ attempt' = NoAttempt /\ flight' = NoFlight /\ barrier' = NoBarrier
  /\ target' = [m \in Message |-> 0]
  /\ down' = <<>> /\ back' = <<>>
  /\ UNCHANGED <<store, bearers, captured, ended, consent, settled, child, held, tried, wrote,
                 claims, intents>>

Crash == Killed /\ UNCHANGED <<journal, queue>>

\* A crash between the fence of an ordinary message and its ack: the text may have
\* reached the bridge.
CrashInDispatch(m) ==
  /\ AtMessage(m) /\ ~FromBefore(m) /\ target[m] \in {0, mem.owner}
  /\ Killed
  /\ journal' = [journal EXCEPT ![m] = "in_flight"]
  /\ \/ queue' = queue
     \/ held[mem.epoch] = 0 /\ queue' = [queue EXCEPT ![mem.epoch] = @ \cup {Text(m)}]

Restart ==
  /\ ~up
  /\ up' = TRUE /\ mem' = Restored(store)
  /\ UNCHANGED <<store, attempt, bearers, captured, ended, mailVars, wireVars, bridgeVars,
                 counters>>

\* The session is deleted: not during a handoff, nor while what crossed is unaccounted.
Destroy ==
  /\ Running /\ ~Active(mem) /\ ~Reserved
  /\ ended' = TRUE /\ mem' = Disconnected(mem) /\ down' = <<>> /\ back' = <<>>
  /\ UNCHANGED <<up, store, attempt, bearers, captured, mailVars, bridgeVars, counters>>

Next ==
  \/ \E b \in Bridge : Claim(b) \/ BridgeWrites(b) \/ ChildExit(b)
  \/ Ready \/ Lose \/ Receive
  \/ \E m \in Message, consented, enter \in BOOLEAN : Enqueue(m, consented, enter)
  \/ \E m \in Message : \/ DispatchPlain(m) \/ FenceFails(m) \/ DispatchPending(m)
                         \/ Recover(m) \/ Expire(m) \/ CrashInDispatch(m)
  \/ Return \/ ReceiptTimeout
  \/ \E policy \in {"empty", "never-attempted"}, result \in Results, sent \in BOOLEAN :
       OpenHandoff(policy, result, sent)
  \/ TimedOut \/ TakeAck \/ TakeReceipt \/ Deadline
  \/ Persist \/ Crash \/ Restart \/ Destroy

Spec == Init /\ [][Next]_vars

-----------------------------------------------------------------------------
(* Properties.                                                               *)

Intent == [id : 0..MaxIntent, state : IntentState, epoch : 0..MaxEpoch, owner : Owner,
           records : SUBSET Message, started : SUBSET Message, invoked : SUBSET Message]

\* The state keeps its shape, and a transferred message that is on its way is recorded
\* as started, in memory and on disk.
TypeOK ==
  /\ up \in BOOLEAN /\ ended \in BOOLEAN
  /\ mem \in [epoch : Bridge, intent : Intent, owner : Owner, ws : BOOLEAN, ready : BOOLEAN]
  /\ store \in [epoch : Bridge, intent : Intent]
  /\ attempt \in [id : 0..MaxIntent, sent : BOOLEAN, expired : BOOLEAN]
  /\ journal \in [Message -> Journal]
  /\ consent \in [Message -> (0..MaxEpoch) \X Owner] /\ target \in [Message -> Owner]
  /\ settled \subseteq Message /\ captured \subseteq Message
  /\ flight \in [msg : Message \cup {NoMessage}, epoch : 0..MaxEpoch, owner : Owner]
  /\ barrier \in [msg : Message \cup {NoMessage}, owner : Owner]
  /\ child \in [Bridge -> {"none", "alive", "stopping", "exited"}]
  /\ held \in [Bridge -> 0..MaxIntent] /\ tried \in [Bridge -> SUBSET Message]
  /\ flight # NoFlight => /\ journal[flight.msg] = "in_flight"
                         /\ flight.msg \in store.intent.started
  /\ bearers \subseteq Bridge /\ wrote \in [Message -> Nat]

\* The session leaves an epoch only after that epoch's child has exited, and a bearer
\* that the owner was given is the one on disk, so that no restart takes it back
\* (the handoff's POST handler).
RotatedAfterExit ==
  /\ \A b \in Bridge : b < mem.epoch => child[b] = "exited"
  /\ \A e \in bearers : e <= store.epoch

\* A message's text is written to a child at most once, whatever is retried, lost,
\* recovered or carried over an epoch (session-delivery.js deliverFn, the receipts of
\* pending-handoff.js).  A settlement says that it was written; when a session is deleted,
\* everything that crossed in its last handoff was (pendingNamespaceReserved, commitSettlement).
CustodyKept ==
  /\ \A m \in Message : wrote[m] <= 1
  /\ \A m \in settled : wrote[m] = 1
  /\ ended /\ mem.intent.state = "committed" => \A m \in mem.intent.records : wrote[m] = 1

\* A change of epoch strands nothing: the old bridge has written all it accepted, no
\* return is owed, no attempt is open, and what waits was never tried, with consent to
\* leave this owner, and is on the record that crosses (captureCustody and its recheck
\* in the POST handler).
NothingStranded ==
  [][mem'.epoch # mem.epoch =>
       /\ queue[mem.epoch] = {} /\ down = <<>>
       /\ barrier = NoBarrier /\ ~Unsettled
       /\ \A m \in Message :
            journal[m] \in {"pristine", "pending"} =>
              /\ consent[m] = <<mem.epoch, mem.owner>>
              /\ m \in mem'.intent.records]_vars

=============================================================================
