---------------------- MODULE CooperativeHandoffProofs ----------------------
(***************************************************************************)
(* Proofs about CooperativeHandoff for any messages and any bounds on its  *)
(* epochs, owners, requests and faults.                                    *)
(*                                                                         *)
(* Two arguments meet in the invariant.  The text of a message has one     *)
(* carrier: the journal, a frame on the wire or an entry of a queue        *)
(* (OneCarrier); what is carried has not been written, what has left the   *)
(* journal never returns to it (WrittenLater), so no text is written       *)
(* twice, and whatever says "invoked" on the wire, in the intent or in the *)
(* settlements says it of a text that was written (ReceiptsTrue).          *)
(* The epoch moves for an acknowledged exit only: a request that waits is  *)
(* the recorded intent (Requested) and keeps the daemon from sending, so   *)
(* its stop frame is the last on the wire (StopLast); the bridge that took *)
(* it accepts nothing more (Stopped); hence at the exit the wire and the   *)
(* queue are empty.                                                        *)
(***************************************************************************)
EXTENDS CooperativeHandoff, TLAPS

USE HandoffAssumption DEF Bridge, Owner

DownFrame ==
  [type : {"text", "return", "pending"}, msg : Message, id : 0..MaxIntent]
  \cup [type : {"stop"}, msg : {NoMessage}, id : 1..MaxIntent]
BackFrame ==
  [type : {"ack"}, msg : {NoMessage}, id : 0..MaxIntent, status : {"refused", "exited"}]
  \cup [type : {"receipt"}, msg : Message, id : 0..MaxIntent, status : {"invoked", "unknown"}]
Memory == [epoch : Bridge, intent : Intent, owner : Owner, ws : BOOLEAN, ready : BOOLEAN]
Saved == [epoch : Bridge, intent : Intent]

\* The types, by the part of the system they belong to: the daemon,
DaemonOK ==
  /\ up \in BOOLEAN /\ ended \in BOOLEAN /\ mem \in Memory /\ store \in Saved
  /\ attempt \in [id : 0..MaxIntent, sent : BOOLEAN, expired : BOOLEAN]
  /\ captured \subseteq Message /\ bearers \subseteq Bridge
  /\ claims \in 0..MaxOwner /\ intents \in 0..MaxIntent /\ faults \in 0..MaxFaults

\* the mailbox and its engine,
MailOK ==
  /\ journal \in [Message -> Journal]
  /\ consent \in [Message -> (0..MaxEpoch) \X Owner] /\ target \in [Message -> Owner]
  /\ settled \subseteq Message
  /\ flight \in [msg : Message \cup {NoMessage}, epoch : 0..MaxEpoch, owner : Owner]
  /\ barrier \in [msg : Message \cup {NoMessage}, owner : Owner]

\* the bridges and the wires.
BridgeOK ==
  /\ child \in [Bridge -> {"none", "alive", "stopping", "exited"}]
  /\ held \in [Bridge -> 0..MaxIntent] /\ tried \in [Bridge -> SUBSET Message]
  /\ wrote \in [Message -> Nat]
  /\ queue \in [Bridge -> SUBSET {f \in DownFrame : f.type \in {"text", "return"}}]
  /\ down \in Seq(DownFrame) /\ back \in Seq(BackFrame)

\* The message in flight is recorded as started, in memory and on disk.
Flying == flight # NoFlight => /\ journal[flight.msg] = "in_flight"
                               /\ flight.msg \in store.intent.started
                               /\ flight.msg \in mem.intent.started

\* Without a connection the wires are empty, and a daemon that is down has none, no request
\* under way and nothing in flight.
Connected ==
  /\ ~mem.ws => down = <<>> /\ back = <<>>
  /\ ~up => ~mem.ws /\ ~ended /\ attempt = NoAttempt /\ flight = NoFlight
  /\ ended => ~mem.ws

\* A request that waits is the recorded intent, under a number never used before.
Requested ==
  /\ attempt # NoAttempt =>
       /\ attempt.id \in 1..intents /\ attempt.id = mem.intent.id
       /\ mem.intent.state = "awaiting_ack" /\ mem.epoch < MaxEpoch
  /\ \A i \in DOMAIN down : down[i].type = "stop" => down[i].id <= intents
  /\ \A b \in Bridge : held[b] <= intents

\* What carries the text of a message to a child.
Carries(f, m) == f.type \in {"text", "pending"} /\ f.msg = m
\* No text has two of them.
OneCarrier ==
  /\ \A i, j \in DOMAIN down : \A m \in Message : Carries(down[i], m) /\ Carries(down[j], m) => i = j
  /\ \A b, c \in Bridge : \A f \in queue[b], g \in queue[c] :
       f.type = "text" /\ g.type = "text" /\ f.msg = g.msg => b = c /\ f = g
  /\ \A i \in DOMAIN down, b \in Bridge : \A f \in queue[b] : f.type = "text" => ~Carries(down[i], f.msg)

\* A text that is carried has not been written, nor has one that the journal still holds.
Carried(m) ==
  \/ \E i \in DOMAIN down : Carries(down[i], m)
  \/ \E b \in Bridge : \E f \in queue[b] : f.type = "text" /\ f.msg = m
Untouched(m) == journal[m] \in {"none", "pristine", "pending"}
WrittenLater ==
  \A m \in Message : /\ Carried(m) => wrote[m] = 0
                     /\ Untouched(m) => wrote[m] = 0 /\ ~Carried(m)
                     /\ wrote[m] <= 1

\* Who says "invoked" tells the truth.
ReceiptsTrue ==
  /\ \A i \in DOMAIN back : back[i].type = "receipt" /\ back[i].status = "invoked" => wrote[back[i].msg] = 1
  /\ \A m \in mem.intent.invoked \cup store.intent.invoked \cup settled : wrote[m] = 1
  /\ ended /\ mem.intent.state = "committed" => mem.intent.records \subseteq mem.intent.invoked

\* A child stops for a request, in a bridge with nothing left to write, and an acknowledged
\* exit is that of the current epoch's child.
Stopped ==
  /\ \A b \in Bridge : child[b] \in {"stopping", "exited"} => held[b] # 0
  /\ \A b \in Bridge : held[b] # 0 => queue[b] = {} /\ child[b] \in {"stopping", "exited"}
  /\ \A i \in DOMAIN back : back[i].type = "ack" /\ back[i].status = "exited" =>
       back[i].id = held[mem.epoch] /\ child[mem.epoch] = "exited"

\* The stop frame of the request that waits is the last on the wire.
StopLast ==
  attempt # NoAttempt =>
    /\ \A i \in DOMAIN down : down[i].type = "stop" /\ down[i].id = attempt.id => i = Len(down)
    /\ held[mem.epoch] = attempt.id => down = <<>>

\* The epoch in memory is the one on disk.
EpochSaved == store.epoch = mem.epoch

Inv ==
  /\ DaemonOK /\ MailOK /\ BridgeOK /\ Flying
  /\ Connected /\ Requested /\ OneCarrier /\ WrittenLater /\ ReceiptsTrue
  /\ Stopped /\ StopLast /\ EpochSaved /\ RotatedAfterExit

-----------------------------------------------------------------------------
(* What the handlers write.                                                  *)

\* What the daemon may write.
LEMMA SaveTyped ==
  ASSUME NEW s \in Memory, store \in Saved, NEW result, Save(result, s)
  PROVE  store' \in Saved
  BY DEF Save, Persisted, Memory, Saved

\* What the handlers make of the record is a record.
LEMMA MemoryTyped ==
  ASSUME NEW s \in Memory
  PROVE  /\ \A m \in Message : [s EXCEPT !.intent.started = @ \cup {m}, !.ready = FALSE] \in Memory
         /\ \A m \in Message : [s EXCEPT !.intent.invoked = @ \cup {m}] \in Memory
         /\ \A state \in IntentState : [s EXCEPT !.intent.state = state] \in Memory
         /\ Disconnected(s) \in Memory
         /\ s.epoch < MaxEpoch => [s EXCEPT !.epoch = @ + 1, !.owner = 0, !.ws = FALSE, !.ready = FALSE,
                               !.intent.state = "committed"] \in Memory
<1>0. s.intent \in Intent /\ s.epoch \in Bridge /\ s.owner \in Owner /\ s.ws \in BOOLEAN /\ s.ready \in BOOLEAN
  BY DEF Memory
<1>1. \A m \in Message : [s EXCEPT !.intent.started = @ \cup {m}, !.ready = FALSE] \in Memory
  BY DEF Memory, Intent
<1>2. \A m \in Message : [s EXCEPT !.intent.invoked = @ \cup {m}] \in Memory
  BY DEF Memory, Intent
<1>3. \A state \in IntentState : [s EXCEPT !.intent.state = state] \in Memory
  BY DEF Memory, Intent
<1>4. Disconnected(s) \in Memory
  BY DEF Memory, Disconnected
<1>5. ASSUME s.epoch < MaxEpoch
      PROVE  [s EXCEPT !.epoch = @ + 1, !.owner = 0, !.ws = FALSE, !.ready = FALSE,
                       !.intent.state = "committed"] \in Memory
  <2> DEFINE i == [s.intent EXCEPT !.state = "committed"]
  <2>1. i \in Intent
    BY <1>0 DEF Intent, IntentState
  <2>2. [s EXCEPT !.epoch = @ + 1, !.owner = 0, !.ws = FALSE, !.ready = FALSE, !.intent.state = "committed"]
          = [s EXCEPT !.epoch = @ + 1, !.owner = 0, !.ws = FALSE, !.ready = FALSE, !.intent = i]
    OBVIOUS
  <2>3. s.epoch + 1 \in Bridge /\ 0 \in Owner
    BY <1>0, <1>5
  <2> HIDE DEF i
  <2> QED
    BY <2>1, <2>2, <2>3 DEF Memory
<1> QED
  BY <1>1, <1>2, <1>3, <1>4, <1>5

-----------------------------------------------------------------------------
(* Requests.                                                                 *)

Committed == [mem EXCEPT !.epoch = @ + 1, !.owner = 0, !.ws = FALSE, !.ready = FALSE, !.intent.state = "committed"]

\* A handoff that ends without a commit.
Abandoned(rest) ==
  /\ \E state \in {"refused", "outcome_unknown"} : mem' = WithIntent(state)
  /\ \E state \in {"refused", "outcome_unknown"} : store' \in {store, Persisted(WithIntent(state))}
  /\ UNCHANGED <<bearers, captured, down>> /\ back' = rest

\* And one with it.
CommittedNow ==
  /\ mem' = Committed /\ store' = Persisted(Committed)
  /\ captured' = captured \cup mem.intent.records
  /\ bearers' \in {bearers, bearers \cup {Committed.epoch}}
  /\ down' = <<>> /\ back' = <<>>

\* A fault is counted within its bound.
LEMMA SpendTyped == \A fault \in BOOLEAN : faults \in 0..MaxFaults /\ Spend(fault) => faults' \in 0..MaxFaults
  BY DEF Spend

\* The handoff that is given up.
LEMMA AbandonEffect ==
  ASSUME DaemonOK, NEW state \in {"refused", "outcome_unknown"}, NEW rest, Abandon(state, rest)
  PROVE  Abandoned(rest) /\ faults' \in 0..MaxFaults
<1>1. PICK result \in Results :
        /\ Spend(result # "ok") /\ Save(result, WithIntent(state))
        /\ mem' = WithIntent(IF result = "ok" THEN state ELSE "outcome_unknown")
  BY DEF Abandon
<1>2. faults' \in 0..MaxFaults
  BY <1>1, SpendTyped DEF DaemonOK
<1>3. store' \in {store, Persisted(WithIntent(state))}
  BY <1>1 DEF Save
<1> QED
  BY <1>1, <1>2, <1>3 DEF Abandoned, Abandon

\* The handoff that is committed, or whose commit failed.
LEMMA CommitEffect ==
  ASSUME DaemonOK, NEW rest, Commit(rest)
  PROVE  (CommittedNow \/ Abandoned(rest)) /\ faults' \in 0..MaxFaults
<1>1. ASSUME NEW result \in {"ok", "visible"}, Spend(result # "ok"), Save(result, Committed), mem' = Committed,
             captured' = captured \cup mem.intent.records,
             bearers' = IF result = "ok" THEN bearers \cup {Committed.epoch} ELSE bearers,
             down' = <<>>, back' = <<>>
      PROVE  CommittedNow /\ faults' \in 0..MaxFaults
  BY <1>1, SpendTyped DEF CommittedNow, Save, DaemonOK
<1>2. ASSUME NEW result \in Results, Spend(TRUE), Save(result, WithIntent("outcome_unknown")),
             mem' = WithIntent("outcome_unknown"), back' = rest, UNCHANGED <<bearers, captured, down>>
      PROVE  Abandoned(rest) /\ faults' \in 0..MaxFaults
  BY <1>2, SpendTyped DEF Abandoned, Save, DaemonOK
<1> QED
  BY <1>1, <1>2 DEF Commit, Committed

\* What a request does when it ends.
LEMMA FinishEffect ==
  ASSUME DaemonOK, NEW status, NEW rest, Finish(status, rest)
  PROVE  /\ attempt' = NoAttempt /\ faults' \in 0..MaxFaults
         /\ \/ UNCHANGED <<mem, store, bearers, captured, down>> /\ back' = rest
            \/ Abandoned(rest)
            \/ status = "exited" /\ ~attempt.expired /\ Current /\ SameCustody /\ CommittedNow
<1>1. CASE ~Current
  BY <1>1 DEF Finish, DaemonOK
<1>2. CASE Current /\ ~Exited(status)
  <2>1. Verdict(status) \in {"refused", "outcome_unknown"} /\ Abandon(Verdict(status), rest)
    BY <1>2 DEF Finish, Verdict
  <2> QED
    BY <2>1, AbandonEffect DEF Finish
<1>3. CASE Current /\ Exited(status) /\ SameCustody
  BY <1>3, CommitEffect DEF Finish, Exited
<1>4. CASE Current /\ Exited(status) /\ ~SameCustody
  BY <1>4, AbandonEffect DEF Finish
<1> QED
  BY <1>1, <1>2, <1>3, <1>4

Invoked == [mem EXCEPT !.intent.invoked = @ \cup {flight.msg}]

\* What is left of the transferred message in flight when its receipt is in, or will not come.
LEMMA SettleEffect ==
  ASSUME DaemonOK, MailOK, flight.msg \in Message, NEW done \in BOOLEAN, Settle(done)
  PROVE  /\ flight' = NoFlight /\ faults' \in 0..MaxFaults
         /\ mem' \in {mem, Invoked} /\ store' \in {store, Persisted(Invoked)}
         /\ settled' \in {settled, settled \cup {flight.msg}}
         /\ ~done => UNCHANGED <<mem, store, settled>>
         /\ target' \in {target, [target EXCEPT ![flight.msg] = 0]}
         /\ Acked(flight.msg) \/ journal' = [journal EXCEPT ![flight.msg] = "unknown"]
<1>1. CASE ~done
  BY <1>1 DEF Settle, DaemonOK
<1>2. CASE done
  <2>1. PICK result \in Results, proof \in BOOLEAN :
            /\ Spend(result # "ok" \/ ~proof) /\ Save(result, Invoked)
            /\ mem' = IF result = "failed" THEN mem ELSE Invoked
            /\ IF result = "ok" /\ proof
               THEN Acked(flight.msg) /\ settled' = settled \cup {flight.msg}
               ELSE journal' = [journal EXCEPT ![flight.msg] = "unknown"] /\ settled' = settled
            /\ target' = IF result = "ok" THEN [target EXCEPT ![flight.msg] = 0] ELSE target
    BY <1>2 DEF Settle, Invoked
  <2>2. faults' \in 0..MaxFaults
    BY <2>1, SpendTyped DEF DaemonOK
  <2>3. store' \in {store, Persisted(Invoked)}
    BY <2>1 DEF Save
  <2>4. flight' = NoFlight
    BY DEF Settle
  <2> QED
    BY <1>2, <2>1, <2>2, <2>3, <2>4
<1> QED
  BY <1>1, <1>2

\* A record is saved, and restored.
LEMMA PersistedTyped == \A s \in Memory : Persisted(s) \in Saved
  BY DEF Persisted, Memory, Saved

LEMMA RestoredTyped == \A p \in Saved : Restored(p) \in Memory
  BY DEF Restored, Memory, Saved

\* The message in flight is a message.
LEMMA FlightMessage == ASSUME DaemonOK, flight # NoFlight, Flying PROVE flight.msg \in Message
  BY DEF DaemonOK, Saved, Intent, Flying

\* States that the handlers give an intent.
LEMMA IntentStates == {"refused", "outcome_unknown", "awaiting_ack", "committed"} \subseteq IntentState
  BY DEF IntentState

\* The daemon's part of a finished request.
LEMMA FinishTyped ==
  ASSUME DaemonOK, attempt # NoAttempt => mem.epoch < MaxEpoch, attempt # NoAttempt,
         NEW status, NEW rest, Finish(status, rest), UNCHANGED <<up, ended, claims, intents>>
  PROVE  DaemonOK'
<1>1. attempt' = NoAttempt /\ faults' \in 0..MaxFaults
  BY FinishEffect
<1>2. CASE UNCHANGED <<mem, store, bearers, captured>>
  BY <1>1, <1>2 DEF DaemonOK, NoAttempt
<1>3. CASE Abandoned(rest)
  <2>1. \A state \in {"refused", "outcome_unknown"} : WithIntent(state) \in Memory
    BY MemoryTyped, IntentStates DEF DaemonOK, WithIntent
  <2>2. mem' \in Memory /\ store' \in Saved
    BY <1>3, <2>1, PersistedTyped DEF Abandoned, DaemonOK
  <2> QED
    BY <1>1, <1>3, <2>2 DEF DaemonOK, Abandoned, NoAttempt
<1>4. CASE CommittedNow
  <2>1. Committed \in Memory
    BY MemoryTyped DEF DaemonOK, Committed
  <2>2. mem' \in Memory /\ store' \in Saved
    BY <1>4, <2>1, PersistedTyped DEF CommittedNow
  <2>3. Committed.epoch \in Bridge /\ mem.intent.records \subseteq Message
    BY <2>1 DEF DaemonOK, Memory, Intent
  <2> QED
    BY <1>1, <1>4, <2>2, <2>3 DEF DaemonOK, CommittedNow, NoAttempt
<1> QED
  BY <1>2, <1>3, <1>4, FinishEffect

\* Settling keeps the daemon's part.
LEMMA SettleTyped ==
  ASSUME DaemonOK, MailOK, Flying, flight # NoFlight, NEW done \in BOOLEAN, Settle(done),
         UNCHANGED <<up, attempt, bearers, captured, ended, claims, intents>>
  PROVE  DaemonOK'
<1>1. flight.msg \in Message
  BY FlightMessage
<1>2. Invoked \in Memory
  BY <1>1, MemoryTyped DEF DaemonOK, Invoked
<1>3. mem' \in Memory /\ store' \in Saved /\ faults' \in 0..MaxFaults
  BY <1>1, <1>2, SettleEffect, PersistedTyped DEF DaemonOK
<1> QED
  BY <1>3 DEF DaemonOK

-----------------------------------------------------------------------------
(* Steps of the types.                                                       *)

\* Every step keeps the daemon's part.
LEMMA DaemonStep == ASSUME Inv, Next PROVE DaemonOK'
<1>0. /\ up \in BOOLEAN /\ ended \in BOOLEAN /\ mem \in Memory /\ store \in Saved
      /\ attempt \in [id : 0..MaxIntent, sent : BOOLEAN, expired : BOOLEAN]
      /\ captured \subseteq Message /\ bearers \subseteq Bridge
      /\ claims \in 0..MaxOwner /\ intents \in 0..MaxIntent /\ faults \in 0..MaxFaults
      /\ DaemonOK /\ MailOK /\ Flying
      /\ (attempt # NoAttempt => mem.epoch < MaxEpoch)
  BY DEF Inv, DaemonOK, Requested
<1>1. CASE UNCHANGED <<daemonVars, counters>>
  BY <1>0, <1>1 DEF DaemonOK, daemonVars, counters
<1>2. ASSUME NEW b \in Bridge, Claim(b) PROVE DaemonOK'
  <2>1. claims + 1 \in 0..MaxOwner
    BY <1>0, <1>2 DEF Claim
  <2>2. \A o \in Owner : [mem EXCEPT !.ws = TRUE, !.owner = o, !.ready = FALSE] \in Memory
    BY <1>0 DEF Memory
  <2> QED
    BY <1>0, <1>2, <2>1, <2>2 DEF Claim, DaemonOK
<1>3. CASE Ready
  <2>1. [mem EXCEPT !.ready = TRUE] \in Memory
    BY <1>0 DEF Memory
  <2> QED
    BY <1>0, <1>3, <2>1 DEF Ready, DaemonOK, counters
<1>4. CASE Lose
  BY <1>0, <1>4, MemoryTyped, SpendTyped DEF Lose, DaemonOK
<1>5. ASSUME NEW m \in Message, FenceFails(m) PROVE DaemonOK'
  BY <1>0, <1>5, SpendTyped DEF FenceFails, DaemonOK, daemonVars
<1>6. ASSUME NEW m \in Message, DispatchPending(m) PROVE DaemonOK'
  <2>1. Started(m) \in Memory
    BY <1>0, MemoryTyped DEF Started
  <2>2. CASE UNCHANGED <<mem, store, faults>>
    BY <1>0, <1>6, <2>2 DEF DispatchPending, DaemonOK
  <2>3. CASE \E result \in Results : /\ Save(result, Started(m)) /\ Spend(result # "ok")
                                     /\ mem' = IF result = "failed" THEN mem ELSE Started(m)
    <3>1. PICK result \in Results : /\ Save(result, Started(m)) /\ Spend(result # "ok")
                                    /\ mem' = IF result = "failed" THEN mem ELSE Started(m)
      BY <2>3
    <3>2. faults' \in 0..MaxFaults
      BY <1>0, <3>1, SpendTyped
    <3>3. store' \in Saved
      BY <1>0, <2>1, <3>1, SaveTyped
    <3> QED
      BY <1>0, <1>6, <2>1, <3>1, <3>2, <3>3 DEF DispatchPending, DaemonOK
  <2> QED
    BY <1>6, <2>2, <2>3 DEF DispatchPending
<1>7. CASE ReceiptTimeout
  BY <1>0, <1>7, SettleTyped DEF ReceiptTimeout
<1>8. ASSUME NEW policy, NEW result \in Results, NEW sent \in BOOLEAN, OpenHandoff(policy, result, sent)
      PROVE  DaemonOK'
  <2> DEFINE intent == [id |-> intents + 1, state |-> "awaiting_ack", epoch |-> mem.epoch,
                        owner |-> mem.owner, records |-> IF policy = "empty" THEN {} ELSE Waiting,
                        started |-> {}, invoked |-> {}]
             opened == [mem EXCEPT !.intent = intent]
  <2>1. intents + 1 \in 1..MaxIntent
    BY <1>0, <1>8 DEF OpenHandoff
  <2>2. intent \in Intent
    BY <1>0, <2>1, IntentStates DEF Intent, Memory, Waiting
  <2>3. opened \in Memory
    BY <1>0, <2>2 DEF Memory
  <2>4. /\ Spend(result # "ok" \/ ~sent) /\ Save(result, opened) /\ intents' = intents + 1
        /\ mem' = IF result = "failed" THEN mem ELSE opened
        /\ attempt' \in {attempt, [id |-> intents + 1, sent |-> sent, expired |-> FALSE]}
        /\ UNCHANGED <<up, bearers, captured, ended, claims>>
    BY <1>8 DEF OpenHandoff
  <2>5. faults' \in 0..MaxFaults
    BY <1>0, <2>4, SpendTyped
  <2> HIDE DEF intent, opened
  <2>6. store' \in Saved
    BY <1>0, <2>3, <2>4, SaveTyped
  <2>7. intents' \in 0..MaxIntent /\ mem' \in Memory
    BY <1>0, <2>1, <2>3, <2>4
  <2>8. attempt' \in [id : 0..MaxIntent, sent : BOOLEAN, expired : BOOLEAN]
    <3>1. [id |-> intents + 1, sent |-> sent, expired |-> FALSE] \in [id : 0..MaxIntent, sent : BOOLEAN, expired : BOOLEAN]
      BY <2>1
    <3> QED
      BY <1>0, <2>4, <3>1
  <2> QED
    BY <1>0, <2>4, <2>5, <2>6, <2>7, <2>8 DEF DaemonOK
<1>9. CASE TimedOut
  BY <1>0, <1>9, FinishTyped DEF TimedOut
<1>10. CASE TakeAck
  <2>1. CASE attempt # NoAttempt /\ Finish(Head(back).status, Tail(back))
    BY <1>0, <1>10, <2>1, FinishTyped DEF TakeAck
  <2>2. CASE UNCHANGED <<mem, store, attempt, bearers, captured, faults>>
    BY <1>0, <1>10, <2>2 DEF TakeAck, DaemonOK
  <2> QED
    BY <1>10, <2>1, <2>2 DEF TakeAck
<1>11. CASE TakeReceipt
  <2>1. CASE flight.msg = Head(back).msg /\ Settle(Head(back).status = "invoked")
    <3>1. flight # NoFlight
      <4>1. Head(back) \in BackFrame
        BY <1>11 DEF TakeReceipt, Inv, BridgeOK
      <4>2. Head(back).msg \in Message
        BY <1>11, <4>1 DEF TakeReceipt, BackFrame
      <4> QED
        BY <2>1, <4>2 DEF NoFlight
    <3> QED
      BY <1>0, <1>11, <2>1, <3>1, SettleTyped DEF TakeReceipt
  <2>2. CASE UNCHANGED <<mem, store, faults>>
    BY <1>0, <1>11, <2>2 DEF TakeReceipt, DaemonOK
  <2> QED
    BY <1>11, <2>1, <2>2 DEF TakeReceipt
<1>12. CASE Deadline
  BY <1>0, <1>12 DEF Deadline, DaemonOK, counters
<1>13. CASE Persist
  BY <1>0, <1>13, PersistedTyped DEF Persist, DaemonOK, counters
<1>14. CASE Killed
  <2>1. [Disconnected(mem) EXCEPT !.owner = 0, !.ready = FALSE] \in Memory
    <3>1. Disconnected(mem) \in Memory
      BY <1>0, MemoryTyped
    <3>2. \A s \in Memory : \A o \in Owner : [s EXCEPT !.owner = o, !.ready = FALSE] \in Memory
      BY DEF Memory
    <3>3. 0 \in Owner
      OBVIOUS
    <3> QED
      BY <3>1, <3>2, <3>3
  <2>2. faults' \in 0..MaxFaults
    BY <1>0, <1>14, SpendTyped DEF Killed
  <2>3. attempt' \in [id : 0..MaxIntent, sent : BOOLEAN, expired : BOOLEAN]
    BY <1>14 DEF Killed, NoAttempt
  <2> QED
    BY <1>0, <1>14, <2>1, <2>2, <2>3 DEF Killed, DaemonOK
<1>15. CASE Restart
  BY <1>0, <1>15, RestoredTyped DEF Restart, DaemonOK, counters
<1>16. CASE Destroy
  BY <1>0, <1>16, MemoryTyped DEF Destroy, DaemonOK, counters
<1> QED
  BY <1>1, <1>2, <1>3, <1>4, <1>5, <1>6, <1>7, <1>8, <1>9, <1>10, <1>11, <1>12, <1>13, <1>14, <1>15, <1>16
     DEF Next, BridgeWrites, ChildExit, Receive, Enqueue, DispatchPlain, Return, Recover, Expire, Crash, CrashInDispatch

\* ack leaves a journal.
LEMMA AckedTyped ==
  ASSUME journal \in [Message -> Journal], NEW m \in Message, Acked(m)
  PROVE  journal' \in [Message -> Journal]
  BY DEF Acked, Journal, Terminal

\* Settling keeps the mailbox's part.
LEMMA SettleMail ==
  ASSUME DaemonOK, MailOK, Flying, flight # NoFlight, NEW done \in BOOLEAN, Settle(done), UNCHANGED <<consent, barrier>>
  PROVE  MailOK'
<1>1. flight.msg \in Message
  BY FlightMessage
<1>2. journal' \in [Message -> Journal]
  BY <1>1, SettleEffect, AckedTyped DEF MailOK, Journal
<1>3. target' \in [Message -> Owner]
  <2>1. 0 \in Owner
    OBVIOUS
  <2> QED
    BY <1>1, <2>1, SettleEffect DEF MailOK
<1>4. flight' \in [msg : Message \cup {NoMessage}, epoch : 0..MaxEpoch, owner : Owner]
  BY SettleEffect, <1>1 DEF NoFlight
<1>5. settled' \subseteq Message
  BY <1>1, SettleEffect DEF MailOK
<1> QED
  BY <1>2, <1>3, <1>4, <1>5 DEF MailOK

\* Every step keeps the mailbox's part.
LEMMA MailStep == ASSUME Inv, Next PROVE MailOK'
<1>0. /\ journal \in [Message -> Journal]
      /\ consent \in [Message -> (0..MaxEpoch) \X Owner] /\ target \in [Message -> Owner]
      /\ settled \subseteq Message
      /\ flight \in [msg : Message \cup {NoMessage}, epoch : 0..MaxEpoch, owner : Owner]
      /\ barrier \in [msg : Message \cup {NoMessage}, owner : Owner]
      /\ mem.epoch \in 0..MaxEpoch /\ mem.owner \in Owner /\ 0 \in Owner /\ 0 \in 0..MaxEpoch
      /\ DaemonOK /\ MailOK /\ Flying
  BY DEF Inv, MailOK, DaemonOK, Memory
<1>n. NoFlight \in [msg : Message \cup {NoMessage}, epoch : 0..MaxEpoch, owner : Owner]
      /\ NoBarrier \in [msg : Message \cup {NoMessage}, owner : Owner]
  BY <1>0 DEF NoFlight, NoBarrier
<1>1. CASE UNCHANGED mailVars
  BY <1>0, <1>1 DEF MailOK, mailVars
<1>2. ASSUME NEW m \in Message, NEW consented \in BOOLEAN, NEW enter \in BOOLEAN, Enqueue(m, consented, enter)
      PROVE  MailOK'
  <2>1. journal' \in [Message -> Journal]
    BY <1>0, <1>2 DEF Enqueue, Journal
  <2>2. consent' \in [Message -> (0..MaxEpoch) \X Owner] /\ target' \in [Message -> Owner]
    BY <1>0, <1>2 DEF Enqueue
  <2>3. barrier' \in [msg : Message \cup {NoMessage}, owner : Owner]
    BY <1>0, <1>n, <1>2 DEF Enqueue
  <2> QED
    BY <1>0, <1>2, <2>1, <2>2, <2>3 DEF Enqueue, MailOK
<1>3. ASSUME NEW m \in Message, DispatchPlain(m) PROVE MailOK'
  <2>1. journal' \in [Message -> Journal]
    BY <1>0, <1>3, AckedTyped DEF DispatchPlain, Journal, Terminal
  <2>2. target' \in [Message -> Owner]
    BY <1>0, <1>3 DEF DispatchPlain
  <2>3. barrier' \in [msg : Message \cup {NoMessage}, owner : Owner]
    BY <1>0, <1>3 DEF DispatchPlain
  <2> QED
    BY <1>0, <1>3, <2>1, <2>2, <2>3 DEF DispatchPlain, MailOK
<1>4. ASSUME NEW m \in Message, FenceFails(m) PROVE MailOK'
  <2>1. journal' \in [Message -> Journal]
    BY <1>0, <1>4 DEF FenceFails, Journal
  <2>2. consent' \in [Message -> (0..MaxEpoch) \X Owner]
    BY <1>0, <1>4 DEF FenceFails
  <2> QED
    BY <1>0, <1>4, <2>1, <2>2 DEF FenceFails, MailOK
<1>5. ASSUME NEW m \in Message, DispatchPending(m) PROVE MailOK'
  <2>1. journal' \in [Message -> Journal]
    BY <1>0, <1>5 DEF DispatchPending, Journal
  <2>2. target' \in [Message -> Owner]
    BY <1>0, <1>5 DEF DispatchPending
  <2>3. flight' \in [msg : Message \cup {NoMessage}, epoch : 0..MaxEpoch, owner : Owner]
    <3>1. flight' \in {flight, [msg |-> m, epoch |-> mem.epoch, owner |-> mem.owner]}
      BY <1>5 DEF DispatchPending
    <3> QED
      BY <1>0, <3>1
  <2> QED
    BY <1>0, <1>5, <2>1, <2>2, <2>3 DEF DispatchPending, MailOK
<1>6. ASSUME NEW m \in Message, Recover(m) \/ Expire(m) PROVE MailOK'
  <2>1. journal' \in [Message -> Journal]
    BY <1>0, <1>6 DEF Recover, Expire, Journal, Terminal
  <2> QED
    BY <1>0, <1>6, <2>1 DEF Recover, Expire, MailOK
<1>7. CASE Return
  <2>1. barrier.msg \in Message
    BY <1>0, <1>7 DEF Return
  <2>2. journal' \in [Message -> Journal]
    BY <1>0, <1>7, <2>1 DEF Return, Journal, Terminal
  <2> QED
    BY <1>0, <1>n, <1>7, <2>2 DEF Return, MailOK
<1>8. CASE ReceiptTimeout
  BY <1>0, <1>8, SettleMail DEF ReceiptTimeout
<1>9. CASE TakeReceipt
  <2>1. CASE flight.msg = Head(back).msg /\ Settle(Head(back).status = "invoked")
    <3>1. Head(back) \in BackFrame
      BY <1>9 DEF TakeReceipt, Inv, BridgeOK
    <3>2. flight # NoFlight
      BY <1>9, <2>1, <3>1 DEF TakeReceipt, BackFrame, NoFlight
    <3> QED
      BY <1>0, <1>9, <2>1, <3>2, SettleMail DEF TakeReceipt
  <2>2. CASE UNCHANGED <<journal, target, settled, flight>>
    BY <1>0, <1>9, <2>2 DEF TakeReceipt, MailOK
  <2> QED
    BY <1>9, <2>1, <2>2 DEF TakeReceipt
<1>10. CASE Crash
  BY <1>0, <1>n, <1>10 DEF Crash, Killed, MailOK
<1>11. ASSUME NEW m \in Message, CrashInDispatch(m) PROVE MailOK'
  <2>1. journal' \in [Message -> Journal]
    BY <1>0, <1>11 DEF CrashInDispatch, Journal
  <2> QED
    BY <1>0, <1>n, <1>11, <2>1 DEF CrashInDispatch, Killed, MailOK
<1> QED
  BY <1>1, <1>2, <1>3, <1>4, <1>5, <1>6, <1>7, <1>8, <1>9, <1>10, <1>11
     DEF Next, Claim, BridgeWrites, ChildExit, Ready, Lose, Receive, OpenHandoff, TimedOut, TakeAck, Deadline,
         Persist, Restart, Destroy

\* The frame at the head of the wire, and what is left of it.
LEMMA Frames ==
  /\ \A S : \A s \in Seq(S) : s # <<>> =>
       /\ Head(s) \in S /\ Tail(s) \in Seq(S) /\ Head(s) = s[1] /\ 1 \in DOMAIN s
       /\ Len(Tail(s)) = Len(s) - 1
       /\ \A i \in DOMAIN Tail(s) : i + 1 \in DOMAIN s /\ Tail(s)[i] = s[i + 1]
  /\ \A S : \A s \in Seq(S), x \in S :
       /\ Append(s, x) \in Seq(S) /\ Len(Append(s, x)) = Len(s) + 1
       /\ \A i \in DOMAIN Append(s, x) :
            \/ i \in DOMAIN s /\ Append(s, x)[i] = s[i] /\ i < Len(s) + 1
            \/ i = Len(s) + 1 /\ Append(s, x)[i] = x
  OBVIOUS

\* The same, of the wires.
LEMMA Appended == \A s \in Seq(BackFrame) : \A f \in BackFrame : Append(s, f) \in Seq(BackFrame)
  OBVIOUS

LEMMA AppendedDown ==
  \A s \in Seq(DownFrame) : \A f \in DownFrame : \A i \in DOMAIN Append(s, f) :
    (i \in DOMAIN s /\ Append(s, f)[i] = s[i]) \/ (i = Len(s) + 1 /\ Append(s, f)[i] = f)
  OBVIOUS

\* The frames that the daemon and a bridge send.
LEMMA Sent ==
  /\ \A m \in Message : Text(m) \in DownFrame /\ Text(m).type = "text" /\ Text(m).msg = m
  /\ \A m \in Message : [type |-> "return", msg |-> m, id |-> 0] \in DownFrame
  /\ \A m \in Message, i \in 0..MaxIntent : [type |-> "pending", msg |-> m, id |-> i] \in DownFrame
  /\ \A i \in 1..MaxIntent : [type |-> "stop", msg |-> NoMessage, id |-> i] \in DownFrame
  /\ \A i \in 0..MaxIntent, status \in {"refused", "exited"} :
       [type |-> "ack", msg |-> NoMessage, id |-> i, status |-> status] \in BackFrame
  /\ \A m \in Message, i \in 0..MaxIntent, status \in {"invoked", "unknown"} :
       [type |-> "receipt", msg |-> m, id |-> i, status |-> status] \in BackFrame
<1>1. 0 \in 0..MaxIntent
  OBVIOUS
<1>2. \A m \in Message : Text(m) \in DownFrame /\ Text(m).type = "text" /\ Text(m).msg = m
  BY <1>1 DEF Text, DownFrame
<1> QED
  BY <1>1, <1>2 DEF DownFrame, BackFrame

\* What a bridge does with the first frame.
LEMMA HeadTyped ==
  ASSUME DaemonOK, BridgeOK, down # <<>>
  PROVE  /\ Head(down) \in DownFrame /\ Head(down).id \in 0..MaxIntent /\ Tail(down) \in Seq(DownFrame)
         /\ Head(down).type \in {"text", "return", "pending"} => Head(down).msg \in Message
         /\ Head(down).type = "stop" => Head(down).id # 0
<1>1. Head(down) \in DownFrame /\ Tail(down) \in Seq(DownFrame)
  BY Frames DEF BridgeOK
<1> QED
  BY <1>1 DEF DownFrame

\* Every step keeps the bridges' part.
LEMMA BridgeStep == ASSUME Inv, Next PROVE BridgeOK'
<1>0. /\ child \in [Bridge -> {"none", "alive", "stopping", "exited"}]
      /\ held \in [Bridge -> 0..MaxIntent] /\ tried \in [Bridge -> SUBSET Message]
      /\ wrote \in [Message -> Nat]
      /\ queue \in [Bridge -> SUBSET {f \in DownFrame : f.type \in {"text", "return"}}]
      /\ down \in Seq(DownFrame) /\ back \in Seq(BackFrame)
      /\ mem.epoch \in Bridge /\ mem.intent.id \in 0..MaxIntent /\ attempt.id \in 0..MaxIntent
      /\ <<>> \in Seq(DownFrame) /\ <<>> \in Seq(BackFrame)
      /\ DaemonOK /\ MailOK /\ BridgeOK /\ Flying
  <2>1. DaemonOK /\ MailOK /\ BridgeOK /\ Flying
    BY DEF Inv
  <2>2. mem.epoch \in Bridge /\ mem.intent.id \in 0..MaxIntent /\ attempt.id \in 0..MaxIntent
    BY <2>1 DEF DaemonOK, Memory, Intent
  <2>3. <<>> \in Seq(DownFrame) /\ <<>> \in Seq(BackFrame)
    OBVIOUS
  <2> QED
    BY <2>1, <2>2, <2>3 DEF BridgeOK
<1>1. CASE UNCHANGED <<wireVars, bridgeVars>>
  BY <1>0, <1>1 DEF BridgeOK, wireVars, bridgeVars
<1>2. ASSUME NEW b \in Bridge, Claim(b) PROVE BridgeOK'
  BY <1>0, <1>2 DEF Claim, BridgeOK, wireVars
<1>3. ASSUME NEW b \in Bridge, BridgeWrites(b) PROVE BridgeOK'
  <2>1. PICK f \in queue[b] :
          /\ queue' = [queue EXCEPT ![b] = @ \ {f}]
          /\ wrote' = IF f.type = "text" THEN [wrote EXCEPT ![f.msg] = @ + 1] ELSE wrote
    BY <1>3 DEF BridgeWrites
  <2>2. f \in DownFrame
    BY <1>0, <2>1
  <2>3. f.type = "text" => f.msg \in Message
    BY <2>2 DEF DownFrame
  <2>4. wrote' \in [Message -> Nat]
    BY <1>0, <2>1, <2>3
  <2>5. queue' \in [Bridge -> SUBSET {g \in DownFrame : g.type \in {"text", "return"}}]
    BY <1>0, <2>1
  <2> QED
    BY <1>0, <1>3, <2>4, <2>5 DEF BridgeWrites, BridgeOK, wireVars
<1>4. ASSUME NEW b \in Bridge, ChildExit(b) PROVE BridgeOK'
  <2>1. child' \in [Bridge -> {"none", "alive", "stopping", "exited"}]
    BY <1>0, <1>4 DEF ChildExit
  <2>2. [type |-> "ack", msg |-> NoMessage, id |-> held[b], status |-> "exited"] \in BackFrame
    BY <1>0, Sent
  <2>3. back' \in Seq(BackFrame)
    BY <1>0, <1>4, <2>2, Frames DEF ChildExit
  <2> QED
    BY <1>0, <1>4, <2>1, <2>3 DEF ChildExit, BridgeOK
<1>5. CASE down' = <<>> /\ back' = <<>> /\ UNCHANGED <<child, held, tried, wrote>>
           /\ queue' \in [Bridge -> SUBSET {f \in DownFrame : f.type \in {"text", "return"}}]
  BY <1>0, <1>5 DEF BridgeOK
<1>e. CASE Lose \/ Crash \/ Destroy
  BY <1>0, <1>5, <1>e DEF Lose, Crash, Killed, Destroy, bridgeVars
<1>c. ASSUME NEW m \in Message, CrashInDispatch(m) PROVE BridgeOK'
  <2>1. queue' = queue \/ queue' = [queue EXCEPT ![mem.epoch] = @ \cup {Text(m)}]
    BY <1>c DEF CrashInDispatch
  <2>2. queue' \in [Bridge -> SUBSET {f \in DownFrame : f.type \in {"text", "return"}}]
    <3>1. Text(m) \in {f \in DownFrame : f.type \in {"text", "return"}}
      BY Sent
    <3> QED
      <4> DEFINE T == {f \in DownFrame : f.type \in {"text", "return"}}
      <4>1. queue \in [Bridge -> SUBSET T] /\ Text(m) \in T /\ mem.epoch \in Bridge
        BY <1>0, <3>1
      <4> HIDE DEF T
      <4>2. queue' \in [Bridge -> SUBSET T]
        BY <2>1, <4>1
      <4> QED
        BY <4>2 DEF T
  <2>3. down' = <<>> /\ back' = <<>> /\ UNCHANGED <<child, held, tried, wrote>>
    BY <1>c DEF CrashInDispatch, Killed
  <2> QED
    BY <1>5, <2>2, <2>3
<1>6. CASE Receive
  <2>1. /\ Head(down) \in DownFrame /\ Head(down).id \in 0..MaxIntent /\ down' \in Seq(DownFrame)
        /\ Head(down).type \in {"text", "return", "pending"} => Head(down).msg \in Message
    BY <1>0, <1>6, HeadTyped DEF Receive
  <2>2. CASE Stop(mem.epoch)
    <3>1. Answer("refused") \in BackFrame
      BY <2>1, Sent DEF Answer
    <3>2. back' \in Seq(BackFrame)
      <4>1. back' = back \/ back' = Append(back, Answer("refused"))
        BY <2>2 DEF Stop
      <4> QED
        BY <1>0, <3>1, <4>1, Appended
    <3>3. held' \in [Bridge -> 0..MaxIntent] /\ child' \in [Bridge -> {"none", "alive", "stopping", "exited"}]
      BY <1>0, <2>2 DEF Stop
    <3> QED
      BY <1>0, <2>1, <2>2, <3>2, <3>3 DEF Stop, BridgeOK
  <2>3. CASE Accept(mem.epoch)
    <3>1. queue' \in [Bridge -> SUBSET {f \in DownFrame : f.type \in {"text", "return"}}]
      BY <1>0, <2>1, <2>3 DEF Accept
    <3> QED
      BY <1>0, <2>1, <2>3, <3>1 DEF Accept, BridgeOK
  <2>4. CASE PendingWrite(mem.epoch)
    <3> DEFINE m == Head(down).msg
               receipt(ok) == [type |-> "receipt", msg |-> m, id |-> Head(down).id,
                               status |-> IF ok THEN "invoked" ELSE "unknown"]
    <3>1. m \in Message /\ \A ok \in BOOLEAN : receipt(ok) \in BackFrame
      BY <2>1, <2>4, Sent DEF PendingWrite
    <3>2. /\ back' = back \/ \E ok \in BOOLEAN : back' = Append(back, receipt(ok))
          /\ wrote' = wrote \/ wrote' = [wrote EXCEPT ![m] = @ + 1]
          /\ tried' = tried \/ tried' = [tried EXCEPT ![mem.epoch] = @ \cup {m}]
          /\ UNCHANGED <<held, child, queue>>
      BY <2>4 DEF PendingWrite
    <3> HIDE DEF receipt, m
    <3>3. back' \in Seq(BackFrame)
      <4>1. CASE back' = back
        BY <1>0, <4>1
      <4>2. ASSUME NEW ok \in BOOLEAN, back' = Append(back, receipt(ok)) PROVE back' \in Seq(BackFrame)
        <5>1. receipt(ok) \in BackFrame
          BY <3>1
        <5> QED
          BY <1>0, <4>2, <5>1, Appended
      <4> QED
        BY <3>2, <4>1, <4>2
    <3>4. wrote' \in [Message -> Nat]
      <4>1. \A n \in Message : [wrote EXCEPT ![n] = @ + 1] \in [Message -> Nat]
        BY <1>0
      <4> QED
        BY <1>0, <3>1, <3>2, <4>1
    <3>5. tried' \in [Bridge -> SUBSET Message]
      <4>1. \A n \in Message : [tried EXCEPT ![mem.epoch] = @ \cup {n}] \in [Bridge -> SUBSET Message]
        BY <1>0
      <4> QED
        BY <3>1, <3>2, <4>1, <1>0
    <3> QED
      BY <1>0, <2>1, <3>2, <3>3, <3>4, <3>5 DEF BridgeOK
  <2> QED
    BY <1>6, <2>2, <2>3, <2>4 DEF Receive
<1>7. CASE UNCHANGED <<bridgeVars, back>> /\ \E f \in DownFrame : down' = Append(down, f)
  BY <1>0, <1>7, Frames DEF BridgeOK, bridgeVars
<1>8. ASSUME NEW m \in Message, DispatchPlain(m) PROVE BridgeOK'
  BY <1>1, <1>7, <1>8, Sent DEF DispatchPlain, wireVars
<1>9. ASSUME NEW m \in Message, DispatchPending(m) PROVE BridgeOK'
  BY <1>0, <1>1, <1>7, <1>9, Sent DEF DispatchPending, wireVars
<1>10. CASE Return
  <2>1. barrier.msg \in Message
    BY <1>0, <1>10 DEF Return, MailOK
  <2> QED
    BY <1>1, <1>7, <1>10, <2>1, Sent DEF Return, wireVars
<1>11. ASSUME NEW policy, NEW result \in Results, NEW sent \in BOOLEAN, OpenHandoff(policy, result, sent)
       PROVE  BridgeOK'
  <2>1. intents + 1 \in 1..MaxIntent
    BY <1>0, <1>11 DEF OpenHandoff, DaemonOK
  <2>2. [type |-> "stop", msg |-> NoMessage, id |-> intents + 1] \in DownFrame
    BY <2>1, Sent
  <2>3. down' = down \/ down' = Append(down, [type |-> "stop", msg |-> NoMessage, id |-> intents + 1])
    BY <1>11 DEF OpenHandoff
  <2>4. UNCHANGED <<bridgeVars, back>>
    BY <1>11 DEF OpenHandoff
  <2> QED
    BY <1>1, <1>7, <2>2, <2>3, <2>4 DEF wireVars
<1>12. ASSUME NEW status, NEW rest \in Seq(BackFrame), Finish(status, rest), UNCHANGED bridgeVars PROVE BridgeOK'
  <2>1. (down' = down /\ back' = rest) \/ (down' = <<>> /\ back' = <<>>)
    BY <1>0, <1>12, FinishEffect DEF Abandoned, CommittedNow
  <2> QED
    BY <1>0, <1>12, <2>1 DEF BridgeOK, bridgeVars
<1>13. CASE TimedOut
  BY <1>0, <1>12, <1>13 DEF TimedOut
<1>14. CASE TakeAck
  <2>1. Tail(back) \in Seq(BackFrame)
    BY <1>0, <1>14, Frames DEF TakeAck
  <2>2. CASE Finish(Head(back).status, Tail(back))
    BY <1>12, <1>14, <2>1, <2>2 DEF TakeAck
  <2>3. CASE UNCHANGED down /\ back' = Tail(back)
    BY <1>0, <1>14, <2>1, <2>3 DEF TakeAck, BridgeOK, bridgeVars
  <2> QED
    BY <1>14, <2>2, <2>3 DEF TakeAck
<1>15. CASE TakeReceipt
  BY <1>0, <1>15, Frames DEF TakeReceipt, BridgeOK, bridgeVars
<1> QED
  BY <1>1, <1>2, <1>3, <1>4, <1>e, <1>c, <1>6, <1>8, <1>9, <1>10, <1>11, <1>13, <1>14, <1>15
     DEF Next, Ready, Enqueue, FenceFails, Recover, Expire, ReceiptTimeout, Deadline,
         Persist, Restart

\* The recorded intent of the records the daemon may have in memory.
LEMMA Intents ==
  ASSUME NEW s \in Memory
  PROVE  /\ \A m \in Message : LET t == [s EXCEPT !.intent.started = @ \cup {m}, !.ready = FALSE]
                               IN  /\ t.intent = [s.intent EXCEPT !.started = @ \cup {m}]
                                   /\ t.epoch = s.epoch /\ t.owner = s.owner /\ t.ws = s.ws
         /\ \A m \in Message : LET t == [s EXCEPT !.intent.invoked = @ \cup {m}]
                               IN  /\ t.intent = [s.intent EXCEPT !.invoked = @ \cup {m}]
                                   /\ t.epoch = s.epoch /\ t.owner = s.owner /\ t.ws = s.ws
         /\ \A state : LET t == [s EXCEPT !.intent.state = state]
                       IN  /\ t.intent = [s.intent EXCEPT !.state = state]
                           /\ t.epoch = s.epoch /\ t.owner = s.owner /\ t.ws = s.ws
         /\ LET t == [s EXCEPT !.epoch = @ + 1, !.owner = 0, !.ws = FALSE, !.ready = FALSE, !.intent.state = "committed"]
            IN  /\ t.intent = [s.intent EXCEPT !.state = "committed"]
                /\ t.epoch = s.epoch + 1 /\ t.ws = FALSE
         /\ Disconnected(s).intent = s.intent /\ Disconnected(s).epoch = s.epoch /\ Disconnected(s).ws = FALSE
  BY DEF Memory, Intent, Disconnected

\* The same of the records that the handlers write.
LEMMA Moved ==
  ASSUME DaemonOK
  PROVE  /\ \A m \in Message : /\ Started(m).epoch = mem.epoch /\ Started(m).ws = mem.ws /\ Started(m).owner = mem.owner
                               /\ Started(m).intent = [mem.intent EXCEPT !.started = @ \cup {m}]
         /\ \A state : /\ WithIntent(state).epoch = mem.epoch /\ WithIntent(state).ws = mem.ws
                       /\ WithIntent(state).owner = mem.owner
                       /\ WithIntent(state).intent = [mem.intent EXCEPT !.state = state]
         /\ flight.msg \in Message =>
              /\ Invoked.epoch = mem.epoch /\ Invoked.ws = mem.ws /\ Invoked.owner = mem.owner
              /\ Invoked.intent = [mem.intent EXCEPT !.invoked = @ \cup {flight.msg}]
         /\ Committed.epoch = mem.epoch + 1 /\ Committed.ws = FALSE
         /\ Committed.intent = [mem.intent EXCEPT !.state = "committed"]
<1>1. mem \in Memory
  BY DEF DaemonOK
<1>2. \A m \in Message : /\ Started(m).epoch = mem.epoch /\ Started(m).ws = mem.ws /\ Started(m).owner = mem.owner
                         /\ Started(m).intent = [mem.intent EXCEPT !.started = @ \cup {m}]
  BY <1>1, Intents DEF Started
<1>3. \A state : /\ WithIntent(state).epoch = mem.epoch /\ WithIntent(state).ws = mem.ws
                /\ WithIntent(state).owner = mem.owner
                /\ WithIntent(state).intent = [mem.intent EXCEPT !.state = state]
  BY <1>1, Intents DEF WithIntent
<1>4. flight.msg \in Message =>
              /\ Invoked.epoch = mem.epoch /\ Invoked.ws = mem.ws /\ Invoked.owner = mem.owner
              /\ Invoked.intent = [mem.intent EXCEPT !.invoked = @ \cup {flight.msg}]
  BY <1>1, Intents DEF Invoked
<1>5. /\ Committed.epoch = mem.epoch + 1 /\ Committed.ws = FALSE
      /\ Committed.intent = [mem.intent EXCEPT !.state = "committed"]
  BY <1>1, Intents DEF Committed
<1> QED
  BY <1>2, <1>3, <1>4, <1>5

\* And of a save.
LEMMA SavedIntents == \A s \in Memory : Persisted(s).intent = s.intent /\ Persisted(s).epoch = s.epoch
  BY DEF Persisted

\* What ends keeps all of the intent but its state.
LEMMA EndedIntent ==
  ASSUME DaemonOK, NEW rest, Abandoned(rest) \/ CommittedNow
  PROVE  /\ \E state : mem'.intent = [mem.intent EXCEPT !.state = state]
         /\ store'.intent = store.intent \/ \E state : store'.intent = [mem.intent EXCEPT !.state = state]
<1>0. mem \in Memory
  BY DEF DaemonOK
<1>1. CASE Abandoned(rest)
  <2>1. PICK s1, s2 : mem' = WithIntent(s1) /\ store' \in {store, Persisted(WithIntent(s2))}
    BY <1>1 DEF Abandoned
  <2>2. WithIntent(s1).intent = [mem.intent EXCEPT !.state = s1] /\ WithIntent(s2).intent = [mem.intent EXCEPT !.state = s2]
    BY <1>0, Intents DEF WithIntent
  <2>3. Persisted(WithIntent(s2)).intent = [mem.intent EXCEPT !.state = s2]
    BY <2>2 DEF Persisted
  <2>4. mem'.intent = [mem.intent EXCEPT !.state = s1]
    BY <2>1, <2>2
  <2>5. store'.intent = store.intent \/ store'.intent = [mem.intent EXCEPT !.state = s2]
    BY <2>1, <2>3
  <2> QED
    BY <2>4, <2>5
<1>2. CASE CommittedNow
  <2>1. Committed.intent = [mem.intent EXCEPT !.state = "committed"]
    BY <1>0, Intents DEF Committed
  <2> QED
    BY <1>2, <2>1 DEF CommittedNow, Persisted
<1> QED
  BY <1>1, <1>2

\* While a message is in flight its state is kept until it is settled.
LEMMA InFlightKept ==
  ASSUME Inv, Next, flight # NoFlight, flight' # NoFlight
  PROVE  flight' = flight /\ journal'[flight.msg] = "in_flight"
<1>0. journal \in [Message -> Journal] /\ flight.msg \in Message /\ journal[flight.msg] = "in_flight"
  BY FlightMessage DEF Inv, MailOK, Flying
<1>1. CASE UNCHANGED <<flight, journal>>
  BY <1>0, <1>1
<1>2. ASSUME NEW m \in Message, NEW consented, NEW enter, Enqueue(m, consented, enter)
      PROVE  flight' = flight /\ journal'[flight.msg] = "in_flight"
  BY <1>0, <1>2 DEF Enqueue
<1>3. CASE Return
  BY <1>0, <1>3 DEF Return
<1>4. ASSUME NEW done, Settle(done) PROVE FALSE
  BY <1>4 DEF Settle
<1> QED
  BY <1>1, <1>2, <1>3, <1>4
     DEF Next, Claim, BridgeWrites, ChildExit, Ready, Lose, Receive, DispatchPlain, FenceFails, DispatchPending,
         Recover, Expire, CrashInDispatch, AtMessage, ReceiptTimeout, OpenHandoff, TimedOut, TakeAck, TakeReceipt, Deadline,
         Persist, Crash, Killed, Restart, Destroy, mailVars

\* A message stays recorded as started while it is in flight.
LEMMA StartsKept ==
  ASSUME Inv, Next, flight # NoFlight, flight' # NoFlight
  PROVE  mem.intent.started \subseteq mem'.intent.started
         /\ (store'.intent = store.intent \/ mem.intent.started \subseteq store'.intent.started)
<1>0. mem \in Memory /\ store \in Saved /\ DaemonOK /\ flight.msg \in Message /\ journal[flight.msg] = "in_flight"
      /\ mem.intent \in Intent
  BY FlightMessage DEF Inv, DaemonOK, Flying, Memory
<1>1. CASE mem'.intent = mem.intent /\ store' = store
  BY <1>1
<1>2. CASE Persist
  BY <1>0, <1>2, SavedIntents DEF Persist
<1>3. ASSUME NEW rest, Abandoned(rest) \/ CommittedNow
      PROVE  mem.intent.started \subseteq mem'.intent.started
             /\ (store'.intent = store.intent \/ mem.intent.started \subseteq store'.intent.started)
  <2>1. \A state : [mem.intent EXCEPT !.state = state].started = mem.intent.started
    BY <1>0 DEF Intent
  <2> QED
    BY <1>0, <1>3, <2>1, EndedIntent
<1>4. ASSUME NEW status, NEW rest, Finish(status, rest)
      PROVE  mem.intent.started \subseteq mem'.intent.started
             /\ (store'.intent = store.intent \/ mem.intent.started \subseteq store'.intent.started)
  BY <1>0, <1>1, <1>3, <1>4, FinishEffect
<1>5. ASSUME NEW policy, NEW result, NEW sent, OpenHandoff(policy, result, sent) PROVE FALSE
  BY <1>0, <1>5 DEF OpenHandoff, MayCapture, CustodyEmpty, NeverAttempted, Unsettled
<1>6. CASE Restart
  BY <1>6 DEF Restart, Inv, Connected
<1>7. CASE ReceiptTimeout
  BY <1>7 DEF ReceiptTimeout, Settle
<1>8. CASE TakeReceipt
  BY <1>1, <1>8 DEF TakeReceipt, Settle
<1>9. CASE Lose \/ Destroy
  BY <1>0, <1>1, <1>9, Intents DEF Lose, Destroy
<1>10. CASE TakeAck
  BY <1>1, <1>4, <1>10 DEF TakeAck
<1>11. CASE TimedOut
  BY <1>4, <1>11 DEF TimedOut
<1>12. ASSUME NEW b \in Bridge, Claim(b) PROVE mem'.intent = mem.intent /\ store' = store
  BY <1>0, <1>12 DEF Claim, Memory
<1>13. CASE Ready
  BY <1>0, <1>1, <1>13 DEF Ready, Memory
<1> QED
  BY <1>1, <1>2, <1>5, <1>6, <1>7, <1>8, <1>9, <1>10, <1>11, <1>12, <1>13
     DEF Next, BridgeWrites, ChildExit, Receive, Enqueue, DispatchPlain, FenceFails, DispatchPending,
         Recover, Expire, CrashInDispatch, AtMessage, Return, Deadline, Crash, Killed, daemonVars

\* A message comes to be in flight when its start is saved.
LEMMA FlyingStep == ASSUME Inv, Next PROVE Flying'
<1>0. mem \in Memory /\ store \in Saved /\ DaemonOK /\ mem.intent \in Intent /\ journal \in [Message -> Journal]
      /\ Flying /\ store.intent \in Intent
  BY DEF Inv, DaemonOK, Memory, Saved, MailOK
<1>1. CASE flight' = NoFlight
  BY <1>1 DEF Flying
<1>2. CASE flight # NoFlight /\ flight' # NoFlight
  BY <1>0, <1>2, StartsKept, InFlightKept DEF Flying
<1>3. CASE flight = NoFlight /\ flight' # NoFlight
  <2>1. PICK m \in Message : DispatchPending(m)
    BY <1>3 DEF Next, Claim, BridgeWrites, ChildExit, Ready, Lose, Receive, DispatchPlain, FenceFails, Enqueue,
         Recover, Expire, CrashInDispatch, AtMessage, ReceiptTimeout, OpenHandoff, TimedOut, TakeAck, TakeReceipt, Deadline,
         Persist, Crash, Killed, Restart, Destroy, mailVars, Return, Settle
  <2>2. /\ flight' = [msg |-> m, epoch |-> mem.epoch, owner |-> mem.owner]
        /\ mem' = Started(m) /\ store' = Persisted(Started(m))
        /\ journal' = [journal EXCEPT ![m] = "in_flight"]
    BY <1>3, <2>1 DEF DispatchPending, Save
  <2>3. Started(m) \in Memory /\ m \in Started(m).intent.started
    <3>1. Started(m) \in Memory /\ Started(m).intent = [mem.intent EXCEPT !.started = @ \cup {m}]
      BY <1>0, MemoryTyped, Intents DEF Started
    <3> QED
      BY <1>0, <3>1 DEF Intent
  <2>4. m \in store'.intent.started
    BY <2>2, <2>3, SavedIntents
  <2> QED
    BY <1>0, <2>2, <2>3, <2>4 DEF Flying
<1> QED
  BY <1>1, <1>2, <1>3

-----------------------------------------------------------------------------
(* Steps of the connection and of the request.                               *)

\* Every step keeps what a connection means.
LEMMA ConnectedStep == ASSUME Inv, Next PROVE Connected'
<1>0. mem \in Memory /\ store \in Saved /\ DaemonOK /\ MailOK /\ Connected /\ up \in BOOLEAN
  BY DEF Inv, DaemonOK
<1>1. CASE UNCHANGED <<up, ended, attempt, flight, wireVars>> /\ mem'.ws = mem.ws
  BY <1>0, <1>1 DEF Connected, wireVars
<1>2. ASSUME Running, Running', mem'.ws = mem.ws, mem.ws PROVE Connected'
  BY <1>0, <1>2 DEF Connected, Running
<1>3. ASSUME Running, Running', down' = <<>>, back' = <<>> PROVE Connected'
  BY <1>0, <1>3 DEF Connected, Running
<1>4. ASSUME NEW b \in Bridge, Claim(b) PROVE Connected'
  <2>1. mem'.ws = TRUE
    BY <1>0, <1>4 DEF Claim, Memory
  <2> QED
    BY <1>4, <2>1 DEF Claim, Connected, Running
<1>5. ASSUME NEW b \in Bridge, BridgeWrites(b) PROVE Connected'
  BY <1>1, <1>5 DEF BridgeWrites, daemonVars, mailVars
<1>6. ASSUME NEW b \in Bridge, ChildExit(b) PROVE Connected'
  <2>1. CASE mem.ws
    BY <1>0, <1>6, <2>1 DEF ChildExit, daemonVars, mailVars, Connected
  <2>2. CASE ~mem.ws
    BY <1>1, <1>6, <2>2 DEF ChildExit, daemonVars, mailVars, wireVars
  <2> QED
    BY <2>1, <2>2
<1>7. CASE Ready
  BY <1>0, <1>2, <1>7 DEF Ready, Memory, Running
<1>8. CASE Lose
  BY <1>3, <1>8 DEF Lose, Running
<1>9. CASE Receive
  BY <1>0, <1>9 DEF Receive, daemonVars, mailVars, Connected
<1>10. ASSUME NEW m \in Message,
              FenceFails(m) \/ Recover(m) \/ Expire(m) \/ \E consented, enter \in BOOLEAN : Enqueue(m, consented, enter)
       PROVE  Connected'
  BY <1>1, <1>10 DEF FenceFails, Recover, Expire, Enqueue, daemonVars
<1>11. ASSUME NEW m \in Message, DispatchPlain(m) \/ DispatchPending(m) PROVE Connected'
  <2>1. mem.ws /\ Running /\ Running'
    BY <1>11 DEF DispatchPlain, DispatchPending, AtMessage, CanProcess, daemonVars, Running
  <2>2. mem' = mem \/ mem' = Started(m)
    BY <1>11 DEF DispatchPlain, DispatchPending, daemonVars
  <2>3. mem'.ws = mem.ws
    BY <1>0, <2>2, Moved
  <2> QED
    BY <1>2, <2>1, <2>3
<1>12. CASE Return
  <2>1. mem' = mem /\ Running /\ Running' /\ UNCHANGED <<attempt, flight, back>> /\ (mem.ws \/ down' = down)
    BY <1>12 DEF Return, daemonVars, Running
  <2> QED
    BY <1>0, <2>1 DEF Connected, Running
<1>13. CASE ReceiptTimeout
  <2>1. flight' = NoFlight /\ mem' = mem
    BY <1>13 DEF ReceiptTimeout, Settle
  <2> QED
    BY <1>0, <1>13, <2>1 DEF ReceiptTimeout, Connected, wireVars
<1>14. ASSUME NEW policy, NEW result, NEW sent, OpenHandoff(policy, result, sent) PROVE Connected'
  <2>1. mem'.ws = mem.ws
    BY <1>0, <1>14 DEF OpenHandoff, Memory
  <2> QED
    BY <1>2, <1>14, <2>1 DEF OpenHandoff, Running
<1>15. ASSUME NEW status, NEW rest, Finish(status, rest), Running, UNCHANGED <<up, ended, mailVars>>,
              rest = back \/ mem.ws
       PROVE Connected'
  <2>1. CASE CommittedNow
    BY <1>3, <1>15, <2>1 DEF CommittedNow, Running
  <2>2. CASE Abandoned(rest) \/ (UNCHANGED <<mem, down>> /\ back' = rest)
    <3>1. mem'.ws = mem.ws /\ down' = down /\ back' = rest
      <4>1. CASE Abandoned(rest)
        <5>1. PICK state : mem' = WithIntent(state)
          BY <4>1 DEF Abandoned
        <5> QED
          BY <1>0, <4>1, <5>1, Moved DEF Abandoned
      <4> QED
        BY <2>2, <4>1
    <3> QED
      BY <1>0, <1>15, <3>1, FinishEffect DEF Connected, Running, mailVars
  <2> QED
    BY <1>0, <1>15, <2>1, <2>2, FinishEffect
<1>16. CASE TimedOut
  BY <1>15, <1>16 DEF TimedOut
<1>17. CASE TakeAck
  BY <1>2, <1>15, <1>17 DEF TakeAck, Running
<1>18. CASE TakeReceipt
  <2>1. mem'.ws = mem.ws
    <3>1. CASE Settle(Head(back).status = "invoked") /\ flight.msg = Head(back).msg
      <4>1. Head(back).msg \in Message
        BY <1>18, Frames DEF TakeReceipt, Inv, BridgeOK, BackFrame
      <4>2. mem' \in {mem, Invoked}
        BY <1>0, <3>1, <4>1, SettleEffect
      <4> QED
        BY <1>0, <3>1, <4>1, <4>2, Moved
    <3> QED
      BY <1>18, <3>1 DEF TakeReceipt
  <2> QED
    BY <1>2, <1>18, <2>1 DEF TakeReceipt, Running
<1>19. CASE Deadline
  <2>1. mem' = mem /\ Running /\ Running' /\ UNCHANGED wireVars
    BY <1>19 DEF Deadline, Running
  <2> QED
    BY <1>0, <2>1 DEF Connected, Running, wireVars
<1>20. CASE Persist
  BY <1>1, <1>20 DEF Persist, mailVars
<1>21. CASE Killed
  <2>1. mem'.ws = FALSE
    BY <1>0, <1>21 DEF Killed, Disconnected, Memory
  <2> QED
    BY <1>0, <1>21, <2>1 DEF Killed, Connected, Running
<1>22. CASE Restart
  <2>1. mem'.ws = FALSE
    BY <1>22 DEF Restart, Restored
  <2> QED
    BY <1>0, <1>22, <2>1 DEF Restart, Connected, wireVars
<1>23. CASE Destroy
  <2>1. mem'.ws = FALSE
    BY <1>0, <1>23, Intents DEF Destroy
  <2> QED
    BY <1>0, <1>23, <2>1 DEF Destroy, Connected, Running
<1> QED
  <2>1. CASE UNCHANGED vars
    BY <1>1, <2>1 DEF vars, daemonVars, mailVars
  <2> QED
    BY <1>4, <1>5, <1>6, <1>7, <1>8, <1>9, <1>10, <1>11, <1>12, <1>13, <1>14, <1>16, <1>17, <1>18, <1>19, <1>20,
       <1>21, <1>22, <1>23 DEF Next, Crash, CrashInDispatch

\* The message in flight when a receipt is settled is a message.
LEMMA ReceiptFlight ==
  ASSUME Inv, TakeReceipt, flight.msg = Head(back).msg
  PROVE  Head(back) \in BackFrame /\ flight.msg \in Message /\ flight # NoFlight
<1>1. Head(back) \in BackFrame
  BY Frames DEF Inv, BridgeOK, TakeReceipt
<1>2. Head(back).msg \in Message
  BY <1>1 DEF TakeReceipt, BackFrame
<1> QED
  BY <1>1, <1>2 DEF NoFlight

\* A step that is not the end of the request leaves its epoch and its intent alone, and sends nothing.
LEMMA RequestKept ==
  ASSUME Inv, Next, attempt # NoAttempt, attempt' # NoAttempt
  PROVE  /\ attempt'.id = attempt.id /\ mem'.epoch = mem.epoch /\ intents' = intents
         /\ mem'.intent.id = mem.intent.id /\ mem'.intent.state = mem.intent.state
         /\ down' = down \/ down' = <<>> \/ (Receive /\ down # <<>> /\ down' = Tail(down))
<1> DEFINE Kept == /\ attempt'.id = attempt.id /\ mem'.epoch = mem.epoch /\ intents' = intents
                   /\ mem'.intent.id = mem.intent.id /\ mem'.intent.state = mem.intent.state
           Quiet == down' = down \/ down' = <<>> \/ (Receive /\ down # <<>> /\ down' = Tail(down))
<1>0. /\ DaemonOK /\ MailOK /\ mem \in Memory /\ mem.intent \in Intent
      /\ mem.intent.state = "awaiting_ack" /\ Active(mem) /\ up
  BY DEF Inv, DaemonOK, Memory, Requested, Active, Connected
<1>1. CASE UNCHANGED <<daemonVars, intents>> /\ Quiet
  BY <1>0, <1>1 DEF daemonVars
<1>2. CASE UNCHANGED <<mem, attempt, intents, down>>
  BY <1>2
<1>3. ASSUME NEW b \in Bridge, BridgeWrites(b) \/ ChildExit(b) PROVE Kept /\ Quiet
  BY <1>1, <1>3 DEF BridgeWrites, ChildExit, wireVars, counters
<1>4. CASE Lose
  BY <1>0, <1>4, Intents DEF Lose
<1>5. CASE Ready
  BY <1>0, <1>5 DEF Ready, Memory, wireVars, counters
<1>6. CASE Receive
  BY <1>1, <1>6 DEF Receive, counters
<1>7. ASSUME NEW m \in Message, FenceFails(m) PROVE Kept /\ Quiet
  BY <1>1, <1>7 DEF FenceFails, wireVars
<1>8. CASE Return
  BY <1>0, <1>1, <1>8 DEF Return, counters
<1>9. CASE ReceiptTimeout
  <2>1. mem' = mem
    BY <1>9 DEF ReceiptTimeout, Settle
  <2> QED
    BY <1>2, <1>9, <2>1 DEF ReceiptTimeout, wireVars
<1>10. CASE TakeAck
  BY <1>2, <1>10, FinishEffect, <1>0 DEF TakeAck
<1>11. CASE TakeReceipt
  <2>1. CASE flight.msg = Head(back).msg /\ Settle(Head(back).status = "invoked")
    <3>1. flight.msg \in Message
      BY <1>11, <2>1, ReceiptFlight
    <3>2. mem' \in {mem, Invoked}
      BY <1>0, <2>1, <3>1, SettleEffect
    <3>3. Invoked.epoch = mem.epoch /\ Invoked.intent.id = mem.intent.id /\ Invoked.intent.state = mem.intent.state
      BY <1>0, <3>1, Moved DEF Intent
    <3> QED
      BY <1>11, <3>2, <3>3 DEF TakeReceipt
  <2> QED
    BY <1>2, <1>11, <2>1 DEF TakeReceipt
<1>12. CASE Deadline
  BY <1>0, <1>12 DEF Deadline, DaemonOK, counters, wireVars
<1>13. CASE Persist
  BY <1>2, <1>13 DEF Persist, wireVars, counters
<1> QED
  BY <1>0, <1>3, <1>4, <1>5, <1>6, <1>7, <1>8, <1>9, <1>10, <1>11, <1>12, <1>13, FinishEffect
     DEF Next, Claim, Enqueue, DispatchPlain, DispatchPending, Recover, Expire, CrashInDispatch, AtMessage, CanProcess, OpenHandoff,
         TimedOut, Crash, Killed, Restart, Destroy

\* A stop frame on the wire bears the number of a request.
StopsKnown == \A i \in DOMAIN down : down[i].type = "stop" => down[i].id <= intents

\* No step puts the number of a later request on the wire.
LEMMA Stops ==
  ASSUME Inv, intents' \in Nat, intents <= intents',
         \/ down' = down \/ down' = <<>> \/ (down # <<>> /\ down' = Tail(down))
         \/ \E f \in DownFrame : down' = Append(down, f) /\ (f.type = "stop" => f.id <= intents')
  PROVE  StopsKnown'
<1>0. StopsKnown /\ down \in Seq(DownFrame) /\ intents \in Nat
  BY DEF Inv, Requested, StopsKnown, BridgeOK, DaemonOK
<1>1. \A f \in DownFrame : f.type = "stop" => f.id \in Nat
  BY DEF DownFrame
<1>2. \A i \in DOMAIN down : down[i] \in DownFrame
  BY <1>0
<1>3. \A i \in DOMAIN down : down[i].type = "stop" => down[i].id <= intents'
  BY <1>0, <1>1, <1>2 DEF StopsKnown
<1>4. CASE down' = down
  BY <1>3, <1>4 DEF StopsKnown
<1>5. CASE down' = <<>>
  BY <1>5 DEF StopsKnown
<1>6. CASE down # <<>> /\ down' = Tail(down)
  <2>1. \A i \in DOMAIN Tail(down) : i + 1 \in DOMAIN down /\ Tail(down)[i] = down[i + 1]
    BY <1>0, <1>6, Frames
  <2> QED
    BY <1>3, <1>6, <2>1 DEF StopsKnown
<1>7. ASSUME NEW f \in DownFrame, down' = Append(down, f), f.type = "stop" => f.id <= intents'
      PROVE  StopsKnown'
  <2>1. \A i \in DOMAIN Append(down, f) : (i \in DOMAIN down /\ Append(down, f)[i] = down[i]) \/ Append(down, f)[i] = f
    BY <1>0, <1>7, Frames
  <2> QED
    BY <1>3, <1>7, <2>1 DEF StopsKnown
<1> QED
  BY <1>4, <1>5, <1>6, <1>7

\* A step changes the wire to the bridge at its two ends only, and counts every request.
LEMMA DownMoves ==
  ASSUME Inv, Next
  PROVE  /\ intents' \in Nat /\ intents <= intents'
         /\ \/ down' = down \/ down' = <<>> \/ (Receive /\ down # <<>> /\ down' = Tail(down))
            \/ \E f \in DownFrame : down' = Append(down, f) /\ (f.type = "stop" => f.id <= intents')
<1> DEFINE Goal == /\ intents' \in Nat /\ intents <= intents'
                   /\ \/ down' = down \/ down' = <<>> \/ (Receive /\ down # <<>> /\ down' = Tail(down))
                      \/ \E f \in DownFrame : down' = Append(down, f) /\ (f.type = "stop" => f.id <= intents')
<1>0. DaemonOK /\ MailOK /\ intents \in Nat /\ mem \in Memory /\ mem.intent.id \in 0..MaxIntent
  BY DEF Inv, DaemonOK, Memory, Intent
<1>1. CASE UNCHANGED <<down, intents>>
  BY <1>0, <1>1
<1>2. CASE down' = <<>> /\ intents' = intents
  BY <1>0, <1>2
<1>3. CASE Receive
  BY <1>0, <1>3 DEF Receive, counters
<1>4. ASSUME NEW f \in DownFrame, f.type # "stop", down' = Append(down, f), intents' = intents PROVE Goal
  BY <1>0, <1>4
<1> HIDE DEF Goal
<1>5. ASSUME NEW m \in Message, DispatchPlain(m) PROVE Goal
  <2>1. Text(m) \in DownFrame /\ Text(m).type # "stop"
    BY Sent
  <2> QED
    BY <1>1, <1>4, <1>5, <2>1 DEF DispatchPlain, counters, Goal
<1>6. ASSUME NEW m \in Message, DispatchPending(m) PROVE Goal
  <2> DEFINE f == [type |-> "pending", msg |-> m, id |-> mem.intent.id]
  <2>1. f \in DownFrame /\ f.type # "stop"
    BY <1>0, Sent
  <2>2. down' = down \/ down' = Append(down, f)
    BY <1>6 DEF DispatchPending
  <2> HIDE DEF f
  <2> QED
    BY <1>1, <1>4, <1>6, <2>1, <2>2 DEF DispatchPending, Goal
<1>7. CASE Return
  <2> DEFINE f == [type |-> "return", msg |-> barrier.msg, id |-> 0]
  <2>1. f \in DownFrame /\ f.type # "stop"
    <3>1. barrier.msg \in Message
      BY <1>0, <1>7 DEF Return, MailOK
    <3> QED
      BY <3>1, Sent
  <2>2. down' = down \/ down' = Append(down, f)
    BY <1>7 DEF Return
  <2> HIDE DEF f
  <2> QED
    BY <1>1, <1>4, <1>7, <2>1, <2>2 DEF Return, counters, Goal
<1>8. ASSUME NEW policy, NEW result, NEW sent, OpenHandoff(policy, result, sent) PROVE Goal
  <2> DEFINE f == [type |-> "stop", msg |-> NoMessage, id |-> intents + 1]
  <2>1. f \in DownFrame /\ f.id = intents + 1
    BY <1>0, <1>8, Sent DEF OpenHandoff
  <2>2. (down' = down \/ down' = Append(down, f)) /\ intents' = intents + 1
    BY <1>8 DEF OpenHandoff
  <2> HIDE DEF f
  <2> QED
    BY <1>0, <2>1, <2>2 DEF Goal
<1>9. ASSUME NEW status, NEW rest, Finish(status, rest), intents' = intents PROVE Goal
  BY <1>0, <1>1, <1>2, <1>9, FinishEffect DEF Abandoned, CommittedNow, Goal
<1>10. CASE TimedOut \/ TakeAck
  BY <1>1, <1>9, <1>10 DEF TimedOut, TakeAck, Goal
<1> QED
  <2>1. CASE UNCHANGED vars
    BY <1>1, <2>1 DEF vars, wireVars, counters, Goal
  <2> QED
    BY <1>1, <1>2, <1>3, <1>5, <1>6, <1>7, <1>8, <1>10
     DEF Goal, Next, Claim, BridgeWrites, ChildExit, Ready, Lose, FenceFails, Enqueue,
         Recover, Expire, CrashInDispatch, ReceiptTimeout, TakeReceipt, Deadline,
         Persist, Crash, Killed, Restart, Destroy, wireVars, counters

\* What a step does to what the bridges hold: they stop for the request that waits, and for no other.
LEMMA HeldMoves ==
  ASSUME Inv, Next
  PROVE  \/ UNCHANGED held
         \/ /\ Receive /\ held' = [held EXCEPT ![mem.epoch] = attempt.id]
            /\ attempt # NoAttempt /\ attempt' = attempt /\ mem' = mem
            /\ held[mem.epoch] = 0 /\ child[mem.epoch] = "alive" /\ queue[mem.epoch] = {}
            /\ Head(down).type = "stop" /\ Head(down).id = attempt.id
            /\ child' = [child EXCEPT ![mem.epoch] = "stopping"]
            /\ UNCHANGED <<back, queue, tried, wrote, intents>>
<1>1. CASE UNCHANGED bridgeVars
  BY <1>1 DEF bridgeVars
<1>2. CASE Receive
  <2>1. CASE Stop(mem.epoch) /\ held' # held
    <3>1. attempt # NoAttempt
      <4>1. Head(down).type = "stop" => Head(down).id # 0
        BY <1>2, HeadTyped DEF Inv, Receive
      <4> QED
        BY <2>1, <4>1 DEF Stop, NoAttempt
    <3> QED
      BY <1>2, <2>1, <3>1 DEF Receive, Stop, daemonVars, counters
  <2> QED
    BY <1>2, <2>1 DEF Receive, Accept, PendingWrite
<1> QED
  BY <1>1, <1>2
     DEF Next, Claim, BridgeWrites, ChildExit, Ready, Lose, FenceFails, Enqueue, DispatchPlain, DispatchPending, Return,
         Recover, Expire, CrashInDispatch, ReceiptTimeout, TakeReceipt, Deadline, OpenHandoff, TimedOut, TakeAck,
         Persist, Crash, Killed, Restart, Destroy, bridgeVars

\* A request begins with the record of its intent, and asks the bridge to stop at most once.
LEMMA Opens ==
  ASSUME Inv, Next, attempt = NoAttempt, attempt' # NoAttempt
  PROVE  /\ intents' = intents + 1 /\ attempt'.id = intents + 1
         /\ mem'.intent.id = intents + 1 /\ mem'.intent.state = "awaiting_ack"
         /\ mem'.epoch = mem.epoch /\ mem.epoch < MaxEpoch
         /\ UNCHANGED held
         /\ \/ down' = down
            \/ \E f \in DownFrame : f.type = "stop" /\ f.id = intents + 1 /\ down' = Append(down, f)
<1>0. DaemonOK /\ mem \in Memory /\ intents \in Nat
  BY DEF Inv, DaemonOK
<1>1. PICK policy \in {"empty", "never-attempted"}, result \in Results, sent \in BOOLEAN : OpenHandoff(policy, result, sent)
  BY <1>0, FinishEffect
     DEF Next, Claim, BridgeWrites, ChildExit, Ready, Lose, Receive, FenceFails, Enqueue, DispatchPlain, DispatchPending, Return,
         Recover, Expire, CrashInDispatch, ReceiptTimeout, TakeReceipt, Deadline, TimedOut, TakeAck,
         Persist, Crash, Killed, Restart, Destroy, daemonVars
<1> DEFINE i == [id |-> intents + 1, state |-> "awaiting_ack", epoch |-> mem.epoch,
                 owner |-> mem.owner, records |-> IF policy = "empty" THEN {} ELSE Waiting,
                 started |-> {}, invoked |-> {}]
           f == [type |-> "stop", msg |-> NoMessage, id |-> intents + 1]
<1>2. /\ result = "ok" /\ attempt' = [id |-> intents + 1, sent |-> sent, expired |-> FALSE]
      /\ mem' = [mem EXCEPT !.intent = i] /\ intents' = intents + 1 /\ mem.epoch < MaxEpoch
      /\ intents < MaxIntent /\ UNCHANGED held /\ (down' = down \/ down' = Append(down, f))
  BY <1>1 DEF OpenHandoff, Results, bridgeVars
<1>3. i.id = intents + 1 /\ i.state = "awaiting_ack"
  OBVIOUS
<1>4. f \in DownFrame /\ f.type = "stop" /\ f.id = intents + 1
  BY <1>0, <1>2, Sent
<1> HIDE DEF i, f
<1>5. mem'.intent = i /\ mem'.epoch = mem.epoch
  BY <1>0, <1>2 DEF Memory
<1> QED
  BY <1>0, <1>2, <1>3, <1>4, <1>5

\* Every step keeps what a request means.
LEMMA RequestedStep == ASSUME Inv, Next PROVE Requested'
<1>0. /\ DaemonOK /\ MailOK /\ BridgeOK /\ intents \in 0..MaxIntent /\ attempt.id \in 0..MaxIntent /\ mem \in Memory
      /\ mem.epoch \in Bridge /\ held \in [Bridge -> 0..MaxIntent]
      /\ (attempt # NoAttempt => attempt.id \in 1..intents /\ attempt.id = mem.intent.id
                                 /\ mem.intent.state = "awaiting_ack" /\ mem.epoch < MaxEpoch)
      /\ \A b \in Bridge : held[b] <= intents
  BY DEF Inv, DaemonOK, BridgeOK, Memory, Requested
<1>1. intents' \in Nat /\ intents <= intents'
  BY DownMoves
<1>2. \A i \in DOMAIN down' : down'[i].type = "stop" => down'[i].id <= intents'
  BY DownMoves, Stops DEF StopsKnown
<1>3. \A b \in Bridge : held'[b] <= intents'
  <2>1. CASE UNCHANGED held
    BY <1>0, <1>1, <2>1
  <2>2. CASE held' = [held EXCEPT ![mem.epoch] = attempt.id] /\ attempt # NoAttempt
    BY <1>0, <1>1, <2>2
  <2> QED
    BY <2>1, <2>2, HeldMoves
<1>4. ASSUME attempt' # NoAttempt
      PROVE  attempt'.id \in 1..intents' /\ attempt'.id = mem'.intent.id
             /\ mem'.intent.state = "awaiting_ack" /\ mem'.epoch < MaxEpoch
  <2>1. CASE attempt # NoAttempt
    BY <1>0, <1>4, <2>1, RequestKept
  <2>2. CASE attempt = NoAttempt
    BY <1>0, <1>4, <2>2, Opens
  <2> QED
    BY <2>1, <2>2
<1> QED
  BY <1>2, <1>3, <1>4 DEF Requested

\* Every step keeps the order of the stop frame.
LEMMA StopLastStep == ASSUME Inv, Next PROVE StopLast'
<1>0. /\ DaemonOK /\ BridgeOK /\ StopLast /\ down \in Seq(DownFrame) /\ mem.epoch \in Bridge
      /\ held \in [Bridge -> 0..MaxIntent] /\ intents \in Nat /\ StopsKnown /\ \A b \in Bridge : held[b] <= intents
  BY DEF Inv, BridgeOK, DaemonOK, Memory, Requested, StopsKnown
<1>1. CASE attempt' = NoAttempt
  BY <1>1 DEF StopLast
<1>2. CASE attempt # NoAttempt /\ attempt' # NoAttempt
  <2>0. /\ attempt'.id = attempt.id /\ mem'.epoch = mem.epoch
        /\ down' = down \/ down' = <<>> \/ (Receive /\ down # <<>> /\ down' = Tail(down))
    BY <1>2, RequestKept
  <2>1. /\ \A i \in DOMAIN down : down[i].type = "stop" /\ down[i].id = attempt.id => i = Len(down)
        /\ held[mem.epoch] = attempt.id => down = <<>>
    BY <1>0, <1>2 DEF StopLast
  <2>2. \A i \in DOMAIN down' : down'[i].type = "stop" /\ down'[i].id = attempt.id => i = Len(down')
    <3>1. CASE down' = down
      BY <2>1, <3>1
    <3>2. CASE down' = <<>>
      BY <3>2
    <3>3. CASE down # <<>> /\ down' = Tail(down)
      <4>1. Len(Tail(down)) = Len(down) - 1
            /\ \A i \in DOMAIN Tail(down) : i \in Nat /\ i + 1 \in DOMAIN down /\ Tail(down)[i] = down[i + 1]
        BY <1>0, <3>3, Frames
      <4> QED
        BY <1>0, <2>1, <3>3, <4>1
    <3> QED
      BY <2>0, <3>1, <3>2, <3>3
  <2>3. held'[mem.epoch] = attempt.id => down' = <<>>
    <3>1. CASE UNCHANGED held
      BY <2>0, <2>1, <3>1
    <3>2. CASE Receive /\ Head(down).type = "stop" /\ Head(down).id = attempt.id
      <4>1. down # <<>> /\ down' = Tail(down)
        BY <3>2 DEF Receive
      <4>2. Head(down) = down[1] /\ 1 \in DOMAIN down /\ Len(Tail(down)) = Len(down) - 1 /\ Tail(down) \in Seq(DownFrame)
        BY <1>0, <4>1, Frames
      <4>3. Len(Tail(down)) = 0
        BY <1>0, <2>1, <3>2, <4>2
      <4> QED
        BY <4>1, <4>2, <4>3
    <3> QED
      BY <3>1, <3>2, HeldMoves
  <2> QED
    BY <2>0, <2>2, <2>3 DEF StopLast
<1>3. CASE attempt = NoAttempt /\ attempt' # NoAttempt
  <2>0. /\ attempt'.id = intents + 1 /\ mem'.epoch = mem.epoch /\ UNCHANGED held
        /\ \/ down' = down
           \/ \E f \in DownFrame : f.type = "stop" /\ f.id = intents + 1 /\ down' = Append(down, f)
    BY <1>3, Opens
  <2>1. held'[mem'.epoch] # attempt'.id
    BY <1>0, <2>0
  <2>2. \A i \in DOMAIN down : down[i].type = "stop" => down[i].id # intents + 1
    <3>1. \A i \in DOMAIN down : down[i] \in DownFrame
      BY <1>0
    <3>2. \A f \in DownFrame : f.id \in Nat
      BY DEF DownFrame
    <3> QED
      BY <1>0, <3>1, <3>2 DEF StopsKnown
  <2>3. \A i \in DOMAIN down' : down'[i].type = "stop" /\ down'[i].id = attempt'.id => i = Len(down')
    <3>1. CASE down' = down
      BY <2>0, <2>2, <3>1
    <3>2. ASSUME NEW f \in DownFrame, f.type = "stop", f.id = intents + 1, down' = Append(down, f)
          PROVE  \A i \in DOMAIN down' : down'[i].type = "stop" /\ down'[i].id = attempt'.id => i = Len(down')
      <4>1. Len(Append(down, f)) = Len(down) + 1
            /\ \A i \in DOMAIN Append(down, f) :
                 (i \in DOMAIN down /\ Append(down, f)[i] = down[i]) \/ i = Len(down) + 1
        BY <1>0, Frames
      <4> QED
        BY <2>0, <2>2, <3>2, <4>1
    <3> QED
      BY <2>0, <3>1, <3>2
  <2> QED
    BY <2>1, <2>3 DEF StopLast
<1> QED
  BY <1>1, <1>2, <1>3

\* The session's epoch moves only when the exit of its child is acknowledged to the request that
\* waits, which still finds its owner and the custody it recorded.
Rotates ==
  /\ TakeAck /\ attempt # NoAttempt /\ ~attempt.expired /\ back # <<>>
  /\ Head(back).type = "ack" /\ Head(back).status = "exited" /\ Head(back).id = attempt.id
  /\ Current /\ SameCustody /\ CommittedNow /\ attempt' = NoAttempt

\* No other step moves it, in memory or on disk.
LEMMA EpochMoves ==
  ASSUME Inv, Next
  PROVE  Rotates \/ (mem'.epoch = mem.epoch /\ store'.epoch = store.epoch /\ UNCHANGED bearers)
<1> DEFINE Stays == mem'.epoch = mem.epoch /\ store'.epoch = store.epoch /\ UNCHANGED bearers
<1>0. /\ DaemonOK /\ MailOK /\ mem \in Memory /\ store \in Saved /\ store.epoch = mem.epoch
  BY DEF Inv, DaemonOK, EpochSaved
<1>1. CASE UNCHANGED <<mem, store, bearers>>
  BY <1>1
<1>2. ASSUME NEW s \in Memory, s.epoch = mem.epoch, store' = store \/ store' = Persisted(s) PROVE store'.epoch = store.epoch
  BY <1>0, <1>2, SavedIntents
<1> HIDE DEF Stays
<1>3. ASSUME NEW b \in Bridge, Claim(b) PROVE Stays
  BY <1>0, <1>3 DEF Claim, Memory, Stays
<1>4. CASE Ready
  BY <1>0, <1>4 DEF Ready, Memory, Stays
<1>5. CASE Lose \/ Destroy
  BY <1>0, <1>5, Intents DEF Lose, Destroy, Stays
<1>6. ASSUME NEW m \in Message, DispatchPending(m) PROVE Stays
  <2>1. mem' \in {mem, Started(m)} /\ store' \in {store, Persisted(Started(m))} /\ UNCHANGED bearers
    BY <1>6 DEF DispatchPending, Save
  <2>2. Started(m) \in Memory
    BY <1>0, MemoryTyped DEF Started
  <2>3. Started(m).epoch = mem.epoch
    BY <1>0, Moved
  <2> QED
    BY <1>2, <2>1, <2>2, <2>3 DEF Stays
<1>7. CASE ReceiptTimeout
  BY <1>1, <1>7 DEF ReceiptTimeout, Settle, Stays
<1>8. ASSUME NEW policy, NEW result, NEW sent, OpenHandoff(policy, result, sent) PROVE Stays
  <2> DEFINE i == [id |-> intents + 1, state |-> "awaiting_ack", epoch |-> mem.epoch,
                 owner |-> mem.owner, records |-> IF policy = "empty" THEN {} ELSE Waiting,
                 started |-> {}, invoked |-> {}]
  <2>1. /\ mem' \in {mem, [mem EXCEPT !.intent = i]}
        /\ store' \in {store, Persisted([mem EXCEPT !.intent = i])} /\ UNCHANGED bearers
    BY <1>8 DEF OpenHandoff, Save
  <2> HIDE DEF i
  <2>2. [mem EXCEPT !.intent = i].epoch = mem.epoch
    BY <1>0 DEF Memory
  <2>3. Persisted([mem EXCEPT !.intent = i]).epoch = mem.epoch
    BY <2>2 DEF Persisted
  <2> QED
    BY <1>0, <2>1, <2>2, <2>3 DEF Stays
<1>9. ASSUME NEW rest, Abandoned(rest) PROVE Stays
  <2>1. PICK s1 \in {"refused", "outcome_unknown"}, s2 \in {"refused", "outcome_unknown"} :
          mem' = WithIntent(s1) /\ store' \in {store, Persisted(WithIntent(s2))} /\ UNCHANGED bearers
    BY <1>9 DEF Abandoned
  <2>2. WithIntent(s2) \in Memory
    BY <1>0, MemoryTyped, IntentStates DEF WithIntent
  <2>3. WithIntent(s1).epoch = mem.epoch /\ WithIntent(s2).epoch = mem.epoch
    BY <1>0, Moved
  <2> QED
    BY <1>2, <2>1, <2>2, <2>3 DEF Stays
<1>10. CASE TimedOut
  BY <1>0, <1>1, <1>9, <1>10, FinishEffect DEF TimedOut, Stays
<1>11. CASE TakeAck
  <2>1. CASE UNCHANGED <<mem, store, bearers>>
    BY <1>1, <2>1 DEF Stays
  <2>2. CASE Finish(Head(back).status, Tail(back)) /\ attempt # NoAttempt /\ attempt.id = Head(back).id
    <3>1. \/ UNCHANGED <<mem, store, bearers, captured, down>>
          \/ Abandoned(Tail(back))
          \/ Head(back).status = "exited" /\ ~attempt.expired /\ Current /\ SameCustody /\ CommittedNow
      BY <1>0, <2>2, FinishEffect
    <3>2. attempt' = NoAttempt
      BY <1>0, <2>2, FinishEffect
    <3>3. CASE Head(back).status = "exited" /\ ~attempt.expired /\ Current /\ SameCustody /\ CommittedNow
      BY <1>11, <2>2, <3>2, <3>3 DEF Rotates, TakeAck
    <3> QED
      BY <1>1, <1>9, <3>1, <3>3 DEF Stays
  <2> QED
    BY <1>11, <2>1, <2>2 DEF TakeAck
<1>12. CASE TakeReceipt
  <2>1. CASE flight.msg = Head(back).msg /\ Settle(Head(back).status = "invoked")
    <3>1. flight.msg \in Message
      BY <1>12, <2>1, ReceiptFlight
    <3>2. mem' \in {mem, Invoked} /\ store' \in {store, Persisted(Invoked)}
      BY <1>0, <2>1, <3>1, SettleEffect
    <3>3. Invoked \in Memory
      BY <1>0, <3>1, MemoryTyped DEF Invoked
    <3>4. Invoked.epoch = mem.epoch
      BY <1>0, <3>1, Moved
    <3> QED
      BY <1>2, <1>12, <3>2, <3>3, <3>4 DEF TakeReceipt, Stays
  <2> QED
    BY <1>1, <1>12, <2>1 DEF TakeReceipt, Stays
<1>13. CASE Persist
  BY <1>0, <1>13, SavedIntents DEF Persist, Stays
<1>14. CASE Killed
  <2>1. mem'.epoch = mem.epoch
    BY <1>0, <1>14 DEF Killed, Disconnected, Memory
  <2> QED
    BY <1>14, <2>1 DEF Killed, Stays
<1>15. CASE Restart
  BY <1>0, <1>15 DEF Restart, Restored, Stays
<1> QED
  BY <1>1, <1>3, <1>4, <1>5, <1>6, <1>7, <1>8, <1>10, <1>11, <1>12, <1>13, <1>14, <1>15
     DEF Stays, Next, BridgeWrites, ChildExit, Receive, FenceFails, Enqueue, DispatchPlain, Return,
         Recover, Expire, CrashInDispatch, Deadline, Crash, daemonVars

-----------------------------------------------------------------------------
(* Steps of the bridges.                                                     *)

\* A child is started once, stops for a request and then exits.
LEMMA ChildMoves ==
  ASSUME Inv, Next
  PROVE  \/ UNCHANGED child
         \/ \E b \in Bridge : /\ child[b] \in {"none", "alive"} /\ held[b] = 0 /\ child' = [child EXCEPT ![b] = "alive"]
                              /\ UNCHANGED held
         \/ /\ Receive /\ child[mem.epoch] = "alive" /\ child' = [child EXCEPT ![mem.epoch] = "stopping"]
            /\ held' = [held EXCEPT ![mem.epoch] = attempt.id] /\ attempt.id # 0
         \/ \E b \in Bridge : child[b] = "stopping" /\ child' = [child EXCEPT ![b] = "exited"] /\ UNCHANGED held
<1>1. CASE UNCHANGED bridgeVars
  BY <1>1 DEF bridgeVars
<1>2. CASE Receive
  <2>1. CASE Stop(mem.epoch)
    <3>1. Head(down).type = "stop" => Head(down).id # 0
      BY <1>2, HeadTyped DEF Inv, Receive
    <3> QED
      BY <1>2, <2>1, <3>1 DEF Stop
  <2> QED
    BY <1>2, <2>1 DEF Receive, Accept, PendingWrite
<1>3. ASSUME NEW b \in Bridge, Claim(b) \/ ChildExit(b) \/ BridgeWrites(b)
      PROVE  \/ UNCHANGED child
             \/ child[b] \in {"none", "alive"} /\ held[b] = 0 /\ child' = [child EXCEPT ![b] = "alive"] /\ UNCHANGED held
             \/ child[b] = "stopping" /\ child' = [child EXCEPT ![b] = "exited"] /\ UNCHANGED held
  BY <1>3 DEF Claim, ChildExit, BridgeWrites
<1> QED
  BY <1>1, <1>2, <1>3
     DEF Next, Ready, Lose, FenceFails, Enqueue, DispatchPlain, DispatchPending, Return,
         Recover, Expire, CrashInDispatch, ReceiptTimeout, TakeReceipt, Deadline, OpenHandoff, TimedOut, TakeAck,
         Persist, Crash, Killed, Restart, Destroy, bridgeVars

\* A bridge that stops its child accepts no more input.
LEMMA QueueMoves ==
  ASSUME Inv, Next
  PROVE  \A b \in Bridge : held[b] # 0 => queue'[b] \subseteq queue[b]
<1>0. mem.epoch \in Bridge /\ BridgeOK
  BY DEF Inv, DaemonOK, Memory
<1>1. CASE UNCHANGED queue
  BY <1>1
<1>2. ASSUME NEW b \in Bridge, BridgeWrites(b) PROVE \A c \in Bridge : queue'[c] \subseteq queue[c]
  BY <1>0, <1>2 DEF BridgeWrites, BridgeOK
<1>3. CASE Receive
  BY <1>0, <1>3 DEF Receive, Accept, Stop, PendingWrite, BridgeOK
<1>4. ASSUME NEW m \in Message, CrashInDispatch(m) PROVE \A b \in Bridge : held[b] # 0 => queue'[b] \subseteq queue[b]
  BY <1>0, <1>4 DEF CrashInDispatch, BridgeOK
<1> QED
  BY <1>1, <1>2, <1>3, <1>4
     DEF Next, Claim, ChildExit, Ready, Lose, FenceFails, Enqueue, DispatchPlain, DispatchPending, Return,
         Recover, Expire, ReceiptTimeout, TakeReceipt, Deadline, OpenHandoff, TimedOut, TakeAck,
         Persist, Crash, Killed, Restart, Destroy, bridgeVars

\* A bridge sends acknowledgements and receipts; the exit of a child is acknowledged when it happens.
Sends(f) ==
  /\ back' = Append(back, f)
  /\ f.type = "ack" /\ f.status = "exited" =>
       f.id = held[mem.epoch] /\ child'[mem.epoch] = "exited" /\ UNCHANGED held
  /\ f.type = "receipt" /\ f.status = "invoked" =>
       /\ Receive /\ PendingWrite(mem.epoch) /\ f.msg = Head(down).msg /\ wrote' = [wrote EXCEPT ![f.msg] = @ + 1]

LEMMA BackMoves ==
  ASSUME Inv, Next
  PROVE  \/ back' = back \/ back' = <<>> \/ (back # <<>> /\ back' = Tail(back))
         \/ \E f \in BackFrame : Sends(f)
<1> DEFINE Goal == \/ back' = back \/ back' = <<>> \/ (back # <<>> /\ back' = Tail(back))
                   \/ \E f \in BackFrame : Sends(f)
<1>0. DaemonOK /\ BridgeOK /\ mem.epoch \in Bridge /\ held \in [Bridge -> 0..MaxIntent]
      /\ child \in [Bridge -> {"none", "alive", "stopping", "exited"}]
  BY DEF Inv, DaemonOK, Memory, BridgeOK
<1>1. ASSUME back' = back \/ back' = <<>> \/ (back # <<>> /\ back' = Tail(back)) PROVE Goal
  BY <1>1
<1> HIDE DEF Goal
<1>2. ASSUME NEW b \in Bridge, ChildExit(b) PROVE Goal
  <2> DEFINE f == [type |-> "ack", msg |-> NoMessage, id |-> held[b], status |-> "exited"]
  <2>1. f \in BackFrame /\ f.type = "ack" /\ f.id = held[b]
    BY <1>0, Sent
  <2>2. back' = back \/ (mem.epoch = b /\ back' = Append(back, f))
    BY <1>2 DEF ChildExit
  <2>3. child'[b] = "exited" /\ UNCHANGED held
    BY <1>0, <1>2 DEF ChildExit
  <2> HIDE DEF f
  <2> QED
    BY <2>1, <2>2, <2>3 DEF Goal, Sends
<1>3. CASE Receive
  <2>0. /\ down # <<>> /\ Head(down).id \in 0..MaxIntent
        /\ Head(down).type = "pending" => Head(down).msg \in Message
    BY <1>0, <1>3, HeadTyped DEF Receive
  <2>1. CASE Stop(mem.epoch)
    <3>1. Answer("refused") \in BackFrame /\ Answer("refused").type = "ack" /\ Answer("refused").status = "refused"
      BY <2>0, Sent DEF Answer
    <3>2. back' = back \/ back' = Append(back, Answer("refused"))
      BY <2>1 DEF Stop
    <3> QED
      BY <3>1, <3>2 DEF Goal, Sends
  <2>2. CASE Accept(mem.epoch)
    BY <2>2 DEF Accept, Goal
  <2>3. CASE PendingWrite(mem.epoch)
    <3> DEFINE f(ok) == [type |-> "receipt", msg |-> Head(down).msg, id |-> Head(down).id,
                         status |-> IF ok THEN "invoked" ELSE "unknown"]
    <3>1. \A ok \in BOOLEAN : /\ f(ok) \in BackFrame /\ f(ok).type = "receipt" /\ f(ok).msg = Head(down).msg
                              /\ (f(ok).status = "invoked" => ok)
      BY <2>0, <2>3, Sent DEF PendingWrite
    <3>2. \/ back' = back \/ back' = Append(back, f(FALSE))
          \/ \E ok \in BOOLEAN : back' = Append(back, f(ok)) /\ wrote' = [wrote EXCEPT ![Head(down).msg] = @ + 1]
      BY <2>3 DEF PendingWrite
    <3> HIDE DEF f
    <3>3. CASE back' = back
      BY <3>3 DEF Goal
    <3>4. CASE back' = Append(back, f(FALSE))
      <4>1. f(FALSE) \in BackFrame /\ f(FALSE).type = "receipt" /\ f(FALSE).status # "invoked"
        BY <3>1
      <4> QED
        BY <3>4, <4>1 DEF Goal, Sends
    <3>6. CASE back' # back /\ back' # Append(back, f(FALSE))
      <4>1. PICK ok \in BOOLEAN : back' = Append(back, f(ok)) /\ wrote' = [wrote EXCEPT ![Head(down).msg] = @ + 1]
        BY <3>2, <3>6
      <4>2. f(ok) \in BackFrame /\ f(ok).type = "receipt" /\ f(ok).msg = Head(down).msg
        BY <3>1
      <4>3. Sends(f(ok))
        BY <1>3, <2>3, <4>1, <4>2 DEF Sends
      <4> QED
        BY <4>2, <4>3 DEF Goal
    <3> QED
      BY <3>3, <3>4, <3>6
  <2> QED
    BY <1>3, <2>1, <2>2, <2>3 DEF Receive
<1>4. ASSUME NEW status, NEW rest, Finish(status, rest), rest = back \/ (back # <<>> /\ rest = Tail(back)) PROVE Goal
  BY <1>0, <1>4, FinishEffect DEF Abandoned, CommittedNow, Goal
<1>5. CASE TimedOut \/ TakeAck
  BY <1>1, <1>4, <1>5 DEF TimedOut, TakeAck, Goal
<1> QED
  <2>1. Goal
    BY <1>1, <1>2, <1>3, <1>5
       DEF Goal, Next, Claim, BridgeWrites, Ready, Lose, FenceFails, Enqueue, DispatchPlain, DispatchPending, Return,
           Recover, Expire, CrashInDispatch, ReceiptTimeout, TakeReceipt, Deadline, OpenHandoff,
           Persist, Crash, Killed, Restart, Destroy, wireVars
  <2> QED
    BY <2>1 DEF Goal

\* Every step keeps what a stop means.
LEMMA StoppedStep == ASSUME Inv, Next PROVE Stopped'
<1>0. /\ DaemonOK /\ BridgeOK /\ mem.epoch \in Bridge /\ held \in [Bridge -> 0..MaxIntent] /\ back \in Seq(BackFrame)
      /\ child \in [Bridge -> {"none", "alive", "stopping", "exited"}] /\ attempt.id \in 0..MaxIntent
      /\ queue \in [Bridge -> SUBSET {f \in DownFrame : f.type \in {"text", "return"}}]
      /\ Stopped
  BY DEF Inv, DaemonOK, Memory, BridgeOK
<1>1. \A b \in Bridge : child[b] = "exited" => child'[b] = "exited" /\ held'[b] = held[b]
  BY <1>0, ChildMoves, HeldMoves
<1>2. \A b \in Bridge : child'[b] \in {"stopping", "exited"} => held'[b] # 0
  <2>1. \A b \in Bridge : child[b] \in {"stopping", "exited"} => held[b] # 0
    BY <1>0 DEF Stopped
  <2> QED
    BY <1>0, <2>1, ChildMoves, HeldMoves
<1>3. \A b \in Bridge : held'[b] # 0 => child'[b] \in {"stopping", "exited"}
  <2>1. \A b \in Bridge : held[b] # 0 => child[b] \in {"stopping", "exited"}
    BY <1>0 DEF Stopped
  <2>2. CASE UNCHANGED held
    BY <1>0, <2>1, <2>2, ChildMoves
  <2>3. CASE held' = [held EXCEPT ![mem.epoch] = attempt.id] /\ child' = [child EXCEPT ![mem.epoch] = "stopping"]
    BY <1>0, <2>1, <2>3
  <2> QED
    BY <2>2, <2>3, HeldMoves
<1>4. \A b \in Bridge : held'[b] # 0 => queue'[b] = {}
  <2>1. \A b \in Bridge : held[b] # 0 => queue[b] = {}
    BY <1>0 DEF Stopped
  <2>2. CASE UNCHANGED held
    BY <1>0, <2>1, <2>2, QueueMoves
  <2>3. CASE held' = [held EXCEPT ![mem.epoch] = attempt.id] /\ queue[mem.epoch] = {} /\ queue' = queue
    BY <1>0, <2>1, <2>3
  <2> QED
    BY <2>2, <2>3, HeldMoves
<1>5. \A i \in DOMAIN back' : back'[i].type = "ack" /\ back'[i].status = "exited" =>
        back'[i].id = held'[mem'.epoch] /\ child'[mem'.epoch] = "exited"
  <2>0. CASE back' = <<>>
    BY <2>0
  <2>1. CASE mem'.epoch = mem.epoch
    <3>1. \A i \in DOMAIN back : back[i].type = "ack" /\ back[i].status = "exited" =>
            back[i].id = held'[mem.epoch] /\ child'[mem.epoch] = "exited"
      BY <1>0, <1>1 DEF Stopped
    <3>2. CASE back' = back
      BY <2>1, <3>1, <3>2
    <3>3. CASE back # <<>> /\ back' = Tail(back)
      <4>1. \A i \in DOMAIN Tail(back) : i + 1 \in DOMAIN back /\ Tail(back)[i] = back[i + 1]
        BY <1>0, <3>3, Frames
      <4> QED
        BY <2>1, <3>1, <3>3, <4>1
    <3>4. ASSUME NEW f \in BackFrame, Sends(f)
          PROVE  \A i \in DOMAIN back' : back'[i].type = "ack" /\ back'[i].status = "exited" =>
                   back'[i].id = held'[mem'.epoch] /\ child'[mem'.epoch] = "exited"
      <4>1. \A i \in DOMAIN Append(back, f) :
              (i \in DOMAIN back /\ Append(back, f)[i] = back[i]) \/ Append(back, f)[i] = f
        BY <1>0, <3>4, Frames DEF Sends
      <4> QED
        BY <2>1, <3>1, <3>4, <4>1 DEF Sends
    <3> QED
      BY <2>0, <3>2, <3>3, <3>4, BackMoves
  <2>2. CASE Rotates
    BY <2>0, <2>2 DEF Rotates, CommittedNow
  <2> QED
    BY <2>1, <2>2, EpochMoves
<1> QED
  BY <1>2, <1>3, <1>4, <1>5 DEF Stopped

\* Every step keeps the saved epoch, and leaves an epoch only behind its child.
LEMMA EpochStep == ASSUME Inv, Next PROVE EpochSaved' /\ RotatedAfterExit'
<1>0. /\ DaemonOK /\ BridgeOK /\ mem.epoch \in Bridge /\ mem \in Memory /\ bearers \subseteq Bridge
      /\ back \in Seq(BackFrame) /\ child \in [Bridge -> {"none", "alive", "stopping", "exited"}]
      /\ Stopped /\ EpochSaved /\ RotatedAfterExit
  BY DEF Inv, DaemonOK, Memory, BridgeOK
<1>1. \A b \in Bridge : child[b] = "exited" => child'[b] = "exited"
  BY <1>0, ChildMoves
<1>2. CASE mem'.epoch = mem.epoch /\ store'.epoch = store.epoch /\ UNCHANGED bearers
  BY <1>0, <1>1, <1>2 DEF EpochSaved, RotatedAfterExit
<1>3. CASE Rotates
  <2>1. mem' = Committed /\ store' = Persisted(Committed) /\ bearers' \in {bearers, bearers \cup {Committed.epoch}}
    BY <1>3 DEF Rotates, CommittedNow
  <2>2. Committed.epoch = mem.epoch + 1
    BY <1>0, Moved
  <2>3. mem'.epoch = mem.epoch + 1 /\ store'.epoch = mem.epoch + 1
    BY <2>1, <2>2 DEF Persisted
  <2>4. child[mem.epoch] = "exited"
    <3>1. Head(back) = back[1] /\ 1 \in DOMAIN back
      BY <1>0, <1>3, Frames DEF Rotates
    <3> QED
      BY <1>0, <1>3, <3>1 DEF Rotates, Stopped
  <2>5. \A b \in Bridge : b < mem.epoch + 1 => child'[b] = "exited"
    BY <1>0, <1>1, <2>4 DEF RotatedAfterExit
  <2>6. \A e \in bearers' : e <= mem.epoch + 1
    BY <1>0, <2>1, <2>2 DEF RotatedAfterExit, EpochSaved
  <2> QED
    BY <2>3, <2>5, <2>6 DEF EpochSaved, RotatedAfterExit
<1> QED
  BY <1>2, <1>3, EpochMoves

-----------------------------------------------------------------------------
(* Steps of the texts.                                                       *)

\* A message that has left the untouched states never returns to them.
LEMMA JournalBack == ASSUME Inv, Next PROVE \A m \in Message : Untouched(m)' => Untouched(m)
<1>0. journal \in [Message -> Journal] /\ DaemonOK /\ MailOK /\ Flying
  BY DEF Inv, MailOK
<1>1. CASE UNCHANGED journal
  BY <1>1 DEF Untouched
<1>2. ASSUME NEW n \in Message, Acked(n) PROVE \A m \in Message : Untouched(m)' => Untouched(m)
  BY <1>0, <1>2 DEF Acked, Untouched
<1>3. ASSUME NEW n \in Message, NEW j, journal' = [journal EXCEPT ![n] = j],
             j \in {"unknown", "closed", "in_flight"} \/ Untouched(n)
      PROVE  \A m \in Message : Untouched(m)' => Untouched(m)
  BY <1>0, <1>3 DEF Untouched
<1>4. ASSUME NEW m \in Message, NEW consented \in BOOLEAN, NEW enter \in BOOLEAN, Enqueue(m, consented, enter)
      PROVE  \A n \in Message : Untouched(n)' => Untouched(n)
  BY <1>3, <1>4 DEF Enqueue, Untouched
<1>5. ASSUME NEW m \in Message, DispatchPlain(m) \/ FenceFails(m) \/ DispatchPending(m) \/ Recover(m) \/ Expire(m) \/ CrashInDispatch(m)
      PROVE  \A n \in Message : Untouched(n)' => Untouched(n)
  <2>1. Untouched(m) \/ ~FenceFails(m)
    BY DEF FenceFails, AtMessage, Untouched
  <2> QED
    BY <1>2, <1>3, <1>5, <2>1 DEF DispatchPlain, FenceFails, DispatchPending, Recover, Expire, CrashInDispatch
<1>6. CASE Return
  <2>1. barrier.msg \in Message
    BY <1>0, <1>6 DEF Return, MailOK
  <2> QED
    BY <1>1, <1>3, <1>6, <2>1 DEF Return
<1>7. ASSUME NEW done \in BOOLEAN, Settle(done), flight # NoFlight PROVE \A m \in Message : Untouched(m)' => Untouched(m)
  BY <1>0, <1>2, <1>3, <1>7, SettleEffect, FlightMessage
<1>8. CASE ReceiptTimeout
  BY <1>7, <1>8 DEF ReceiptTimeout
<1>9. CASE TakeReceipt
  BY <1>1, <1>7, <1>9, ReceiptFlight DEF TakeReceipt
<1> QED
  BY <1>1, <1>4, <1>5, <1>6, <1>8, <1>9
     DEF Next, Claim, BridgeWrites, ChildExit, Ready, Lose, Receive, Deadline, OpenHandoff, TimedOut, TakeAck,
         Persist, Crash, Restart, Destroy, mailVars

\* How the texts move: dropped or left where they are, sent, queued, written, or caught in a crash.
Fewer ==
  /\ UNCHANGED wrote /\ \A b \in Bridge : queue'[b] \subseteq queue[b]
  /\ \/ down' = down \/ down' = <<>> \/ (down # <<>> /\ down' = Tail(down))
     \/ \E f \in DownFrame : f.type \in {"return", "stop"} /\ down' = Append(down, f)
Sending(m) ==
  /\ Untouched(m) /\ ~Untouched(m)' /\ UNCHANGED <<wrote, queue>>
  /\ \E f \in DownFrame : Carries(f, m) /\ down' = Append(down, f)
Accepting ==
  /\ down # <<>> /\ down' = Tail(down) /\ UNCHANGED wrote
  /\ queue' = [queue EXCEPT ![mem.epoch] = @ \cup {Head(down)}]
WritingHead ==
  /\ down # <<>> /\ down' = Tail(down) /\ UNCHANGED queue /\ Head(down).type = "pending"
  /\ wrote' = [wrote EXCEPT ![Head(down).msg] = @ + 1]
Writing(b, f) ==
  /\ f \in queue[b] /\ f.type = "text" /\ UNCHANGED down
  /\ queue' = [queue EXCEPT ![b] = @ \ {f}] /\ wrote' = [wrote EXCEPT ![f.msg] = @ + 1]
Caught(m) ==
  /\ Untouched(m) /\ ~Untouched(m)' /\ UNCHANGED wrote /\ down' = <<>>
  /\ queue' = [queue EXCEPT ![mem.epoch] = @ \cup {Text(m)}]

TextMoves ==
  \/ Fewer \/ Accepting \/ WritingHead
  \/ \E m \in Message : Sending(m) \/ Caught(m)
  \/ \E b \in Bridge : \E f \in queue[b] : Writing(b, f)

\* These are all their ways.
LEMMA TextsMove == ASSUME Inv, Next PROVE TextMoves
<1>0. /\ DaemonOK /\ MailOK /\ BridgeOK /\ mem.epoch \in Bridge /\ journal \in [Message -> Journal]
      /\ queue \in [Bridge -> SUBSET {f \in DownFrame : f.type \in {"text", "return"}}]
      /\ mem.intent.id \in 0..MaxIntent
  BY DEF Inv, DaemonOK, Memory, MailOK, BridgeOK, Intent
<1>1. CASE UNCHANGED <<down, queue, wrote>>
  BY <1>1 DEF TextMoves, Fewer
<1>2. CASE down' = <<>> /\ UNCHANGED <<queue, wrote>>
  BY <1>2 DEF TextMoves, Fewer
<1>3. ASSUME NEW f \in DownFrame, f.type \in {"return", "stop"}, down' = Append(down, f), UNCHANGED <<queue, wrote>>
      PROVE  TextMoves
  BY <1>3 DEF TextMoves, Fewer
<1>4. ASSUME NEW b \in Bridge, BridgeWrites(b) PROVE TextMoves
  <2>1. PICK f \in queue[b] :
          /\ queue' = [queue EXCEPT ![b] = @ \ {f}]
          /\ wrote' = IF f.type = "text" THEN [wrote EXCEPT ![f.msg] = @ + 1] ELSE wrote
    BY <1>4 DEF BridgeWrites
  <2>2. CASE f.type = "text"
    BY <1>4, <2>1, <2>2 DEF BridgeWrites, wireVars, TextMoves, Writing
  <2>3. CASE f.type # "text"
    <3>1. \A c \in Bridge : queue'[c] \subseteq queue[c]
      BY <1>0, <2>1
    <3> QED
      BY <1>4, <2>1, <2>3, <3>1 DEF BridgeWrites, wireVars, TextMoves, Fewer
  <2> QED
    BY <2>2, <2>3
<1>5. CASE Receive
  <2>1. down # <<>> /\ down' = Tail(down) /\ (Head(down).type = "pending" => Head(down).msg \in Message)
    BY <1>0, <1>5, HeadTyped DEF Receive
  <2>2. CASE UNCHANGED <<queue, wrote>>
    BY <2>1, <2>2 DEF TextMoves, Fewer
  <2>3. CASE Stop(mem.epoch)
    BY <2>2, <2>3 DEF Stop
  <2>4. CASE Accept(mem.epoch)
    BY <2>1, <2>2, <2>4 DEF Accept, TextMoves, Accepting
  <2>5. CASE PendingWrite(mem.epoch)
    BY <2>1, <2>2, <2>5 DEF PendingWrite, TextMoves, WritingHead
  <2> QED
    BY <1>5, <2>3, <2>4, <2>5 DEF Receive
<1>6. ASSUME NEW m \in Message, DispatchPlain(m) PROVE TextMoves
  <2>0. Untouched(m) /\ UNCHANGED <<queue, wrote>>
    BY <1>6 DEF DispatchPlain, AtMessage, Untouched, bridgeVars
  <2>1. CASE Acked(m) /\ down' = Append(down, Text(m))
    <3>1. ~Untouched(m)'
      BY <1>0, <2>1 DEF Acked, Untouched
    <3>2. Text(m) \in DownFrame /\ Carries(Text(m), m)
      BY Sent DEF Carries
    <3> QED
      BY <2>0, <2>1, <3>1, <3>2 DEF TextMoves, Sending
  <2> QED
    BY <1>1, <1>6, <2>0, <2>1 DEF DispatchPlain
<1>7. ASSUME NEW m \in Message, DispatchPending(m) PROVE TextMoves
  <2> DEFINE f == [type |-> "pending", msg |-> m, id |-> mem.intent.id]
  <2>0. Untouched(m) /\ UNCHANGED <<queue, wrote>>
    BY <1>7 DEF DispatchPending, AtMessage, Untouched, bridgeVars
  <2>1. f \in DownFrame /\ Carries(f, m)
    BY <1>0, Sent DEF Carries
  <2>2. CASE journal' = [journal EXCEPT ![m] = "in_flight"] /\ down' = Append(down, f)
    <3>1. ~Untouched(m)'
      BY <1>0, <2>2 DEF Untouched
    <3> HIDE DEF f
    <3> QED
      BY <2>0, <2>1, <2>2, <3>1 DEF TextMoves, Sending
  <2>3. CASE down' = down
    BY <1>1, <2>0, <2>3
  <2> QED
    BY <1>7, <2>2, <2>3 DEF DispatchPending
<1>8. CASE Return
  <2> DEFINE f == [type |-> "return", msg |-> barrier.msg, id |-> 0]
  <2>1. f \in DownFrame /\ f.type = "return"
    <3>1. barrier.msg \in Message
      BY <1>0, <1>8 DEF Return, MailOK
    <3> QED
      BY <3>1, Sent
  <2>2. (down' = down \/ down' = Append(down, f)) /\ UNCHANGED <<queue, wrote>>
    BY <1>8 DEF Return, bridgeVars
  <2> HIDE DEF f
  <2> QED
    BY <1>1, <1>3, <2>1, <2>2
<1>9. ASSUME NEW policy, NEW result, NEW sent, OpenHandoff(policy, result, sent) PROVE TextMoves
  <2> DEFINE f == [type |-> "stop", msg |-> NoMessage, id |-> intents + 1]
  <2>1. f \in DownFrame /\ f.type = "stop"
    BY <1>0, <1>9, Sent DEF OpenHandoff, DaemonOK
  <2>2. (down' = down \/ down' = Append(down, f)) /\ UNCHANGED <<queue, wrote>>
    BY <1>9 DEF OpenHandoff, bridgeVars
  <2> HIDE DEF f
  <2> QED
    BY <1>1, <1>3, <2>1, <2>2
<1>10. ASSUME NEW m \in Message, CrashInDispatch(m) PROVE TextMoves
  <2>1. Untouched(m) /\ ~Untouched(m)' /\ down' = <<>> /\ UNCHANGED wrote
    BY <1>0, <1>10 DEF CrashInDispatch, AtMessage, Untouched, Killed
  <2>2. queue' = queue \/ queue' = [queue EXCEPT ![mem.epoch] = @ \cup {Text(m)}]
    BY <1>10 DEF CrashInDispatch
  <2> QED
    BY <1>2, <2>1, <2>2 DEF TextMoves, Caught
<1>11. ASSUME NEW status, NEW rest, Finish(status, rest), UNCHANGED bridgeVars PROVE TextMoves
  BY <1>0, <1>1, <1>2, <1>11, FinishEffect DEF Abandoned, CommittedNow, bridgeVars
<1>12. CASE TimedOut \/ TakeAck
  BY <1>1, <1>11, <1>12 DEF TimedOut, TakeAck, bridgeVars
<1> QED
  BY <1>1, <1>2, <1>4, <1>5, <1>6, <1>7, <1>8, <1>9, <1>10, <1>12
     DEF Next, Claim, ChildExit, Ready, Lose, FenceFails, Enqueue, Recover, Expire, ReceiptTimeout, TakeReceipt, Deadline,
         Persist, Crash, Killed, Restart, Destroy, wireVars, bridgeVars

\* Where the carriers on the wire were before a step that sends none.
LEMMA WireShift ==
  ASSUME BridgeOK,
         \/ down' = down \/ down' = <<>> \/ (down # <<>> /\ down' = Tail(down))
         \/ \E f \in DownFrame : f.type \in {"return", "stop"} /\ down' = Append(down, f)
  PROVE  \E k \in {0, 1} :
           /\ k = 1 => down # <<>> /\ down' = Tail(down)
           /\ \A i \in DOMAIN down', m \in Message : Carries(down'[i], m) =>
                i \in Nat /\ i + k \in DOMAIN down /\ down'[i] = down[i + k]
<1>0. down \in Seq(DownFrame)
  BY DEF BridgeOK
<1>1. CASE down' = down
  BY <1>0, <1>1
<1>2. CASE down' = <<>>
  BY <1>2
<1>3. CASE down # <<>> /\ down' = Tail(down)
  <2>1. \A i \in DOMAIN Tail(down) : i \in Nat /\ i + 1 \in DOMAIN down /\ Tail(down)[i] = down[i + 1]
    BY <1>0, <1>3, Frames
  <2> QED
    BY <1>3, <2>1
<1>4. ASSUME NEW f \in DownFrame, f.type \in {"return", "stop"}, down' = Append(down, f)
      PROVE  \A i \in DOMAIN down', m \in Message : Carries(down'[i], m) => i \in Nat /\ i + 0 \in DOMAIN down /\ down'[i] = down[i + 0]
  <2>1. \A i \in DOMAIN Append(down, f) : (i \in DOMAIN down /\ Append(down, f)[i] = down[i]) \/ Append(down, f)[i] = f
    BY <1>0, <1>4, Frames
  <2>2. \A i \in DOMAIN down : i \in Nat /\ i + 0 = i
    BY <1>0
  <2> QED
    BY <1>4, <2>1, <2>2 DEF Carries
<1>5. CASE \E f \in DownFrame : f.type \in {"return", "stop"} /\ down' = Append(down, f)
  <2>1. \A i \in DOMAIN down', m \in Message : Carries(down'[i], m) => i \in Nat /\ i + 0 \in DOMAIN down /\ down'[i] = down[i + 0]
    BY <1>4, <1>5
  <2> QED
    BY <2>1
<1> QED
  BY <1>1, <1>2, <1>3, <1>5

\* The texts in the queues have messages.
LEMMA QueueTexts ==
  ASSUME BridgeOK, NEW b \in Bridge, NEW f \in queue[b], f.type = "text"
  PROVE  f \in DownFrame /\ f.msg \in Message /\ Carried(f.msg)
<1>1. f \in DownFrame
  BY DEF BridgeOK
<1>2. f.msg \in Message
  BY <1>1 DEF DownFrame
<1> QED
  BY <1>1, <1>2 DEF Carried

\* A step that sends no text leaves every carrier on the wire alone on its way.
LEMMA FewerOnWire ==
  ASSUME BridgeOK, OneCarrier,
         \/ down' = down \/ down' = <<>> \/ (down # <<>> /\ down' = Tail(down))
         \/ \E f \in DownFrame : f.type \in {"return", "stop"} /\ down' = Append(down, f)
  PROVE  /\ \A i, j \in DOMAIN down' : \A m \in Message : Carries(down'[i], m) /\ Carries(down'[j], m) => i = j
         /\ \A i \in DOMAIN down', b \in Bridge : \A f \in queue[b] : f.type = "text" => ~Carries(down'[i], f.msg)
         /\ \A i \in DOMAIN down', m \in Message : Carries(down'[i], m) => Carried(m)
<1>0. PICK k \in {0, 1} : \A i \in DOMAIN down', m \in Message : Carries(down'[i], m) =>
                i \in Nat /\ i + k \in DOMAIN down /\ down'[i] = down[i + k]
  BY WireShift
<1>1. \A i, j \in DOMAIN down' : \A m \in Message : Carries(down'[i], m) /\ Carries(down'[j], m) => i = j
  <2> SUFFICES ASSUME NEW i \in DOMAIN down', NEW j \in DOMAIN down', NEW m \in Message,
                      Carries(down'[i], m), Carries(down'[j], m)
               PROVE  i = j
    OBVIOUS
  <2>1. i \in Nat /\ i + k \in DOMAIN down /\ down'[i] = down[i + k] /\ j \in Nat /\ j + k \in DOMAIN down /\ down'[j] = down[j + k]
    BY <1>0
  <2>2. i + k = j + k
    BY <2>1 DEF OneCarrier
  <2> QED
    BY <2>1, <2>2
<1>2. \A i \in DOMAIN down', b \in Bridge : \A f \in queue[b] : f.type = "text" => ~Carries(down'[i], f.msg)
  BY <1>0, QueueTexts DEF OneCarrier
<1>3. \A i \in DOMAIN down', m \in Message : Carries(down'[i], m) => Carried(m)
  BY <1>0 DEF Carried
<1> QED
  BY <1>1, <1>2, <1>3

\* Nor is there a new carrier when nothing is queued.
LEMMA FewerCarriers ==
  ASSUME BridgeOK, OneCarrier, \A b \in Bridge : queue'[b] \subseteq queue[b],
         \/ down' = down \/ down' = <<>> \/ (down # <<>> /\ down' = Tail(down))
         \/ \E f \in DownFrame : f.type \in {"return", "stop"} /\ down' = Append(down, f)
  PROVE  OneCarrier' /\ \A m \in Message : Carried(m)' => Carried(m)
<1>1. /\ \A i, j \in DOMAIN down' : \A m \in Message : Carries(down'[i], m) /\ Carries(down'[j], m) => i = j
      /\ \A i \in DOMAIN down', b \in Bridge : \A f \in queue[b] : f.type = "text" => ~Carries(down'[i], f.msg)
      /\ \A i \in DOMAIN down', m \in Message : Carries(down'[i], m) => Carried(m)
  BY FewerOnWire
<1>2. \A b, c \in Bridge : \A f \in queue'[b], g \in queue'[c] :
        f.type = "text" /\ g.type = "text" /\ f.msg = g.msg => b = c /\ f = g
  BY DEF OneCarrier
<1>3. \A i \in DOMAIN down', b \in Bridge : \A f \in queue'[b] : f.type = "text" => ~Carries(down'[i], f.msg)
  BY <1>1
<1>4. \A m \in Message : Carried(m)' => Carried(m)
  BY <1>1 DEF Carried, Carries
<1>5. OneCarrier'
  BY <1>1, <1>2, <1>3 DEF OneCarrier, Carries
<1> QED
  BY <1>4, <1>5

\* A text is sent when nothing else carries it.
LEMMA OneMoreSent ==
  ASSUME BridgeOK, OneCarrier, NEW m \in Message, ~Carried(m), UNCHANGED queue,
         NEW f \in DownFrame, Carries(f, m), down' = Append(down, f)
  PROVE  OneCarrier' /\ \A n \in Message : Carried(n)' => Carried(n) \/ n = m
<1>0. down \in Seq(DownFrame)
  BY DEF BridgeOK
<1>1. \A i \in DOMAIN down' : (i \in DOMAIN down /\ down'[i] = down[i]) \/ (i = Len(down) + 1 /\ down'[i] = f)
  <2>1. \A i \in DOMAIN Append(down, f) :
          (i \in DOMAIN down /\ Append(down, f)[i] = down[i]) \/ (i = Len(down) + 1 /\ Append(down, f)[i] = f)
    BY <1>0, AppendedDown
  <2>2. down' = Append(down, f)
    OBVIOUS
  <2> QED
    BY <2>1, <2>2
<1>2. \A n \in Message : Carries(f, n) => n = m
  BY DEF Carries
<1>3. \A i \in DOMAIN down : ~Carries(down[i], m)
  BY DEF Carried
<1>4. \A b \in Bridge : \A g \in queue[b] : g.type = "text" => g.msg # m
  BY DEF Carried
<1>5. \A i, j \in DOMAIN down' : \A n \in Message : Carries(down'[i], n) /\ Carries(down'[j], n) => i = j
  BY <1>1, <1>2, <1>3 DEF OneCarrier
<1>6. \A i \in DOMAIN down', b \in Bridge : \A g \in queue[b] : g.type = "text" => ~Carries(down'[i], g.msg)
  BY <1>1, <1>2, <1>4, QueueTexts DEF OneCarrier
<1>7. \A n \in Message : Carried(n)' => Carried(n) \/ n = m
  BY <1>1, <1>2 DEF Carried
<1>8. OneCarrier'
  BY <1>5, <1>6 DEF OneCarrier, Carries
<1> QED
  BY <1>7, <1>8

\* The first frame is alone in carrying its text.
LEMMA HeadTaken ==
  ASSUME BridgeOK, OneCarrier, down # <<>>, NEW m \in Message, Carries(Head(down), m)
  PROVE  /\ Carried(m) /\ \A i \in DOMAIN Tail(down) : ~Carries(Tail(down)[i], m)
         /\ \A b \in Bridge : \A f \in queue[b] : f.type = "text" => f.msg # m
<1>0. Head(down) = down[1] /\ 1 \in DOMAIN down
      /\ \A i \in DOMAIN Tail(down) : i \in Nat \ {0} /\ i + 1 \in DOMAIN down /\ Tail(down)[i] = down[i + 1]
  BY Frames DEF BridgeOK
<1>1. Carried(m)
  BY <1>0 DEF Carried
<1>2. \A i \in DOMAIN Tail(down) : ~Carries(Tail(down)[i], m)
  <2> SUFFICES ASSUME NEW i \in DOMAIN Tail(down), Carries(Tail(down)[i], m) PROVE FALSE
    OBVIOUS
  <2>1. i \in Nat \ {0} /\ i + 1 \in DOMAIN down /\ Carries(down[i + 1], m)
    BY <1>0
  <2>2. i + 1 = 1
    BY <1>0, <2>1 DEF OneCarrier
  <2> QED
    BY <2>1, <2>2
<1>3. \A b \in Bridge : \A f \in queue[b] : f.type = "text" => f.msg # m
  BY <1>0 DEF OneCarrier
<1> QED
  BY <1>1, <1>2, <1>3

\* A text that is queued, from the wire or in a crash, is carried by its queue and nothing else.
LEMMA OneMoreQueued ==
  ASSUME BridgeOK, OneCarrier, NEW b \in Bridge, NEW f \in DownFrame, queue' = [queue EXCEPT ![b] = @ \cup {f}],
         \A i \in DOMAIN down', m \in Message : ~(f.type = "text" /\ f.msg = m /\ Carries(down'[i], m)),
         \A i, j \in DOMAIN down' : \A m \in Message : Carries(down'[i], m) /\ Carries(down'[j], m) => i = j,
         \A i \in DOMAIN down', c \in Bridge : \A g \in queue[c] : g.type = "text" => ~Carries(down'[i], g.msg),
         \A c \in Bridge : \A g \in queue[c] : f.type = "text" /\ g.type = "text" => g.msg # f.msg
  PROVE  OneCarrier'
<1>0. \A c \in Bridge : \A g \in queue'[c] : g \in queue[c] \/ (c = b /\ g = f)
  BY DEF BridgeOK
<1>1. f.type = "text" => f.msg \in Message
  BY DEF DownFrame
<1>2. \A c, d \in Bridge : \A g \in queue'[c], h \in queue'[d] :
        g.type = "text" /\ h.type = "text" /\ g.msg = h.msg => c = d /\ g = h
  BY <1>0 DEF OneCarrier
<1>3. \A i \in DOMAIN down', c \in Bridge : \A g \in queue'[c] : g.type = "text" => ~Carries(down'[i], g.msg)
  BY <1>0, <1>1
<1> QED
  BY <1>2, <1>3 DEF OneCarrier, Carries

\* The text that a bridge writes leaves its queue, and nothing else carries it.
LEMMA TextTaken ==
  ASSUME BridgeOK, OneCarrier, UNCHANGED down, NEW b \in Bridge, NEW f \in queue[b], f.type = "text",
         queue' = [queue EXCEPT ![b] = @ \ {f}]
  PROVE  ~Carried(f.msg)'
<1>1. \A c \in Bridge : \A g \in queue'[c] : g \in queue[c] /\ ~(c = b /\ g = f)
  BY DEF BridgeOK
<1>2. \A c \in Bridge : \A g \in queue'[c] : g.type = "text" => g.msg # f.msg
  BY <1>1 DEF OneCarrier
<1>3. \A i \in DOMAIN down' : ~Carries(down'[i], f.msg)
  BY DEF OneCarrier
<1> QED
  BY <1>2, <1>3 DEF Carried

\* Every step keeps the texts single, and written only after they have left the journal's hands.
LEMMA TextsStep == ASSUME Inv, Next PROVE OneCarrier' /\ WrittenLater'
<1>0. /\ DaemonOK /\ BridgeOK /\ OneCarrier /\ WrittenLater /\ mem.epoch \in Bridge /\ wrote \in [Message -> Nat]
      /\ \A m \in Message : Untouched(m)' => Untouched(m)
      /\ queue \in [Bridge -> SUBSET {f \in DownFrame : f.type \in {"text", "return"}}]
  BY JournalBack DEF Inv, DaemonOK, Memory, BridgeOK
<1>1. \A m \in Message : /\ Carried(m) => wrote[m] = 0
                         /\ Untouched(m) => wrote[m] = 0 /\ ~Carried(m)
                         /\ wrote[m] <= 1
  BY <1>0 DEF WrittenLater
<1>2. CASE Fewer
  <2>1. OneCarrier' /\ \A m \in Message : Carried(m)' => Carried(m)
    BY <1>0, <1>2, FewerCarriers DEF Fewer
  <2> QED
    BY <1>0, <1>1, <1>2, <2>1 DEF Fewer, WrittenLater
<1>3. ASSUME NEW m \in Message, Sending(m) PROVE OneCarrier' /\ WrittenLater'
  <2>1. PICK f \in DownFrame : Carries(f, m) /\ down' = Append(down, f)
    BY <1>3 DEF Sending
  <2>2. ~Carried(m) /\ wrote[m] = 0
    BY <1>1, <1>3 DEF Sending
  <2>3. OneCarrier' /\ \A n \in Message : Carried(n)' => Carried(n) \/ n = m
    BY <1>0, <1>3, <2>1, <2>2, OneMoreSent DEF Sending
  <2> QED
    BY <1>0, <1>1, <1>3, <2>2, <2>3 DEF Sending, WrittenLater
<1>4. CASE Accepting
  <2> DEFINE f == Head(down)
  <2>0. f \in DownFrame /\ down # <<>> /\ down' = Tail(down) /\ queue' = [queue EXCEPT ![mem.epoch] = @ \cup {f}]
    BY <1>0, <1>4, HeadTyped DEF Accepting
  <2>1. f.type = "text" => f.msg \in Message /\ Carries(f, f.msg)
    BY <2>0 DEF DownFrame, Carries
  <2>2. f.type = "text" => /\ Carried(f.msg) /\ \A i \in DOMAIN down' : ~Carries(down'[i], f.msg)
                           /\ \A b \in Bridge : \A g \in queue[b] : g.type = "text" => g.msg # f.msg
    BY <1>0, <2>0, <2>1, HeadTaken
  <2>3. /\ \A i, j \in DOMAIN down' : \A m \in Message : Carries(down'[i], m) /\ Carries(down'[j], m) => i = j
        /\ \A i \in DOMAIN down', b \in Bridge : \A g \in queue[b] : g.type = "text" => ~Carries(down'[i], g.msg)
        /\ \A i \in DOMAIN down', m \in Message : Carries(down'[i], m) => Carried(m)
    BY <1>0, <2>0, FewerOnWire
  <2> HIDE DEF f
  <2>4. OneCarrier'
    <3>1. \A i \in DOMAIN down', m \in Message : ~(f.type = "text" /\ f.msg = m /\ Carries(down'[i], m))
      BY <2>2
    <3>2. \A c \in Bridge : \A g \in queue[c] : f.type = "text" /\ g.type = "text" => g.msg # f.msg
      BY <2>2
    <3> QED
      BY <1>0, <2>0, <2>3, <3>1, <3>2, OneMoreQueued
  <2>5. \A b \in Bridge : \A g \in queue'[b] : g \in queue[b] \/ g = f
    BY <1>0, <2>0
  <2>6. \A m \in Message : Carried(m)' => Carried(m)
    BY <2>2, <2>3, <2>5 DEF Carried, Carries
  <2> QED
    BY <1>0, <1>1, <1>4, <2>4, <2>6 DEF Accepting, WrittenLater
<1>5. CASE WritingHead
  <2>h. Head(down).msg \in Message /\ down # <<>> /\ down' = Tail(down) /\ queue' = queue
    BY <1>0, <1>5, HeadTyped DEF WritingHead
  <2>m. PICK m \in Message : m = Head(down).msg
    BY <2>h
  <2>0. m \in Message /\ down # <<>> /\ down' = Tail(down) /\ queue' = queue /\ Carries(Head(down), m)
    BY <1>5, <2>h, <2>m DEF WritingHead, Carries
  <2>1. /\ Carried(m) /\ \A i \in DOMAIN Tail(down) : ~Carries(Tail(down)[i], m)
        /\ \A b \in Bridge : \A f \in queue[b] : f.type = "text" => f.msg # m
    BY <1>0, <2>0, HeadTaken
  <2>2. OneCarrier' /\ \A n \in Message : Carried(n)' => Carried(n)
    BY <2>0, <1>0, FewerCarriers
  <2>3. wrote' = [wrote EXCEPT ![m] = @ + 1]
    BY <1>5, <2>m DEF WritingHead
  <2>4. ~Carried(m)'
    <3>1. \A i \in DOMAIN down' : ~Carries(down'[i], m)
      BY <2>0, <2>1
    <3>2. \A b \in Bridge : \A f \in queue'[b] : f.type = "text" => f.msg # m
      BY <2>0, <2>1
    <3> QED
      BY <3>1, <3>2 DEF Carried, Carries
  <2>5. wrote[m] = 0 /\ ~Untouched(m)
    BY <1>1, <2>0, <2>1
  <2>6. m \in Message
    BY <2>0
  <2> QED
    BY <1>0, <1>1, <2>2, <2>3, <2>4, <2>5, <2>6 DEF WrittenLater
<1>6. ASSUME NEW b \in Bridge, NEW f \in queue[b], Writing(b, f) PROVE OneCarrier' /\ WrittenLater'
  <2>0. f.msg \in Message /\ Carried(f.msg)
    BY <1>0, <1>6, QueueTexts DEF Writing
  <2>1. ~Carried(f.msg)'
    BY <1>0, <1>6, TextTaken DEF Writing
  <2>2. \A c \in Bridge : queue'[c] \subseteq queue[c]
    BY <1>0, <1>6 DEF Writing
  <2>3. OneCarrier' /\ \A n \in Message : Carried(n)' => Carried(n)
    BY <1>0, <1>6, <2>2, FewerCarriers DEF Writing
  <2>4. wrote[f.msg] = 0 /\ ~Untouched(f.msg) /\ wrote' = [wrote EXCEPT ![f.msg] = @ + 1]
    BY <1>1, <1>6, <2>0 DEF Writing
  <2> QED
    BY <1>0, <1>1, <2>0, <2>1, <2>3, <2>4 DEF WrittenLater
<1>7. ASSUME NEW m \in Message, Caught(m) PROVE OneCarrier' /\ WrittenLater'
  <2>0. Text(m) \in DownFrame /\ Text(m).type = "text" /\ Text(m).msg = m
    BY Sent
  <2>1. ~Carried(m) /\ wrote[m] = 0
    BY <1>1, <1>7 DEF Caught
  <2>2. down' = <<>> /\ queue' = [queue EXCEPT ![mem.epoch] = @ \cup {Text(m)}]
    BY <1>7 DEF Caught
  <2>3. \A c \in Bridge : \A g \in queue[c] : g.type = "text" => g.msg # m
    BY <2>1 DEF Carried
  <2>4. OneCarrier'
    <3> DEFINE f == Text(m)
    <3>1. \A i \in DOMAIN down' : FALSE
      BY <2>2
    <3>2. \A c \in Bridge : \A g \in queue[c] : f.type = "text" /\ g.type = "text" => g.msg # f.msg
      BY <2>0, <2>3
    <3>3. f \in DownFrame /\ queue' = [queue EXCEPT ![mem.epoch] = @ \cup {f}]
      BY <2>0, <2>2
    <3> HIDE DEF f
    <3>4. \A i \in DOMAIN down', n \in Message : ~(f.type = "text" /\ f.msg = n /\ Carries(down'[i], n))
      BY <3>1
    <3>5. \A i, j \in DOMAIN down' : \A n \in Message : Carries(down'[i], n) /\ Carries(down'[j], n) => i = j
      BY <3>1
    <3>6. \A i \in DOMAIN down', c \in Bridge : \A g \in queue[c] : g.type = "text" => ~Carries(down'[i], g.msg)
      BY <3>1
    <3> QED
      BY <1>0, <3>2, <3>3, <3>4, <3>5, <3>6, OneMoreQueued
  <2>5. \A b \in Bridge : \A g \in queue'[b] : g \in queue[b] \/ g = Text(m)
    BY <1>0, <2>2
  <2>6. \A n \in Message : Carried(n)' => Carried(n) \/ n = m
    BY <2>0, <2>2, <2>5 DEF Carried
  <2> QED
    BY <1>0, <1>1, <1>7, <2>1, <2>4, <2>6 DEF Caught, WrittenLater
<1> QED
  BY <1>2, <1>3, <1>4, <1>5, <1>6, <1>7, TextsMove DEF TextMoves

-----------------------------------------------------------------------------
(* Steps of the receipts.                                                    *)

\* What was written stays written.
LEMMA WrittenStays == ASSUME Inv, Next PROVE \A m \in Message : wrote'[m] >= wrote[m] /\ (wrote[m] = 1 => wrote'[m] = 1)
<1>0. wrote \in [Message -> Nat] /\ wrote' \in [Message -> Nat] /\ \A m \in Message : wrote'[m] <= 1
  BY BridgeStep, TextsStep DEF Inv, BridgeOK, WrittenLater
<1>1. UNCHANGED wrote \/ \E n : wrote' = [wrote EXCEPT ![n] = @ + 1]
  BY TextsMove DEF TextMoves, Fewer, Sending, Accepting, WritingHead, Writing, Caught
<1>2. \A m \in Message : wrote'[m] >= wrote[m]
  BY <1>0, <1>1
<1> QED
  BY <1>0, <1>2

\* A message is recorded as invoked, or settled, for a receipt that says so.
LEMMA InvokedMoves ==
  ASSUME Inv, Next
  PROVE  \A m \in mem'.intent.invoked \cup store'.intent.invoked \cup settled' : m \in Message /\ wrote[m] = 1
<1> DEFINE Wrote == {m \in Message : wrote[m] = 1}
           Goal == mem'.intent.invoked \cup store'.intent.invoked \cup settled' \subseteq Wrote
<1>0. /\ DaemonOK /\ MailOK /\ mem \in Memory /\ mem.intent \in Intent /\ store \in Saved /\ store.intent \in Intent
      /\ settled \subseteq Message
  BY DEF Inv, DaemonOK, MailOK, Memory, Saved
<1> SUFFICES Goal
  OBVIOUS
<1>1. mem.intent.invoked \subseteq Wrote /\ store.intent.invoked \subseteq Wrote /\ settled \subseteq Wrote
  <2>1. mem.intent.invoked \subseteq Message /\ store.intent.invoked \subseteq Message
    BY <1>0 DEF Intent
  <2> QED
    BY <1>0, <2>1 DEF Inv, ReceiptsTrue
<1> HIDE DEF Wrote, Goal
<1>2. ASSUME mem'.intent.invoked \in {mem.intent.invoked, store.intent.invoked, {}},
             store'.intent.invoked \in {mem.intent.invoked, store.intent.invoked, {}}, UNCHANGED settled
      PROVE  Goal
  BY <1>1, <1>2 DEF Goal
<1>3. ASSUME mem'.intent = mem.intent, UNCHANGED <<store, settled>> PROVE Goal
  BY <1>1, <1>3 DEF Goal
<1>4. ASSUME NEW b \in Bridge, Claim(b) PROVE Goal
  <2>1. mem'.intent = mem.intent
    BY <1>0, <1>4 DEF Claim, Memory
  <2> QED
    BY <1>3, <1>4, <2>1 DEF Claim, mailVars
<1>5. CASE Ready
  <2>1. mem'.intent = mem.intent
    BY <1>0, <1>5 DEF Ready, Memory
  <2> QED
    BY <1>3, <1>5, <2>1 DEF Ready, mailVars
<1>6. CASE Lose \/ Destroy
  BY <1>0, <1>3, <1>6, Intents DEF Lose, Destroy, mailVars
<1>7. ASSUME NEW m \in Message, DispatchPending(m) PROVE Goal
  <2>1. mem' \in {mem, Started(m)} /\ store' \in {store, Persisted(Started(m))} /\ UNCHANGED settled
    BY <1>7 DEF DispatchPending, Save
  <2>2. Started(m).intent = [mem.intent EXCEPT !.started = @ \cup {m}]
    BY <1>0, Moved
  <2>3. Started(m).intent.invoked = mem.intent.invoked
    BY <1>0, <2>2 DEF Intent
  <2>4. Persisted(Started(m)).intent.invoked = mem.intent.invoked
    BY <2>3 DEF Persisted
  <2> QED
    BY <1>2, <2>1, <2>3, <2>4
<1>8. CASE ReceiptTimeout
  BY <1>3, <1>8 DEF ReceiptTimeout, Settle
<1>9. ASSUME NEW policy, NEW result, NEW sent, OpenHandoff(policy, result, sent) PROVE Goal
  <2> DEFINE i == [id |-> intents + 1, state |-> "awaiting_ack", epoch |-> mem.epoch,
                 owner |-> mem.owner, records |-> IF policy = "empty" THEN {} ELSE Waiting,
                 started |-> {}, invoked |-> {}]
  <2>1. /\ mem' \in {mem, [mem EXCEPT !.intent = i]}
        /\ store' \in {store, Persisted([mem EXCEPT !.intent = i])} /\ UNCHANGED settled
    BY <1>9 DEF OpenHandoff, Save, mailVars
  <2>2. i.invoked = {}
    OBVIOUS
  <2> HIDE DEF i
  <2>3. [mem EXCEPT !.intent = i].intent = i
    BY <1>0 DEF Memory
  <2>4. Persisted([mem EXCEPT !.intent = i]).intent = i
    BY <2>3 DEF Persisted
  <2> QED
    BY <1>2, <2>1, <2>2, <2>3, <2>4
<1>10. ASSUME NEW rest, Abandoned(rest) \/ CommittedNow, UNCHANGED settled PROVE Goal
  <2>1. \A state : [mem.intent EXCEPT !.state = state].invoked = mem.intent.invoked
    BY <1>0 DEF Intent
  <2>2. /\ \E state : mem'.intent = [mem.intent EXCEPT !.state = state]
        /\ store'.intent = store.intent \/ \E state : store'.intent = [mem.intent EXCEPT !.state = state]
    BY <1>0, <1>10, EndedIntent
  <2> QED
    BY <1>2, <1>10, <2>1, <2>2
<1>11. ASSUME NEW status, NEW rest, Finish(status, rest), UNCHANGED settled PROVE Goal
  BY <1>0, <1>3, <1>10, <1>11, FinishEffect
<1>12. CASE TimedOut \/ TakeAck
  BY <1>3, <1>11, <1>12 DEF TimedOut, TakeAck, mailVars
<1>13. CASE TakeReceipt
  <2>1. CASE flight.msg = Head(back).msg /\ Settle(Head(back).status = "invoked")
    <3>1. flight.msg \in Message /\ flight.msg = Head(back).msg
      BY <1>13, <2>1, ReceiptFlight
    <3>2. CASE Head(back).status # "invoked"
      BY <1>0, <1>3, <2>1, <3>1, <3>2, SettleEffect
    <3>3. CASE Head(back).status = "invoked"
      <4>1. Head(back) = back[1] /\ 1 \in DOMAIN back
        BY <1>13, Frames DEF TakeReceipt, Inv, BridgeOK
      <4>2. flight.msg \in Wrote
        BY <1>13, <3>1, <3>3, <4>1 DEF Wrote, TakeReceipt, Inv, ReceiptsTrue
      <4>3. mem' \in {mem, Invoked} /\ store' \in {store, Persisted(Invoked)}
            /\ settled' \in {settled, settled \cup {flight.msg}}
        BY <1>0, <2>1, <3>1, SettleEffect
      <4>4. Invoked.intent.invoked = mem.intent.invoked \cup {flight.msg}
        BY <1>0, <3>1, Moved DEF Intent
      <4>5. Persisted(Invoked).intent.invoked = mem.intent.invoked \cup {flight.msg}
        BY <4>4 DEF Persisted
      <4>6. mem'.intent.invoked \subseteq Wrote /\ store'.intent.invoked \subseteq Wrote /\ settled' \subseteq Wrote
        BY <1>1, <4>2, <4>3, <4>4, <4>5
      <4> QED
        BY <4>6 DEF Goal
    <3> QED
      BY <3>2, <3>3
  <2> QED
    BY <1>3, <1>13, <2>1 DEF TakeReceipt
<1>14. CASE Persist
  BY <1>0, <1>2, <1>14, SavedIntents DEF Persist, mailVars
<1>15. CASE Killed
  <2>1. mem'.intent = mem.intent
    BY <1>0, <1>15 DEF Killed, Disconnected, Memory
  <2> QED
    BY <1>3, <1>15, <2>1 DEF Killed
<1>16. CASE Restart
  BY <1>0, <1>2, <1>16 DEF Restart, Restored, mailVars
<1> QED
  BY <1>3, <1>4, <1>5, <1>6, <1>7, <1>8, <1>9, <1>12, <1>13, <1>14, <1>15, <1>16
     DEF Next, BridgeWrites, ChildExit, Receive, FenceFails, Enqueue, DispatchPlain, Return,
         Recover, Expire, CrashInDispatch, Deadline, Crash, daemonVars, mailVars

\* Every step keeps what a receipt says.
LEMMA ReceiptsStep == ASSUME Inv, Next PROVE ReceiptsTrue'
<1>0. /\ DaemonOK /\ mem \in Memory /\ back \in Seq(BackFrame) /\ ReceiptsTrue /\ Connected
      /\ wrote \in [Message -> Nat] /\ wrote' \in [Message -> Nat]
      /\ \A m \in Message : wrote'[m] <= 1 /\ wrote'[m] >= wrote[m] /\ (wrote[m] = 1 => wrote'[m] = 1)
  BY WrittenStays, BridgeStep, TextsStep DEF Inv, DaemonOK, BridgeOK, WrittenLater
<1>1. \A i \in DOMAIN back' : back'[i].type = "receipt" /\ back'[i].status = "invoked" => wrote'[back'[i].msg] = 1
  <2>0. \A f \in BackFrame : f.type = "receipt" => f.msg \in Message
    BY DEF BackFrame
  <2>1. \A i \in DOMAIN back : back[i].type = "receipt" /\ back[i].status = "invoked" => wrote'[back[i].msg] = 1
    <3>1. \A i \in DOMAIN back : back[i] \in BackFrame
      BY <1>0
    <3> QED
      BY <1>0, <2>0, <3>1 DEF ReceiptsTrue
  <2>2. CASE back' = back \/ back' = <<>>
    BY <2>1, <2>2
  <2>3. CASE back # <<>> /\ back' = Tail(back)
    <3>1. \A i \in DOMAIN Tail(back) : i + 1 \in DOMAIN back /\ Tail(back)[i] = back[i + 1]
      BY <1>0, <2>3, Frames
    <3> QED
      BY <2>1, <2>3, <3>1
  <2>4. ASSUME NEW f \in BackFrame, Sends(f)
        PROVE  \A i \in DOMAIN back' : back'[i].type = "receipt" /\ back'[i].status = "invoked" => wrote'[back'[i].msg] = 1
    <3>1. \A i \in DOMAIN Append(back, f) : (i \in DOMAIN back /\ Append(back, f)[i] = back[i]) \/ Append(back, f)[i] = f
      BY <1>0, <2>4, Frames
    <3>2. f.type = "receipt" /\ f.status = "invoked" => wrote'[f.msg] = 1
      BY <1>0, <2>0, <2>4 DEF Sends
    <3>3. back' = Append(back, f)
      BY <2>4 DEF Sends
    <3> QED
      BY <2>1, <3>1, <3>2, <3>3
  <2> QED
    BY <2>2, <2>3, <2>4, BackMoves
<1>2. \A m \in mem'.intent.invoked \cup store'.intent.invoked \cup settled' : wrote'[m] = 1
  BY <1>0, InvokedMoves
<1>3. ended' /\ mem'.intent.state = "committed" => mem'.intent.records \subseteq mem'.intent.invoked
  <2>1. CASE ended
    <3>1. ~mem.ws /\ up
      BY <1>0, <2>1 DEF Connected
    <3>2. mem' = mem /\ ended' = ended
      BY <2>1, <3>1
         DEF Next, Claim, BridgeWrites, ChildExit, Ready, Lose, Receive, FenceFails, Enqueue, DispatchPlain, DispatchPending, Return,
             Recover, Expire, CrashInDispatch, AtMessage, CanProcess, ReceiptTimeout, TakeReceipt, Deadline, OpenHandoff, TimedOut, TakeAck,
             Persist, Crash, Killed, Restart, Destroy, Running, daemonVars
    <3> QED
      BY <1>0, <2>1, <3>2 DEF ReceiptsTrue
  <2>2. CASE ~ended /\ ended'
    <3>1. Destroy
      BY <2>2
         DEF Next, Claim, BridgeWrites, ChildExit, Ready, Lose, Receive, FenceFails, Enqueue, DispatchPlain, DispatchPending, Return,
             Recover, Expire, CrashInDispatch, ReceiptTimeout, TakeReceipt, Deadline, OpenHandoff, TimedOut, TakeAck,
             Persist, Crash, Killed, Restart, daemonVars
    <3>2. mem'.intent = mem.intent
      BY <1>0, <3>1, Intents DEF Destroy
    <3> QED
      BY <3>1, <3>2 DEF Destroy, Reserved
  <2>3. ended' \in BOOLEAN
    BY DaemonStep DEF DaemonOK
  <2> QED
    BY <2>1, <2>2, <2>3
<1> QED
  BY <1>1, <1>2, <1>3 DEF ReceiptsTrue

-----------------------------------------------------------------------------
(* The invariant and the theorems.                                           *)

\* The invariant holds initially,
LEMMA InitInv == Init => Inv
<1> SUFFICES ASSUME Init PROVE Inv
  OBVIOUS
<1>1. DaemonOK
  <2>1. 0 \in 0..MaxIntent /\ 0 \in 0..MaxEpoch /\ 0 \in Owner /\ 1 \in Bridge /\ 0 \in 0..MaxFaults
    OBVIOUS
  <2>2. NoIntent \in Intent
    BY <2>1 DEF NoIntent, Intent, IntentState
  <2>3. mem \in Memory
    BY <2>1, <2>2 DEF Init, Memory
  <2>4. store \in Saved
    BY <2>3, PersistedTyped DEF Init
  <2> QED
    BY <2>1, <2>3, <2>4 DEF Init, DaemonOK, NoAttempt
<1>2. MailOK
  <2>1. 0 \in 0..MaxEpoch /\ 0 \in Owner
    OBVIOUS
  <2> QED
    BY <2>1 DEF Init, MailOK, Journal, NoFlight, NoBarrier
<1>3. BridgeOK
  <2>1. 0 \in 0..MaxIntent /\ <<>> \in Seq(DownFrame) /\ <<>> \in Seq(BackFrame)
    OBVIOUS
  <2> QED
    BY <2>1 DEF Init, BridgeOK
<1>4. Flying /\ Connected /\ Requested
  BY DEF Init, Flying, Connected, Requested
<1>5. OneCarrier /\ StopLast
  BY DEF Init, OneCarrier, StopLast
<1>6. WrittenLater
  BY DEF Init, WrittenLater, Carried
<1>7. ReceiptsTrue
  BY DEF Init, ReceiptsTrue, NoIntent, Persisted
<1>8. Stopped /\ EpochSaved /\ RotatedAfterExit
  BY DEF Init, Stopped, EpochSaved, RotatedAfterExit, Persisted
<1> QED
  BY <1>1, <1>2, <1>3, <1>4, <1>5, <1>6, <1>7, <1>8 DEF Inv

\* through a step of something else,
LEMMA Stutter == Inv /\ UNCHANGED vars => Inv'
<1> SUFFICES ASSUME Inv, UNCHANGED vars PROVE Inv'
  OBVIOUS
<1> USE DEF vars, daemonVars, mailVars, wireVars, bridgeVars, counters
<1>1. DaemonOK' /\ MailOK' /\ BridgeOK' /\ Flying'
  BY DEF Inv, DaemonOK, MailOK, BridgeOK, Flying
<1>2. Connected' /\ Requested' /\ StopLast'
  BY DEF Inv, Connected, Requested, StopLast
<1>3. OneCarrier'
  BY DEF Inv, OneCarrier
<1>4. WrittenLater'
  BY DEF Inv, WrittenLater, Carried, Untouched
<1>5. ReceiptsTrue'
  BY DEF Inv, ReceiptsTrue
<1>6. Stopped' /\ EpochSaved' /\ RotatedAfterExit'
  BY DEF Inv, Stopped, EpochSaved, RotatedAfterExit
<1> QED
  BY <1>1, <1>2, <1>3, <1>4, <1>5, <1>6 DEF Inv

\* and always.
LEMMA Invariant == Spec => []Inv
<1>1. Inv /\ [Next]_vars => Inv'
  <2> SUFFICES ASSUME Inv, [Next]_vars PROVE Inv'
    OBVIOUS
  <2>1. CASE Next
    BY <2>1, DaemonStep, MailStep, BridgeStep, FlyingStep, ConnectedStep, RequestedStep, StopLastStep, StoppedStep,
       EpochStep, TextsStep, ReceiptsStep DEF Inv
  <2> QED
    BY <2>1, Stutter
<1> QED
  BY InitInv, <1>1, PTL DEF Spec

\* The state keeps its shape, and a transferred message that is in flight is recorded as
\* started in the session store (the saved start in session-delivery.js deliverFn).
THEOREM TypeCorrect == Spec => []TypeOK
<1>1. Inv => TypeOK
  BY DEF Inv, DaemonOK, MailOK, BridgeOK, Flying, TypeOK, Memory, Saved
<1> QED
  BY Invariant, <1>1, PTL

\* The session leaves an epoch only behind its child's exit, and a bearer that was given to
\* the owner is the one on disk, whatever is lost, killed or not acknowledged by the store
\* (the handoff's POST handler).
THEOREM RotatesBehindTheExit == Spec => []RotatedAfterExit
<1>1. Inv => RotatedAfterExit
  BY DEF Inv
<1> QED
  BY Invariant, <1>1, PTL

\* A text reaches a child at most once; a settlement, and the end of a session after its
\* handoff, say truly that it did (deliverFn, the receipts of pending-handoff.js,
\* pendingNamespaceReserved).
THEOREM CustodyIsKept == Spec => []CustodyKept
<1>1. Inv => CustodyKept
  BY DEF Inv, WrittenLater, ReceiptsTrue, CustodyKept
<1> QED
  BY Invariant, <1>1, PTL

\* A change of epoch strands nothing in the old bridge, on the wire or in the mailbox
\* (captureCustody and its recheck in the POST handler).
THEOREM NothingIsStranded == Spec => NothingStranded
<1> DEFINE Crossing == mem'.epoch # mem.epoch =>
       /\ queue[mem.epoch] = {} /\ down = <<>>
       /\ barrier = NoBarrier /\ ~Unsettled
       /\ \A m \in Message :
            journal[m] \in {"pristine", "pending"} =>
              /\ consent[m] = <<mem.epoch, mem.owner>>
              /\ m \in mem'.intent.records
<1>1. ASSUME Inv, Next PROVE Crossing
  <2> SUFFICES ASSUME mem'.epoch # mem.epoch
               PROVE  /\ queue[mem.epoch] = {} /\ down = <<>>
                      /\ barrier = NoBarrier /\ ~Unsettled
                      /\ \A m \in Message :
                           journal[m] \in {"pristine", "pending"} =>
                             /\ consent[m] = <<mem.epoch, mem.owner>>
                             /\ m \in mem'.intent.records
    OBVIOUS
  <2>0. DaemonOK /\ BridgeOK /\ mem \in Memory /\ mem.intent \in Intent /\ mem.epoch \in Bridge /\ attempt.id # 0
    <3>1. Rotates /\ attempt # NoAttempt
      BY <1>1, EpochMoves DEF Rotates
    <3> QED
      BY <1>1, <3>1 DEF Inv, DaemonOK, Memory, Requested
  <2>1. Rotates
    BY <1>1, EpochMoves
  <2>2. held[mem.epoch] = attempt.id
    <3>1. Head(back) = back[1] /\ 1 \in DOMAIN back
      BY <2>0, <2>1, Frames DEF BridgeOK, Rotates
    <3> QED
      BY <1>1, <2>1, <3>1 DEF Rotates, Inv, Stopped
  <2>3. queue[mem.epoch] = {} /\ down = <<>>
    BY <1>1, <2>0, <2>1, <2>2 DEF Inv, Stopped, StopLast, Rotates
  <2>4. mem'.intent.records = mem.intent.records
    <3>1. mem'.intent = [mem.intent EXCEPT !.state = "committed"]
      BY <2>0, <2>1, Moved DEF Rotates, CommittedNow
    <3> QED
      BY <2>0, <3>1 DEF Intent
  <2>5. barrier = NoBarrier /\ ~Unsettled
    BY <2>1 DEF Rotates, SameCustody, MayCapture, CustodyEmpty, NeverAttempted
  <2>6. \A m \in Message : journal[m] \in {"pristine", "pending"} =>
          consent[m] = <<mem.epoch, mem.owner>> /\ m \in mem.intent.records
    BY <2>1 DEF Rotates, SameCustody, MayCapture, CustodyEmpty, NeverAttempted, Waiting
  <2> QED
    BY <2>3, <2>4, <2>5, <2>6
<1>2. Inv /\ [Next]_vars => [Crossing]_vars
  BY <1>1
<1> QED
  BY Invariant, <1>2, PTL DEF Spec, NothingStranded
=============================================================================
