---------------------------- MODULE OwnerBridge ----------------------------
(***************************************************************************)
(* The owner bridge: the `telepty allow` process that holds the child and  *)
(* receives the daemon's inject frames (src/cli/security-actions.js, with  *)
(* cli.js and src/mailbox/bridge-flush-filter.js).  A frame that may not   *)
(* be written at once is parked in the bridge's own mailbox; a flush       *)
(* dequeues what is parked and writes it from delivery timers, one after   *)
(* the other.  What is never written goes to the dead letter, and a submit *)
(* must not be written for a body that was not.                            *)
(*                                                                         *)
(* Injection i is frame 2i-1, its body, and frame 2i, the carriage return  *)
(* that submits it: the daemon sends them in that order.  The mailbox      *)
(* (box, grave) outlives the process, the rest of the bridge's record b    *)
(* does not.  A call of the mailbox may throw (a lock that times out); the *)
(* kinds of failure a behaviour has met are in failed, each at most once.  *)
(*                                                                         *)
(* A frame's handler, the tick, the ready route and a delivery timer run   *)
(* without an await, so each is one action.                                *)
(***************************************************************************)
EXTENDS Integers, Sequences, FiniteSets, FiniteSetsExt

CONSTANTS
  MaxInject,   \* injections the daemon sends
  MaxProcess,  \* bridge processes of the session, one after the other
  MaxChild,    \* children of the session, those of later processes included
  Failure,     \* the kinds of failure that may happen
  MaxFailed    \* bound on how many kinds do

ASSUME BridgeAssumption ==
  /\ MaxInject \in Nat \ {0} /\ MaxProcess \in Nat \ {0} /\ MaxChild \in Nat \ {0}
  /\ Failure \subseteq {"enqueue", "withdraw", "dequeue", "ack", "exit", "recover"}
  /\ MaxFailed \in Nat

VARIABLES
  ids,      \* the daemon's frames carry ids: a submit names its body
  twin,     \* the bodies all have the same text
  sent,     \* the number of the last frame that the daemon sent or gave up
  got,      \* the frames that reached a bridge
  process,  \* the bridge process that runs, or ran last
  first,    \* the first frame sent to that process
  up,       \* it runs
  b,        \* its memory and the mailbox
  old,      \* frames up to this one are past the time to live
  recent,   \* the user typed within the idle threshold
  failed    \* the kinds of failure that have happened

vars == <<ids, twin, sent, got, process, first, up, b, old, recent, failed>>

Frame == 1..2 * MaxInject
IsCr(k) == k % 2 = 0
BodyOf(k) == k - 1

\* What a process starts with; the mailbox and the history keep their values.
Fresh(box, grave, refused, wrote) ==
  [box |-> box,          \* box[k]: the state of k's row: none, pending, in_flight or done
   grave |-> grave,      \* grave[k]: the certainties of k's dead letter rows
   refused |-> refused,  \* the frames refused with a receipt not_written
   wrote |-> wrote,      \* the frames for which child.write returned
   rec |-> [k \in Frame |-> "none"],  \* bridgeRecords
   held |-> {},          \* bodies whose submit was refused (pairRefused)
   unwritten |-> {},     \* unwrittenBodies
   adjacent |-> FALSE,   \* unwrittenBodyAdjacentAt is set and nobody typed since
   refusedBody |-> FALSE,\* refusedIdlessBodyAt is set and nobody typed since
   queuedBody |-> 0,     \* adjacentQueuedBody
   count |-> 0,          \* bridgePendingCount
   timers |-> <<>>,      \* deliveryTimers in the order they fire
   child |-> 1,          \* shared.child
   ready |-> FALSE,      \* promptReady
   tick |-> FALSE]       \* idleCheckTimer is armed

Init ==
  /\ ids \in BOOLEAN /\ twin \in BOOLEAN
  /\ sent = 0 /\ got = {} /\ process = 1 /\ first = 1 /\ up = TRUE
  /\ b = Fresh([k \in Frame |-> "none"], [k \in Frame |-> {}], {}, {})
  /\ old = 0 /\ recent = FALSE /\ failed = {}

-----------------------------------------------------------------------------
(* The mailbox and the records. *)

Pending(s) == {k \in Frame : s.rec[k] = "pending"}
Live(s) == {k \in Frame : s.box[k] \in {"pending", "in_flight"}}
Assign(f, S, v) == [k \in Frame |-> IF k \in S THEN v ELSE f[k]]

\* What one step meets: the kinds of call that throw, the frames of S for which they do, and
\* whether a withdrawal that throws leaves a row in the dead letter all the same.
NoFault == [kinds |-> {}, frames |-> {}, torn |-> FALSE]
Kinds(kinds) == {K \in SUBSET ((kinds \cap Failure) \ failed) : K # {} /\ Cardinality(failed \cup K) <= MaxFailed}
Faults(kinds, S) ==
  {NoFault} \cup
  {[kinds |-> K, frames |-> F, torn |-> t] :
     K \in Kinds(kinds), F \in ({S} \cup {{k} : k \in S}) \ {{}}, t \in BOOLEAN}
Throws(fault, kind, k) == kind \in fault.kinds /\ k \in fault.frames
Meet(fault) == failed' = failed \cup fault.kinds

\* Bodies that a quarantine remembers, so that their submits are not written alone.
\* Mutant: only what was parked, not what a flush has taken and dropped.
RememberedParked(s, moved) == {k \in moved : s.rec[k] = "pending" /\ ~IsCr(k)}
Remembered(s, moved) == {k \in moved : s.rec[k] # "none" /\ ~IsCr(k)}

\* The frames in S go to the dead letter, but for those whose withdrawal throws.
Quarantine(s, S, certainty, kind, fault) ==
  LET moved == {k \in S : ~Throws(fault, kind, k)}
      buried == moved \cup (IF fault.torn THEN S ELSE {})
      bodies == Remembered(s, moved)
  IN  [s EXCEPT !.box = Assign(@, moved, "done"),
                !.grave = [k \in Frame |-> @[k] \cup IF k \in buried THEN {certainty} ELSE {}],
                !.rec = Assign(@, moved, "none"),
                !.held = @ \ moved,
                !.unwritten = @ \cup IF ids THEN bodies ELSE {},
                !.adjacent = @ \/ (bodies # {} /\ certainty = "not_written")]

\* Row and record of frame k: it waits for the next flush.
Parked(s, k) ==
  [s EXCEPT !.box[k] = "pending", !.rec[k] = "pending", !.count = @ + 1,
            !.queuedBody = IF IsCr(k) \/ ids THEN 0 ELSE k, !.refusedBody = FALSE]

\* A refused submit takes its unwritten body with it; what cannot be moved is held.
WithdrawPairedBody(s, k, fault) ==
  LET body == IF ids THEN BodyOf(k) ELSE s.queuedBody IN
  IF body = 0 \/ s.rec[body] \notin {"pending", "in_flight"} THEN s
  ELSE IF s.rec[body] = "pending" /\ ~Throws(fault, "withdraw", body)
       THEN [Quarantine(s, {body}, "not_written", "withdraw", fault) EXCEPT !.count = @ - 1]
       ELSE [s EXCEPT !.held = @ \cup {body}]

\* The mailbox threw: frame k is refused, never written instead.
NotParked(s, k, fault) ==
  LET r == [s EXCEPT !.refused = @ \cup {k},
                     !.unwritten = @ \cup IF IsCr(k) \/ ~ids THEN {} ELSE {k},
                     !.adjacent = @ \/ ~IsCr(k),
                     !.refusedBody = ~IsCr(k) /\ ~ids]
      w == IF IsCr(k) THEN WithdrawPairedBody(r, k, fault) ELSE r
  IN  [w EXCEPT !.queuedBody = 0]

Enqueue(s, k, fault) == IF Throws(fault, "enqueue", k) THEN NotParked(s, k, fault) ELSE Parked(s, k)

\* child.write returned for frame k.
Written(s, k) == [s EXCEPT !.wrote = @ \cup {k}, !.adjacent = FALSE]

\* A direct write; a submit whose body is known to be unwritten is refused.
LoneSubmit(s, k) == IsCr(k) /\ IF ids THEN BodyOf(k) \in s.unwritten ELSE s.adjacent
WriteDirect(s, k) ==
  IF LoneSubmit(s, k) THEN [s EXCEPT !.refused = @ \cup {k}]
  ELSE [Written(s, k) EXCEPT !.queuedBody = 0, !.refusedBody = FALSE,
                             !.ready = @ /\ IsCr(k)]

-----------------------------------------------------------------------------
(* The flush. *)

Payload(k) == <<IsCr(k), IF IsCr(k) \/ twin THEN 0 ELSE k>>
Stale(k) == k <= old

\* filterBridgeBatch: the text of the last frame that was not stale is the last one
\* delivered, since a frame dropped as its duplicate has the same text.
Duplicate(batch, k) ==
  LET before == {j \in batch : j < k /\ ~Stale(j)} IN
  ~Stale(k) /\ before # {} /\ Payload(Max(before)) = Payload(k)
Dropped(batch) == {k \in batch : Stale(k) \/ Duplicate(batch, k)}

\* A submit in the batch whose body was dropped now or is known to be unwritten; a frame
\* without ids, or without a record, has only its place in the batch to say so.
PairUnwritten(s, batch, k) ==
  LET before == {j \in batch : j < k} IN
  /\ IsCr(k)
  /\ IF ids /\ s.rec[k] # "none" THEN BodyOf(k) \in s.unwritten
     ELSE before # {} /\ Max(before) \in Dropped(batch) /\ ~IsCr(Max(before))

\* Mutant: the dequeued row stays pending.
InFlightPending(s, S) == [s EXCEPT !.rec = Assign(@, {k \in S : s.rec[k] # "none"}, "in_flight")]
InFlight(s, S) ==
  [s EXCEPT !.box = Assign(@, S, "in_flight"), !.rec = Assign(@, {k \in S : s.rec[k] # "none"}, "in_flight")]

\* A timer for each frame of S, in their order.
Nth(S, i) == CHOOSE k \in S : Cardinality({j \in S : j <= k}) = i
Timers(s, S) == s.timers \o [i \in 1..Cardinality(S) |-> [frame |-> Nth(S, i), child |-> s.child]]

Deliver(s, batch, fault) ==
  LET taken == InFlight(s, batch)
      dropped == Quarantine(taken, Dropped(batch), "not_written", "withdraw", fault)
      rest == batch \ Dropped(batch)
      lone == {k \in rest : PairUnwritten(dropped, batch, k)}
      refused == lone \cup (rest \cap s.held)
      kept == Quarantine(dropped, refused, "not_written", "withdraw", fault)
  IN  [kept EXCEPT !.timers = Timers(s, rest \ refused),
                   !.count = IF s.count > Cardinality(batch) THEN s.count - Cardinality(batch) ELSE 0,
                   !.ready = FALSE]

\* flushBridgeMailbox.  A dequeue that throws leaves what was dequeued before it in flight
\* without a timer.
Flush(s, fault) ==
  LET idle == [s EXCEPT !.tick = FALSE]
      batch == {k \in Frame : s.box[k] = "pending"}
      torn == {k \in batch : Throws(fault, "dequeue", k)}
  IN  IF s.count = 0 THEN idle
      ELSE IF batch = {} THEN [idle EXCEPT !.count = 0]
      ELSE IF torn # {} THEN InFlight(idle, {k \in batch : k < Min(torn)})
      ELSE Deliver(idle, batch, fault)

Idle(s) == s.ready /\ ~recent

-----------------------------------------------------------------------------
(* The daemon's frames. *)

\* handleOwnerInject.
\* Mutant: a submit is written at once although writes ahead of it wait on their timers.
BehindPending(s, k) == s.count > 0
Behind(s, k) == s.count > 0 \/ s.timers # <<>>

Handle(s, k, fault) ==
  IF IsCr(k) /\ Behind(s, k) THEN
    IF ~ids /\ s.refusedBody THEN [s EXCEPT !.refused = @ \cup {k}, !.refusedBody = FALSE]
    ELSE LET e == Enqueue(s, k, fault) IN
         IF s.count = 0 \/ Idle(s) THEN Flush(e, fault) ELSE [e EXCEPT !.tick = TRUE]
  ELSE IF IsCr(k) \/ (Idle(s) /\ ~Behind(s, k)) THEN WriteDirect(s, k)
  ELSE [Enqueue(s, k, fault) EXCEPT !.tick = TRUE]

Receive ==
  \E fault \in Faults({"enqueue", "withdraw", "dequeue"}, Live(b) \cup {sent + 1}) :
    /\ up /\ sent < 2 * MaxInject
    /\ sent' = sent + 1 /\ got' = got \cup {sent'}
    /\ b' = Handle(b, sent', fault) /\ Meet(fault)
    /\ UNCHANGED <<ids, twin, process, first, up, old, recent>>

\* The daemon gives up the submit: the owner's connection was replaced since the body,
\* or the text owed none.
NoSubmit ==
  /\ up /\ sent % 2 = 1 /\ sent' = sent + 1
  /\ UNCHANGED <<ids, twin, got, process, first, up, b, old, recent, failed>>

-----------------------------------------------------------------------------
(* Timers, output and input of the child. *)

\* What waits longer than the time to live: its writes would have been long done.
Age ==
  /\ up /\ b.timers = <<>> /\ old < sent /\ old' \in old + 1 .. sent
  /\ UNCHANGED <<ids, twin, sent, got, process, first, up, b, recent, failed>>

\* maintainPendingRecords: a record past its time goes to the dead letter, with the submit
\* that names its body or, without ids, that is queued right behind it.
Paired(s, k, gone) ==
  LET before == {j \in Pending(s) : j < k} IN
  IsCr(k) /\ IF ids THEN BodyOf(k) \in gone ELSE before # {} /\ Max(before) \in gone /\ ~IsCr(Max(before))

\* What is left of the count once some pending records are gone.
\* Mutant: a submit withdrawn with its body is still counted.
LeftOfBodies(s, gone) == s.count - Cardinality({k \in gone : ~IsCr(k)})
Left(s, gone) == s.count - Cardinality(gone)

Maintain(s, fault) ==
  LET expired == {k \in Pending(s) : Stale(k)}
      gone == {k \in expired : ~Throws(fault, "withdraw", k)}
      all == expired \cup {k \in Pending(s) : Paired(s, k, gone)}
      kept == Quarantine(s, all, "not_written", "withdraw", fault)
  IN  [kept EXCEPT !.count = Left(s, Pending(s) \ Pending(kept))]

\* bridgeTick.
Tick ==
  \E fault \in Faults({"withdraw"}, Live(b)) :
    LET m == Maintain(b, fault)
        f == IF m.count > 0 /\ Idle(m) THEN Flush(m, fault) ELSE m
    IN  /\ up /\ b.tick
        /\ b' = [f EXCEPT !.tick = @ /\ (f.count > 0 \/ Pending(f) # {})]
        /\ Meet(fault)
        /\ UNCHANGED <<ids, twin, sent, got, process, first, up, old, recent>>

\* The output shows a prompt (onReady).
Ready ==
  \E fault \in Faults({"withdraw"}, Live(b)) :
    /\ up
    /\ b' = Flush([b EXCEPT !.ready = TRUE], fault) /\ Meet(fault)
    /\ UNCHANGED <<ids, twin, sent, got, process, first, up, old, recent>>

\* The 5 s after which a CLI without a known prompt gets what is parked.
Fallback ==
  \E fault \in Faults({"withdraw"}, Live(b)) :
    /\ up /\ b.tick /\ b.count > 0
    /\ b' = Flush(b, fault) /\ Meet(fault)
    /\ UNCHANGED <<ids, twin, sent, got, process, first, up, old, recent>>

\* A delivery timer fires.
Writable(s) == Head(s.timers).child = s.child

Fired(s, fault) ==
  LET k == Head(s.timers).frame
      t == [s EXCEPT !.timers = Tail(@)]
      w == [Written(t, k) EXCEPT !.rec[k] = "none"]
  IN  IF ~Writable(s) THEN t
      ELSE IF k \in s.held THEN Quarantine(t, {k}, "not_written", "withdraw", fault)
      ELSE IF Throws(fault, "ack", k) THEN w
      ELSE [w EXCEPT !.box[k] = "done"]
Fire ==
  /\ up /\ b.timers # <<>>
  /\ \E fault \in Faults({"withdraw", "ack"}, {Head(b.timers).frame}) :
       b' = Fired(b, fault) /\ Meet(fault)
  /\ UNCHANGED <<ids, twin, sent, got, process, first, up, old, recent>>

Type ==
  /\ up /\ recent' = TRUE
  /\ b' = [b EXCEPT !.adjacent = FALSE, !.refusedBody = FALSE]
  /\ UNCHANGED <<ids, twin, sent, got, process, first, up, old, failed>>
Quiet ==
  /\ up /\ recent /\ recent' = FALSE
  /\ UNCHANGED <<ids, twin, sent, got, process, first, up, b, old, failed>>

\* The child ended and another one takes its place; timers of the old one stay.
Respawn ==
  /\ up /\ process - 1 + b.child < MaxChild
  /\ b' = [b EXCEPT !.child = @ + 1, !.ready = FALSE]
  /\ UNCHANGED <<ids, twin, sent, got, process, first, up, old, recent, failed>>

-----------------------------------------------------------------------------
(* The end of the process and the start of the next one. *)

\* The rest of the injection under way is not sent: its submit is for this owner only.
Ended(s) ==
  /\ up' = FALSE /\ b' = Fresh(s.box, s.grave, s.refused, s.wrote)
  /\ sent' = sent + (sent % 2) /\ recent' = FALSE
  /\ UNCHANGED <<ids, twin, got, process, first, old>>

\* quarantineAtExit, and the purge if every row was moved.
\* Mutant: a row in flight counts as never written.
KnownUnwrittenRows(s) == Live(s)
KnownUnwritten(s) == {k \in Live(s) : s.box[k] = "pending" \/ s.rec[k] = "in_flight"}
AtExit(s, fault) ==
  LET known == KnownUnwritten(s)
      k1 == Quarantine(s, known, "not_written", "exit", fault)
  IN  Quarantine(k1, Live(s) \ known, "unknown", "exit", fault)
\* Mutant: the queue is cleared whether or not everything was moved.
Purged(s) == [s EXCEPT !.box = [k \in Frame |-> "none"]]
PurgeIfMoved(s) == IF Live(s) = {} THEN [s EXCEPT !.box = [k \in Frame |-> "none"]] ELSE s

\* closeAllowSession: the child ended for good, a signal, a close by the daemon; without the
\* custody when the daemon refused the claim.
Close ==
  /\ up
  /\ \E fault \in Faults({"exit"}, Live(b)) : Ended(PurgeIfMoved(AtExit(b, fault))) /\ Meet(fault)
CloseRefused == up /\ Ended(b) /\ UNCHANGED failed

\* Killed, between two handlers, after some of the dequeues of a flush, or within the
\* handler of a timer, whose uncaught error also ends the process.
Kill ==
  /\ up /\ UNCHANGED failed
  /\ \/ Ended(b)
     \/ \E k \in Pending(b) : Ended(InFlight(b, {j \in Frame : b.box[j] = "pending" /\ j <= k}))
     \/ /\ b.timers # <<>> /\ Writable(b) /\ Head(b.timers).frame \notin b.held
        /\ Ended(Written(b, Head(b.timers).frame))

\* recoverBridgeMailbox: what a previous process left is not replayed.
Recovered(s, fault) ==
  LET flying == {k \in Live(s) : s.box[k] = "in_flight"}
      q == Quarantine(s, flying, "unknown", "recover", fault)
  IN  Quarantine(q, Live(s) \ flying, "not_written", "recover", fault)
Start ==
  \E fault \in Faults({"recover"}, Live(b)) :
    /\ ~up /\ process < MaxProcess
    /\ process' = process + 1 /\ first' = sent + 1 /\ up' = TRUE
    /\ b' = Recovered(b, fault) /\ Meet(fault)
    /\ UNCHANGED <<ids, twin, sent, got, old, recent>>

Next == Receive \/ NoSubmit \/ Age \/ Tick \/ Ready \/ Fallback \/ Fire \/ Type \/ Quiet
        \/ Respawn \/ Close \/ CloseRefused \/ Kill \/ Start

Spec == Init /\ [][Next]_vars

-----------------------------------------------------------------------------
(* Properties. *)

Certainty == {"not_written", "unknown"}
Bridge ==
  [box : [Frame -> {"none", "pending", "in_flight", "done"}], grave : [Frame -> SUBSET Certainty],
   refused : SUBSET Frame, wrote : SUBSET Frame,
   rec : [Frame -> {"none", "pending", "in_flight"}], held : SUBSET Frame, unwritten : SUBSET Frame,
   adjacent : BOOLEAN, refusedBody : BOOLEAN, queuedBody : 0..2 * MaxInject, count : 0..2 * MaxInject,
   timers : Seq([frame : Frame, child : 1..MaxChild]), child : 1..MaxChild, ready : BOOLEAN, tick : BOOLEAN]

\* The variables keep their types, no frame has two timers, and a submit is held by nobody
\* (deliveryTimers, pairRefused).
TypeOK ==
  /\ ids \in BOOLEAN /\ twin \in BOOLEAN /\ up \in BOOLEAN /\ recent \in BOOLEAN
  /\ sent \in 0..2 * MaxInject /\ got \subseteq 1..sent /\ old \in 0..sent
  /\ process \in 1..MaxProcess /\ first \in 1..2 * MaxInject + 1 /\ failed \subseteq Failure
  /\ b \in Bridge
  /\ \A i, j \in DOMAIN b.timers : i # j => b.timers[i].frame # b.timers[j].frame
  /\ \A k \in b.held : ~IsCr(k)

\* The number that decides whether a frame may overtake (bridgePendingCount) is the number of
\* records that wait for a flush, and while there is one the tick is armed: nothing is parked
\* without a timer that looks at it.  (Not after a dequeue that throws: flushBridgeMailbox has
\* then cleared the tick, and the handler of the frame that flushed drops the exception.)
Watched ==
  up /\ "dequeue" \notin failed =>
    /\ b.count = Cardinality(Pending(b))
    /\ Pending(b) # {} => b.tick

\* Frames reach the child in the order the daemon sent them, whichever of the direct write,
\* the flush, the tick and the timers of two batches brings them there.  (Excepted is a frame
\* of a previous bridge that the recovery could not withdraw: the next batch picks it up, and
\* a frame of this bridge may have been written directly before.)
WrittenInOrder ==
  [][\A k \in b'.wrote \ b.wrote : \A j \in b.wrote : j < k \/ ("recover" \in failed /\ k < first)]_vars

\* A submit whose frame names its body is written only after that body, as long as the mailbox
\* answered withdrawals (those of a recovery too) and dequeues and no child was replaced.
SubmitNotAlone ==
  [][\A k \in b'.wrote \ b.wrote :
       ids /\ IsCr(k) /\ b.child = 1 /\ failed' \cap {"withdraw", "dequeue", "recover"} = {}
         => BodyOf(k) \in b.wrote]_vars

\* A dead letter or a receipt that says not_written is true, and stays true: across flushes,
\* timers of an old child, exits, kills and recoveries the frame is never written.  (Excepted
\* are the frames of a previous bridge when the recovery could not withdraw them.)
NotWrittenIsTrue ==
  (~ids => "withdraw" \notin failed) =>
    \A k \in b.wrote \ {j \in b.wrote : "recover" \in failed /\ j < first} :
      k \notin b.refused /\ "not_written" \notin b.grave[k]

\* Every frame that arrived was written, waits in the mailbox, lies in the dead letter or was
\* refused with a receipt: no exit, kill or purge loses one.
CustodyKept ==
  \A k \in got : k \in b.wrote \cup b.refused \cup Live(b) \/ b.grave[k] # {}
=============================================================================
