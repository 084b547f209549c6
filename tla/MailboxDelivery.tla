-------------------------- MODULE MailboxDelivery --------------------------
(***************************************************************************)
(* The DeliveryEngine (src/mailbox/delivery.js) over one session's mailbox,*)
(* with the HTTP handlers and the inject callers that use the same mailbox.*)
(*                                                                         *)
(* The daemon has one thread.  A tick runs without interruption up to the  *)
(* await of deliverFn, and again after it; other handlers run in between,  *)
(* when the engine is idle or awaiting.  The process may be killed between *)
(* any two writes, and an operation may fail to get the session's lock.    *)
(***************************************************************************)
EXTENDS FileMailbox

CONSTANTS
  NoId,        \* no message is being delivered
  MaxFaults,   \* bound on the crashes and refused locks of a behaviour
  MayResend    \* whether a sender enqueues again an id that it has used

ASSUME DeliveryAssumption == NoId \notin Id /\ MaxFaults \in Nat /\ MayResend \in BOOLEAN

VARIABLES
  disk,      \* the session's mailbox files
  pc,        \* where the tick is
  cur,       \* the message being delivered
  swept,     \* whether this tick has expired a message
  skip,      \* the session is skipped until its lock backoff has passed
  offered,   \* the ids given to enqueue so far
  effects,   \* effects[m]: deliverFn calls not known to have written nothing
  faults     \* crashes and refusals so far

vars == <<disk, pc, cur, swept, skip, offered, effects, faults>>

TypeOK ==
  /\ disk \in Disk
  /\ pc \in {"idle", "recover", "expire", "dequeue", "fence", "awaiting", "down"}
  /\ cur \in Id \cup {NoId}
  /\ swept \in BOOLEAN /\ skip \in BOOLEAN
  /\ offered \subseteq Id
  /\ effects \in [Id -> Nat]
  /\ faults \in 0 .. MaxFaults
  /\ (cur = NoId) <=> (pc \notin {"fence", "awaiting"})

Init ==
  /\ disk = EmptyDisk
  /\ pc = "idle"
  /\ cur = NoId
  /\ swept = FALSE /\ skip = FALSE
  /\ offered = {}
  /\ effects = [m \in Id |-> 0]
  /\ faults = 0

\* No synchronous code is running: a timer or a request handler may.
LoopFree == pc \in {"idle", "awaiting"}

Fault == faults < MaxFaults /\ faults' = faults + 1

Die == pc' = "down" /\ cur' = NoId /\ swept' = FALSE /\ skip' = FALSE

\* The files after all the writes of an operation that found d.
Final(d, writes) == IF writes = <<>> THEN d ELSE Last(writes)

\* All writes of an operation reach the files and the caller goes on with
\* Rest, or the process is killed after some of them.
Commit(writes, Rest) ==
  \/ /\ disk' = Final(disk, writes)
     /\ Rest
     /\ UNCHANGED faults
  \/ /\ \E i \in 1 .. Len(writes) - 1 : disk' = writes[i]
     /\ Die /\ Fault

\* Mutant: the message of the refused operation stays current.
RefusedKeepingMessage ==
  pc' = "idle" /\ swept' = FALSE /\ skip' = TRUE /\ Fault /\ UNCHANGED cur

\* The lock of an operation was refused: the session backs off.
Refused == pc' = "idle" /\ cur' = NoId /\ swept' = FALSE /\ skip' = TRUE /\ Fault

Goto(label) == pc' = label /\ UNCHANGED <<cur, swept, skip>>
TickEnds == pc' = "idle" /\ cur' = NoId /\ swept' = FALSE /\ skip' = FALSE
Stay == UNCHANGED <<pc, cur, swept, skip>>

-----------------------------------------------------------------------------
(* One tick of the engine for this session.                                *)

StartTick ==
  /\ pc = "idle" /\ ~skip
  /\ (Goto("recover") /\ UNCHANGED faults) \/ Refused
  /\ UNCHANGED <<disk, offered, effects>>

RecoverInflight(m) ==
  /\ pc = "recover" /\ m \in TimedOut(disk)
  /\ Commit(RecoverWrites(disk, m), Stay)
  /\ UNCHANGED <<offered, effects>>

Recovered ==
  /\ pc = "recover" /\ TimedOut(disk) = {}
  /\ (Goto("expire") /\ UNCHANGED faults) \/ Refused
  /\ UNCHANGED <<disk, offered, effects>>

ExpireStale(m) ==
  /\ pc = "expire" /\ m \in Stale(disk)
  /\ Commit(ExpireWrites(disk, m), pc' = pc /\ swept' = TRUE /\ UNCHANGED <<cur, skip>>)
  /\ UNCHANGED <<offered, effects>>

\* The sweep is over and, when it expired a message, has compacted the files; the
\* lock that may be refused is that of the dequeue.
Expired ==
  /\ pc = "expire" /\ Stale(disk) = {}
  /\ LET writes == IF swept THEN CompactWrites(disk) ELSE <<>> IN
     \/ Commit(writes, pc' = "dequeue" /\ swept' = FALSE /\ UNCHANGED <<cur, skip>>)
     \/ disk' = Final(disk, writes) /\ Refused
  /\ UNCHANGED <<offered, effects>>

Dequeue ==
  /\ pc = "dequeue"
  /\ \/ Oldest(disk) = {} /\ TickEnds /\ UNCHANGED <<disk, faults>>
     \/ \E m \in Oldest(disk) :
          Commit(DequeueWrites(disk, m),
                 pc' = "fence" /\ cur' = m /\ UNCHANGED <<swept, skip>>)
  /\ UNCHANGED <<offered, effects>>

\* beginNonRetryableAttempt, then deliverFn up to its await.
Invoke ==
  /\ pc = "fence" /\ Fenceable(disk, cur)
  /\ Commit(FenceWrites(disk, cur), Goto("awaiting"))
  /\ effects' = [effects EXCEPT ![cur] = @ + 1]
  /\ UNCHANGED offered

\* The fence failed, its row written or not: deliverFn is not called and the
\* message is nacked, unless that operation is cut or does not get the lock.
FenceFails ==
  /\ pc = "fence"
  /\ \E failed \in {disk, Last(FenceWrites(disk, cur))} :
       LET writes == NackWrites(failed, cur) IN
       /\ failed # disk => Fenceable(disk, cur)
       /\ \/ disk' = Final(failed, writes) /\ TickEnds /\ Fault
          \/ /\ disk' = failed \/ \E i \in 1 .. Len(writes) - 1 : disk' = writes[i]
             /\ Die /\ Fault
          \/ disk' = failed /\ Refused
  /\ UNCHANGED <<offered, effects>>

\* The acknowledgement threw: the engine leaves the message to its fence.
AckThrows == pc' = "idle" /\ cur' = NoId /\ UNCHANGED <<swept, skip>>

\* deliverFn reports success: acknowledge.  The lock may be refused, and so may
\* the evidence or the durability of a settlement.
Succeed ==
  /\ pc = "awaiting"
  /\ \/ Commit(AckWrites(disk, cur), TickEnds)
     \/ HasEvidence(disk, cur) /\ Commit(UnsettledAckWrites(disk, cur), AckThrows)
     \/ UNCHANGED <<disk, faults>> /\ AckThrows
  /\ UNCHANGED <<offered, effects>>

\* The outcome is unknown (a timeout, an exception): quarantine.
Doubt ==
  /\ pc = "awaiting"
  /\ \/ Commit(WithdrawWrites(disk, cur, TRUE, TRUE), TickEnds)
     \/ UNCHANGED disk /\ TickEnds /\ Fault
  /\ UNCHANGED <<offered, effects>>

\* deliverFn reports that nothing was written.
Fail ==
  /\ pc = "awaiting"
  /\ Commit(NackWrites(disk, cur), TickEnds) \/ (UNCHANGED disk /\ Refused)
  /\ effects' = [effects EXCEPT ![cur] = @ - 1]
  /\ UNCHANGED offered

\* The target instance is gone: deliverFn withdraws the message itself, and the
\* nack that follows finds a dead letter.
TargetGone ==
  /\ pc = "awaiting"
  /\ Commit(WithdrawWrites(disk, cur, TRUE, FALSE), TickEnds)
  /\ effects' = [effects EXCEPT ![cur] = @ - 1]
  /\ UNCHANGED offered

-----------------------------------------------------------------------------
(* The other users of the mailbox.                                         *)

Enqueue(m) ==
  /\ LoopFree
  /\ m \notin offered \/ MayResend
  /\ offered' = offered \cup {m}
  /\ Commit(EnqueueWrites(disk, m), Stay)
  /\ UNCHANGED effects

HttpAck(m) ==
  /\ LoopFree /\ m \in offered
  /\ Commit(AckWrites(disk, m), Stay)
  /\ UNCHANGED <<offered, effects>>

HttpPurge ==
  /\ LoopFree /\ disk # EmptyDisk
  /\ Commit(PurgeWrites(disk), Stay)
  /\ UNCHANGED <<offered, effects>>

HttpPurgeDeadLetter ==
  /\ LoopFree /\ disk.dead # {}
  /\ disk' = [disk EXCEPT !.dead = {}]
  /\ Stay
  /\ UNCHANGED <<offered, effects, faults>>

\* An inject caller whose text was not written in time withdraws it, and when
\* it is no longer pending marks it unknown.
CallerTimeout(m) ==
  /\ LoopFree /\ m \in offered
  /\ \/ StateOf(disk, m) = "pending" /\ Commit(WithdrawWrites(disk, m, FALSE, FALSE), Stay)
     \/ StateOf(disk, m) = "in_flight" /\ Commit(WithdrawWrites(disk, m, TRUE, TRUE), Stay)
  /\ UNCHANGED <<offered, effects>>

Crash == pc # "down" /\ Die /\ Fault /\ UNCHANGED <<disk, offered, effects>>

Restart ==
  /\ pc = "down" /\ pc' = "idle"
  /\ UNCHANGED <<disk, cur, swept, skip, offered, effects, faults>>

Elapse ==
  /\ pc \in {"idle", "awaiting", "down"}
  /\ disk' = Elapsed(disk)
  /\ skip' = FALSE
  /\ UNCHANGED <<pc, cur, swept, offered, effects, faults>>

Settle == Succeed \/ Doubt \/ Fail \/ TargetGone

EngineStep ==
  \/ StartTick \/ Recovered \/ Expired \/ Dequeue \/ Invoke \/ FenceFails
  \/ (\E m \in Id : RecoverInflight(m) \/ ExpireStale(m)) \/ Settle

Others ==
  \/ HttpPurge \/ HttpPurgeDeadLetter
  \/ \E m \in Id : Enqueue(m) \/ HttpAck(m) \/ CallerTimeout(m)

Next == EngineStep \/ Others \/ Crash \/ Restart \/ Elapse

Spec == Init /\ [][Next]_vars

\* The poll timer fires, deliverFn settles within its own timeout, a supervisor
\* restarts the daemon, and the clock advances whatever the engine does.
FairSpec ==
  Spec /\ WF_vars(EngineStep) /\ WF_vars(Restart) /\ SF_vars(Elapse)

-----------------------------------------------------------------------------
(* Properties.                                                             *)

\* deliverFn is never called again for a message that an earlier call has
\* written, or may have written, whatever crashes, refused locks, recoveries
\* and concurrent acknowledgements come between the two.
AtMostOnce == \A m \in Id : effects[m] <= 1

\* A message never becomes a dead letter without a record of it, even when the
\* process dies between the two appends.  The one that ack itself quarantines,
\* its settlement not being durable, has no record: its payload stays in the
\* inbox, and its unknown outcome keeps compaction from erasing it.
DeadLetterHasRecord ==
  [][\A m \in Id :
       StateOf(disk, m) # "dead_letter" /\ StateOf(disk', m) = "dead_letter" =>
         \/ \E r \in disk'.dead : r.id = m
         \/ /\ RowsOf(disk', m) # {} /\ m \in disk'.unknown
            /\ pc = "awaiting" /\ m = cur]_vars

\* A waiting message does not wait for ever: it is settled, unless a crash has
\* lost its payload inside a purge, or has left it inside a nack in the state
\* that no sweep looks at.
Waiting(m) == StateOf(disk, m) = "pending" /\ RowsOf(disk, m) # {}

EventuallySettled ==
  \A m \in Id : Waiting(m) ~>
    \/ StateOf(disk, m) \in Terminal \cup {"absent", "nacked"}
    \/ RowsOf(disk, m) = {}
=============================================================================
