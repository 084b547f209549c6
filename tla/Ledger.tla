------------------------------- MODULE Ledger -------------------------------
(***************************************************************************)
(* The inject ledger: the client (src/session-store/ledger-client.js) and  *)
(* the owner worker (ledger-owner.js) over its files.                      *)
(*                                                                         *)
(* The owner is synchronous: one message, one flush or one recovery at a   *)
(* time, but any of its file system calls may fail, the worker may die     *)
(* between two of them, and the machine may lose what was not fsynced.     *)
(* Files are append-only or immutable; the rename of MANIFEST.json commits *)
(* a checkpoint.  The owner's messages reach the client in order and       *)
(* before its exit event, so they are delivered in the step that posts.    *)
(***************************************************************************)
EXTENDS LedgerFormat, FiniteSets

CONSTANTS
  MaxGroup,    \* frames at which a group is flushed
  MaxGen,      \* bound on the generations of checkpoints
  MaxFaults,   \* bound on failed calls, worker exits and power losses
  MayTearCopy  \* whether a recovery may be cut within its copy of a group

ASSUME LedgerAssumption ==
  /\ MaxGroup \in Nat /\ MaxGen \in Nat \ {0} /\ MaxFaults \in Nat

VARIABLES
  segments,   \* the segment files: [epoch, items, safe], safe items fsynced
  manifest,   \* MANIFEST.json and the immutable files that it names
  occupied,   \* the highest generation that a checkpoint has left files of
  own,        \* the memory of the owner worker
  inbox,      \* submissions posted to the owner
  op,         \* op[t]: what t asks for
  outcome,    \* outcome[t]: what the submitter of t has been told
  faults,     \* faults so far
  log         \* history: the committed frames, those of Fsynced, in order

vars == <<segments, manifest, occupied, own, inbox, op, outcome, faults, log>>

NoOp == [kind |-> "none", id |-> "none", what |-> "none"]

\* receipts[t] is the checkpoint whose receipts file has t, 0 before one has.
NoReceipts == [t \in {} |-> 0]

Down ==
  [state |-> "down", epoch |-> 0, next |-> 1, committed |-> 0,
   hot |-> NoRecords, cold |-> NoRecords,
   receipts |-> NoReceipts, kept |-> <<>>, n |-> 0, alloc |-> 0, ckpt |-> <<0, 0>>,
   unapplied |-> {}, frames |-> <<>>, noops |-> {}, overlay |-> NoRecords,
   retry |-> FALSE]

Receipts == UNION {[T -> 0 .. MaxGen] : T \in SUBSET Txn}

TypeOK ==
  /\ \A k \in DOMAIN segments : segments[k].safe \in 0 .. Len(segments[k].items)
  /\ manifest.receipts \in Receipts
  /\ manifest.hot \in [Id -> Record] /\ manifest.cold \in [Id -> Record]
  /\ occupied \in 1 .. MaxGen
  /\ own.state \in {"down", "available", "unavailable_write", "unavailable_read"}
  /\ own.hot \in [Id -> Record] /\ own.cold \in [Id -> Record]
  /\ own.overlay \in [Id -> Record]
  /\ own.receipts \in Receipts
  /\ Len(own.frames) <= MaxGroup
  /\ own.retry => own.frames # <<>>
  /\ outcome \in [Txn -> {"none", "pending", "acked", "duplicate", "nacked",
                          "indeterminate", "lost", "committed", "not_applied"}]
  /\ \A k \in DOMAIN log : log[k].t = "frame"
  /\ \A t \in Txn : (op[t] = NoOp) = (outcome[t] = "none")
  /\ faults \in 0 .. MaxFaults

\* A fresh store has been published and its owner not yet opened.
Init ==
  /\ segments = <<>>
  /\ manifest = [epoch |-> 0, ckpt |-> <<0, 0>>, hot |-> NoRecords, cold |-> NoRecords,
                 receipts |-> NoReceipts, kept |-> <<1>>, n |-> 1]
  /\ occupied = 1
  /\ own = Down
  /\ inbox = <<>>
  /\ op = [t \in Txn |-> NoOp]
  /\ outcome = [t \in Txn |-> "none"]
  /\ faults = 0
  /\ log = <<>>

\* What no loss of power can take back.
Fsynced(segs) == [k \in DOMAIN segs |-> SubSeq(segs[k].items, 1, segs[k].safe)]

\* The segments after an fsync, and after anything else.
Durable(segs) == segments' = segs /\ log' = LogOf(Fsynced(segments'))
Volatile(segs) == segments' = segs /\ UNCHANGED log

Fault == faults < MaxFaults /\ faults' = faults + 1

Tell(T, what) == outcome' = [t \in Txn |-> IF t \in T THEN what ELSE outcome[t]]

Pending == {t \in Txn : outcome[t] = "pending"}

-----------------------------------------------------------------------------
(* Submission.                                                             *)

\* submit of the client: only while it believes the store to be available.
Submit(t, o) ==
  /\ op[t] = NoOp
  /\ own.state = "available"
  /\ op' = [op EXCEPT ![t] = o]
  /\ outcome' = [outcome EXCEPT ![t] = "pending"]
  /\ inbox' = Append(inbox, t)
  /\ UNCHANGED <<segments, manifest, occupied, own, faults, log>>

\* The record as the open group would leave it.
Current(i) == IF own.overlay[i] # None THEN own.overlay[i] ELSE own.hot[i]

\* The operation asks for what a record already is.
Redundant(o) ==
  LET cur == Current(o.id)
  IN CASE o.kind = "begin" -> cur # None \/ own.cold[o.id] # None
       [] o.kind = "obs" -> cur # None /\ cur.last = o.what
       [] o.kind = "state" -> cur.st = o.what
       [] o.kind = "reheat" -> cur # None

Writable(o) ==
  LET cur == Current(o.id)
  IN CASE o.kind = "begin" -> TRUE
       [] o.kind = "obs" -> cur # None
       [] o.kind = "state" -> cur.st = "tracked"
       [] o.kind = "reheat" -> own.cold[o.id] # None

\* The frame of t at the next position.
FrameOf(t) ==
  Frame(t, <<own.epoch, own.next>>, op[t],
        IF op[t].kind = "begin"
        THEN Superseded([i \in Id |-> Current(i)], op[t].id) ELSE {},
        IF op[t].kind = "reheat" THEN own.cold[op[t].id] ELSE None)

\* Mutant: the records that f supersedes are left out of the overlay.
OverlayOfIdOnly(f) ==
  [own.overlay EXCEPT ![f.op.id] = ApplyFrame([i \in Id |-> Current(i)], f)[f.op.id]]

\* The records that the open group has touched, after one more frame.
OverlayAfter(f) ==
  LET after == ApplyFrame([i \in Id |-> Current(i)], f)
  IN [i \in Id |-> IF after[i] # Current(i) THEN after[i] ELSE own.overlay[i]]

\* The operation depends on frames that the open group has not yet written.
DependsOnGroup(o) == own.overlay[o.id] # None

\* submit of the owner, up to the trailing flush.
Take ==
  /\ inbox # <<>> /\ own.state \in {"available", "unavailable_write"}
  /\ ~own.retry /\ Len(own.frames) < MaxGroup
  /\ LET t == Head(inbox)
         o == op[t]
     IN \/ /\ own.state = "unavailable_write"
              \/ ~Redundant(o)       \* not writable, or refused for its size
           /\ Tell({t}, "nacked") /\ UNCHANGED own
        \/ /\ own.state = "available" /\ Redundant(o)
           /\ IF DependsOnGroup(o)
              THEN own' = [own EXCEPT !.noops = @ \cup {t}] /\ UNCHANGED outcome
              ELSE Tell({t}, "duplicate") /\ UNCHANGED own
        \/ /\ own.state = "available" /\ ~Redundant(o) /\ Writable(o)
           /\ own' = [own EXCEPT !.frames = Append(@, FrameOf(t)),
                                 !.overlay = OverlayAfter(FrameOf(t)),
                                 !.next = @ + 1]
           /\ UNCHANGED outcome
  /\ inbox' = Tail(inbox)
  /\ UNCHANGED <<segments, manifest, occupied, op, faults, log>>

-----------------------------------------------------------------------------
(* Writing a group.                                                        *)

\* What a write that fails may leave: some of the lines, and a part of one.
Partial(items) ==
  {SubSeq(items, 1, k) : k \in 0 .. Len(items)}
    \cup {Append(SubSeq(items, 1, k), Torn) : k \in 0 .. Len(items) - 1}

\* Mutant: the commit frame counts one frame too few.
GroupMiscounted(frames) == Append(frames, Commit(Len(frames) - 1))
Group(frames) == Append(frames, Commit(Len(frames)))

\* Mutant: an acknowledged write is left in the page cache.
SyncedNever(segs, items) == [segs EXCEPT ![Len(segs)].items = @ \o items]

\* The segments after a write of items to the last one, and an fsync.
Synced(segs, items) ==
  LET all == segs[Len(segs)].items \o items
  IN [segs EXCEPT ![Len(segs)] = [epoch |-> @.epoch, items |-> all, safe |-> Len(all)]]

\* ... and after a write or an fsync that failed.
Unsynced(segs, items) == [segs EXCEPT ![Len(segs)].items = @ \o items]

NewSegment(segs, e) == Append(segs, [epoch |-> e, items |-> <<>>, safe |-> 0])

NoGroup(o) == [o EXCEPT !.frames = <<>>, !.noops = {}, !.overlay = NoRecords, !.retry = FALSE]

\* The group is durable: merge it, tell its members, and roll the segment
\* if it has reached its size.
Merge(segs) ==
  /\ LET written == Synced(segs, Group(own.frames))
     IN Durable(written) \/ Durable(NewSegment(written, own.epoch))
  /\ own' = NoGroup([own EXCEPT
               !.hot = [i \in Id |-> Current(i)],
               !.committed = own.next - 1,
               !.receipts = [t \in DOMAIN @ \cup Txns(own.frames) |->
                               IF t \in DOMAIN @ THEN @[t] ELSE 0]])
  /\ outcome' = [t \in Txn |-> IF t \in Txns(own.frames) THEN "acked"
                               ELSE IF t \in own.noops THEN "duplicate"
                               ELSE outcome[t]]

\* The first attempt of flushGroup.
Flush ==
  /\ own.state = "available" /\ own.frames # <<>> /\ ~own.retry
  /\ \/ Merge(segments) /\ UNCHANGED faults
     \/ /\ \E items \in Partial(Group(own.frames)) : Volatile(Unsynced(segments, items))
        /\ own' = [own EXCEPT !.retry = TRUE]
        /\ Fault /\ UNCHANGED outcome
  /\ UNCHANGED <<manifest, occupied, inbox, op>>

\* The second, in a segment of its own; if it fails too, nobody knows
\* whether the group is durable, and the store takes no more writes.
Retry ==
  /\ own.retry
  /\ LET segs == NewSegment(segments, own.epoch)
     IN \/ Merge(segs) /\ UNCHANGED faults
        \/ /\ \E items \in Partial(Group(own.frames)) : Volatile(Unsynced(segs, items))
           /\ own' = NoGroup([own EXCEPT !.state = "unavailable_write"])
           /\ Tell(Txns(own.frames) \cup own.noops, "indeterminate")
           /\ Fault
  /\ UNCHANGED <<manifest, occupied, inbox, op>>

-----------------------------------------------------------------------------
(* Checkpoints.                                                            *)

\* Terminal records are demoted, and tracked ones of sessions that are gone.
Demotable(live) ==
  {i \in Id : \/ own.hot[i].st \in Terminal
              \/ own.hot[i].st = "tracked" /\ SessionOf[i] \notin live}

\* Every receipt that no checkpoint has yet goes into the next one's file.
Stamped(r, g) == [t \in DOMAIN r |-> IF r[t] = 0 THEN g ELSE r[t]]

\* The receipts of the last two checkpoints, and those of none, are kept.
Trimmed(r, kept) == [t \in {u \in DOMAIN r : r[u] = 0 \/ r[u] \in ToSet(kept)} |-> r[t]]

LastTwo(s) == IF Len(s) <= 2 THEN s ELSE SubSeq(s, Len(s) - 1, Len(s))

\* Never used before, published or not.
NextGen == own.alloc + 1

\* The memory of the owner when all files of checkpoint g exist.
Compacted(g, demoted) ==
  LET kept == LastTwo(Append(own.kept, g))
  IN [own EXCEPT
        !.hot = [i \in Id |-> IF i \in demoted THEN None ELSE @[i]],
        !.cold = [i \in Id |-> IF i \in demoted THEN own.hot[i] ELSE @[i]],
        !.receipts = Trimmed(Stamped(@, g), kept),
        !.kept = kept, !.n = g, !.alloc = g,
        !.ckpt = <<own.epoch, own.committed>>]

ManifestOf(o) ==
  [epoch |-> o.epoch, ckpt |-> o.ckpt, hot |-> o.hot, cold |-> o.cold,
   receipts |-> [t \in {u \in DOMAIN o.receipts : o.receipts[u] # 0} |-> o.receipts[t]],
   kept |-> o.kept, n |-> o.n]

\* checkpoint: at the end of a flush that reaches the threshold, or at close,
\* so when no group is open.  It may fail before or after the receipts are
\* stamped, or at the rename of the MANIFEST.
Checkpoint ==
  /\ own.state = "available" /\ own.frames = <<>>
  /\ NextGen <= MaxGen
  /\ \E live \in SUBSET {SessionOf[i] : i \in Id} :
       LET after == Compacted(NextGen, Demotable(live))
       IN \/ /\ NextGen > occupied
             /\ own' = after /\ manifest' = ManifestOf(after)
             /\ occupied' = NextGen /\ UNCHANGED faults
          \/ /\ own' = after /\ UNCHANGED manifest
             /\ occupied' = NextGen /\ Fault
          \/ /\ own' = [own EXCEPT !.alloc = NextGen]
             /\ occupied' \in {occupied, NextGen}
             /\ Fault /\ UNCHANGED manifest
          \/ /\ own' = [own EXCEPT !.alloc = NextGen, !.receipts = Stamped(@, NextGen)]
             /\ occupied' = NextGen
             /\ Fault /\ UNCHANGED manifest
  /\ UNCHANGED <<segments, inbox, op, outcome, log>>

-----------------------------------------------------------------------------
(* The end of an owner, of the machine, and recovery.                      *)

\* The worker exits or is replaced: the client cannot tell what became of
\* the submissions in flight.
Exit ==
  /\ own.state # "down"
  /\ own' = Down /\ inbox' = <<>>
  /\ Tell(Pending, "indeterminate")
  /\ Fault
  /\ UNCHANGED <<segments, manifest, occupied, op, log>>

\* What a loss of power may leave of the part of s that was not fsynced.
Tails(s) == Partial(SubSeq(s.items, s.safe + 1, Len(s.items)))

\* The machine stops, and with it the client.
PowerLoss ==
  /\ LET exposed == {k \in DOMAIN segments : segments[k].safe < Len(segments[k].items)}
     IN \E tail \in [exposed -> UNION {Tails(segments[k]) : k \in exposed}] :
          /\ \A k \in exposed : tail[k] \in Tails(segments[k])
          /\ Durable([k \in DOMAIN segments |->
               IF k \in exposed
               THEN [epoch |-> segments[k].epoch,
                     items |-> SubSeq(segments[k].items, 1, segments[k].safe) \o tail[k],
                     safe |-> segments[k].safe + Len(tail[k])]
               ELSE segments[k]])
  /\ own' = Down /\ inbox' = <<>>
  /\ Tell({t \in Txn : outcome[t] \in {"pending", "indeterminate"}}, "lost")
  /\ Fault
  /\ UNCHANGED <<manifest, occupied, op>>

Items(segs) == [k \in DOMAIN segs |-> segs[k].items]

\* The answer of the owner o to a resolve of t.
Resolve(o, t) ==
  IF t \in DOMAIN o.receipts THEN "committed"
  ELSE IF t \in o.unapplied THEN "not_applied"
  ELSE "unresolved"

\* The memory of the owner after recover.
Recovered(r) ==
  [Down EXCEPT
     !.state = "available", !.epoch = manifest.epoch + 1,
     !.hot = r.hot, !.cold = manifest.cold,
     !.receipts = [t \in DOMAIN manifest.receipts \cup r.fresh |->
                     IF t \in r.fresh THEN 0 ELSE manifest.receipts[t]],
     !.kept = manifest.kept, !.n = manifest.n, !.ckpt = manifest.ckpt,
     !.alloc = IF occupied > manifest.n THEN occupied ELSE manifest.n,
     !.unapplied = r.unapplied]

\* The segments with the first one of the new epoch open: a recovery that
\* was cut short has left it behind.
Opened ==
  IF segments # <<>> /\ Last(segments).epoch = manifest.epoch + 1
  THEN segments ELSE NewSegment(segments, manifest.epoch + 1)

\* Mutant: recovery serves a last group that it has not fsynced.
NoCopy(r) == <<>>
LastGroup(r) == IF r.last = <<>> THEN <<>> ELSE Group(r.last)

Unresolved == {t \in Txn : outcome[t] \in {"indeterminate", "committed", "not_applied"}}

\* recover: copy the last group, fsync, write the MANIFEST.  The client then
\* asks about every transaction it was ever unsure of, and keeps the last
\* answer that says something.  (A client that lost power asks about none of
\* before; here those that it had been told of are asked about all the same.)
Recover(r) ==
  /\ ~r.fault
  /\ Durable(Synced(Opened, LastGroup(r)))
  /\ own' = Recovered(r)
  /\ manifest' = [manifest EXCEPT !.epoch = @ + 1]
  /\ outcome' = [t \in Txn |->
       IF t \in Unresolved /\ Resolve(Recovered(r), t) # "unresolved"
       THEN Resolve(Recovered(r), t) ELSE outcome[t]]
  /\ UNCHANGED faults

\* It fails or is cut before the MANIFEST is written.
RecoverCut(r) ==
  /\ ~r.fault
  /\ \/ Volatile(Opened)
     \/ Durable(Synced(Opened, LastGroup(r)))
     \/ /\ MayTearCopy
        /\ \E items \in Partial(LastGroup(r)) : Volatile(Unsynced(Opened, items))
  /\ Fault
  /\ UNCHANGED <<manifest, own, outcome>>

\* A store that cannot be replayed is left as it is.
RecoverUnreadable(r) ==
  /\ r.fault
  /\ own' = [Down EXCEPT !.state = "unavailable_read"]
  /\ UNCHANGED <<segments, manifest, outcome, faults, log>>

\* open of a new owner.
Open ==
  /\ own.state = "down"
  /\ LET r == Replay(manifest.hot, manifest.ckpt, Items(segments))
     IN Recover(r) \/ RecoverCut(r) \/ RecoverUnreadable(r)
  /\ UNCHANGED <<occupied, inbox, op>>

-----------------------------------------------------------------------------
Next ==
  \/ \E t \in Txn, o \in Op : Submit(t, o)
  \/ Take \/ Flush \/ Retry
  \/ Checkpoint
  \/ Exit \/ PowerLoss
  \/ Open


Spec == Init /\ [][Next]_vars

-----------------------------------------------------------------------------
(* Properties.                                                             *)

Committed == Txns(log)

\* The records that the whole log makes, from nothing.
Truth == ApplyAll(NoRecords, log)

\* One map of the records of both tiers: the hot one counts.
Tiers(hot, cold) == [i \in Id |-> IF hot[i] # None THEN hot[i] ELSE cold[i]]

\* An acknowledged transaction is committed, whatever fails afterwards
\* (flushGroup acknowledges only after the fsync, recover loses nothing).
AckedDurable == \A t \in Txn : outcome[t] = "acked" => t \in Committed

\* After a loss of power at any moment, the MANIFEST and the segments that
\* are left give the same records as the whole log: no checkpoint, demotion,
\* reheat or copy of a group drops, repeats or reorders an effect (recover).
RecoveryComplete ==
  LET r == Replay(manifest.hot, manifest.ckpt, Fsynced(segments))
  IN ~r.fault /\ Tiers(r.hot, manifest.cold) = Truth

\* The owner serves what is committed, and nothing else: not a group whose
\* durability is unknown (the overlay is kept unmerged and unserved).
ServesCommitted ==
  own.state \in {"available", "unavailable_write"} => Tiers(own.hot, own.cold) = Truth

\* An operation that was answered "already so" without a frame is so in the
\* log as well (noopVerdict waits for the group that it depends on).  What
\* resolve calls committed is, and what it calls not applied is not, or lies
\* behind a checkpoint whose receipts have been trimmed since.
AnswersTruthful ==
  \A t \in Txn :
    /\ outcome[t] = "duplicate" =>
         CASE op[t].kind = "begin" -> Truth[op[t].id] # None
           [] op[t].kind = "state" -> Truth[op[t].id].st = op[t].what
           [] OTHER -> Truth[op[t].id] # None
    /\ own.state # "down" =>
         /\ Resolve(own, t) = "committed" => t \in Committed
         /\ Resolve(own, t) = "not_applied" =>
              \A f \in ToSet(log) : f.txn = t => ~Before(own.ckpt, f.pos)

Abstract == INSTANCE InjectLog WITH
  log <- [k \in DOMAIN log |-> log[k].txn],
  outcome <- [t \in Txn |-> IF outcome[t] \in {"indeterminate", "lost"}
                            THEN "unknown" ELSE outcome[t]]

\* The ledger implements InjectLog: the log only grows, and answers agree with
\* it, except where a receipt has been trimmed (resolve, sendResolve).
ImplementsLog == Abstract!Spec
=============================================================================
