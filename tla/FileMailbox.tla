---------------------------- MODULE FileMailbox ----------------------------
(***************************************************************************)
(* The files of one session's mailbox and what each FileMailbox operation  *)
(* writes to them (src/mailbox/index.js, src/mailbox/storage.js).          *)
(*                                                                         *)
(* A disk holds the inbox rows, the latest state row of each message (the  *)
(* rest of state.jsonl is read only for the messages it calls unknown), and*)
(* the dead letters.  Every operation runs under the session's lock, so    *)
(* what others can see of it is the sequence of disks after each write: a  *)
(* crash leaves any proper prefix of that sequence.                        *)
(*                                                                         *)
(* Times are kept relative to the clock: a row's age is now - created_at,  *)
(* negative while a retry is backing off, and no longer counted once it    *)
(* exceeds every limit it is compared with.                                *)
(***************************************************************************)
EXTENDS Integers, FiniteSets, Sequences, SequencesExt

CONSTANTS
  Id,                   \* message identifiers
  MaxRetries,           \* attempts before a message is dead-lettered
  Ttl,                  \* age beyond which a message expires
  InflightTimeout,      \* time after which an in-flight message is recovered
  RetryBackoff,         \* delay before the second attempt, then doubled
  CompactionThreshold,  \* finished messages that trigger a compaction
  MayTearRewrite        \* whether a crash may hit a file after its truncation

ASSUME MailboxAssumption ==
  /\ MaxRetries \in Nat \ {0} /\ Ttl \in Nat /\ InflightTimeout \in Nat
  /\ RetryBackoff \in Nat /\ CompactionThreshold \in Nat
  /\ MayTearRewrite \in BOOLEAN

Terminal == {"acked", "expired", "dead_letter"}
States == {"absent", "pending", "in_flight", "nacked"} \cup Terminal

MaxBackoff == RetryBackoff * 2 ^ MaxRetries

InboxRow == [id : Id, attempt : 0 .. MaxRetries, age : -MaxBackoff .. Ttl + 1]
StateRow == [state : States, since : 0 .. InflightTimeout, fenced : BOOLEAN]
DeadLetter == [id : Id, unknown : BOOLEAN]
Disk == [inbox : Seq(InboxRow), last : [Id -> StateRow], unknown : SUBSET Id,
         dead : SUBSET DeadLetter]

StateRowOf(s) == [state |-> s, since |-> 0, fenced |-> FALSE]

EmptyDisk ==
  [inbox |-> <<>>, last |-> [m \in Id |-> StateRowOf("absent")],
   unknown |-> {}, dead |-> {}]

-----------------------------------------------------------------------------
(* Reading and single writes.                                              *)

StateOf(d, m) == d.last[m].state

RowsOf(d, m) == {d.inbox[i] : i \in {j \in DOMAIN d.inbox : d.inbox[j].id = m}}

\* The row of the highest attempt; of two, the one appended first.
Latest(d, m) ==
  CHOOSE r \in RowsOf(d, m) :
    \A o \in RowsOf(d, m) :
      r.attempt > o.attempt \/ (r.attempt = o.attempt /\ r.age >= o.age)

\* appendState, or one appended state row.
SetState(d, m, s) == [d EXCEPT !.last[m] = StateRowOf(s)]

AppendRow(d, m, attempt, age) ==
  [d EXCEPT !.inbox = Append(@, [id |-> m, attempt |-> attempt, age |-> age])]

\* Mutant: the state row first, the dead letter after it.
DeadLetterRecordedLast(d, m) ==
  LET d1 == SetState(d, m, "dead_letter") IN
  <<d1, [d1 EXCEPT !.dead = @ \cup {[id |-> m, unknown |-> FALSE]}]>>

\* A dead letter is recorded before the state row that refers to it.
DeadLetterWrites(d, m) ==
  LET d1 == [d EXCEPT !.dead = @ \cup {[id |-> m, unknown |-> FALSE]}] IN
  <<d1, SetState(d1, m, "dead_letter")>>

\* A delivery of unknown outcome: no retry, and compaction keeps its history.
QuarantineWrites(d, m) ==
  LET d1 == [d EXCEPT !.dead = @ \cup {[id |-> m, unknown |-> TRUE]}] IN
  <<d1, [SetState(d1, m, "dead_letter") EXCEPT !.unknown = @ \cup {m}]>>

\* Time passes for every row, up to the limits the rows are compared with; the
\* time of a state row is compared only while its message is in flight.
Elapsed(d) ==
  LET rows == [m \in Id |->
                 [d.last[m] EXCEPT !.since =
                    IF StateOf(d, m) = "in_flight" /\ @ < InflightTimeout
                    THEN @ + 1 ELSE @]]
  IN [d EXCEPT
        !.inbox = [i \in DOMAIN @ |->
                     [d.inbox[i] EXCEPT !.age = IF @ > Ttl THEN @ ELSE @ + 1]],
        !.last = rows]

-----------------------------------------------------------------------------
(* The operations: the disks after each of their writes.                   *)

EnqueueWrites(d, m) ==
  LET d1 == AppendRow(d, m, 0, 0) IN
  IF StateOf(d, m) = "absent" THEN <<d1, SetState(d1, m, "pending")>> ELSE <<>>

Eligible(d) ==
  {m \in Id : /\ StateOf(d, m) = "pending"
              /\ RowsOf(d, m) # {}
              /\ Latest(d, m).age >= 0}

\* The messages dequeue may return: the oldest by created_at.
Oldest(d) ==
  {m \in Eligible(d) : \A o \in Eligible(d) : Latest(d, m).age >= Latest(d, o).age}

DequeueWrites(d, m) == <<SetState(d, m, "in_flight")>>

Fenceable(d, m) == StateOf(d, m) = "in_flight"

FenceWrites(d, m) == <<[SetState(d, m, "in_flight") EXCEPT !.last[m].fenced = TRUE]>>

\* SelectSeq as a recursive function, which proofs can follow: the rows of no message of done.
Without(rows, done) ==
  LET upTo[k \in 0 .. Len(rows)] ==
        IF k = 0 THEN <<>>
        ELSE IF rows[k].id \in done THEN upTo[k - 1] ELSE Append(upTo[k - 1], rows[k])
  IN upTo[Len(rows)]

\* compact: each of the two files is truncated, then written.
CompactWrites(d) ==
  LET done == {m \in Id : StateOf(d, m) \in Terminal /\ m \notin d.unknown}
      d1 == [d EXCEPT !.inbox = Without(@, done)]
      d2 == [d1 EXCEPT !.last = [m \in Id |->
               IF m \in done THEN StateRowOf("absent") ELSE @[m]]]
  IN IF Cardinality(done) < CompactionThreshold THEN <<>>
     ELSE IF MayTearRewrite
     THEN <<[d EXCEPT !.inbox = <<>>], d1,
            [d1 EXCEPT !.last = EmptyDisk.last, !.unknown = {}], d2>>
     ELSE <<d1, d2>>

AckWrites(d, m) ==
  LET d1 == SetState(d, m, "acked") IN
  IF StateOf(d, m) \in {"acked", "dead_letter"} THEN <<>>
  ELSE <<d1>> \o CompactWrites(d1)

\* What a settlement is acknowledged on: a fenced attempt, its message, and no
\* delivery of unknown outcome in the whole journal.
HasEvidence(d, m) ==
  /\ StateOf(d, m) = "in_flight" /\ d.last[m].fenced
  /\ RowsOf(d, m) # {} /\ d.unknown = {}

\* An acknowledgement whose settlement could not be made durable: the message is
\* quarantined by its state row alone, and nothing is compacted.
UnsettledAckWrites(d, m) ==
  LET d1 == SetState(d, m, "acked") IN
  <<d1, [SetState(d1, m, "dead_letter") EXCEPT !.unknown = @ \cup {m}]>>

\* A failed attempt: dead letter after the last one, else a row for the next.
RetryWrites(d, m) ==
  LET attempt == Latest(d, m).attempt + 1
      d1 == SetState(d, m, "nacked")
      d2 == AppendRow(d1, m, attempt, -(RetryBackoff * 2 ^ (attempt - 1)))
  IN IF attempt >= MaxRetries THEN DeadLetterWrites(d, m)
     ELSE <<d1, d2, SetState(d2, m, "pending")>>

NackWrites(d, m) ==
  IF StateOf(d, m) = "dead_letter" \/ RowsOf(d, m) = {} THEN <<>>
  ELSE RetryWrites(d, m)

WithdrawWrites(d, m, inFlight, uncertain) ==
  IF /\ StateOf(d, m) = "pending" \/ (inFlight /\ StateOf(d, m) = "in_flight")
     /\ RowsOf(d, m) # {}
  THEN IF uncertain THEN QuarantineWrites(d, m) ELSE DeadLetterWrites(d, m)
  ELSE <<>>

PurgeWrites(d) ==
  LET d1 == [d EXCEPT !.inbox = <<>>] IN
  <<d1, [d1 EXCEPT !.last = EmptyDisk.last, !.unknown = {}]>>

\* Mutant: a fenced attempt is left to its acknowledgement.
TimedOutUnfenced(d) ==
  {m \in Id : /\ StateOf(d, m) = "in_flight" /\ ~d.last[m].fenced
              /\ d.last[m].since >= InflightTimeout
              /\ RowsOf(d, m) # {}}

\* recoverInflight: the messages it acts on, and what it writes for each.
TimedOut(d) ==
  {m \in Id : /\ StateOf(d, m) = "in_flight"
              /\ d.last[m].since >= InflightTimeout
              /\ RowsOf(d, m) # {}}

\* Mutant: the attempt fence is ignored.
RecoverIgnoringFence(d, m) == RetryWrites(d, m)

RecoverWrites(d, m) ==
  IF d.last[m].fenced THEN QuarantineWrites(d, m) ELSE RetryWrites(d, m)

\* expireStale: any row of the message may be the one that is too old.
Stale(d) ==
  {m \in Id : /\ StateOf(d, m) \in {"pending", "in_flight"}
              /\ ~d.last[m].fenced
              /\ \E r \in RowsOf(d, m) : r.age > Ttl}

ExpireWrites(d, m) == <<SetState(d, m, "expired")>>
=============================================================================
